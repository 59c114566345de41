------------------------------- MODULE Values -------------------------------
(***************************************************************************)
(* JavaScript values as ejs-value.[ch] represents them, and the equality   *)
(* relations ejs-ops.c computes over them.                                 *)
(*                                                                         *)
(* An ejsval is 64 bits.  The runtime is built for 32-bit words, so the    *)
(* "tag" of a value is its high word: a type code for everything that is   *)
(* not a number, and the sign, the exponent and the high mantissa bits of  *)
(* the double for a number.  A value is therefore a record of that high    *)
(* word and of what remains: for a number the number it denotes, for a     *)
(* string its characters, for an object its identity.                      *)
(***************************************************************************)

Value(tag, val) == [tag |-> tag, val |-> val]

PosZero   == Value("00000000", "0")
NegZero   == Value("80000000", "0")
Denormal  == Value("00000000", "4.9e-324")  \* same high word as +0
One       == Value("3FF00000", "1")
Five      == Value("40140000", "5")
Half      == Value("3FE00000", "0.5")
NegFrac   == Value("C0160000", "-5.5")
Large     == Value("40692000", "201")           \* beyond the numerals that are atoms
Big       == Value("42700000", "1099511627776") \* beyond int32
Infinity  == Value("7FF00000", "Infinity")
NaN       == Value("7FF80000", "NaN")
NegNaN    == Value("FFF80000", "NaN")       \* what _ejs_op_neg makes of NaN
Undefined == Value("UNDEFINED", "undefined")
Null      == Value("NULL", "null")
True      == Value("BOOLEAN", "true")
False     == Value("BOOLEAN", "false")
StrA      == Value("STRING", "a")
StrEmpty  == Value("STRING", "")
ObjA      == Value("OBJECT", "object A")
ObjB      == Value("OBJECT", "object B")
SymA      == Value("OBJECT", "symbol A")    \* a symbol is a heap object
Empty     == Value("MAGIC", "EJS_NO_ITER_VALUE")

\* A call of a method as the program sees it: its name, key and answer.
Call(method, key, answer) ==
  [method |-> method, key |-> key, answer |-> answer]

Truth(b) == IF b THEN True ELSE False

NumberTags == {"00000000", "80000000", "3FF00000", "40140000", "3FE00000", "C0160000",
               "40692000", "42700000", "7FF00000", "7FF80000", "FFF80000"}

IsNumber(v) == v.tag \in NumberTags
IsNaN(v)    == v.val = "NaN"
IsZero(v)   == v.val = "0"
IsNegZero(v) == v = NegZero
IsSymbol(v) == v = SymA

\* The == of two doubles.
NumEq(x, y) == x.val = y.val /\ ~IsNaN(x)

(***************************************************************************)
(* SameValue and SameValueZero stop the process when the types agree and   *)
(* the left operand is a symbol (EJS_NOT_IMPLEMENTED): where SameAborts    *)
(* holds they have no answer, and what follows is their answer elsewhere.  *)
(* (Operators has the whole: OpSameValue, OpSameValueZero.)                *)
(***************************************************************************)
SameAborts(x, y) == x.tag = y.tag /\ IsSymbol(x)

SameValue(x, y) ==
  /\ x.tag = y.tag
  /\ IF IsNumber(x)
     THEN \/ IsNaN(x) /\ IsNaN(y)
          \/ /\ ~(IsZero(x) /\ IsNegZero(y))
             /\ ~(~IsNegZero(x) /\ IsZero(y))
             /\ NumEq(x, y)
     ELSE x.val = y.val

SameValueZero(x, y) ==
  /\ x.tag = y.tag
  /\ IF IsNumber(x)
     THEN \/ IsNaN(x) /\ IsNaN(y)
          \/ IsZero(x) /\ IsNegZero(y)
          \/ ~IsNegZero(x) /\ IsZero(y)
          \/ NumEq(x, y)
     ELSE x.val = y.val

\* A comparison that accepts NaN by identity.
StrictEqNaN(x, y) ==
  /\ x.tag = y.tag
  /\ IF IsNumber(x)
     THEN \/ x.val = y.val
          \/ IsZero(x) /\ IsNegZero(y)
          \/ ~IsNegZero(x) /\ IsZero(y)
     ELSE x.val = y.val

StrictEq(x, y) ==
  /\ x.tag = y.tag
  /\ IF IsNumber(x)
     THEN /\ ~IsNaN(x)
          /\ ~IsNaN(y)
          /\ \/ NumEq(x, y)
             \/ IsZero(x) /\ IsNegZero(y)
             \/ ~IsNegZero(x) /\ IsZero(y)
     ELSE x.val = y.val

-----------------------------------------------------------------------------
(***************************************************************************)
(* The relations as ECMAScript defines them, the reference the comments of *)
(* ejs-ops.c quote step by step.                                           *)
(***************************************************************************)
SameNumber(x, y) == x.val = y.val

SameValueES6(x, y) ==
  IF IsNumber(x) /\ IsNumber(y)
  THEN SameNumber(x, y) /\ IsNegZero(x) = IsNegZero(y)
  ELSE x = y

SameValueZeroES6(x, y) ==
  IF IsNumber(x) /\ IsNumber(y) THEN SameNumber(x, y) ELSE x = y

StrictEqES6(x, y) ==
  IF IsNumber(x) /\ IsNumber(y) THEN SameNumber(x, y) /\ ~IsNaN(x) ELSE x = y
=============================================================================
