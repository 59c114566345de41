------------------------------ MODULE Operands ------------------------------
(***************************************************************************)
(* The code an expression without branches becomes is straight-line, so it *)
(* is run as it is emitted (CodeGenJSValue.cpp, CodeGenJSObject.cpp).      *)
(* What emitBytecode returns is an operand, an llvm::Value* and its type:  *)
(*   "ptr"     a pointer to the ejsval at mem[at]: what it holds is read   *)
(*             by the instruction that uses it, not where it was emitted   *)
(*   "i64"     an ejsval, as functions return it                           *)
(*   "double", "i32", "i1"  a C number or truth value                      *)
(*   "fn"      an llvm::Function                                           *)
(*   "none"    NULL                                                        *)
(* A machine m has the memory m.mem, the addresses of the variables in     *)
(* m.scope, the events so far in m.trace, the operands not yet used in     *)
(* m.st, and m.ok, FALSE when the compiler has stopped or made a call LLVM *)
(* has no meaning for.                                                     *)
(***************************************************************************)
EXTENDS Integers, Sequences, SequencesExt

(***************************************************************************)
(* The values of an expression that is evaluated without knowing them: a   *)
(* value is a term over its origin, and of its type only what the          *)
(* operators look at.                                                      *)
(*   t    "num", "str", "bool", "undef", "null", "obj"; "int32" is the     *)
(*        integer representation, which is no JavaScript type; "garbage"   *)
(*        is memory nobody wrote                                           *)
(*   op   where it comes from, n and as: of which event, of which operands *)
(***************************************************************************)
Term(t, op, n, as) == [t |-> t, op |-> op, n |-> n, as |-> as]
Lit(t, name)       == Term(t, name, 0, <<>>)

Undef   == Lit("undef", "undefined")
NullV   == Lit("null", "null")
Bool(b) == Lit("bool", IF b THEN "true" ELSE "false")
Num(s)  == Lit("num", s)
Str(s)  == Lit("str", s)
Index(s) == Lit("int32", s)
Garbage == Lit("garbage", "uninitialised")

Convert(t, v)  == IF v.t = t THEN v ELSE Term(t, "convert", 0, <<v>>)
Number(v)      == Convert("num", v)
Arith(op, l, r) == Term("num", op, 0, <<Number(l), Number(r)>>)

Arithmetic == {"add", "sub", "mul", "div", "mod"}
Bitwise    == {"lsh", "rsh", "ursh", "and", "xor", "or"}
Relational == {"less", "lesseq", "greater", "greatereq"}
Equality   == {"eq", "neq", "stricteq", "nstricteq"}

(***************************************************************************)
(* The operators of JavaScript, which the functions of ejs-ops.c implement *)
(***************************************************************************)
Joins(l, r) == {l.t, r.t} \cap {"str", "obj"} # {}
Negated(op) == op \in {"neq", "nstricteq"}

\* == and ===, as far as the types decide
EqualTerm(op, l, r) ==
  LET strict == op \in {"stricteq", "nstricteq"}
      equal  == IF Negated(op) THEN "neq" ELSE "eq"
      empty  == {"undef", "null"}
  IN  CASE l.t # r.t /\ strict -> Bool(Negated(op))
        [] l.t # r.t /\ ~strict /\ {l.t, r.t} = empty -> Bool(~Negated(op))
        [] l.t # r.t /\ ~strict /\ {l.t, r.t} # empty /\ (l.t \in empty \/ r.t \in empty) -> Bool(Negated(op))
        [] l.t = r.t /\ l.t # "num" /\ l = r -> Bool(~Negated(op))
        [] {l.t, r.t} \subseteq {"num", "str", "bool"} /\ "num" \in {l.t, r.t} -> Term("bool", equal, 0, <<Number(l), Number(r)>>)
        [] OTHER -> Term("bool", equal, 0, <<l, r>>)

Binary(op, l, r) ==
  CASE op = "add" /\ Joins(l, r)    -> Term("str", "concat", 0, <<l, r>>)
    [] op = "instanceof"            -> Term("bool", op, 0, <<l, r>>)
    [] op \in Relational /\ "num" \in {l.t, r.t} -> Term("bool", op, 0, <<Number(l), Number(r)>>)
    [] op \in Relational /\ "num" \notin {l.t, r.t} -> Term("bool", op, 0, <<l, r>>)
    [] op \in Equality              -> EqualTerm(op, l, r)
    [] OTHER                        -> Arith(op, l, r)

TypeOf(v) == Term("str", "typeof", 0, <<v>>)

(***************************************************************************)
(* What both sides do that is seen from outside: an event has a name and   *)
(* the values it is about.  The answer is new each time, and whatever the  *)
(* event runs may have changed the variables of Global; making a function, *)
(* a regular expression or the arguments of a call runs nothing.           *)
(***************************************************************************)
Event(e, as)       == [e |-> e, as |-> as]
Answer(t, trace)   == Term(t, "answer", Len(trace), <<>>)
Quiet              == {"function", "regexp", "arguments"}
Changed(t, trace)  == Term(t, "changed", Len(trace), <<>>)

-----------------------------------------------------------------------------
Operand(ty, at, v) == [ty |-> ty, at |-> at, v |-> v]
Ptr(a)  == Operand("ptr", a, Undef)
I64(v)  == Operand("i64", 0, v)
Dbl(v)  == Operand("double", 0, v)
I32(v)  == Operand("i32", 0, v)
I1(v)   == Operand("i1", 0, v)
Fn(v)   == Operand("fn", 0, v)
None    == Operand("none", 0, Garbage)

Stop(m)       == [m EXCEPT !.ok = FALSE]
Give(m, o)    == [m EXCEPT !.st = Append(@, o)]
Drop(m, n)    == [m EXCEPT !.st = SubSeq(@, 1, Len(@) - n)]
Reduce(m, n, o) == Give(Drop(m, n), o)
Nth(m, i)     == m.st[Len(m.st) - i]                   \* 0 is the last one given
Load(m, o) == IF o.ty = "ptr" THEN m.mem[o.at] ELSE o.v

\* a call into the runtime, which may change the global variables
Affected(m, e) == IF e \in Quiet THEN {} ELSE {m.scope[x] : x \in m.globals}
Traced(m, e, tr) ==
  [m EXCEPT !.trace = tr, !.mem = FoldSet(LAMBDA a, mem : [mem EXCEPT ![a] = Changed(m.tys[e], tr)], @, Affected(m, e))]
Happens(m, e, as) == Traced(m, e, Append(m.trace, Event(e, as)))
Result(m, e) == Answer(m.tys[e], m.trace)

\* the n last operands are replaced by what the event e, the last one, has answered
Answered(m, e, n, ty) == Reduce(m, n, Operand(ty, 0, Result(m, e)))

(***************************************************************************)
(* Variables and temporaries                                               *)
(***************************************************************************)
CodeGenJSValue32Construct(m, v) == [m EXCEPT !.mem = Append(@, v)]     \* at Len(mem)

\* an ejsval the compiled code has made, given as a pointer
Made(m) == Give(m, Ptr(Len(m.mem)))
CodeGenJSValue32ConstructForNULL(m) == Made(CodeGenJSValue32Construct(m, NullV))
CodeGenJSValue32ConstructForUndefined(m) == Made(CodeGenJSValue32Construct(m, Undef))
CodeGenJSValue32ConstructForBool(m, b) == Made(CodeGenJSValue32Construct(m, Bool(b)))
CodeGenJSValue32Destruct(m) == Reduce(m, 1, None)

\* the string constant of the module, made a string of the runtime
CodeGenJSObjectMakeStringCall(m, x) == Give(m, I64(Str(x)))

\* An anonymous function is an operand like others until somebody uses it as a value: then it is made a closure.
CodeGenJSObjectMakeFunctionCall(m, f) == Answered(Happens(m, "function", <<f.v>>), "function", 0, "i64")

getVariableRef(m, x) == IF x \in DOMAIN m.scope THEN Ptr(m.scope[x]) ELSE None
setVariableRef(m, x, a) == [m EXCEPT !.scope = [y \in DOMAIN @ \cup {x} |-> IF y = x THEN a ELSE @[y]]]
isConstVariable(m, x) == x \in m.consts

StoreTop(m, a) == Drop([m EXCEPT !.mem[a] = Nth(m, 0).v], 1)

\* An i32 is stored with the tag of an integer, an i1 with that of a boolean.
CodeGenJSValue32FunctionCopy(m, a, o) ==
  CASE o.ty = "none" \/ o = Ptr(a) -> m
    [] o.ty = "fn" -> StoreTop(CodeGenJSObjectMakeFunctionCall(m, o), a)
    [] o.ty = "i32" -> [m EXCEPT !.mem[a] = Convert("int32", o.v)]
    [] OTHER -> [m EXCEPT !.mem[a] = Load(m, o)]

\* the operand i of the stack is copied to a new ejsval
AsPointer(m, i) == [m EXCEPT !.st[Len(m.st) - i] = Ptr(Len(m.mem))]
Copied(m, i) == AsPointer(CodeGenJSValue32FunctionCopy(CodeGenJSValue32Construct(m, Garbage), Len(m.mem) + 1, Nth(m, i)), i)

\* the operand i of the stack becomes a pointer to an ejsval
CodeGenJSValue32ConstructIfNeeded(m, i) ==
  CASE Nth(m, i).ty = "ptr"  -> m
    [] Nth(m, i).ty = "none" -> Stop(m)
    [] OTHER                 -> Copied(m, i)

\* the last n operands do, one after the other
Pointers(m, n) == FoldLeft(LAMBDA acc, i : CodeGenJSValue32ConstructIfNeeded(acc, n - i), m, [i \in 1..n |-> i])

(***************************************************************************)
(* Conversions to C numbers                                                *)
(***************************************************************************)
CodeGenJSValue32FunctionToDouble(m, o) == Number(Load(m, o))
CodeGenJSValue32FunctionToInt32(m, o) == Convert("int32", Load(m, o))
CodeGenJSValue32FunctionIsUndefined(m, o) == I1(Bool(Load(m, o).t = "undef"))

\* the operand on top as an ejsval, which functions return as an i64
LoadTop(m) == Reduce(m, 1, I64(Load(m, Nth(m, 0))))
CodeGenJSValue32FunctionToInt64(m) ==
  CASE Nth(m, 0).ty = "i64" -> m
    [] Nth(m, 0).ty = "fn"  -> CodeGenJSObjectMakeFunctionCall(Drop(m, 1), Nth(m, 0))
    [] OTHER                -> LoadTop(CodeGenJSValue32ConstructIfNeeded(m, 0))

CodeGenJSValue32FunctionIsTrue(o) == I1(o.v)      \* of what a comparison returns

(***************************************************************************)
(* + - * / % and the bitwise operators: by the type of the left operand    *)
(***************************************************************************)
CodeGenJSValue32FunctionOptionForDouble(m, l, r, op) ==
  IF op \in Arithmetic
  THEN Dbl(Term("num", op, 0, <<CodeGenJSValue32FunctionToDouble(m, l), CodeGenJSValue32FunctionToDouble(m, r)>>)) ELSE None

\* the two right shifts are each other's instruction
CodeGenJSValue32FunctionOptionForInt32(m, l, r, op) ==
  LET instr == CASE op = "rsh" -> "ursh" [] op = "ursh" -> "rsh" [] OTHER -> op
  IN  I32(Term("int32", instr, 0, <<CodeGenJSValue32FunctionToInt32(m, l), CodeGenJSValue32FunctionToInt32(m, r)>>))

CodeGenJSValue32FunctionOptionForJSValue(m, l, r, op) ==
  I64(CASE op = "plusplus"   -> Arith("add", Load(m, l), Num("1"))
        [] op = "minusminus" -> Arith("sub", Load(m, l), Num("1"))
        [] OTHER             -> Binary(op, Load(m, l), Load(m, r)))

\* of the last two operands
OptionOfPointers(m, op) == Reduce(m, 2, CodeGenJSValue32FunctionOptionForJSValue(m, Nth(m, 1), Nth(m, 0), op))
CodeGenJSValue32FunctionOption(m, op) ==
  LET l  == Nth(m, 1)
      r  == Nth(m, 0)
  IN  CASE "none" \in {l.ty, r.ty} -> Reduce(m, 2, None)
        [] l.ty = "double"         -> Reduce(m, 2, CodeGenJSValue32FunctionOptionForDouble(m, l, r, op))
        [] l.ty \in {"i32", "i1"} /\ r.ty # "none" -> Reduce(m, 2, CodeGenJSValue32FunctionOptionForInt32(m, l, r, op))
        [] l.ty = "fn"             -> Stop(m)
        [] OTHER                   -> OptionOfPointers(IF op \in {"plusplus", "minusminus"} THEN CodeGenJSValue32ConstructIfNeeded(m, 1)
                                                       ELSE Pointers(m, 2), op)

(***************************************************************************)
(* Comparisons.  `one' is FCMP_ONE, which is false of NaN.                 *)
(***************************************************************************)
CodeGenJSValue32FunctionCmpForDouble(m, l, r, op) ==
  IF op \in {"stricteq", "nstricteq"} THEN None
  ELSE I1(Term("bool", IF op = "neq" THEN "one" ELSE op, 0,
               <<CodeGenJSValue32FunctionToDouble(m, l), CodeGenJSValue32FunctionToDouble(m, r)>>))

CodeGenJSValue32FunctionCmpForInt32(m, l, r, op) ==
  IF op \in {"stricteq", "nstricteq"} THEN None
  ELSE I1(Term("bool", op, 0, <<CodeGenJSValue32FunctionToInt32(m, l), CodeGenJSValue32FunctionToInt32(m, r)>>))

CodeGenJSValue32FunctionCmpForJSValue(m, l, r, op) ==
  IF l = r /\ op \in Equality THEN I1(Bool(~Negated(op)))
  ELSE CodeGenJSValue32FunctionIsTrue(I1(Binary(op, Load(m, l), Load(m, r))))

CmpOfPointers(m, op) == Reduce(m, 2, CodeGenJSValue32FunctionCmpForJSValue(m, Nth(m, 1), Nth(m, 0), op))
CodeGenJSValue32FunctionCmp(m, op) ==
  LET l  == Nth(m, 1)
      r  == Nth(m, 0)
  IN  CASE "none" \in {l.ty, r.ty} -> Reduce(m, 2, None)
        [] l.ty = "double"         -> Reduce(m, 2, CodeGenJSValue32FunctionCmpForDouble(m, l, r, op))
        [] l.ty \in {"i32", "i1"} /\ r.ty # "none" -> Reduce(m, 2, CodeGenJSValue32FunctionCmpForInt32(m, l, r, op))
        [] l.ty = "fn"             -> Stop(m)
        [] OTHER                   -> CmpOfPointers(Pointers(m, 2), op)

(***************************************************************************)
(* Calls into the runtime                                                  *)
(***************************************************************************)
Arguments(m, n) == [i \in 1..n |-> Load(m, Nth(m, n - i))]      \* of pointers

\* the last n operands are copied to the array of arguments one after the other
CopyArguments(m, n) == FoldLeft(LAMBDA acc, i : Copied(acc, n - i), m, [i \in 1..n |-> i])

\* an event of the n last operands; what it returns is an operand of the type ty
CallRuntime(m, e, as, n, ty) == Answered(Happens(m, e, as), e, n, ty)
CallWith(m, e, n, ty) == IF m.ok THEN CallRuntime(m, e, Arguments(m, n), n, ty) ELSE m

\* base, callee and this are pointers, and read now
Invoke(m, callee, this, n) == CallRuntime(m, "call", <<Load(m, callee), Load(m, this)>> \o Arguments(m, n), n, "i64")
CodeGenJSObjectConstructCall(m, callee, this, n) == Invoke(CopyArguments(m, n), callee, this, n)

\* a function of the runtime
CodeGenJSObjectFunctionCall(m, f, n) == CallWith(CopyArguments(m, n), f, n, "i64")

\* of the base below and the key above it
GetProperty(m) == IF Nth(m, 1).ty = "none" THEN Reduce(m, 2, None) ELSE CallWith(Pointers(m, 2), "get", 2, "i64")

\* of base, key and value; what is returned is whether it was set
SetProperty(m) ==
  IF "none" \in {Nth(m, 2).ty, Nth(m, 0).ty} THEN Reduce(m, 3, None) ELSE CallWith(Pointers(m, 3), "set", 3, "i1")

\* _ejs_specop_get and _ejs_specop_set take the base, i below the top, for an object without a look
AnObject(m, i) == Nth(m, i).ty \in {"none", "fn"} \/ Load(m, Nth(m, i)).t = "obj"
CodeGenJSObjectGetPropertyCall(m) == IF AnObject(m, 1) THEN GetProperty(m) ELSE Stop(m)
CodeGenJSObjectSetPropertyCall(m) == IF AnObject(m, 2) THEN SetProperty(m) ELSE Stop(m)

\* _ejs_object_getprop_utf8
GetNamedProperty(m, name) == GetProperty(CodeGenJSObjectMakeStringCall(m, name))

\* _ejs_object_setprop_utf8, of base and value, returns the value
SetNamed(m, name) ==
  LET v == Nth(m, 0)
  IN  Reduce(SetProperty(Give(CodeGenJSObjectMakeStringCall(Drop(m, 1), name), v)), 1, I64(Load(m, v)))
SetNamedProperty(m, name) ==
  IF "none" \in {Nth(m, 1).ty, Nth(m, 0).ty} THEN Reduce(m, 2, None) ELSE SetNamed(Pointers(m, 2), name)

TypeOfTop(m) == Reduce(m, 1, I64(TypeOf(Load(m, Nth(m, 0)))))
CodeGenJSObjectTypeOfCall(m) ==
  IF Nth(m, 0).ty = "none" THEN Reduce(m, 1, None) ELSE TypeOfTop(CodeGenJSValue32ConstructIfNeeded(m, 0))

InstanceOfPointers(m) == Reduce(m, 2, I64(Binary("instanceof", Load(m, Nth(m, 1)), Load(m, Nth(m, 0)))))
CodeGenJSObjectInstanceOfCall(m) ==
  IF "none" \in {Nth(m, 1).ty, Nth(m, 0).ty} THEN Reduce(m, 2, None) ELSE InstanceOfPointers(Pointers(m, 2))
=============================================================================
