---------------------------- MODULE Expressions ----------------------------
(***************************************************************************)
(* From the text of an expression to code: the nodes the parser makes      *)
(* (Parser.cpp, make...Node) and the code each node emits (Nodes.cpp).     *)
(* Conditions, && || ! and ?: branch and are in Emission.tla.  var, const, *)
(* return and a function around it are taken in, because what they declare *)
(* is an expression's to use; a function within an expression is a value   *)
(* nobody looks into.                                                      *)
(* A source expression has a kind k, an operator op, a name x and its      *)
(* parts e; a node the same, k being its class, with v a number it holds   *)
(* and its children c.                                                     *)
(***************************************************************************)
EXTENDS Operands

Expr(k, op, x, e)    == [k |-> k, op |-> op, x |-> x, e |-> e]
Node(k, op, x, c)    == [k |-> k, op |-> op, x |-> x, v |-> Undef, c |-> c]
NumberNode(v) == [k |-> "Number", op |-> "", x |-> "", v |-> v, c |-> <<>>]

(***************************************************************************)
(* The parser                                                              *)
(***************************************************************************)
\* AssignResolveNode is a ResolveNode, and answers as one
isResolveNode(n) == n.k \in {"Resolve", "AssignResolve"}
isLocation(n)    == isResolveNode(n) \/ n.k \in {"Bracket", "Dot"}
isNumber(n)      == n.k = "Number"

\* the class of a node over a location: ...Resolve, ...Bracket, ...Dot, or other
OverLocation(n, classes, other, op, more) ==
  CASE isResolveNode(n)  -> Node(classes[1], op, n.x, more)
    [] n.k = "Bracket"   -> Node(classes[2], op, "", n.c \o more)
    [] n.k = "Dot"       -> Node(classes[3], op, n.x, n.c \o more)
    [] OTHER             -> Node(other, op, "", <<n>> \o more)

makeAssignNode(loc, op, right) ==
  IF op = "=" THEN OverLocation(loc, <<"AssignResolve", "AssignBracket", "AssignDot">>, "Error", op, <<right>>)
              ELSE OverLocation(loc, <<"ReadModifyResolve", "Error", "Error">>, "Error", op, <<right>>)

makePrefixNode(n, op) == OverLocation(n, <<"PrefixResolve", "PrefixBracket", "PrefixDot">>, "Error", op, <<>>)
makePostfixNode(n, op) == OverLocation(n, <<"PostfixResolve", "PostfixBracket", "PostfixDot">>, "Error", op, <<>>)
makeDeleteNode(n) == OverLocation(n, <<"DeleteResolve", "DeleteBracket", "DeleteDot">>, "DeleteValue", "", <<>>)
makeTypeOfNode(n) == IF isResolveNode(n) THEN Node("TypeOfResolve", "", n.x, <<>>) ELSE Node("TypeOfValue", "", "", <<n>>)

\* a method is fetched before the arguments are emitted
makeFunctionCallNode(f, args) ==
  CASE isResolveNode(f) /\ f.x = "eval" -> Node("Eval", "", "", args)
    [] isResolveNode(f) /\ f.x # "eval" -> Node("CallResolve", "", f.x, args)
    [] f.k = "Dot"                      -> Node("Call", "", "", <<Node("Method", "", f.x, f.c)>> \o args)
    [] f.k = "Bracket"                  -> Node("Call", "", "", <<Node("MethodBracket", "", "", f.c)>> \o args)
    [] OTHER                            -> Node("Call", "", "", <<Node("Callee", "", "", <<f>>)>> \o args)

makeNewNode(f, args) == Node("New", "", "", <<Node("NewTarget", "", "", <<f>>)>> \o args)

stripUnaryPlus(n)    == IF n.k = "UnaryOp" /\ n.op = "plus" THEN n.c[1] ELSE n
isOne(n)             == n = NumberNode(Num("1"))
makeNegateNode(n) == IF isNumber(n) /\ n.v.op \notin {"neg", "0"} THEN NumberNode(Term("num", "neg", 0, <<n.v>>)) ELSE Node("UnaryOp", "neg", "", <<n>>)
makeBitwiseNotNode(n) == IF isNumber(n) THEN NumberNode(Term("num", "not", 0, <<n.v>>)) ELSE Node("UnaryOp", "not", "", <<n>>)

\* what a BinaryOpNode's class is
BinaryClass(op) ==
  CASE op = "eq"        -> "Equal"
    [] op = "stricteq"  -> "StrictEqual"
    [] op = "in"        -> "ThrowableBinaryOp"
    [] op = "instanceof" -> "InstanceOf"
    [] OTHER            -> "BinaryOp"

\* makeMultNode, makeDivNode, makeAddNode, makeSubNode, makeLeftShiftNode, makeRightShiftNode
makeBinaryNode(op, left, right) ==
  LET l == IF op \in {"mul", "div", "sub"} THEN stripUnaryPlus(left) ELSE left
      r == IF op \in {"mul", "div", "sub"} THEN stripUnaryPlus(right) ELSE right
      folds == op \in {"mul", "div", "sub", "add", "lsh", "rsh"} /\ isNumber(l) /\ isNumber(r)
  IN  CASE folds -> NumberNode(Arith(op, l.v, r.v))
        [] op = "mul" /\ ~folds /\ isOne(l) -> Node("UnaryOp", "plus", "", <<r>>)
        [] op = "mul" /\ ~folds /\ ~isOne(l) /\ isOne(r) -> Node("UnaryOp", "plus", "", <<l>>)
        [] OTHER -> Node(BinaryClass(op), op, "", <<l, r>>)

\* combineCommaNodes: the list grows at its end
makeCommaNode(l, r) == IF l.k = "Comma" THEN [l EXCEPT !.c = Append(@, r)] ELSE Node("Comma", "", "", <<l, r>>)

RECURSIVE Parse(_)
Parse(s) ==
  LET c == [i \in DOMAIN s.e |-> Parse(s.e[i])]
  IN  CASE s.k = "num"     -> NumberNode(Num(s.x))
        [] s.k = "str"     -> Node("String", "", s.x, <<>>)
        [] s.k = "null"    -> Node("Null", "", "", <<>>)
        [] s.k = "true"    -> Node("Boolean", "", "", <<>>)
        [] s.k = "this"    -> Node("This", "", "", <<>>)
        [] s.k = "id"      -> Node("Resolve", "", s.x, <<>>)
        [] s.k = "dot"     -> Node("Dot", "", s.x, c)
        [] s.k = "bracket" -> Node("Bracket", "", "", c)
        [] s.k = "assign"  -> makeAssignNode(c[1], s.op, c[2])
        [] s.k = "prefix"  -> makePrefixNode(c[1], s.op)
        [] s.k = "postfix" -> makePostfixNode(c[1], s.op)
        [] s.k = "call"    -> makeFunctionCallNode(c[1], Tail(c))
        [] s.k = "new"     -> makeNewNode(c[1], Tail(c))
        [] s.k = "typeof"  -> makeTypeOfNode(c[1])
        [] s.k = "delete"  -> makeDeleteNode(c[1])
        [] s.k = "void"    -> Node("Void", "", "", c)
        [] s.k = "neg"     -> makeNegateNode(c[1])
        [] s.k = "plus"    -> Node("UnaryOp", "plus", "", c)
        [] s.k = "not"     -> makeBitwiseNotNode(c[1])
        [] s.k = "function" -> Node("FuncExpr", "", s.x, <<>>)
        [] s.k = "regexp"  -> Node("RegExp", "", s.x, <<>>)
        [] s.k = "return"  -> Node("Return", "", "", c)
        [] s.k = "body"    -> Node("FunctionBody", "", "", c)
        [] s.k = "array"   -> Node("Array", "", "", c)
        [] s.k = "object"  -> Node("ObjectLiteral", "", "", c)
        [] s.k = "element" -> Node("Element", "", s.x, c)
        [] s.k = "property" -> Node("Property", "", s.x, c)
        [] s.k = "var"     -> Node("VarStatement", "", "", c)
        [] s.k = "const"   -> Node("ConstDecl", "", s.x, c)
        [] s.k = "comma"   -> makeCommaNode(c[1], c[2])
        [] s.k = "binary"  -> makeBinaryNode(s.op, c[1], c[2])

(***************************************************************************)
(* Leaves                                                                  *)
(***************************************************************************)
Pointer(m, x)   == Give(m, getVariableRef(m, x))

NumberLeaf(m, v)    == Give(m, Dbl(v))
StringLeaf(m, x)    == CodeGenJSObjectMakeStringCall(m, x)
NullLeaf(m)         == CodeGenJSValue32ConstructForNULL(m)
BooleanLeaf(m, b)   == CodeGenJSValue32ConstructForBool(m, b)
ThisNode(m)         == Pointer(m, "this")
FuncExprNode(m, x)  == Give(m, Fn(Lit("fn", x)))
RegExpNode(m, x)    == CallRuntime(m, "regexp", <<Str(x), Str("")>>, 0, "i64")

\* A name nobody declared is a property of `this', fetched once: the copy is a local variable of that name from here on.
ResolveNode(m, x) ==
  LET m1 == GetNamedProperty(Give(m, getVariableRef(m, "this")), x)
      m2 == CodeGenJSValue32Construct(m1, Load(m1, Nth(m1, 0)))
      a  == Len(m2.mem)
  IN  IF x \in DOMAIN m.scope THEN Pointer(m, x) ELSE Reduce(setVariableRef(m2, x, a), 1, Ptr(a))

\* createVariable, of a name nobody declared: as a global variable, whose bits are zero at first
createVariable(m, x) ==
  LET m1 == CodeGenJSValue32Construct(m, Num("0")) IN setVariableRef(m1, x, Len(m1.mem))

\* VarStatementNode and ConstDeclNode: the new variable has no value yet
Declare(m, x) ==
  LET m1 == CodeGenJSValue32Construct(m, Garbage)
  IN  IF x \in DOMAIN m.scope \ m.globals THEN Stop(m) ELSE [setVariableRef(m1, x, Len(m1.mem)) EXCEPT !.globals = @ \ {x}]

createConstant(m, x) == LET m1 == Declare(m, x) IN [m1 EXCEPT !.consts = @ \cup {x}]
VarStatementNode(m, n) == FoldLeft(LAMBDA acc, c : IF acc.ok THEN Declare(acc, c.x) ELSE acc, m, n.c)

DotAccessorNode(m, x) == GetNamedProperty(m, x)

TypeOfResolveNode(m, x) ==
  CodeGenJSObjectTypeOfCall(IF x \in DOMAIN m.scope THEN Pointer(m, x) ELSE CodeGenJSValue32ConstructForUndefined(m))

(***************************************************************************)
(* Literals.  The array is an operand below its elements, the object a     *)
(* pointer below its properties.                                           *)
(***************************************************************************)
ArrayNode(m) == CallRuntime(m, "array", <<>>, 0, "i64")
ObjectLiteralNode(m) == CodeGenJSValue32ConstructIfNeeded(CodeGenJSObjectFunctionCall(Give(m, I64(NullV)), "create", 1), 0)

ElementOf(m, x) ==
  LET v == Nth(m, 0) IN Drop(CodeGenJSObjectSetPropertyCall(Give(Give(Reduce(m, 1, Nth(m, 1)), I32(Index(x))), v)), 1)

PropertyOf(m, x) ==
  LET m1 == CodeGenJSValue32ConstructIfNeeded(m, 0)
  IN  IF m1.ok THEN Drop(CallRuntime(m1, "define", <<Load(m1, Nth(m1, 1)), Str(x), Load(m1, Nth(m1, 0))>>, 1, "i1"), 1) ELSE m1

(***************************************************************************)
(* A function, called with the values m.args.  A parameter is a variable   *)
(* that is undefined until its argument is copied; arguments is made after *)
(* them, of all that were given.                                           *)
(***************************************************************************)
Parameter(m, x) ==
  LET m1 == Drop(CodeGenJSValue32ConstructForUndefined(m), 1) IN setVariableRef(m1, x, Len(m1.mem))

FunctionBodyNode(m, params) ==
  LET Given(acc, i) == IF i > Len(m.args) THEN acc ELSE CodeGenJSValue32FunctionCopy(acc, acc.scope[params[i]], I64(m.args[i]))
      m1 == FoldLeft(Given, FoldLeft(Parameter, m, params), [i \in DOMAIN params |-> i])
      m2 == Happens([m1 EXCEPT !.globals = @ \ ToSet(params)], "arguments", m.args)
      m3 == CodeGenJSValue32Construct(m2, Result(m2, "arguments"))
  IN  setVariableRef(m3, "arguments", Len(m3.mem))

\* nothing is the number 0
ReturnNode(m, n) == CodeGenJSValue32FunctionToInt64(IF n = 0 THEN Give(m, I64(Num("0"))) ELSE m)

(***************************************************************************)
(* Calls                                                                   *)
(***************************************************************************)
\* Of a base and a name or key: the base is kept as a pointer, the function as a copy.
\* FunctionCallBracketNode emits the base a second time where the key belongs.
Fetched(m, byName) ==
  LET m1 == CodeGenJSValue32ConstructIfNeeded(m, 1)
      m2 == IF byName THEN GetProperty(Give(Give(m1, Nth(m1, 1)), Nth(m1, 0)))
            ELSE CodeGenJSObjectGetPropertyCall(Give(Give(m1, Nth(m1, 1)), Nth(m1, 0)))
      m3 == CodeGenJSValue32Construct(m2, Load(m2, Nth(m2, 0)))
  IN  IF m1.ok /\ m2.ok THEN Reduce(m3, 2, Ptr(Len(m3.mem))) ELSE Stop(m)

MethodOf(m, x) == Fetched(CodeGenJSObjectMakeStringCall(m, x), TRUE)
MethodBracketOf(m) == Fetched(m, FALSE)

CalleeOf(m) == LET m1 == CodeGenJSValue32ConstructIfNeeded(m, 0) IN Give(m1, Nth(m1, 0))

\* base and function are below the n arguments
CallNode(m, n) == LET r == CodeGenJSObjectConstructCall(m, Nth(m, n), Nth(m, n + 1), n) IN Reduce(r, 3, Nth(r, 0))

FunctionCallResolveNode(m, n) ==
  LET r == CodeGenJSObjectConstructCall(m, Nth(m, n), getVariableRef(m, "this"), n) IN Reduce(r, 2, Nth(r, 0))

EvalFunctionCallNode(m, n) == CodeGenJSObjectFunctionCall(m, "eval", n)

\* The object is made before the arguments are emitted; new.this is below the constructor.
NewTargetOf(m) ==
  LET f  == Nth(m, 0)
      m1 == GetNamedProperty(Give(m, f), "prototype")
      m2 == CallRuntime(m1, "creator", <<Load(m1, f)>>, 0, "i64")
      create == Nth(m2, 0)
      none   == CodeGenJSValue32FunctionIsUndefined(m2, create) = I1(Bool(TRUE))
      proto  == Drop(m2, 1)
      m3 == IF none THEN CodeGenJSObjectFunctionCall(proto, "create", 1)
            ELSE CodeGenJSObjectConstructCall(proto, create, f, 1)
  IN  IF f.ty # "ptr" \/ Load(m, f).t # "obj" \/ (none /\ Load(proto, Nth(proto, 0)).t \notin {"obj", "null"}) THEN Stop(m)
      ELSE Drop([m3 EXCEPT !.mem[Nth(m, 1).at] = Load(m3, Nth(m3, 0))], 1)

NewExprNode(m, n) ==
  LET r == CodeGenJSObjectConstructCall(m, Nth(m, n), Nth(m, n + 1), n) IN Drop(r, 2)

(***************************************************************************)
(* ++ and --: of the pointer or the fetched value on top of the stack      *)
(***************************************************************************)
OneMore(m, op) == CodeGenJSValue32FunctionOption(Give(m, I1(Bool(TRUE))), op)
Store(m, p, v) == CodeGenJSValue32FunctionCopy(m, p.at, v)

\* what it must not be: the pointer itself, not a copy made before the store
PostfixResolveAsPointer(m, op) == LET m1 == OneMore(m, op) IN Reduce(Store(m1, Nth(m, 0), Nth(m1, 0)), 1, Nth(m, 0))

PrefixResolveNode(m, op) == LET m1 == OneMore(m, op) IN Store(m1, Nth(m, 0), Nth(m1, 0))

PostfixResolveNode(m, op) ==
  LET m1 == OneMore(m, op)
      m2 == CodeGenJSValue32Construct(m1, Load(m1, Nth(m, 0)))
  IN  Reduce(Store(m2, Nth(m, 0), Nth(m1, 0)), 1, Ptr(Len(m2.mem)))

\* of a base and a subscript that are pointers
StepProperty(m, op, prefix) ==
  LET b   == Nth(m, 1)
      s   == Nth(m, 0)
      m1  == GetProperty(m)
      old == Nth(m1, 0)
      m2  == OneMore(m1, op)
      new == Nth(m2, 0)
      m3  == SetProperty(Give(Give(Reduce(m2, 1, b), s), new))
      m4  == CodeGenJSValue32Construct(m3, old.v)
  IN  IF prefix THEN Reduce(m3, 1, new) ELSE Made(Drop(m4, 1))

AtKey(m, op, prefix) ==
  LET m2 == CodeGenJSValue32ConstructIfNeeded(CodeGenJSValue32ConstructIfNeeded(m, 1), 0)
  IN  IF m2.ok /\ AnObject(m2, 1) THEN StepProperty(m2, op, prefix) ELSE Stop(m)

AtName(m, x, op, prefix) ==
  LET m1 == CodeGenJSValue32ConstructIfNeeded(m, 0)
  IN  IF m1.ok THEN StepProperty(CodeGenJSObjectMakeStringCall(m1, x), op, prefix) ELSE m1

PrefixBracketNode(m, op)  == AtKey(m, op, TRUE)
PostfixBracketNode(m, op) == AtKey(m, op, FALSE)
PrefixDotNode(m, x, op)   == AtName(m, x, op, TRUE)
PostfixDotNode(m, x, op)  == AtName(m, x, op, FALSE)
ErrorNode(m)              == Give(m, None)

(***************************************************************************)
(* Assignments                                                             *)
(***************************************************************************)
AssignResolveNode(m) == Drop(Store(m, Nth(m, 1), Nth(m, 0)), 1)

ReadModifyResolveNode(m, op) ==
  LET l  == Nth(m, 1)
      m1 == CodeGenJSValue32FunctionOption(m, op)
  IN  IF m1.ok THEN Reduce(Store(m1, l, Nth(m1, 0)), 1, l) ELSE m1

\* the value was emitted before the base
AssignDotNode(m, x) ==
  LET v == Nth(m, 1)
      b == Nth(m, 0)
  IN  IF "none" \in {v.ty, b.ty} THEN Reduce(m, 2, None) ELSE SetNamedProperty(Give(Reduce(m, 2, b), v), x)

(***************************************************************************)
(* Operators.  The operands are arguments of one C++ call, emitted in the  *)
(* order m.order of the compiler that built this one.                      *)
(***************************************************************************)
BinaryNodes == {"BinaryOp", "Equal", "StrictEqual", "InstanceOf"}
Swap(m)     == LET l == Nth(m, 0) IN Give(Reduce(m, 2, l), Nth(m, 1))

BinaryOpNode(m, op) ==
  CASE op \in Arithmetic -> CodeGenJSValue32FunctionOption(m, op)
    [] op \in Relational \cup {"eq", "neq", "stricteq"} -> CodeGenJSValue32FunctionCmp(m, op)
    [] op = "instanceof" -> CodeGenJSObjectInstanceOfCall(m)
    [] OTHER             -> Stop(m)

(***************************************************************************)
(* emitBytecode: what a node does before its children, which children it   *)
(* emits in which order, and what it does after them                       *)
(***************************************************************************)
\* The base stands for the subscript in three classes.
BaseTwice == {"MethodBracket", "PostfixBracket", "DeleteBracket"}

Emitted(m, n) ==
  CASE n.k \in BaseTwice   -> <<n.c[1], n.c[1]>>
    [] n.k = "AssignDot"   -> Reverse(n.c)
    [] n.k \in BinaryNodes /\ m.order = "right" -> Reverse(n.c)
    [] n.k \in {"Error", "ThrowableBinaryOp", "UnaryOp"} -> <<>>
    [] n.k = "FunctionBody" -> <<Last(n.c)>>
    [] OTHER               -> n.c

\* the pointer to the variable a node updates or calls
Before(m, n) ==
  CASE n.k = "AssignResolve" /\ isConstVariable(m, n.x)  -> Stop(m)
    [] n.k = "AssignResolve" /\ ~isConstVariable(m, n.x) -> Pointer(IF n.x \in DOMAIN m.scope THEN m ELSE createVariable(m, n.x), n.x)
    [] n.k \in {"ReadModifyResolve", "PrefixResolve", "PostfixResolve", "DeleteResolve", "CallResolve"} ->
         IF n.x \in DOMAIN m.scope THEN Pointer(m, n.x) ELSE Stop(m)
    [] n.k = "New"         -> CodeGenJSValue32ConstructForUndefined(m)
    [] n.k = "FunctionBody" -> FunctionBodyNode(m, [i \in 1..Len(n.c) - 1 |-> n.c[i].x])
    [] n.k = "Array"       -> ArrayNode(m)
    [] n.k = "ObjectLiteral" -> ObjectLiteralNode(m)
    [] n.k = "VarStatement" -> VarStatementNode(m, n)
    [] n.k = "ConstDecl"   -> LET m1 == createConstant(m, n.x) IN IF m1.ok THEN Pointer(m1, n.x) ELSE m1
    [] OTHER               -> m

After(m0, n) ==
  LET args == Len(n.c)
      m    == IF n.k \in BinaryNodes /\ m0.order = "right" THEN Swap(m0) ELSE m0
  IN  CASE n.k = "Number"         -> NumberLeaf(m, n.v)
        [] n.k = "String"         -> StringLeaf(m, n.x)
        [] n.k = "Null"           -> NullLeaf(m)
        [] n.k = "Boolean"        -> BooleanLeaf(m, TRUE)
        [] n.k = "This"           -> ThisNode(m)
        [] n.k = "FuncExpr"       -> FuncExprNode(m, n.x)
        [] n.k = "RegExp"         -> RegExpNode(m, n.x)
        [] n.k = "Resolve"        -> ResolveNode(m, n.x)
        [] n.k = "Bracket"        -> CodeGenJSObjectGetPropertyCall(m)
        [] n.k = "Dot"            -> DotAccessorNode(m, n.x)
        [] n.k = "Method"         -> MethodOf(m, n.x)
        [] n.k = "MethodBracket"  -> MethodBracketOf(m)
        [] n.k = "Callee"         -> CalleeOf(m)
        [] n.k = "Call"           -> CallNode(m, args - 1)
        [] n.k = "CallResolve"    -> FunctionCallResolveNode(m, args)
        [] n.k = "Eval"           -> EvalFunctionCallNode(m, args)
        [] n.k = "NewTarget"      -> NewTargetOf(m)
        [] n.k = "New"            -> NewExprNode(m, args - 1)
        [] n.k = "PrefixResolve"  -> PrefixResolveNode(m, n.op)
        [] n.k = "PostfixResolve" -> PostfixResolveNode(m, n.op)
        [] n.k = "PrefixBracket"  -> PrefixBracketNode(m, n.op)
        [] n.k = "PostfixBracket" -> PostfixBracketNode(m, n.op)
        [] n.k = "PrefixDot"      -> PrefixDotNode(m, n.x, n.op)
        [] n.k = "PostfixDot"     -> PostfixDotNode(m, n.x, n.op)
        [] n.k \in {"DeleteResolve", "DeleteValue"} -> CodeGenJSValue32Destruct(m)
        [] n.k = "DeleteBracket"  -> CodeGenJSValue32Destruct(CodeGenJSObjectGetPropertyCall(m))
        [] n.k = "DeleteDot"      -> CodeGenJSValue32Destruct(GetNamedProperty(m, n.x))
        [] n.k = "Void"           -> CodeGenJSValue32ConstructForUndefined(Drop(m, 1))
        [] n.k = "Return"         -> ReturnNode(m, args)
        [] n.k = "FunctionBody"   -> m
        [] n.k = "TypeOfResolve"  -> TypeOfResolveNode(m, n.x)
        [] n.k = "TypeOfValue"    -> CodeGenJSObjectTypeOfCall(m)
        [] n.k = "UnaryOp"        -> Stop(m)
        [] n.k \in BinaryNodes    -> BinaryOpNode(m, n.op)
        [] n.k \in {"Error", "ThrowableBinaryOp"} -> ErrorNode(m)
        [] n.k = "ReadModifyResolve" -> ReadModifyResolveNode(m, n.op)
        [] n.k = "AssignResolve"  -> AssignResolveNode(m)
        [] n.k = "AssignDot"      -> AssignDotNode(m, n.x)
        [] n.k = "AssignBracket"  -> CodeGenJSObjectSetPropertyCall(m)
        [] n.k = "ConstDecl"      -> AssignResolveNode(m)
        [] n.k = "Element"        -> ElementOf(m, n.x)
        [] n.k = "Property"       -> PropertyOf(m, n.x)
        [] n.k \in {"Array", "ObjectLiteral"} -> m
        [] n.k = "VarStatement"   -> Drop(m, args - 1)
        [] n.k = "Comma"          -> Reduce(m, args, None)

RECURSIVE Emit(_, _)
Emit(m, n) ==
  LET m1 == IF m.ok THEN Before(m, n) ELSE m
      m2 == FoldLeft(LAMBDA acc, c : Emit(acc, c), m1, IF m1.ok THEN Emitted(m1, n) ELSE <<>>)
  IN  IF m2.ok THEN After(m2, n) ELSE m2
=============================================================================
