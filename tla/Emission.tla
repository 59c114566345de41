------------------------------ MODULE Emission ------------------------------
(***************************************************************************)
(* How the code generator emits expressions and statements: what it knows  *)
(* of `&&', `||', `!' and `?:' before it emits them, the branches it makes *)
(* of it, and the emitBytecode of the nodes (Nodes.cpp).                   *)
(*                                                                         *)
(* An expression is a record with the kind of its node in k; id tells      *)
(* nodes apart the way their addresses do.  A leaf is an expression of     *)
(* which only the evaluation matters; its value is known at run time.      *)
(* A value of the generated code is one of                                 *)
(*   <<"leaf", id>>    what the evaluation of a leaf gave                  *)
(*   <<"const", v>>    a constant                                          *)
(*   <<"not", value>>  an Xor with true                                    *)
(*   <<"phi", b>>      the PHI node of block b                             *)
(*   <<"cell", id>>    a variable the generator allocated                  *)
(* A statement is a record with the kind of its node in k; Null is a child *)
(* the parser left out.                                                    *)
(***************************************************************************)
EXTENDS Blocks

Leaf(i, of)    == [k |-> "leaf",  id |-> i, of |-> of]     \* of: the values it may have
Const(i, v)    == [k |-> "const", id |-> i, v |-> v]
Not(i, e)      == [k |-> "not",   id |-> i, e |-> e]
And(i, l, r)   == [k |-> "and",   id |-> i, l |-> l, r |-> r]
Or(i, l, r)    == [k |-> "or",    id |-> i, l |-> l, r |-> r]
Call(i, ss)    == [k |-> "call",  id |-> i, ss |-> ss]    \* a function expression called at once
Cond(i, c, l, r) == [k |-> "cond", id |-> i, c |-> c, l |-> l, r |-> r]

\* the values of literals and of leaves, and the two of an i1
TrueV  == "true"
FalseV == "false"
FalsyNumbers == {"zero", "null", "'0'", FalseV}  \* the constants isConstant turns into 0.0

(***************************************************************************)
(* Node::isConstant and its result, which the callers use only as a C      *)
(* truth value: NaN (of undefined and of a string that is no number) is    *)
(* true, the string '0' is not, and op_not keeps the result of its operand *)
(***************************************************************************)
RECURSIVE isConstant(_), ConstantTruth(_)
isConstant(e) == CASE e.k = "const"        -> TRUE
                   [] e.k = "not"          -> isConstant(e.e)
                   [] e.k \in {"and", "or"} -> isConstant(e.l) /\ isConstant(e.r)
                   [] OTHER                -> FALSE

ConstantTruth(e) == CASE e.k = "const" -> e.v \notin FalsyNumbers
                      [] e.k = "not"   -> ConstantTruth(e.e)
                      [] e.k = "and"   -> ConstantTruth(e.l) /\ ConstantTruth(e.r)
                      [] e.k = "or"    -> ConstantTruth(e.l) \/ ConstantTruth(e.r)

IsConst(e, truth) == isConstant(e) /\ ConstantTruth(e) = truth
BoolValue(b)      == <<"const", IF b THEN TrueV ELSE FalseV>>

(***************************************************************************)
(* initLogicalInfo.  An expression is flattened into the list of its parts *)
(* in the order they are evaluated; each knows the block to go to when it  *)
(* is true and when it is false, and a part that starts a block holds it.  *)
(* The part that starts in the current block holds none.                   *)
(***************************************************************************)
Info(e, hold, t, f) == [expr |-> e, hold |-> hold, t |-> t, f |-> f]
Flat(c, infos)      == [c |-> c, infos |-> infos]

RECURSIVE Flatten(_, _)
Flatten(c, i) ==
  LET here       == Info(i.expr, NoBlock, i.t, i.f)
      Only(e)    == LET s == Flatten(c, Info(e, i.hold, i.t, i.f)) IN Flat(s.c, <<here>> \o s.infos)
      hold       == Nth(c, 1)
      Both(t, f) == LET l == Flatten(CreateN(c, 1), Info(i.expr.l, i.hold, t, f))
                        r == Flatten(l.c, Info(i.expr.r, hold, i.t, i.f))
                    IN  Flat(r.c, <<here>> \o l.infos \o r.infos)
  IN CASE i.expr.k = "and" ->
            IF isConstant(i.expr.l) THEN Only(i.expr.r)
            ELSE IF IsConst(i.expr.r, TRUE) THEN Only(i.expr.l) ELSE Both(hold, i.f)
       [] i.expr.k = "or" ->
            IF isConstant(i.expr.l) THEN Only(i.expr.r)
            ELSE IF IsConst(i.expr.r, FALSE) THEN Only(i.expr.l) ELSE Both(i.t, hold)
       [] i.expr.k = "not" ->
            LET s == Flatten(c, Info(i.expr.e, i.hold, i.f, i.t)) IN Flat(s.c, <<here>> \o s.infos)
       [] OTHER -> Flat(c, <<i>>)

\* without both targets the parts meet in a new block, which the first info holds
initLogicalInfo(c, e, t, f) ==
  IF t # NoBlock /\ f # NoBlock THEN Flatten(c, Info(e, NoBlock, t, f))
  ELSE LET end == Nth(c, 1)
           s   == Flatten(CreateN(c, 1), Info(e, NoBlock, end, end))
       IN  Flat(s.c, [s.infos EXCEPT ![1].hold = end])

findLogicalInfo(infos, e) == SelectInSeq(infos, LAMBDA i : i.expr = e)

(***************************************************************************)
(* EmitLogicalOptionExpr                                                   *)
(***************************************************************************)
\* a part with a known value: an unconditional branch
EmitKnown(c, info, end, b) ==
  LET to == IF b THEN info.t ELSE info.f
      c1 == IF info.t = info.f THEN c
            ELSE IF to = end THEN AddIncoming(Emit(c, Br(to)), end, BoolValue(b), currentBlock(c))
            ELSE Emit(c, Br(to))
  IN  Returns(c1, BoolValue(b))

\* the same for `0 && X' and `1 || X', whose targets are those of X
EmitDecided(c, infos, e, b) ==
  LET i == findLogicalInfo(infos, e)
  IN  IF i = 0 THEN Abort(c) ELSE EmitKnown(c, infos[i], infos[1].hold, b)

\* a part evaluated at run time, after its own emitBytecode
BranchOnValue(c, info, end) ==
  IF c.val = NoValue THEN Abort(c)
  ELSE IF info.t = info.f THEN c
  ELSE LET c1 == Emit(c, CondBr(c.val, info.t, info.f))
       IN  IF end \in {info.t, info.f} THEN AddIncoming(c1, end, c.val, currentBlock(c)) ELSE c1

(***************************************************************************)
(* After the emission: the blocks nobody branches to are deleted, wherever *)
(* the stack still names them, and in value mode the parts meet in end.    *)
(***************************************************************************)
Held(infos)  == SelectSeq([i \in 1 .. Len(infos) - 1 |-> infos[i + 1].hold], LAMBDA b : b # NoBlock)
DropUnused(c, infos) ==
  FoldSeq(LAMBDA b, d : IF HasPreds(d, b) THEN d ELSE Delete(d, b), c, Held(infos))

MeetAt(c, infos, end) ==
  LET d == DropUnused(c, infos)
  IN  IF \E i \in DOMAIN Held(infos) : HasPreds(d, Held(infos)[i])
      THEN LET m == AddIncoming(Emit(d, Br(end)), end, d.val, currentBlock(d))
           IN  Returns(push(m, end), <<"phi", end>>)
      ELSE Delete(d, end)

(***************************************************************************)
(* A condition and its two targets, as IfNode, IfElseNode, the loops and   *)
(* ConditionalNode emit it: the targets are left on the top element for a  *)
(* LogicalOpNode to find; if it did not, the branch is made here.          *)
(***************************************************************************)
ClearTargets(c) == setBreakBlock(setContinueBlock(c, NoBlock), NoBlock)

BranchUnlessUsed(c, t, f) ==
  IF ~c.ok \/ HasPreds(c, t) THEN c
  ELSE IF c.val = NoValue THEN Abort(c) ELSE Emit(c, CondBr(c.val, t, f))

-----------------------------------------------------------------------------
CONSTANT HashOf                 \* the hash of each value a case may name

Null == [k |-> "null"]

Use(i, e)          == [k |-> "use", id |-> i, e |-> e]      \* an assignment or a call with e
ExprStmt(e)        == [k |-> "expr", e |-> e]
Block(ss)          == [k |-> "block", ss |-> ss]            \* SourceElements in braces
Empty              == [k |-> "empty"]
If(c, s)           == [k |-> "if", c |-> c, s |-> s]
IfElse(c, s, t)    == [k |-> "ifelse", c |-> c, s |-> s, t |-> t]
While(c, s)        == [k |-> "while", c |-> c, s |-> s]
DoWhile(s, c)      == [k |-> "dowhile", c |-> c, s |-> s]
For(a, c, b, s)    == [k |-> "for", a |-> a, c |-> c, b |-> b, s |-> s]
ForIn(i, a, e, s)  == [k |-> "forin", id |-> i, a |-> a, e |-> e, s |-> s]   \* for (var i = a in e) s
Break(n)           == [k |-> "break", name |-> n]
Continue(n)        == [k |-> "continue", name |-> n]
Return(e)          == [k |-> "return", e |-> e]
Label(n, s)        == [k |-> "label", name |-> n, s |-> s]
\* the clauses in the order of the text; the default clause has Null for its expression
SwitchStmt(e, cs)  == [k |-> "switch", e |-> e, cs |-> cs]
Clause(e, ss)      == [e |-> e, ss |-> ss]
Body(ss)           == [k |-> "body", ss |-> ss]        \* FunctionBodyNode

RECURSIVE emitBytecode(_, _), EmitLogical(_, _, _)

(***************************************************************************)
(* EmitLogicalOptionExpr: emits the parts in the order of the infos        *)
(***************************************************************************)
EmitLeafInfo(c, infos, e) ==
  LET i    == findLogicalInfo(infos, e)
      end  == infos[1].hold
      info == infos[i]
      c1   == IF info.hold \notin {NoBlock, end} THEN push(c, info.hold) ELSE c
  IN  IF i = 0 THEN Abort(c)
      ELSE IF isConstant(e) THEN EmitKnown(c1, info, end, ConstantTruth(e))
      ELSE BranchOnValue(emitBytecode(c1, e), info, end)

EmitAnd(c, infos, e) ==
  IF IsConst(e.l, TRUE) THEN EmitLogical(c, infos, e.r)
  ELSE IF IsConst(e.l, FALSE) THEN EmitDecided(c, infos, e.r, FALSE)
  ELSE IF IsConst(e.r, TRUE) THEN EmitLogical(c, infos, e.l)
  ELSE EmitLogical(EmitLogical(c, infos, e.l), infos, e.r)

EmitOr(c, infos, e) ==
  IF IsConst(e.l, TRUE) THEN EmitDecided(c, infos, e.r, TRUE)
  ELSE IF IsConst(e.l, FALSE) THEN EmitLogical(c, infos, e.r)
  ELSE IF IsConst(e.r, FALSE) THEN EmitLogical(c, infos, e.l)
  ELSE EmitLogical(EmitLogical(c, infos, e.l), infos, e.r)

EmitNot(c, infos, e) ==
  LET i  == findLogicalInfo(infos, e)
      c1 == EmitLogical(c, infos, e.e)
  IN  IF i = 0 THEN Abort(c)
      ELSE IF infos[i].t = infos[i].f THEN Returns(c1, <<"not", c1.val>>) ELSE c1

EmitLogical(c, infos, e) ==
  CASE ~c.ok      -> c
    [] c.ok /\ e.k = "and" -> EmitAnd(c, infos, e)
    [] c.ok /\ e.k = "or"  -> EmitOr(c, infos, e)
    [] c.ok /\ e.k = "not" -> EmitNot(c, infos, e)
    [] OTHER      -> EmitLeafInfo(c, infos, e)

EmitAsValue(c, e) ==
  LET s == initLogicalInfo(c, e, NoBlock, NoBlock)
      d == EmitLogical(s.c, s.infos, e)
  IN  IF d.ok THEN MeetAt(d, s.infos, s.infos[1].hold) ELSE d

EmitAsBranches(c, e, t, f) ==
  LET s == initLogicalInfo(c, e, t, f)
      d == EmitLogical(s.c, s.infos, e)
  IN  IF d.ok THEN DropUnused(d, s.infos) ELSE d

\* UnaryOpNode::emitBytecode: never a branch
EmitUnaryOp(c, e) ==
  IF isConstant(e) THEN Returns(c, BoolValue(ConstantTruth(e))) ELSE EmitAsValue(c, e)

\* LogicalOpNode::emitBytecode: branches when the stack has both targets
EmitLogicalOp(c, e) ==
  LET t == getContinueBlock(c)
      f == getBreakBlock(c)
      b == ConstantTruth(e)
      to == IF b THEN t ELSE f
  IN  IF (t = NoBlock) # (f = NoBlock) THEN Abort(c)
      ELSE IF isConstant(e) THEN Returns(IF to = NoBlock THEN c ELSE Emit(c, Br(to)), BoolValue(b))
      ELSE IF t = NoBlock THEN EmitAsValue(c, e)
      ELSE EmitAsBranches(c, e, t, f)

EmitCondition(c, e, t, f) == emitBytecode(setBreakBlock(setContinueBlock(c, t), f), e)

\* ConditionalNode::emitBytecode; the branches out of the arms start where the arms start
EmitConditional(c, e) ==
  LET t    == Nth(c, 1)
      f    == Nth(c, 2)
      end  == Nth(c, 3)
      cell == <<"cell", e.id>>
      Arm(d, b, a) == LET d1 == emitBytecode(push(d, b), a)
                      IN  IF d1.val = NoValue THEN Abort(d1)
                          ELSE EmitAt(Emit(d1, <<"store", cell, d1.val>>), b, Br(end))
      c1 == EmitCondition(CreateN(c, 3), e.c, t, f)
      c2 == BranchUnlessUsed(ClearTargets(c1), t, f)
      c3 == Arm(c2, t, e.l)
      c4 == Arm(c3, f, e.r)
  IN  IF ~c1.ok \/ c1.val = NoValue THEN Abort(c1) ELSE Returns(push(c4, end), cell)

(***************************************************************************)
(* Lists of statements                                                     *)
(***************************************************************************)
EmitAll(c, ss) == FoldLeft(LAMBDA d, s : emitBytecode(d, s), Returns(c, NoValue), ss)

(***************************************************************************)
(* Conditionals                                                            *)
(***************************************************************************)
EmitIf(c, s) ==
  LET t  == Nth(c, 1)
      e  == Nth(c, 2)
      c1 == EmitCondition(CreateN(c, 2), s.c, t, e)
      c2 == BranchUnlessUsed(ClearTargets(c1), t, e)
      c3 == emitBytecode(push(c2, t), s.s)
      c4 == popBlock(BranchUnlessTerminated(c3, e), t)
  IN  IF c1.val = NoValue \/ c3.val = NoValue THEN Abort(c3) ELSE Returns(push(c4, e), NoValue)

EmitIfElse(c, s) ==
  LET t  == Nth(c, 1)
      f  == Nth(c, 2)
      e  == Nth(c, 3)
      c1 == EmitCondition(CreateN(c, 3), s.c, t, f)
      c2 == BranchUnlessUsed(ClearTargets(c1), t, f)
      c3 == emitBytecode(push(c2, t), s.s)
      c4 == popBlock(BranchUnlessTerminated(c3, e), t)
      c5 == emitBytecode(push(c4, f), s.t)
      c6 == BranchUnlessTerminated(c5, e)
  IN  IF c1.val = NoValue THEN Abort(c1)
      ELSE IF Terminated(c3) /\ Terminated(c5) THEN Returns(Delete(c6, e), NoValue)
      ELSE Returns(push(popBlock(c6, f), e), NoValue)

(***************************************************************************)
(* Loops.  Only for and for-in pop what they push.                         *)
(***************************************************************************)
\* while and do-while: where the loop is entered and what continue means in its body
EmitWhileLoop(c, s, entry, continue) ==
  LET check == Nth(c, 1)
      t     == Nth(c, 2)
      e     == Nth(c, 3)
      c1 == push(Emit(CreateN(c, 3), Br(entry)), check)
      c2 == EmitCondition(c1, s.c, t, e)
      c3 == BranchUnlessUsed(c2, t, e)
      c4 == IF continue = t THEN c3 ELSE setContinueBlock(c3, continue)
      c5 == BranchUnlessTerminated(emitBytecode(push(c4, t), s.s), check)
  IN  IF c2.val = NoValue THEN Abort(c2) ELSE Returns(push(ClearTargets(c5), e), NoValue)

\* mutant for SameEvents: continue goes to the body, past the test
EmitWhileToBody(c, s) == EmitWhileLoop(c, s, Nth(c, 1), Nth(c, 2))

EmitDoWhile(c, s) == EmitWhileLoop(c, s, Nth(c, 2), Nth(c, 2))
EmitWhile(c, s) == EmitWhileLoop(c, s, Nth(c, 1), Nth(c, 1))

EmitOptional(c, e) == IF e = Null THEN Returns(c, NoValue) ELSE emitBytecode(c, e)

EmitFor(c, s) ==
  LET check == Nth(c, 1)
      loop  == check + 1
      step  == check + 2
      e     == check + 3
      c1 == Emit(EmitOptional(CreateN(c, 4), s.a), Br(check))
      c2 == EmitOptional(push(setContinueBlock(setBreakBlock(c1, e), step), check), s.c)
      c3 == IF c2.val = NoValue THEN Abort(c2) ELSE Emit(c2, CondBr(c2.val, loop, e))
      c4 == BranchUnlessTerminated(emitBytecode(push(popBlock(c3, check), loop), s.s), step)
      c5 == EmitOptional(push(popBlock(c4, loop), step), s.b)
      c6 == popBlock(BranchUnlessTerminated(c5, check), step)
  IN  Returns(push(c6, e), BoolValue(FALSE))

\* The initializer comes before the object; without one the target is a declared
\* variable, whose pointer takes no code.  The keys of an array are its indices,
\* those of another object are fetched by index.
EmitForIn(c, s) ==
  LET c0       == emitBytecode(EmitOptional(c, s.a), s.e)
      asObject == Nth(c0, 1)
      asArray  == Nth(c0, 2)
      check    == Nth(c0, 3)
      elem     == Nth(c0, 4)
      name     == Nth(c0, 5)
      loop     == Nth(c0, 6)
      step     == Nth(c0, 7)
      e        == Nth(c0, 8)
      isArray  == <<"isArray", c0.val>>
      index    == <<"cell", s.id>>
      key      == <<"key", s.id>>
      c1 == Emit(CreateN(c0, 8), CondBr(isArray, asArray, asObject))
      c2 == push(Emit(push(c1, asObject), Br(asArray)), asArray)
      c3 == Emit(Emit(c2, <<"first", index>>), Br(check))
      c4 == push(setContinueBlock(setBreakBlock(c3, e), step), check)
      c5 == popBlock(Emit(c4, CondBr(<<"below", index, c0.val>>, elem, e)), check)
      c6 == Emit(Emit(push(c5, elem), <<"setkey", key, index, "index">>), CondBr(isArray, loop, name))
      c7 == Emit(Emit(push(c6, name), <<"setkey", key, index, "name">>), Br(loop))
      c8 == emitBytecode(Emit(push(c7, loop), <<"showkey", key>>), s.s)
      c9 == popBlock(BranchUnlessTerminated(c8, step), loop)
      cA == popBlock(Emit(Emit(push(c9, step), <<"next", index>>), Br(check)), step)
  IN  Returns(push(cA, e), BoolValue(FALSE))

(***************************************************************************)
(* Jumps.  A label is found as the block that starts its statement.        *)
(***************************************************************************)
EmitJump(c, b) == IF b = NoBlock THEN Abort(c) ELSE Returns(Emit(c, Br(b)), <<"jump", b>>)

EmitBreak(c, s) == EmitJump(c, IF s.name = NoName THEN getBreakBlock(c) ELSE findBlock(c, s.name))
EmitContinue(c, s) == EmitJump(c, IF s.name = NoName THEN getContinueBlock(c) ELSE findBlock(c, s.name))

EmitReturn(c, s) ==
  LET c1 == IF s.e = Null THEN Returns(c, <<"const", "zero">>) ELSE emitBytecode(c, s.e)
  IN  IF c1.val = NoValue THEN Abort(c1) ELSE Emit(c1, Ret(c1.val))

EmitLabel(c, s) ==
  emitBytecode(pushBlock(BranchUnlessTerminated(CreateN(c, 1), Nth(c, 1)), Nth(c, 1), s.name), s.s)

(***************************************************************************)
(* switch.  A case with a literal is found by its hash modulo the number   *)
(* of clauses; the others are compared one after the other before that.    *)
(* info[i] of clause i has its check block, its real block, the clause its *)
(* check goes on to when it fails, and its hash (0 for the other clauses). *)
(***************************************************************************)
IsDefault(cl)  == cl.e = Null
IsLiteral(cl)  == ~IsDefault(cl) /\ cl.e.k = "const"
IsComputed(cl) == ~IsDefault(cl) /\ ~IsLiteral(cl)

CaseHash(cs, i) == IF IsLiteral(cs[i]) THEN HashOf[cs[i].e.v] % Len(cs) ELSE 0

\* the first later clause that passes the test, or 0
Later(cs, i, Candidate(_)) ==
  LET L == {j \in i + 1 .. Len(cs) : Candidate(j)} IN IF L = {} THEN 0 ELSE CHOOSE j \in L : \A k \in L : j <= k

initCaseInfo(c, cs) ==
  [i \in DOMAIN cs |->
     [check  |-> IF IsDefault(cs[i]) THEN NoBlock ELSE Nth(c, 2 * i),
      real   |-> Nth(c, 2 * i + 1),
      hash   |-> CaseHash(cs, i),
      \* the search does not look at the kind of the clause it finds
      next   |-> IF \E j \in i + 1 .. Len(cs) : IsLiteral(cs[j]) /\ CaseHash(cs, j) = CaseHash(cs, i)
                 THEN Later(cs, i, LAMBDA j : CaseHash(cs, j) = CaseHash(cs, i)) ELSE 0]]

EmitComputedCases(c, cs, info, v) ==
  FoldLeft(LAMBDA d, i :
             IF ~IsComputed(cs[i]) THEN d
             ELSE LET d1 == emitBytecode(d, cs[i].e)
                  IN  push(Emit(d1, CondBr(<<"same", v, d1.val>>, info[i].real, info[i].check)), info[i].check),
           c, [i \in DOMAIN cs |-> i])

\* the check of a literal: it fails into the next clause of its hash, or out of the switch
EmitLiteralCheck(c, cs, info, v, end, i) ==
  LET failed == IF info[i].next = 0 THEN end ELSE info[info[i].next].check
  IN  IF failed = NoBlock THEN Abort(c)
      ELSE EmitAt(c, info[i].check, CondBr(<<"same", v, <<"const", cs[i].e.v>>>>, info[i].real, failed))

\* the hash the runtime gives the value switched on, which must be that of CaseHash
CodeGenJSValue32FunctionGetHashCode(v) == <<"hash", v>>

EmitLiteralCases(c, cs, info, v, end, default) ==
  LET lits    == {i \in DOMAIN cs : IsLiteral(cs[i])}
      heads   == {i \in lits : \A j \in lits : j < i => info[j].hash # info[i].hash}
      entries == SetToSeq({<<info[i].hash, info[i].check>> : i \in heads})
  IN  IF lits = {} THEN Emit(c, Br(default))
      ELSE FoldLeft(LAMBDA d, i : IF i \in lits THEN EmitLiteralCheck(d, cs, info, v, end, i) ELSE d,
                    Emit(c, Switch(CodeGenJSValue32FunctionGetHashCode(v), Len(cs), entries, default)), [i \in DOMAIN cs |-> i])

\* a body falls through into the next one; an empty clause has no SourceElements at all
EmitClause(c, cs, info, end, i) ==
  LET through == IF i = Len(cs) THEN end ELSE info[i + 1].real
      c1      == EmitAll(push(c, info[i].real), cs[i].ss)
  IN  IF cs[i].ss = <<>> THEN Abort(c) ELSE popBlock(BranchUnlessTerminated(c1, through), info[i].real)

EmitSwitch(c, s) ==
  LET end     == Nth(c, 1)
      info    == initCaseInfo(c, s.cs)
      dflt    == {i \in DOMAIN s.cs : IsDefault(s.cs[i])}
      default == IF dflt = {} THEN end ELSE info[CHOOSE i \in dflt : TRUE].real
      c1 == emitBytecode(CreateN(c, 2 * Len(s.cs) + 1), s.e)
      c2 == EmitComputedCases(c1, s.cs, info, c1.val)
      c3 == setBreakBlock(EmitLiteralCases(c2, s.cs, info, c1.val, end, default), end)
      c4 == FoldLeft(LAMBDA d, i : EmitClause(d, s.cs, info, end, i), c3, [i \in DOMAIN s.cs |-> i])
  IN  Returns(push(c4, end), NoValue)

\* an assignment or a call: what it does with the value is not modelled here
EmitUse(c, s) ==
  LET c1 == emitBytecode(c, s.e)
  IN  IF c1.val = NoValue THEN Abort(c1) ELSE Emit(c1, <<"use", s.id, c1.val>>)

(***************************************************************************)
(* FunctionBodyNode::emitBytecode: the body is emitted on top of the stack *)
(* of the function around it.                                              *)
(***************************************************************************)
EmitBody(c, ss) ==
  LET entry == Nth(c, 1)
      c1 == EmitAll(push(CreateN([c EXCEPT !.fn = entry], 1), entry), ss)
      c2 == IF Terminated(c1) THEN c1 ELSE Emit(c1, Ret(<<"const", "zero">>))
  IN  [popBlock(c2, entry) EXCEPT !.fn = c.fn]

EmitCall(c, e) ==
  LET c1 == emitBytecode(c, Body(e.ss))
  IN  IF c1.ok THEN Returns(Emit(c1, <<"call", Nth(c, 1), e.id>>), <<"leaf", e.id>>) ELSE c1

(***************************************************************************)
(* emitBytecode of every kind of node                                      *)
(***************************************************************************)
emitBytecode(c, n) ==
  CASE ~c.ok -> c
    [] c.ok /\ n.k = "leaf"     -> Returns(Emit(c, <<"eval", n.id, n.of>>), <<"leaf", n.id>>)
    [] c.ok /\ n.k = "const"    -> Returns(c, <<"const", n.v>>)
    [] c.ok /\ n.k = "not"      -> EmitUnaryOp(c, n)
    [] c.ok /\ n.k \in {"and", "or"} -> EmitLogicalOp(c, n)
    [] c.ok /\ n.k = "cond"     -> EmitConditional(c, n)
    [] c.ok /\ n.k = "call"     -> EmitCall(c, n)
    [] c.ok /\ n.k = "use"      -> EmitUse(c, n)
    [] c.ok /\ n.k = "expr"     -> emitBytecode(c, n.e)
    [] c.ok /\ n.k = "block"    -> IF n.ss = <<>> THEN Abort(c) ELSE EmitAll(c, n.ss)
    [] c.ok /\ n.k = "empty"    -> Returns(c, NoValue)
    [] c.ok /\ n.k = "if"       -> EmitIf(c, n)
    [] c.ok /\ n.k = "ifelse"   -> EmitIfElse(c, n)
    [] c.ok /\ n.k = "while"    -> EmitWhile(c, n)
    [] c.ok /\ n.k = "dowhile"  -> EmitDoWhile(c, n)
    [] c.ok /\ n.k = "for"      -> EmitFor(c, n)
    [] c.ok /\ n.k = "forin"    -> EmitForIn(c, n)
    [] c.ok /\ n.k = "break"    -> EmitBreak(c, n)
    [] c.ok /\ n.k = "continue" -> EmitContinue(c, n)
    [] c.ok /\ n.k = "return"   -> EmitReturn(c, n)
    [] c.ok /\ n.k = "label"    -> EmitLabel(c, n)
    [] c.ok /\ n.k = "switch"   -> EmitSwitch(c, n)
    [] c.ok /\ n.k = "body"     -> EmitBody(c, n.ss)

GenerateCode(ss) == emitBytecode(NoContext, Body(ss))

=============================================================================
