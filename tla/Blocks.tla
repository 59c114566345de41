------------------------------- MODULE Blocks -------------------------------
(***************************************************************************)
(* The state of the code generator while it turns a syntax tree into basic *)
(* blocks (CodeGenContext in CodeGen.h and CodeGen.cpp).  LLVM itself is   *)
(* kept to what the control flow needs: a block is a sequence of           *)
(* instructions, and its successors are those of its last one.             *)
(*                                                                         *)
(* A context c is a record:                                                *)
(*   c.code   the blocks created so far; block b is c.code[b]              *)
(*   c.phi    for each block, the incoming <<value, block>> of its PHI     *)
(*   c.owner  for each block, the function it belongs to (its entry block) *)
(*   c.fn     the function being emitted                                   *)
(*   c.stack  the CodeGenBlocks, bottom first; the last one is topBlock    *)
(*   c.val    what the last emitBytecode returned                          *)
(*   c.ok     FALSE once the compiler has called abort() or dereferenced   *)
(*            NULL: the process is gone and the rest of c means nothing    *)
(***************************************************************************)
EXTENDS Integers, Sequences, SequencesExt, FiniteSets

NoBlock == 0
NoName  == ""
NoValue == <<>>                       \* a NULL llvm::Value*

NoContext == [code |-> <<>>, phi |-> <<>>, owner |-> <<>>, fn |-> 1, stack |-> <<>>,
              val |-> NoValue, ok |-> TRUE]

Returns(c, v) == [c EXCEPT !.val = v]
Abort(c)      == [c EXCEPT !.ok = FALSE, !.val = NoValue]

(***************************************************************************)
(* Blocks and instructions.  Terminators are the instructions that name    *)
(* the blocks control may go to, and the return.                           *)
(***************************************************************************)
Br(b)                == <<"br", b>>
CondBr(v, t, f)      == <<"condbr", v, t, f>>
Switch(v, n, cs, d)  == <<"switch", v, n, cs, d>>    \* v mod n is looked up in cs
Ret(v)               == <<"ret", v>>

Targets(i) == CASE i[1] = "br"     -> {i[2]}
                [] i[1] = "condbr" -> {i[3], i[4]}
                [] i[1] = "switch" -> {i[4][k][2] : k \in DOMAIN i[4]} \cup {i[5]}
                [] OTHER           -> {}

IsTerminator(i) == i[1] \in {"br", "condbr", "switch", "ret"}

\* n calls of BasicBlock::Create, and the number of the n-th block made on top of those of c
CreateN(c, n) == LET Each(x) == [i \in 1 .. n |-> x]
                 IN  [c EXCEPT !.code = @ \o Each(<<>>), !.phi = @ \o Each(<<>>), !.owner = @ \o Each(c.fn)]
Nth(c, n)     == Len(c.code) + n

HasTerminator(c, b) == c.code[b] # <<>> /\ IsTerminator(Last(c.code[b]))
HasPreds(c, b) == \E p \in DOMAIN c.code : HasTerminator(c, p) /\ b \in Targets(Last(c.code[p]))

EmitAt(c, b, i) == IF c.ok THEN [c EXCEPT !.code[b] = Append(@, i)] ELSE c
AddIncoming(c, b, v, from) == IF c.ok THEN [c EXCEPT !.phi[b] = Append(@, <<v, from>>)] ELSE c
\* `delete block': a later use of the block is a use of freed memory
Delete(c, b) == IF c.ok THEN [c EXCEPT !.code[b] = <<<<"deleted">>>>] ELSE c

(***************************************************************************)
(* The stack of CodeGenBlocks.                                             *)
(***************************************************************************)
CodeGenBlock(b, n) == [block |-> b, break |-> NoBlock, continue |-> NoBlock, name |-> n]

currentBlock(c) == Last(c.stack).block
Emit(c, i)      == EmitAt(c, currentBlock(c), i)
Terminated(c)   == c.ok /\ HasTerminator(c, currentBlock(c))

setBreakBlock(c, b) == IF c.stack = <<>> THEN c ELSE [c EXCEPT !.stack[Len(c.stack)].break = b]
setContinueBlock(c, b) == IF c.stack = <<>> THEN c ELSE [c EXCEPT !.stack[Len(c.stack)].continue = b]

\* the element nearest the top that passes the test, or 0
Nearest(c, Passes(_)) ==
  LET hits == {i \in DOMAIN c.stack : Passes(c.stack[i])}
  IN  IF hits = {} THEN 0 ELSE CHOOSE i \in hits : \A j \in hits : j <= i

getBreakBlock(c) ==
  LET i == Nearest(c, LAMBDA e : e.break # NoBlock)
  IN  IF i = 0 THEN NoBlock ELSE c.stack[i].break

getContinueBlock(c) ==
  LET i == Nearest(c, LAMBDA e : e.continue # NoBlock)
  IN  IF i = 0 THEN NoBlock ELSE c.stack[i].continue

findBlock(c, n) ==
  LET i == Nearest(c, LAMBDA e : e.name = n)
  IN  IF i = 0 THEN NoBlock ELSE c.stack[i].block

pushBlock(c, b, n) == [c EXCEPT !.stack = Append(@, CodeGenBlock(b, n))]

\* pops through the named block, or everything when it is not on the stack
popBlock(c, b) ==
  LET i == Nearest(c, LAMBDA e : e.block = b)
  IN  [c EXCEPT !.stack = IF i = 0 THEN <<>> ELSE SubSeq(@, 1, i - 1)]

push(c, b) == pushBlock(c, b, NoName)

\* mutant for BlocksAreComplete: the branch is made whatever ends the block
BranchAlways(c, b) == Emit(c, Br(b))

\* if (NULL == currentBlock()->getTerminator()) BranchInst::Create(b, currentBlock())
BranchUnlessTerminated(c, b) == IF Terminated(c) THEN c ELSE Emit(c, Br(b))

=============================================================================
