------------------------------ MODULE MCCodeGen ------------------------------
(***************************************************************************)
(* Programs for CodeGen: every shape of condition in every statement with  *)
(* a condition, around every shape of body, and followed by statements     *)
(* that meet what the first one left on the stack.                         *)
(***************************************************************************)
EXTENDS CodeGen

L(i) == Leaf(i, {"zero", "one"})
U(i) == Use(i, L(i + 100))                            \* x = f(); the use of a plain value
A(i) == ExprStmt(L(i + 200))

\* conditions, made of the leaves i, i + 1, ...
Plain(i) == {L(i), Not(i + 10, L(i))}
Logic(i) ==
  {And(i + 10, L(i), L(i + 1)), Or(i + 10, L(i), L(i + 1)),
   And(i + 10, L(i), Not(i + 11, L(i + 1))), Not(i + 10, Or(i + 11, L(i), L(i + 1))),
   Or(i + 10, Not(i + 11, And(i + 12, L(i), L(i + 1))), L(i + 2)),
   And(i + 10, Or(i + 11, L(i), L(i + 1)), Or(i + 12, L(i + 2), L(i + 3))),
   Or(i + 10, And(i + 11, L(i), L(i + 1)), Not(i + 12, Or(i + 13, L(i + 2), Not(i + 14, L(i + 3)))))}
Odd(i) == {Const(i, "one"), Const(i, "zero"), Cond(i + 10, L(i), L(i + 1), L(i + 2)),
           And(i + 10, Const(i, "one"), L(i + 1)), Or(i + 10, L(i), Const(i + 1, "zero"))}
Conditions(i) == Plain(i) \cup Logic(i) \cup Odd(i)

\* bodies: of anything, and of a loop only
Jump == {Break(NoName), Continue(NoName), Return(Null)}
AnyBody(i) ==
  {U(i), Empty, Return(Null), Use(i + 4, Or(i + 5, L(i), L(i + 1))),
   If(L(i), U(i + 1)), IfElse(L(i), Return(L(i + 1)), U(i + 2)),
   Block(<<If(And(i + 3, L(i), L(i + 1)), Return(Null)), U(i + 2)>>),
   Block(<<While(L(i), Break(NoName)), U(i + 1)>>),
   SwitchStmt(L(i), <<Clause(Const(i + 1, "one"), <<U(i + 2), Break(NoName)>>), Clause(Null, <<U(i + 3)>>)>>)}
LoopBody(i) ==
  Jump \cup {Block(<<U(i), Break(NoName)>>), IfElse(L(i), Break(NoName), Continue(NoName))}
  \cup {Block(<<If(c, j), U(i + 2)>>) : c \in {L(i + 1), And(i + 3, L(i), L(i + 1))}, j \in Jump}
  \cup {Block(<<While(L(i), U(i + 1)), Break(NoName)>>),
        Block(<<SwitchStmt(L(i), <<Clause(Const(i + 1, "one"), <<U(i + 2), Break(NoName)>>)>>), U(i + 3)>>),
        SwitchStmt(L(i), <<Clause(Const(i + 1, "zero"), <<Continue(NoName)>>), Clause(Const(i + 2, "one"), <<U(i + 3)>>)>>)}
Ends(i) == {<<>>, <<U(i)>>, <<Use(i, And(i + 1, L(i + 2), L(i + 3)))>>, <<Return(Or(i, L(i + 1), L(i + 2)))>>,
            <<While(And(i, L(i + 1), L(i + 2)), Break(NoName)), U(i + 3)>>}

First ==
  {If(c, s) : c \in Conditions(1), s \in AnyBody(30)} \cup
  {IfElse(c, s, U(60)) : c \in Conditions(1), s \in AnyBody(30)} \cup
  {While(L(59), If(c, s)) : c \in Conditions(1), s \in LoopBody(30)} \cup
  {While(c, s) : c \in Conditions(1), s \in AnyBody(30) \cup LoopBody(30)} \cup
  {DoWhile(s, c) : c \in Conditions(1), s \in AnyBody(30) \cup LoopBody(30)} \cup
  {For(L(60), c, L(61), s) : c \in Conditions(1), s \in AnyBody(30) \cup LoopBody(30)} \cup
  {ForIn(70, a, Leaf(71, {"array", "object", "none"}), s) : a \in {Null, L(69)}, s \in AnyBody(30) \cup LoopBody(30)} \cup
  {Use(60, c) : c \in Conditions(1)} \cup
  {Use(61, Call(60, <<IfElse(c, Return(L(62)), Return(L(63)))>>)) : c \in Conditions(1)}

\* "one" and "three" meet in every table of two clauses, "zero" and "three" in one of three
Vs   == {"zero", "one", "three"}
Hash == [v \in Vs \cup {"array", "object", "none"} |->
          CASE v = "zero" -> 3 [] v = "one" -> 1 [] v = "three" -> 9 [] OTHER -> 5]

\* what example_all.js has: line 64, and the switch of lines 69-99 without its literals
Examples ==
  LET a(i) == L(i)
  IN {<<Use(1, And(10, And(11, And(12, a(1), a(9)), Or(13, And(14, a(2), a(0)), And(15, And(16, a(4), a(3)), a(5)))),
                       Or(17, a(6), And(18, a(7), a(8)))))>>,
      <<SwitchStmt(Leaf(1, Vs), <<Clause(Leaf(2, Vs), <<U(3), Break(NoName)>>), Clause(Null, <<U(4), Break(NoName)>>),
                                  Clause(Leaf(5, Vs), <<U(6)>>), Clause(Leaf(7, Vs), <<U(8), Break(NoName)>>)>>), U(9)>>}

\* one switch over literals, without and with a default clause
Literals(ends) == {SwitchStmt(Leaf(1, Vs), <<Clause(Const(2, v), <<U(3)>> \o e), Clause(Const(4, w), <<U(5)>> \o f), Clause(Const(6, x), <<U(7)>>)>>) :
                     v \in Vs, w \in Vs, x \in Vs, e \in ends, f \in ends}

Candidates == {<<s>> \o e : s \in First, e \in Ends(80)} \cup Examples
                \cup {<<s, U(9)>> : s \in Literals({<<>>, <<Break(NoName)>>})}
Fitting    == {p \in Candidates : ProgramFits(p)}

=============================================================================
