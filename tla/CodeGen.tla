------------------------------ MODULE CodeGen ------------------------------
(***************************************************************************)
(* A program, the blocks the code generator makes of it, and both running  *)
(* side by side: js is the program under the rules of JavaScript, run the  *)
(* generated code.  A step lets both go on to their next event; what the   *)
(* evaluation of a leaf gives is chosen and the same for both.             *)
(***************************************************************************)
EXTENDS JsSemantics

CONSTANTS Programs,             \* the statement lists to compile
          Limit                 \* silence longer than this is an endless loop

VARIABLES prog, gen, js, run
vars == <<prog, gen, js, run>>

\* the compiler has stopped: nothing runs
NotCompiled == [event |-> <<"aborted">>, at |-> <<NoBlock, 1>>, env |-> CodeStart.env, calls |-> <<>>]

Init == /\ prog \in Programs
        /\ gen = GenerateCode(prog)
        /\ js = JsRun(JsStart(prog), Limit)
        /\ run = IF gen.ok THEN CodeRun(gen, CodeStart, Limit) ELSE NotCompiled

Agree == js.event = run.event

\* a leaf is evaluated: JavaScript of any kind runs and gives any of its values
Evaluate ==
  /\ Agree /\ js.event[1] = "eval"
  /\ \E v \in js.event[3] :
       /\ js'  = JsRun(JsOutcome(js, v), Limit)
       /\ run' = CodeRun(gen, CodeOutcome(run, v), Limit)
  /\ UNCHANGED <<prog, gen>>

\* a value is used, or the body of a for-in runs for a key
Observe ==
  /\ Agree /\ js.event[1] \in {"use", "key"}
  /\ js'  = JsRun(js, Limit)
  /\ run' = CodeRun(gen, run, Limit)
  /\ UNCHANGED <<prog, gen>>

Next == Evaluate \/ Observe
Spec == Init /\ [][Next]_vars

(***************************************************************************)
(* The programs the generator is made for.  What a break, a continue or a  *)
(* logical operator branches to is whatever the stack of blocks holds, so  *)
(* a statement fits only where the stack holds the right targets:          *)
(*   sc.brk      the nearest break target is the innermost loop's/switch's *)
(*   sc.cont     the nearest continue target is the innermost loop's       *)
(*   sc.free     there is no target at all, so `&&' and `||' give a value  *)
(* Most statements leave targets behind and nothing fits after them but    *)
(* statements that need none.                                              *)
(***************************************************************************)
Scope(b, c, f) == [brk |-> b, cont |-> c, free |-> f]
Outermost      == Scope(FALSE, FALSE, TRUE)
Stale          == Scope(FALSE, FALSE, FALSE)
InLoop         == Scope(TRUE, TRUE, FALSE)

RECURSIVE Simple(_), Logical(_, _)
\* no branch: the value of the expression is a value of the code
Simple(e) == e.k = "leaf" \/ (e.k = "const" /\ e.v \in {"zero", "one"}) \/ (e.k = "not" /\ Simple(e.e) /\ ~isConstant(e))
\* `&&' and `||' of those; a negation only where the parts branch instead of meeting
Logical(e, negations) ==
  \/ e.k \in {"and", "or"} /\ \A x \in {e.l, e.r} : (Simple(x) /\ ~isConstant(x) /\ (negations \/ x.k # "not")) \/ Logical(x, negations)
  \/ negations /\ e.k = "not" /\ Logical(e.e, negations)

RECURSIVE Fits(_, _), FitsAll(_, _), ValueFits(_, _), Jumps(_)
ChoiceFits(e, sc) == e.k = "cond" /\ Simple(e.c) /\ Simple(e.l) /\ Simple(e.r)
CallFits(e, sc)   == e.k = "call" /\ FitsAll(e.ss, IF sc.free THEN Outermost ELSE Stale)
ValueFits(e, sc)  == Simple(e) \/ ChoiceFits(e, sc) \/ CallFits(e, sc) \/ (sc.free /\ Logical(e, FALSE))
TestFits(e, sc)   == Simple(e) \/ (e.k \in {"and", "or"} /\ Logical(e, TRUE))

\* what the stack holds after the statement
After(s, sc) ==
  CASE s.k \in {"while", "dowhile", "for", "forin"} -> Stale
    [] s.k = "switch"         -> Scope(FALSE, sc.cont, FALSE)
    [] s.k \in {"if", "ifelse"} -> IF Simple(s.c) THEN sc ELSE Stale
    [] OTHER                  -> sc

\* control never comes out at the end: what would follow has no block
Jumps(s) == \/ s.k \in {"break", "continue", "return"}
            \/ s.k = "ifelse" /\ Jumps(s.s) /\ Jumps(s.t)
            \/ s.k = "block" /\ s.ss # <<>> /\ Jumps(Last(s.ss))
            \/ s.k = "label" /\ Jumps(s.s)

\* IfNode asks its body for a value, and these statements have none
HasValue(s) == \/ s.k \notin {"if", "ifelse", "while", "dowhile", "switch", "empty", "block"}
               \/ s.k = "block" /\ s.ss # <<>> /\ Last(s.ss).k \notin {"if", "ifelse", "while", "dowhile", "switch", "empty"}

FitsAll(ss, sc) ==
  ss = <<>> \/ (Fits(Head(ss), sc) /\ (Tail(ss) = <<>> \/ (~Jumps(Head(ss)) /\ FitsAll(Tail(ss), After(Head(ss), sc)))))

SwitchFits(s, sc) ==
  /\ Simple(s.e) /\ \A i \in DOMAIN s.cs : s.cs[i].ss # <<>> /\ FitsAll(s.cs[i].ss, Scope(TRUE, sc.cont, FALSE))
  /\ \/ \A i \in DOMAIN s.cs : IsLiteral(s.cs[i])
     \/ \A i \in DOMAIN s.cs : ~IsLiteral(s.cs[i]) /\ (IsComputed(s.cs[i]) => Simple(s.cs[i].e))

Fits(s, sc) ==
  CASE s.k \in {"use", "expr"} -> ValueFits(s.e, sc)
    [] s.k = "return"   -> s.e = Null \/ ValueFits(s.e, sc)
    [] s.k = "block"    -> s.ss # <<>> /\ FitsAll(s.ss, sc)
    [] s.k = "empty"    -> TRUE
    [] s.k = "break"    -> s.name = NoName /\ sc.brk
    [] s.k = "continue" -> s.name = NoName /\ sc.cont
    [] s.k = "if"       -> TestFits(s.c, sc) /\ HasValue(s.s) /\ Fits(s.s, After(s, sc))
    [] s.k = "ifelse"   -> TestFits(s.c, sc) /\ Fits(s.s, After(s, sc)) /\ Fits(s.t, After(s, sc))
    [] s.k = "while"    -> TestFits(s.c, sc) /\ Fits(s.s, InLoop)
    [] s.k = "dowhile"  -> TestFits(s.c, sc) /\ ~Simple(s.c) /\ Fits(s.s, Scope(TRUE, FALSE, FALSE))
    [] s.k = "for"      -> (s.a = Null \/ Simple(s.a)) /\ Simple(s.c) /\ (s.b = Null \/ Simple(s.b)) /\ Fits(s.s, InLoop)
    [] s.k = "forin"    -> (s.a = Null \/ Simple(s.a)) /\ Simple(s.e) /\ Fits(s.s, InLoop)
    [] s.k = "switch"   -> SwitchFits(s, sc)
    [] s.k = "label"    -> Fits(s.s, sc)

ProgramFits(ss) == FitsAll(ss, Outermost)

(***************************************************************************)
(* Properties                                                              *)
(***************************************************************************)
\* The code of a program the generator is made for does what JavaScript
\* asks: the same leaves are evaluated in the same order, the same
\* branches are taken, every value used is the right one, and no loop is
\* entered, left or repeated that should not be.
SameEvents == ProgramFits(prog) => Agree

\* the branches of the generated code
Edges == UNION {{<<p, b>> : b \in Targets(Last(gen.code[p]))} : p \in {q \in DOMAIN gen.code : HasTerminator(gen, q)}}
Preds(b) == {e[1] : e \in {d \in Edges : d[2] = b}}

\* What LLVM requires of a function and the generator, which never runs
\* the verifier, must see to by itself: a branch stays in its function and
\* leads to a block with one terminator, at its end, which was not deleted;
\* and a PHI has exactly one value for each block control can come from.
BlocksAreComplete ==
  ProgramFits(prog) =>
    /\ \A e \in Edges : WellFormed(gen.code[e[2]]) /\ gen.owner[e[1]] = gen.owner[e[2]]
    /\ \A b \in DOMAIN gen.code :
         (gen.phi[b] # <<>> /\ Preds(b) # {}) =>
           /\ Len(gen.phi[b]) = Cardinality(Preds(b))
           /\ {gen.phi[b][n][2] : n \in DOMAIN gen.phi[b]} = Preds(b)

=============================================================================
