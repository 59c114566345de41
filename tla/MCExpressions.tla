--------------------------- MODULE MCExpressions ---------------------------
(***************************************************************************)
(* Every small expression, in every typing of the variables and answers,   *)
(* is compiled and run, and evaluated as JavaScript does.                  *)
(***************************************************************************)
EXTENDS JsExpressions, FiniteSets

CONSTANTS Rich        \* the names and literals the larger expressions have

Id(x)      == Expr("id", "", x, <<>>)
Dot(e, x)  == Expr("dot", "", x, <<e>>)
At(e, k)   == Expr("bracket", "", "", <<e, k>>)
Op(k, op, es) == Expr(k, op, "", es)
One        == Expr("num", "", "1", <<>>)
Two        == Expr("num", "", "2", <<>>)
Leaves     == {One, Two, Expr("str", "", "s", <<>>), Expr("null", "", "", <<>>), Expr("true", "", "", <<>>), Expr("this", "", "", <<>>)}
                \cup {Id(x) : x \in {"x", "y", "g", "u"}}
Few        == {s \in Leaves : s.x \in Rich}

\* one operation over the leaves ls; os are the objects and fs the functions it is about
Places(ls) == {Id("x"), Id("g"), Id("u"), Dot(Id("o"), "p"), Dot(Id("g"), "p"), At(Id("o"), Id("x"))}
Steps      == {"plusplus", "minusminus"}
Joins2(ops, ls, rs) == {Op("binary", op, <<l, r>>) : op \in ops, l \in ls, r \in rs}
Assigns(ops, ps, rs) == {Op("assign", op, <<p, r>>) : op \in ops, p \in ps, r \in rs}
Calls(as)  == {Op("call", "", <<f, a>>) : f \in {Id("f"), Dot(Id("o"), "m"), Dot(Id("g"), "m"), Id("eval")}, a \in as}
                \cup {Op("new", "", <<Id("f"), a>>) : a \in as}
Unary(as)  == {Op(k, "", <<a>>) : k \in {"typeof", "void", "delete", "neg", "plus", "not"}, a \in as}
Reads(as)  == {Dot(a, "p") : a \in as} \cup {At(Id("o"), a) : a \in as} \cup {At(Id("g"), a) : a \in as}

Pair(l, r) == Op("array", "", <<Expr("element", "", "0", <<l>>), Expr("element", "", "1", <<r>>)>>)
Literals2(as) == {Pair(l, r) : l \in as, r \in as} \cup {Op("object", "", <<Expr("property", "", "p", <<l>>)>>) : l \in as}
Declarations(as, bs) ==
  {Expr("const", "", c, <<a>>) : c \in {"c", "x"}, a \in as}
    \cup {Op("var", "", <<v>>) : v \in {Id("v"), Id("x")} \cup Assigns({"="}, {Id("v"), Id("x")}, as)}
    \cup {Op("var", "", <<v, Op("assign", "=", <<Id("w"), a>>)>>) : v \in {Id("v")} \cup Assigns({"="}, {Id("v")}, bs), a \in as}

Small      == Leaves
  \cup Joins2(Arithmetic \cup Relational \cup Equality \cup {"lsh", "and", "in", "instanceof"}, Leaves, Leaves)
  \cup Assigns({"=", "add", "sub", "rsh"}, Places(Leaves) \cup {Id("k")}, Leaves)
  \cup {Op(k, op, <<p>>) : k \in {"prefix", "postfix"}, op \in Steps, p \in Places(Leaves)}
  \cup Calls(Leaves) \cup Unary(Leaves) \cup Reads(Leaves)
  \cup {Op("comma", "", <<l, r>>) : l \in Leaves, r \in Leaves}
  \cup Literals2(Leaves) \cup Declarations(Leaves, Leaves)

\* the parts of the larger expressions
Parts1     == Few
  \cup Joins2({"add", "less"}, Few, Few)
  \cup Assigns({"=", "add"}, Places(Few), Few)
  \cup {Op(k, "plusplus", <<p>>) : k \in {"prefix", "postfix"}, p \in Places(Few)}
  \cup Calls(Few) \cup Reads(Few) \cup {Op("typeof", "", <<a>>) : a \in Few}

Function   == Expr("function", "", "h", <<>>)
Values2    == {Function, Expr("regexp", "", "r", <<>>)}
Returns    == {Op("return", "", <<>>)} \cup {Op("return", "", <<a>>) : a \in Leaves \cup Parts1 \cup Values2}
                 \cup {Op("return", "", <<Op("typeof", "", <<Id("arguments")>>)>>)}
Bodies     == {Op("body", "", ps \o <<r>>) : ps \in {<<Id("x"), Id("y")>>, <<Id("y"), Id("y")>>, <<Id("g")>>}, r \in Returns}

\* a function or a regular expression where a value may be
Makes      ==
  Values2 \cup Joins2({"add", "eq", "sub", "less", "instanceof"}, Few \cup Values2, Values2) \cup Joins2({"add", "instanceof"}, Values2, Few)
    \cup Assigns({"=", "add"}, Places(Few), Values2) \cup Calls(Values2) \cup Unary(Values2) \cup Reads(Values2)
    \cup {Op("call", "", <<Id("f"), a, b>>) : a \in Values2, b \in Parts1} \cup {Op("comma", "", <<a, b>>) : a \in Few, b \in Values2}
    \cup {Pair(a, b) : a \in Values2, b \in Few \cup Values2} \cup Declarations(Values2, Values2) \cup {Op("call", "", <<a>>) : a \in Values2}

Large      ==
  Joins2({"add", "eq"}, Few, Parts1) \cup Joins2({"add", "eq"}, Parts1, Few)
  \cup Assigns({"=", "add"}, Places(Few), Parts1) \cup Calls(Parts1)
  \cup {Op("call", "", <<Id("f"), a, b>>) : a \in Few, b \in Parts1}
  \cup {Op("assign", "=", <<Dot(a, "p"), b>>) : a \in Parts1, b \in Few}
  \cup {Op("assign", "=", <<At(Id("o"), a), b>>) : a \in Parts1, b \in Few}
  \cup {Op(k, op, <<a>>) : k \in {"prefix", "postfix"}, op \in {"plusplus"}, a \in Parts1}
  \cup {Op("call", "", <<a, b>>) : a \in Parts1, b \in Few}
  \cup Unary(Parts1) \cup Reads(Parts1) \cup Declarations(Parts1, Few)
  \cup {Pair(a, b) : a \in Few, b \in Parts1}

\* the types of the variables, and of the answers
Typings    == {[x |-> t[1], y |-> t[2], g |-> t[3], k |-> "num", f |-> "obj", o |-> "obj", this |-> "obj"] :
                 t \in {<<"num", "str", "obj">>, <<"str", "num", "num">>, <<"undef", "obj", "str">>}}
Answers    == {[call |-> t[1], get |-> t[2], creator |-> t[3], set |-> "bool", create |-> "obj", array |-> "obj", define |-> "bool", eval |-> "num",
                function |-> "obj", regexp |-> "obj", arguments |-> "obj"] :
                 t \in {<<"num", "undef", "undef">>, <<"str", "obj", "undef">>, <<"obj", "num", "obj">>, <<"num", "num", "obj">>}}

(***************************************************************************)
(* Compiled and run                                                        *)
(***************************************************************************)
\* the arguments a function is called with
Given      == {<<>>, <<Lit("obj", "first")>>, <<Lit("num", "first"), Lit("str", "second")>>}

Variables  == <<"x", "y", "g", "k", "f", "o", "this">>
Start(types, x) == Term(types[x], "start", 0, <<Str(x)>>)
Machine(types, tys, args, order) ==
  [mem |-> FoldLeft(LAMBDA mem, x : Append(mem, Start(types, x)), <<>>, Variables),
   scope |-> [x \in DOMAIN types |-> CHOOSE a \in DOMAIN Variables : Variables[a] = x],
   globals |-> {"g"}, consts |-> {"k"}, trace |-> <<>>, st |-> <<>>, tys |-> tys, args |-> args, ok |-> TRUE, order |-> order]
Script(types, tys, args) ==
  [env |-> [x \in DOMAIN types |-> Start(types, x)], globals |-> {"g"}, trace |-> <<>>, st |-> <<>>, tys |-> tys, args |-> args]

\* The value of an assignment to a property by a key, of a list and of x++ on its own is nobody's.
Unused(e)  == e.k \in {"comma", "postfix", "var", "const"} \/ (e.k = "assign" /\ e.e[1].k = "bracket")

Agree(m, j, e) ==
  /\ m.ok
  /\ m.trace = j.trace
  /\ \A x \in DOMAIN j.env : x \in DOMAIN m.scope /\ m.mem[m.scope[x]] = j.env[x]
  /\ ~Unused(e) => Load(m, Nth(m, 0)) = Top(j, 0)

VARIABLES expr, types, tys, args, order
vars == <<expr, types, tys, args, order>>

Init ==
  /\ expr \in Small \cup Large \cup Makes \cup Bodies
  /\ types \in Typings
  /\ tys \in Answers
  /\ args \in IF expr.k = "body" THEN Given ELSE {<<>>}
  /\ order = "none"

\* the compiler, built by a C++ compiler that emits the left or the right argument first
Compile ==
  /\ order = "none"
  /\ order' \in {"left", "right"}
  /\ UNCHANGED <<expr, types, tys, args>>

Next == Compile
Spec == Init /\ [][Next]_vars

(***************************************************************************)
(* An expression of the fragment makes the same calls in the same order    *)
(* with the same values, leaves the same variables and has the same value, *)
(* whichever operand of an operator the C++ compiler emits first.          *)
(***************************************************************************)
SameMeaning ==
  order # "none" /\ Fits(expr, types, tys, args) =>
    Agree(Emit(Machine(types, tys, args, order), Parse(expr)), Evaluate(Script(types, tys, args), expr), expr)
=============================================================================
