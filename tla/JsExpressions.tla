--------------------------- MODULE JsExpressions ---------------------------
(***************************************************************************)
(* What an expression means in JavaScript, and the expressions whose code  *)
(* means the same.  The state j has the variables j.env (those of          *)
(* j.globals an event may change), the events so far in j.trace, and in    *)
(* j.st the values of the parts evaluated so far; j.tys is the type of the *)
(* answer to each event.  j.args are the arguments of the function around  *)
(* it.                                                                     *)
(***************************************************************************)
EXTENDS Expressions

Push(j, v)        == [j EXCEPT !.st = Append(@, v)]
Top(j, i)         == j.st[Len(j.st) - i]
Pop(j, n)         == [j EXCEPT !.st = SubSeq(@, 1, Len(@) - n)]
Replace(j, n, v)  == Push(Pop(j, n), v)
Set(j, x, v)      == [j EXCEPT !.env = [y \in DOMAIN @ \cup {x} |-> IF y = x THEN v ELSE @[y]]]

\* the n values on top are replaced by the answer to the event e
Does(j, e, n, as) ==
  LET tr == Append(j.trace, Event(e, as))
      j1 == [j EXCEPT !.trace = tr,
                      !.env = [x \in DOMAIN @ |-> IF x \in j.globals /\ e \notin Quiet THEN Changed(j.tys[e], tr) ELSE @[x]]]
  IN  Replace(j1, n, Answer(j.tys[e], tr))

Values(j, n)      == SubSeq(j.st, Len(j.st) - n + 1, Len(j.st))
GetKey(j)         == Does(j, "get", 2, Values(j, 2))
Name(j, x)        == IF x \in DOMAIN j.env THEN Push(j, j.env[x]) ELSE GetKey(Push(Push(j, j.env["this"]), Str(x)))

\* of base, key and value; the value is what is left
PutKey(j)         == LET v == Top(j, 0) IN Replace(Does(j, "set", 3, Values(j, 3)), 1, v)

OneStep(op, v)    == Arith(IF op = "plusplus" THEN "add" ELSE "sub", v, Num("1"))

\* ++ and -- of a variable, and of a base and a key
StepName(j, x, op, prefix) ==
  LET old == j.env[x] IN Push(Set(j, x, OneStep(op, old)), IF prefix THEN OneStep(op, old) ELSE Number(old))

StepKey(j, op, prefix) ==
  LET j1  == GetKey(Push(Push(j, Top(j, 1)), Top(j, 0)))
      old == Top(j1, 0)
      j2  == PutKey(Replace(j1, 1, OneStep(op, old)))
  IN  IF prefix THEN j2 ELSE Replace(j2, 1, Number(old))

\* base, key and the n arguments are on top: the method is fetched before the arguments are evaluated, see Parts
CallMethod(j, n) ==
  LET this == Top(j, n + 1)
      f    == Top(j, n)
  IN  Does(j, "call", n + 2, <<f, this>> \o Values(j, n))

\* the constructor and its n arguments
Construct(j, n) ==
  LET f    == Top(j, n)
      args == Values(j, n)
      j1   == GetKey(Push(Push(j, f), Str("prototype")))
      j2   == Does(j1, "creator", 0, <<f>>)
      proto == Top(j2, 1)
      j3   == IF Top(j2, 0).t = "undef" THEN Does(j2, "create", 2, <<proto>>)
              ELSE Does(j2, "call", 2, <<Top(j2, 0), f, proto>>)
      obj  == Top(j3, 0)
      j4   == Does(j3, "call", n + 2, <<f, obj>> \o args)
  IN  IF Top(j4, 0).t = "obj" THEN j4 ELSE Replace(j4, 1, obj)

\* the parts of an expression that are evaluated, in order; the name a variable update is about is not
Parts(s) ==
  CASE s.k \in {"assign", "prefix", "postfix"} /\ s.e[1].k = "id" -> Tail(s.e)
    [] s.k \in {"assign", "prefix", "postfix"} /\ s.e[1].k # "id" -> s.e[1].e \o Tail(s.e)
    [] s.k = "typeof" /\ s.e[1].k = "id"                 -> <<>>
    [] s.k = "call" /\ s.e[1].k = "id"                   -> IF s.e[1].x = "eval" THEN Tail(s.e) ELSE s.e
    [] s.k = "call" /\ s.e[1].k = "dot"                  -> <<Expr("method", "", s.e[1].x, s.e[1].e)>> \o Tail(s.e)
    [] s.k = "body"                                      -> <<Last(s.e)>>
    [] s.k = "var"                                       -> SelectSeq(s.e, LAMBDA d : d.k = "assign")
    [] OTHER                                             -> s.e

\* The value a compound assignment starts from is read before the right side.
\* What var declares is undefined, and an array or object is made before its parts.
Params(s)         == [i \in 1..Len(s.e) - 1 |-> s.e[i].x]
Argument(j, i)    == IF i > Len(j.args) THEN Undef ELSE j.args[i]

\* the last parameter of a name has it
Enter(j, s) ==
  LET ps == Params(s)
      j1 == FoldLeft(LAMBDA acc, i : Set(acc, ps[i], Argument(j, i)), j, [i \in DOMAIN ps |-> i])
      j2 == Does([j1 EXCEPT !.globals = @ \ ToSet(ps)], "arguments", 0, j.args)
  IN  Pop(Set(j2, "arguments", Top(j2, 0)), 1)

First(j, s) ==
  CASE s.k = "assign" /\ s.e[1].k = "id" /\ s.op # "=" -> Name(j, s.e[1].x)
    [] s.k = "var"    -> FoldLeft(LAMBDA acc, d : IF d.k = "id" THEN Set(acc, d.x, Undef) ELSE acc, j, s.e)
    [] s.k = "body"   -> Enter(j, s)
    [] s.k = "array"  -> Does(j, "array", 0, <<>>)
    [] s.k = "object" -> Does(j, "create", 0, <<Lit("obj", "Object.prototype")>>)
    [] OTHER          -> j

Finish(j, s) ==
  LET onName == s.e # <<>> /\ s.e[1].k = "id"
      key    == IF s.e # <<>> /\ s.e[1].k = "dot" THEN Push(j, Str(s.e[1].x)) ELSE j
      v      == Top(j, 0)
  IN  CASE s.k = "num"     -> Push(j, Num(s.x))
        [] s.k = "str"     -> Push(j, Str(s.x))
        [] s.k = "null"    -> Push(j, NullV)
        [] s.k = "true"    -> Push(j, Bool(TRUE))
        [] s.k = "this"    -> Push(j, j.env["this"])
        [] s.k = "id"      -> Name(j, s.x)
        [] s.k = "dot"     -> GetKey(Push(j, Str(s.x)))
        [] s.k = "bracket" -> GetKey(j)
        [] s.k = "method"  -> LET b == v IN GetKey(Push(Push(j, b), Str(s.x)))
        [] s.k = "assign" /\ onName /\ s.op = "=" -> Set(j, s.e[1].x, v)
        [] s.k = "assign" /\ onName /\ s.op # "=" ->
             LET r == Binary(s.op, Top(j, 1), v) IN Replace(Set(j, s.e[1].x, r), 2, r)
        [] s.k = "assign" /\ s.e[1].k = "dot" -> PutKey(Push(Push(Pop(j, 1), Str(s.e[1].x)), v))
        [] s.k = "assign" /\ s.e[1].k = "bracket" -> PutKey(j)
        [] s.k \in {"prefix", "postfix"} /\ onName  -> StepName(j, s.e[1].x, s.op, s.k = "prefix")
        [] s.k \in {"prefix", "postfix"} /\ ~onName -> StepKey(key, s.op, s.k = "prefix")
        [] s.k = "call" /\ onName /\ s.e[1].x = "eval" -> Does(j, "eval", Len(s.e) - 1, Values(j, Len(s.e) - 1))
        [] s.k = "call" /\ onName /\ s.e[1].x # "eval" ->
             Does(j, "call", Len(s.e), <<Top(j, Len(s.e) - 1), j.env["this"]>> \o Values(j, Len(s.e) - 1))
        [] s.k = "call" /\ s.e[1].k = "dot"       -> CallMethod(j, Len(s.e) - 1)
        [] s.k = "new"     -> Construct(j, Len(s.e) - 1)
        [] s.k = "typeof" /\ onName  -> Push(j, TypeOf(IF s.e[1].x \in DOMAIN j.env THEN j.env[s.e[1].x] ELSE Undef))
        [] s.k = "typeof" /\ ~onName -> Replace(j, 1, TypeOf(v))
        [] s.k = "void"    -> Replace(j, 1, Undef)
        [] s.k = "neg"     -> Replace(j, 1, Term("num", "neg", 0, <<Number(v)>>))
        [] s.k = "not"     -> Replace(j, 1, Term("num", "not", 0, <<Number(v)>>))
        [] s.k = "plus"    -> Replace(j, 1, Number(v))
        [] s.k = "function" -> Does(j, "function", 0, <<Lit("fn", s.x)>>)
        [] s.k = "regexp"  -> Does(j, "regexp", 0, <<Str(s.x), Str("")>>)
        [] s.k = "return"  -> IF s.e = <<>> THEN Push(j, Undef) ELSE j
        [] s.k = "element" -> Pop(PutKey(Push(Push(Push(Pop(j, 1), Top(j, 1)), Index(s.x)), v)), 1)
        [] s.k = "property" -> Pop(Does(j, "define", 1, <<Top(j, 1), Str(s.x), v>>), 1)
        [] s.k \in {"array", "object", "var", "body"} -> j
        [] s.k = "const"   -> Set(j, s.x, v)
        [] s.k = "comma"   -> Replace(j, 2, v)
        [] s.k = "binary"  -> Replace(j, 2, Binary(s.op, Top(j, 1), v))

RECURSIVE Evaluate(_, _)
Evaluate(j, s) == Finish(FoldLeft(LAMBDA acc, p : Evaluate(acc, p), First(j, s), Parts(s)), s)

(***************************************************************************)
(* The fragment whose code means the same.  types has the types of the     *)
(* variables at the start, and declares their names; g is global.          *)
(***************************************************************************)
RECURSIVE Sub(_)
Sub(s) == {s} \cup UNION {Sub(s.e[i]) : i \in DOMAIN s.e}

Updates(t)       == t.k \in {"assign", "prefix", "postfix"} /\ t.e[1].k = "id"
Names(s)         == {t.x : t \in {t \in Sub(s) : t.k = "id"}}
Acts(s, types)   == \/ \E t \in Sub(s) : t.k \in {"call", "new", "bracket", "dot", "array", "object", "function", "regexp"}
                    \/ Names(s) \ DOMAIN types # {}
Writes(s, types) == {t.e[1].x : t \in {t \in Sub(s) : Updates(t)}} \cup (IF Acts(s, types) THEN {"g"} ELSE {})

\* the variables whose pointer an expression leaves behind, to be read later
Late(s)          == IF s.k = "id" THEN {s.x} ELSE IF s.k = "assign" /\ s.e[1].k = "id" THEN {s.e[1].x} ELSE {}

\* a function is no closure yet
Unmade(s)        == s.k = "function"

\* Operands emitted in order must not be changed by a later one, and an undeclared name is fetched once.
Ordered(ps, types) ==
  \A i, j \in DOMAIN ps : i < j =>
    /\ Late(ps[i]) \cap Writes(ps[j], types) = {}
    /\ Unmade(ps[i]) => ~Acts(ps[j], types)
    /\ Names(ps[i]) \cap Names(ps[j]) \subseteq DOMAIN types

\* Operands emitted in any order must not matter to each other.
Apart(l, r, types) ==
  /\ ~(Acts(l, types) /\ Acts(r, types))
  /\ Writes(l, types) \cap Names(r) = {}
  /\ Writes(r, types) \cap Names(l) = {}
  /\ Names(l) \cap Names(r) \subseteq DOMAIN types

RECURSIVE IsDouble(_)
IsDouble(s) ==
  \/ s.k = "num"
  \/ s.k \in {"neg", "not"} /\ IsDouble(s.e[1])
  \/ s.k = "binary" /\ s.op \in Arithmetic \cup {"lsh", "rsh"} /\ IsDouble(s.e[1])
IsTruth(s)       == s.k = "binary" /\ s.op \in Relational \cup Equality
Literals(s)      == s.e[1].k = "num" /\ s.e[2].k = "num"

\* a variable that has one of the types ts all along, and a literal that has one
Stays(s, ts, all, types) == s.k = "id" /\ s.x \in DOMAIN types \ Writes(all, types) /\ types[s.x] \in ts

LiteralType == [str |-> "str", null |-> "null", true |-> "bool"]
IsOf(s, ts, all, types) == Stays(s, ts, all, types) \/ (s.k \in DOMAIN LiteralType /\ LiteralType[s.k] \in ts)

FitsBinary(s, all, types) ==
  LET l == s.e[1]
      r == s.e[2]
  IN  /\ Apart(l, r, types)
      /\ \/ s.op \in Arithmetic \cup Relational \cup {"eq", "neq", "stricteq", "instanceof"}
           \/ (s.op \in {"lsh", "rsh"} /\ Literals(s))
      /\ s.op # "instanceof" => ~IsTruth(l) /\ ~Unmade(l)
      /\ s.op = "mul" /\ ~Literals(s) => l # Expr("num", "", "1", <<>>) /\ r # Expr("num", "", "1", <<>>)
      /\ s.op \in Equality => ~(l = r /\ l.k = "id")
      /\ IsDouble(l) =>
           /\ ~Unmade(r)
           /\ s.op \notin {"neq", "stricteq"}
           /\ s.op = "add" => IsDouble(r) \/ IsOf(r, {"num", "bool", "undef", "null"}, all, types)
           /\ s.op = "eq"  => IsDouble(r) \/ IsOf(r, {"num", "str", "bool"}, all, types)

\* the base of s and the name g, which the event before its last use may change
KeepsBase(s)     == "g" \notin Late(s)
IsObject(s, all, types) == s.k = "this" \/ Stays(s, {"obj"}, all, types)

FitsUpdate(s, all, types, tys) ==
  LET l == s.e[1]
  IN  CASE l.k = "id" /\ s.k = "assign" /\ s.op = "=" ->
             l.x # "k" /\ (l.x \notin DOMAIN types => l.x \notin Names(s.e[2]))
        [] l.k = "id" /\ s.k = "assign" /\ s.op # "=" ->
             l.x \in DOMAIN types \ {"k"} /\ l.x \notin Writes(s.e[2], types)
        [] l.k = "id" /\ s.k = "prefix"  -> l.x \in DOMAIN types \ {"k"}
        [] l.k = "id" /\ s.k = "postfix" ->
             /\ l.x \in DOMAIN types \ {"k"}
             /\ s # all => /\ types[l.x] = "num" /\ l.x # "g"
                           /\ \A t \in Sub(all) : Updates(t) /\ t.e[1] = l => t = s
        [] l.k = "dot" /\ s.k = "assign"  -> s.op = "=" /\ Apart(l.e[1], s.e[2], types)
        [] l.k = "dot" /\ s.k = "prefix"  -> KeepsBase(l.e[1])
        [] l.k = "dot" /\ s.k = "postfix" -> KeepsBase(l.e[1]) /\ (s # all => tys["get"] = "num")
        [] l.k = "bracket" /\ s.k = "assign" -> s.op = "=" /\ s = all /\ Ordered(l.e \o <<s.e[2]>>, types)
        [] l.k = "bracket" /\ s.k = "prefix" -> KeepsBase(l.e[1]) /\ KeepsBase(l.e[2])
        [] OTHER -> FALSE

FitsCall(s, types) ==
  LET f == s.e[1]
  IN  CASE f.k = "id" /\ f.x = "eval" -> Ordered(Tail(s.e), types)
        [] f.k = "id" /\ f.x # "eval" -> f.x \in DOMAIN types /\ Ordered(s.e, types)
        [] f.k = "dot"                -> KeepsBase(f.e[1]) /\ Ordered(f.e \o Tail(s.e), types)
        [] OTHER                      -> FALSE

FitsNew(s, types, tys) ==
  /\ s.e[1].k = "id" /\ s.e[1].x \in DOMAIN types \ {"g"}
  /\ Ordered(s.e, types)
  /\ \A i \in DOMAIN s.e \ {1} : ~Acts(s.e[i], types) /\ "g" \notin Names(s.e[i])
  /\ tys["call"] # "obj"
  /\ types[s.e[1].x] = "obj"
  /\ tys["creator"] = "undef" => tys["get"] = "obj"

Fit(s, all, types, tys) ==
  CASE s.k = "function" -> s # all
    [] s.k \in {"void", "return"} -> s.e # <<>> /\ (s.k = "void" => ~Unmade(s.e[1]))
    [] s.k = "bracket" -> IsObject(s.e[1], all, types) /\ Ordered(s.e, types)
    [] s.k \in {"assign", "prefix", "postfix"} -> FitsUpdate(s, all, types, tys)
    [] s.k = "call"    -> FitsCall(s, types)
    [] s.k = "new"     -> FitsNew(s, types, tys)
    [] s.k = "typeof"  -> ~(s.e[1].k = "assign" /\ s.e[1].e[1].k = "id")
    [] s.k \in {"neg", "not"} -> s.e[1].k = "num"
    [] s.k \in {"plus", "delete", "object"} -> FALSE
    [] s.k = "array"   -> \A i, j \in DOMAIN s.e : i < j => Names(s.e[i]) \cap Names(s.e[j]) \subseteq DOMAIN types
    [] s.k = "const"   -> s.x \notin DOMAIN types /\ s.x \notin Names(s.e[1])
    [] s.k = "var"     -> \A i \in DOMAIN s.e :
                            /\ s.e[i].k = "assign" /\ s.e[i].e[1].x \notin DOMAIN types
                            /\ \A j \in DOMAIN s.e : i < j => Names(s.e[i]) \cap Names(s.e[j]) \subseteq DOMAIN types
    [] s.k = "comma"   -> s = all /\ ~Unmade(s.e[1]) /\ ~Unmade(s.e[2]) /\ Names(s.e[1]) \cap Names(s.e[2]) \subseteq DOMAIN types
    [] s.k = "binary"  -> FitsBinary(s, all, types)
    [] OTHER           -> TRUE

\* the types of the variables in a function: of two parameters of a name the code keeps the last that was given
InBody(s, types, args) ==
  [x \in DOMAIN types \cup ToSet(Params(s)) \cup {"arguments"} |->
     IF x = "arguments" THEN "obj"
     ELSE IF x \notin ToSet(Params(s)) THEN types[x]
     ELSE LET i == CHOOSE i \in DOMAIN Params(s) : Params(s)[i] = x IN IF i > Len(args) THEN "undef" ELSE args[i].t]

\* an argument changed through arguments is the parameter changed in JavaScript, and a copy here
Fits(s, types, tys, args) ==
  LET ret == Last(s.e)
      ts  == InBody(s, types, args)
  IN  IF s.k # "body" THEN \A t \in Sub(s) : Fit(t, s, types, tys)
      ELSE /\ IsInjective(Params(s)) /\ "arguments" \notin ToSet(Params(s)) \cup Names(s)
           /\ \A t \in Sub(ret) : Fit(t, ret, ts, tys)
=============================================================================
