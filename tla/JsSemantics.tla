---------------------------- MODULE JsSemantics ----------------------------
(***************************************************************************)
(* What a JavaScript statement list does, and what the generated blocks    *)
(* do, both seen as the events an observer tells apart:                    *)
(*   <<"eval", id, of>>  leaf id is evaluated; its value is a member of of *)
(*   <<"use", id, b>>    a value, true or false as a condition, is used    *)
(*   <<"key", kind, n>>  the n-th key of a for-in                          *)
(*   <<"ret", b>>        the function returns                              *)
(*   <<"silent">>        nothing will be seen any more: an endless loop    *)
(*   <<"undefined">>     the blocks are not well formed where control is   *)
(* Between two events both sides are deterministic.                        *)
(***************************************************************************)
EXTENDS Emission

Falsy       == {"zero", "null", "undefined", "''", FalseV}
Truthy(v)   == v \notin Falsy
KeyCount(v) == CASE v = "array" -> 1 [] v = "object" -> 2 [] OTHER -> 0

Silent    == <<"silent">>
Undefined == <<"undefined">>

(***************************************************************************)
(* JavaScript (ECMA-262): the work left to do is a sequence of statements, *)
(* expressions and the items below; acc is the last value computed.        *)
(***************************************************************************)
Item(k, x)         == [k |-> k, x |-> x]
Choose2(a, b)      == [k |-> "choose", a |-> a, b |-> b]
LoopMark(n, s)     == [k |-> "loop", name |-> n, s |-> s]
KeyMark(n, s, v, i) == [k |-> "keys", name |-> n, s |-> s, v |-> v, i |-> i]
Matching(cs, is, v, test) == [k |-> "match", cs |-> cs, is |-> is, v |-> v, test |-> test]

IsLoopMark(i)  == i.k \in {"loop", "keys"}
IsCallMark(i)  == i.k = "callend"
InCall(todo)   == \E n \in DOMAIN todo : IsCallMark(todo[n])
IsBreakable(i) == IsLoopMark(i) \/ i.k = "switchend"

From(todo, Stops(_)) == SubSeq(todo, SelectInSeq(todo, Stops), Len(todo))
Opt(e)               == IF e = Null THEN <<>> ELSE <<e>>

\* the test of a loop and what follows it
Again(n, s) == <<s.c, Choose2(<<s.s, LoopMark(n, s)>>, <<>>)>>

EnterLoop(n, s) == CASE s.k = "while"   -> Again(n, s)
                     [] s.k = "dowhile" -> <<s.s, LoopMark(n, s)>>
                     [] s.k = "for"     -> Opt(s.a) \o Again(n, s)
                     [] s.k = "forin"   -> Opt(s.a) \o <<s.e, Item("enter", [name |-> n, s |-> s])>>

\* the clauses are tried in the order of the text, the default clause last
Bodies(cs, i) == FoldLeft(LAMBDA t, j : t \o cs[j].ss, <<>>, [j \in 1 .. Len(cs) - i + 1 |-> i + j - 1])
                   \o <<Item("switchend", 0)>>
TryClauses(cs, is, v) ==
  LET dflt == {i \in DOMAIN cs : IsDefault(cs[i])}
  IN  IF is # <<>> THEN <<cs[Head(is)].e, Matching(cs, is, v, TRUE)>>
      ELSE IF dflt = {} THEN <<>> ELSE Bodies(cs, CHOOSE i \in dflt : TRUE)

JsBreak(todo, n) ==
  Tail(From(todo, LAMBDA i : IF n = NoName THEN IsBreakable(i) ELSE i.k = "labelend" /\ i.x = n))
JsContinue(todo, n) ==
  From(todo, LAMBDA i : IsLoopMark(i) /\ (n = NoName \/ i.name = n))

\* one unobservable step of item i with the rest of the work; <<work, acc>>
JsStep(i, rest, acc) ==
  CASE i.k = "const"    -> <<rest, i.v>>
    [] i.k = "not"      -> <<<<i.e, Item("negate", 0)>> \o rest, acc>>
    [] i.k = "negate"   -> <<rest, IF Truthy(acc) THEN FalseV ELSE TrueV>>
    [] i.k = "and"      -> <<<<i.l, Choose2(<<i.r>>, <<>>)>> \o rest, acc>>
    [] i.k = "or"       -> <<<<i.l, Choose2(<<>>, <<i.r>>)>> \o rest, acc>>
    [] i.k = "cond"     -> <<<<i.c, Choose2(<<i.l>>, <<i.r>>)>> \o rest, acc>>
    [] i.k = "choose"   -> <<(IF Truthy(acc) THEN i.a ELSE i.b) \o rest, acc>>
    [] i.k = "use"      -> <<<<i.e, Item("used", i.id)>> \o rest, acc>>
    [] i.k = "expr"     -> <<<<i.e>> \o rest, acc>>
    [] i.k = "block"    -> <<i.ss \o rest, acc>>
    [] i.k = "empty"    -> <<rest, acc>>
    [] i.k = "if"       -> <<<<i.c, Choose2(<<i.s>>, <<>>)>> \o rest, acc>>
    [] i.k = "ifelse"   -> <<<<i.c, Choose2(<<i.s>>, <<i.t>>)>> \o rest, acc>>
    [] i.k \in {"while", "dowhile", "for", "forin"} -> <<EnterLoop(NoName, i) \o rest, acc>>
    [] i.k = "loop"     -> <<(IF i.s.k = "for" THEN Opt(i.s.b) ELSE <<>>) \o Again(i.name, i.s) \o rest, acc>>
    [] i.k = "enter"    -> <<<<KeyMark(i.x.name, i.x.s, acc, 0)>> \o rest, acc>>
    [] i.k = "keys"     -> <<IF i.i = KeyCount(i.v) THEN rest
                             ELSE <<Item("key", i), i.s.s, [i EXCEPT !.i = @ + 1]>> \o rest, acc>>
    [] i.k = "break"    -> <<JsBreak(rest, i.name), acc>>
    [] i.k = "continue" -> <<JsContinue(rest, i.name), acc>>
    [] i.k = "call"     -> <<i.ss \o <<Item("callend", 0)>> \o rest, acc>>
    [] i.k = "callend"  -> <<rest, "undefined">>
    [] i.k = "return"   -> <<Opt(i.e) \o <<Item(IF i.e = Null THEN "done" ELSE "returned", 0)>> \o rest, acc>>
    [] i.k \in {"done", "returned"} -> <<Tail(From(rest, IsCallMark)), IF i.k = "done" THEN "undefined" ELSE acc>>
    [] i.k = "label"    -> <<(IF i.s.k \in {"while", "dowhile", "for", "forin"} THEN EnterLoop(i.name, i.s) ELSE <<i.s>>)
                               \o <<Item("labelend", i.name)>> \o rest, acc>>
    [] i.k \in {"labelend", "switchend"} -> <<rest, acc>>
    [] i.k = "switch"   -> <<<<i.e, Matching(i.cs, SelectSeq([j \in DOMAIN i.cs |-> j], LAMBDA j : ~IsDefault(i.cs[j])), "", FALSE)>> \o rest, acc>>
    [] i.k = "match"    -> <<(IF ~i.test THEN TryClauses(i.cs, i.is, acc)
                              ELSE IF acc = i.v THEN Bodies(i.cs, Head(i.is))
                              ELSE TryClauses(i.cs, Tail(i.is), i.v)) \o rest, acc>>

\* the event item i is, if it is one
JsEvent(i, rest, acc) ==
  CASE i.k = "leaf" -> <<"eval", i.id, i.of>>
    [] i.k = "used" -> <<"use", i.x, Truthy(acc)>>
    [] i.k = "key"  -> <<"key", IF i.x.v = "array" THEN "index" ELSE "name", i.x.i>>
    [] i.k \in {"done", "returned"} /\ ~InCall(rest) -> <<"ret", i.k = "returned" /\ Truthy(acc)>>
    [] OTHER        -> <<>>

\* the next event, and the state in which it has happened; endless silence is cut after limit steps
RECURSIVE JsRun(_, _)
JsRun(j, limit) ==
  LET i    == IF j.todo = <<>> THEN Item("done", 0) ELSE Head(j.todo)
      rest == IF j.todo = <<>> THEN <<>> ELSE Tail(j.todo)
      next == JsStep(i, rest, j.acc)
      event == JsEvent(i, rest, j.acc)
  IN  IF event # <<>> THEN [event |-> event, todo |-> rest, acc |-> j.acc]
      ELSE IF limit = 0 THEN [event |-> Silent, todo |-> <<>>, acc |-> j.acc]
      ELSE JsRun([todo |-> next[1], acc |-> next[2]], limit - 1)

JsStart(ss)       == [todo |-> ss, acc |-> "undefined"]
JsOutcome(j, v)   == [todo |-> j.todo, acc |-> v]

(***************************************************************************)
(* The generated code: m.at is <<block, instruction>>, m.env has the       *)
(* values computed so far by the names the code has for them, and m.calls  *)
(* the calls to return from.  A branch into another function leads to      *)
(* NoBlock.                                                                *)
(***************************************************************************)
RECURSIVE ValueOf(_, _)
ValueOf(env, v) ==
  CASE v[1] = "const" -> v[2]
    [] v[1] = "not"   -> IF Truthy(ValueOf(env, v[2])) THEN FalseV ELSE TrueV
    [] v[1] = "hash"  -> HashOf[ValueOf(env, v[2])]
    [] v[1] = "same"  -> IF ValueOf(env, v[2]) = ValueOf(env, v[3]) THEN TrueV ELSE FalseV
    [] v[1] = "isArray" -> IF ValueOf(env, v[2]) = "array" THEN TrueV ELSE FalseV
    [] v[1] = "below" -> IF env[v[2]] < KeyCount(ValueOf(env, v[3])) THEN TrueV ELSE FalseV
    [] OTHER          -> env[v]

RECURSIVE Defined(_, _)
Defined(env, v) ==
  CASE v[1] = "const" -> TRUE
    [] v[1] \in {"not", "isArray", "hash"} -> Defined(env, v[2])
    [] v[1] \in {"same", "below"} -> Defined(env, v[2]) /\ Defined(env, v[3])
    [] OTHER          -> v \in DOMAIN env

\* a block may be entered if it ends in a terminator and has no other
WellFormed(block) ==
  block # <<>> /\ IsTerminator(Last(block)) /\ \A i \in 1 .. Len(block) - 1 : ~IsTerminator(block[i]) /\ block[i][1] # "deleted"

Bind(env, n, v) == [x \in DOMAIN env \cup {n} |-> IF x = n THEN v ELSE env[x]]

\* control goes to block b, whose PHI takes the value it has for the block left
Goto(g, m, b) ==
  LET p  == m.at[1]
      in == SelectSeq(g.phi[b], LAMBDA x : x[2] = p)
  IN  [m EXCEPT !.at  = IF g.owner[b] = g.owner[p] THEN <<b, 1>> ELSE <<NoBlock, 1>>,
                !.env = IF in # <<>> /\ Defined(@, Head(in)[1]) THEN Bind(@, <<"phi", b>>, ValueOf(@, Head(in)[1])) ELSE @]

\* the value an instruction reads
Reads(i) == CASE i[1] \in {"ret", "condbr", "switch"} -> i[2]
              [] i[1] \in {"use", "store"}            -> i[3]
              [] OTHER                                -> <<"const", "">>

CodeEvent(i, m) ==
  CASE i[1] = "eval"    -> i
    [] i[1] = "use"     -> <<"use", i[2], Truthy(ValueOf(m.env, i[3]))>>
    [] i[1] = "ret" /\ m.calls = <<>> -> <<"ret", Truthy(ValueOf(m.env, i[2]))>>
    [] i[1] = "showkey" -> <<"key", m.env[i[2]][1], m.env[i[2]][2]>>
    [] OTHER            -> <<>>

SwitchTarget(i, v) ==
  LET hit == SelectSeq(i[4], LAMBDA x : x[1] = v % i[3]) IN IF hit = <<>> THEN i[5] ELSE Head(hit)[2]

Advance(m) == [m EXCEPT !.at[2] = @ + 1]

CodeStep(g, m, i) ==
  LET Set(n, v) == [Advance(m) EXCEPT !.env = Bind(@, n, v)]
  IN CASE i[1] = "br"     -> Goto(g, m, i[2])
       [] i[1] = "condbr" -> Goto(g, m, IF Truthy(ValueOf(m.env, i[2])) THEN i[3] ELSE i[4])
       [] i[1] = "switch" -> Goto(g, m, SwitchTarget(i, ValueOf(m.env, i[2])))
       [] i[1] = "store"  -> Set(i[2], ValueOf(m.env, i[3]))
       [] i[1] = "first"  -> Set(i[2], 0)
       [] i[1] = "next"   -> Set(i[2], m.env[i[2]] + 1)
       [] i[1] = "setkey" -> Set(i[2], <<i[4], m.env[i[3]]>>)
       [] i[1] = "call"   -> [m EXCEPT !.at = <<i[2], 1>>, !.calls = <<[at |-> m.at, id |-> i[3]]>> \o @]
       [] i[1] = "ret"    -> [Advance([m EXCEPT !.at = Head(m.calls).at, !.calls = Tail(@)])
                                EXCEPT !.env = Bind(@, <<"leaf", Head(m.calls).id>>, ValueOf(m.env, i[2]))]

RECURSIVE CodeRun(_, _, _)
CodeRun(g, m, limit) ==
  LET b == IF m.at[1] = NoBlock THEN <<>> ELSE g.code[m.at[1]]
      i == b[m.at[2]]
      Seen(e, n) == [event |-> e, at |-> n.at, env |-> n.env, calls |-> n.calls]
  IN  IF ~WellFormed(b) \/ ~Defined(m.env, Reads(i)) THEN Seen(Undefined, m)
      ELSE IF CodeEvent(i, m) # <<>> THEN Seen(CodeEvent(i, m), Advance(m))
      ELSE IF limit = 0 THEN Seen(Silent, m)
      ELSE CodeRun(g, CodeStep(g, m, i), limit - 1)

CodeStart         == [at |-> <<1, 1>>, env |-> [x \in {} |-> ""], calls |-> <<>>]
CodeOutcome(m, v) == [at |-> m.at, env |-> Bind(m.env, <<"leaf", m.event[2]>>, v), calls |-> m.calls]

=============================================================================
