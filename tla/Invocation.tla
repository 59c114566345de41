----------------------------- MODULE Invocation -----------------------------
(***************************************************************************)
(* How a call reaches a function of the program (ejs-function.c): through  *)
(* call, apply and any chain of bind, whose target, this and arguments lie *)
(* in the slots of an environment (ejs-closureenv.c); and the arguments    *)
(* object the function then makes (ejs-arguments.c).  Beside each the      *)
(* definition of ECMAScript.                                               *)
(*                                                                         *)
(* A function is its C function and its environment.  What a call comes to *)
(* is the function reached, the this it sees and its arguments, or how the *)
(* process ends.                                                           *)
(***************************************************************************)
EXTENDS Operators
LOCAL Seqs == INSTANCE SequencesExt

Code(name) == [code |-> name, env |-> <<>>]

\* What is no function: a proxy, which counts as callable, and an object.
Proxy == [code |-> "proxy", env |-> <<>>]
Other == [code |-> "none", env |-> <<>>]

IsFunctionObject(f) == f.code \notin {"proxy", "none"}

Hole == Value("MAGIC", "hole")

Ends(how) == [reached |-> Other, this |-> Plain(Undefined), args |-> <<>>, ends |-> how]

-----------------------------------------------------------------------------
\* The slots of the environment of a bound function.
TargetSlot == 0
ThisSlot   == 1
ArgcSlot   == 2
FirstArg   == 3

\* _ejs_closureenv_new: every slot is written before it is read.
EnvNew(length) == [s \in 0..(length - 1) |-> Undefined]

\* bind, called on target: an environment with a slot for each argument.
BindTo(target, this, args) ==
  [code |-> "bound_wrapper",
   env  |-> [s \in DOMAIN EnvNew(FirstArg + Len(args)) |->
               CASE s = TargetSlot -> target
                 [] s = ThisSlot   -> this
                 [] s = ArgcSlot   -> Len(args)
                 [] OTHER          -> args[s - FirstArg + 1]]]

\* One that copies args[i] for args[i + 1].
BindShifted(target, given) ==
  BindTo(target, IF given = <<>> THEN Undefined ELSE Head(given),
                 IF given = <<>> THEN <<>> ELSE SubSeq(given, 1, Len(given) - 1))

Bind(target, given) ==
  BindTo(target, IF given = <<>> THEN Undefined ELSE Head(given),
                 IF given = <<>> THEN <<>> ELSE Tail(given))

\* The bound arguments: the block of slots that begins with the first.
BoundArgs(env) == [i \in 1..env[ArgcSlot] |-> env[FirstArg + i - 1]]

AsObject(this) == IF this \in {Undefined, Null} THEN Plain(this) ELSE ToObject(this)

\* The C call of a function.  The wrapper of a bound one ignores this and
\* goes through _ejs_invoke_closure, which refuses what is no function and
\* makes an object of a primitive this.
RECURSIVE Enter(_, _, _)
Enter(f, this, args) ==
  IF f.code # "bound_wrapper"
  THEN [reached |-> f, this |-> this, args |-> args, ends |-> "no"]
  ELSE IF ~IsFunctionObject(f.env[TargetSlot]) THEN Ends("aborted")
  ELSE Enter(f.env[TargetSlot],
             AsObject(f.env[ThisSlot]),
             BoundArgs(f.env) \o args)

InvokeClosure(f, this, args) ==
  IF ~IsFunctionObject(f) THEN Ends("aborted")
  ELSE Enter(f, AsObject(this), args)

\* call enters the function without a look at what it is called on.
FunctionCall(f, given) ==
  IF ~IsFunctionObject(f) THEN Ends("undefined")
  ELSE Enter(f, Plain(IF given = <<>> THEN Undefined ELSE Head(given)),
                IF given = <<>> THEN <<>> ELSE Tail(given))

\* A list for apply: undefined, a primitive, an array, an arguments object,
\* or an object without a length.
List(kind, items) == [kind |-> kind, items |-> items]

\* An array gives its block, holes included; undefined read as a number of
\* elements has no defined meaning.
FunctionApply(f, this, list) ==
  CASE ~(IsFunctionObject(f) \/ f = Proxy)  -> Ends("aborted")
    [] list.kind = "undefined"              -> InvokeClosure(f, this, <<>>)
    [] list.kind = "primitive"              -> Ends("aborted")
    [] list.kind = "object" \/ f = Proxy    -> Ends("undefined")
    [] OTHER                                -> Enter(f, Plain(this), list.items)

-----------------------------------------------------------------------------
\* The arguments object: a copy of what the function was given.  Its [[Get]]
\* lets the index behind the last one through.
ArgumentsGet(args, index) ==
  IF index < 0 \/ index > Len(args) THEN Plain(Undefined)
  ELSE IF index = Len(args) THEN Outcome("beyond", Undefined, Undefined)
  ELSE Plain(args[index + 1])

ArgumentsHas(args, index) == index >= 0 /\ index < Len(args)

-----------------------------------------------------------------------------
(***************************************************************************)
(* A call as a program writes it: base.bind(...).bind(...) and then        *)
(* .call(this, items), .apply(this, list) or, of the runtime, an           *)
(* invocation.  What the code makes of it, and ECMAScript: the first bind  *)
(* decides this, the arguments are appended in order, a hole is undefined. *)
(***************************************************************************)
Reached(c) ==
  IF c.binds # <<>> /\ ~(IsFunctionObject(c.base) \/ c.base = Proxy) THEN Ends("aborted")
  ELSE LET f == Seqs!FoldLeft(Bind, c.base, c.binds)
       IN CASE c.how = "call"   -> FunctionCall(f, <<c.this>> \o c.list.items)
            [] c.how = "apply"  -> FunctionApply(f, c.this, c.list)
            [] c.how = "invoke" -> InvokeClosure(f, c.this, c.list.items)

ThisES6(c) == IF c.binds = <<>> THEN c.this
              ELSE IF Head(c.binds) = <<>> THEN Undefined ELSE Head(Head(c.binds))

ArgumentsES6(c) ==
  LET bound == Seqs!FoldLeft(LAMBDA all, given : all \o SubSeq(given, 2, Len(given)), <<>>, c.binds)
      items == [i \in DOMAIN c.list.items |->
                  IF c.list.items[i] = Hole THEN Undefined ELSE c.list.items[i]]
  IN bound \o items

\* A proxy stands for one whose target is not callable.
ReachedES6(c) ==
  IF ~IsFunctionObject(c.base) \/ (c.how = "apply" /\ c.list.kind = "primitive")
  THEN Ends("aborted")
  ELSE [reached |-> c.base, this |-> Plain(ThisES6(c)), args |-> ArgumentsES6(c), ends |-> "no"]
=============================================================================
