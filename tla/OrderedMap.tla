----------------------------- MODULE OrderedMap -----------------------------
(***************************************************************************)
(* What a JavaScript Map (or Set) promises: a dictionary whose keys are    *)
(* distinct under SameValueZero, kept in insertion order, with no trace of *)
(* what was removed.                                                       *)
(***************************************************************************)
EXTENDS Values, Naturals, Sequences, TLC

CONSTANTS Keys,   \* the values used as keys
          Vals    \* the values stored

VARIABLES dict,   \* the sequence of live entries, in insertion order
          last    \* the last call: its name, its key and its answer

vars == <<dict, last>>

Self      == Value("OBJECT", "this")
Number(n) == Value("NUMBER", ToString(n))

Places(k) == {i \in DOMAIN dict : SameValueZeroES6(dict[i].key, k)}

Answer(method, k, r) == last' = Call(method, k, r)

Init == dict = <<>> /\ last = Call("none", Undefined, Undefined)

Put(k, v) ==
  /\ Answer("put", k, Self)
  /\ dict' = IF Places(k) = {}
             THEN Append(dict, [key |-> k, value |-> v])
             ELSE [i \in DOMAIN dict |->
                     IF i \in Places(k) THEN [dict[i] EXCEPT !.value = v]
                                        ELSE dict[i]]

Get(k) ==
  /\ Answer("get", k, IF Places(k) = {} THEN Undefined
                      ELSE dict[CHOOSE i \in Places(k) : TRUE].value)
  /\ UNCHANGED dict

Has(k) == Answer("has", k, Truth(Places(k) # {})) /\ UNCHANGED dict

\* The dictionary without what it holds at place i.
Without(i) ==
  [n \in 1..(Len(dict) - 1) |-> IF n < i THEN dict[n] ELSE dict[n + 1]]

Remove(k) ==
  /\ Answer("delete", k, Truth(Places(k) # {}))
  /\ dict' = IF Places(k) = {} THEN dict
             ELSE Without(CHOOSE i \in Places(k) : TRUE)

\* A remove that is refused whatever the dictionary holds.
RefuseRemove(k) == Answer("delete", k, False) /\ UNCHANGED dict

Size == Answer("size", Undefined, Number(Len(dict))) /\ UNCHANGED dict

Clear == Answer("clear", Undefined, Undefined) /\ dict' = <<>>

\* The constructor starts from nothing.
Construct == Answer("construct", Undefined, Self) /\ dict' = <<>>

ForEach == Answer("forEach", Undefined, Undefined) /\ UNCHANGED dict

Calls == \/ \E k \in Keys, v \in Vals : Put(k, v)
         \/ \E k \in Keys : Get(k) \/ Has(k)
         \/ Size \/ Clear \/ Construct \/ ForEach

Spec == Init /\ [][Calls \/ \E k \in Keys : Remove(k)]_vars

SpecWithoutDelete == Init /\ [][Calls \/ \E k \in Keys : RefuseRemove(k)]_vars
=============================================================================
