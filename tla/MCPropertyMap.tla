---------------------------- MODULE MCPropertyMap ----------------------------
(* Small instances of PropertyMap: a table that grows twice and then       *)
(* cannot, with names that collide in every size it has.                   *)
EXTENDS PropertyMap, TLC

CONSTANTS n1, n2, n3, n4

Addresses     == {n1, n2, n3, n4}

FourNames  == {StrA, Five, ObjA, SymA}

\* StrA and ObjA collide in a table of 2, StrA and Five in one of 3.
HashOf == [n \in Names |-> CASE n = StrA -> 1 [] n = Five -> 4
                             [] n = ObjA -> 3 [] OTHER -> 0]

SmallPrimes == <<2, 3, 5>>

Interchangeable == Permutations(Nodes)
TwoDescs == {"d1", "d2"}
=============================================================================
