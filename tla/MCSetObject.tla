----------------------------- MODULE MCSetObject -----------------------------
(***************************************************************************)
(* Small instances of SetObject.                                           *)
(***************************************************************************)
EXTENDS SetObject

PlainKeys  == {Five, ObjA}
WithSymbol == {Five, ObjA, SymA}
=============================================================================
