----------------------------- MODULE MCMapObject -----------------------------
(***************************************************************************)
(* Small instances of MapObject.  The keys are values on which the         *)
(* runtime's SameValueZero is ECMAScript's (MCValues), and a symbol.       *)
(***************************************************************************)
EXTENDS MapObject

PlainKeys == {Five, ObjA}
WithSymbol == {ObjA, SymA}
TwoVals   == {True, False}
OneVal    == {True}
=============================================================================
