----------------------------- MODULE MCStrings ------------------------------
(***************************************************************************)
(* One literal of two letters that differ in case, and the strings made of *)
(* it.                                                                     *)
(***************************************************************************)
EXTENDS Strings

TwoLetters == {"a", "A"}
OneLiteral == <<<<"a", "A">>>>
SmallNumbers == {-1, 1, 2}
=============================================================================
