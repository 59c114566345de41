------------------------------ MODULE MCArrays ------------------------------
(***************************************************************************)
(* Small instances of Arrays.                                              *)
(***************************************************************************)
EXTENDS Arrays

CONSTANTS A, B

TwoVals  == {A, B}
ArgLists == {<<>>, <<A>>, <<A, B>>}

NearStarts  == {-2, 0, 1}
SomeIndices == {-1, 0, 2}
=============================================================================
