--------------------------- MODULE MCTypedArrays ----------------------------
(* Three buffers and two views, with words of four bits: sizes, offsets    *)
(* and lengths wrap, and 15 is what a slice takes for -1.                  *)
EXTENDS TypedArrays

ThreeBuffers == 1..3
TwoViews == 11..12
Bits == 0..1
OneOrTwo == {1, 2}
Stored == {<<1, 0>>}
SomeCounts == {4, 8}
SomeOffsets == {1, 2, 15}
SomeIndices == {-1, 0, 1}

\* Everything but the last access, which no later step depends on.
State == <<buffers, blocks, views, held, status>>

Objects == {b \in Buffers : buffers[b] # NONE} \cup {v \in Views : views[v] # NONE}

SetBytes == SumFunction([b \in Buffers |-> FoldFunction(+, 0, blocks[b])])

\* Inside its buffer.
Tame(o) ==
  IF o \in Buffers THEN Regular(o)
  ELSE views[o].byteOffset + views[o].length * views[o].elem <= MaxBlock

\* Two objects, one of them forgotten; a view on a slice; or three objects, and
\* four if they are a view on a slice of a slice, that stay inside each other.
Small ==
  /\ Running
  /\ SetBytes <= 1
  /\ \/ Cardinality(Objects) <= 2 /\ Cardinality(Objects \ held) <= 1
     \/ /\ Objects = {1, 2, 11} /\ Objects \subseteq held
        /\ buffers[2].kind = "slice" /\ SetBytes = 0
     \/ /\ Objects \subseteq held \cup {1}
        /\ \A b \in (Objects \cap Buffers) \ {1} : buffers[b].kind = "slice"
        /\ \A o \in Objects : Tame(o)
        /\ \/ Cardinality(Objects) <= 3
           \/ Objects = {1, 2, 3, 11} /\ buffers[3].buf = 2 /\ 1 \notin held

=============================================================================
