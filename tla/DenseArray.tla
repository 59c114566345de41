----------------------------- MODULE DenseArray -----------------------------
(***************************************************************************)
(* The storage of a dense array (EJSArray, ejs-array.[ch]) and the         *)
(* internal methods that read and write it.  An array is a record: its     *)
(* length, the size of the block `elements' points to, the cells of that   *)
(* block by address, and the fault, if any, that ended its life: a cell    *)
(* outside the block was read or written ("bounds"), or one of a block     *)
(* already freed ("freed"), the length became negative ("length"), or the  *)
(* process was stopped ("abort").                                          *)
(***************************************************************************)
EXTENDS Integers, Sequences

CONSTANTS Vals,    \* the values a program stores
          Undef,   \* undefined
          Zero,    \* +0, the value whose bits are all zero
          Hole,    \* EJS_ARRAY_HOLE
          Garbage, \* a cell not written since malloc, or left behind the length
          Spare,   \* cells a new array has beyond its length (5)
          Slack    \* cells a reallocation adds beyond its need (32)

ASSUME ArrayAssumption ==
  /\ Spare \in Nat /\ Slack \in Nat
  /\ Hole \notin Vals \cup {Undef, Zero} /\ Garbage \notin Vals \cup {Undef, Zero, Hole}

Cells == Vals \cup {Undef, Zero, Hole, Garbage}

Block(n, content(_)) == [i \in 0..(n - 1) |-> content(i)]

Array(len, alloc, mem) ==
  [len |-> len, alloc |-> alloc, mem |-> mem, fault |-> "none"]

Failed(a, why) == [a EXCEPT !.fault = why]

\* _ejs_array_new (n, EJS_TRUE): holes; with EJS_FALSE whatever was there.
NewFilled(n) ==
  Array(n, n + Spare, Block(n + Spare, LAMBDA i : IF i < n THEN Hole ELSE Garbage))

NewRaw(n) == Array(n, n + Spare, Block(n + Spare, LAMBDA i : Garbage))

\* A copy of the arguments, which is what Array(a, b) and [a, b] make.
NewCopy(vs) ==
  Array(Len(vs), Len(vs) + Spare,
        Block(Len(vs) + Spare,
              LAMBDA i : IF i < Len(vs) THEN vs[i + 1] ELSE Garbage))

\* `new Array(n)': calloc, and no spare cell.
NewZeroed(n) == Array(n, n, Block(n, LAMBDA i : Zero))

\* What a program sees of a cell.
Seen(cell) == IF cell = Hole THEN Undef ELSE cell

Contents(a) == [p \in 1..a.len |-> Seen(a.mem[p - 1])]

-----------------------------------------------------------------------------
\* A reallocation that forgets the cells it was asked to add.
GrowWithoutAmount(a, amount) ==
  IF a.len + amount <= a.alloc THEN a
  ELSE Array(a.len, a.len + Slack,
             Block(a.len + Slack,
                   LAMBDA i : IF i < a.len THEN a.mem[i] ELSE Garbage))

\* A reallocation that counts the new cells and keeps the old block.
GrowKeepingBlock(a, amount) ==
  IF a.len + amount <= a.alloc THEN a
  ELSE [a EXCEPT !.alloc = a.len + amount + Slack]

\* maybe_realloc_dense: room for `amount' cells beyond the length.
Grow(a, amount) ==
  IF a.len + amount <= a.alloc THEN a
  ELSE LET n == a.len + amount + Slack
       IN  Array(a.len, n,
                 Block(n, LAMBDA i : IF i < a.len THEN a.mem[i] ELSE Garbage))

(***************************************************************************)
(* A store to an index at or past the end of the block asks for            *)
(* index - alloc + 1 cells beyond the LENGTH, so the block may stay too    *)
(* short for the store when the array is not full.                         *)
(***************************************************************************)
GrowFor(a, index) ==
  IF index >= a.alloc THEN Grow(a, index - a.alloc + 1) ELSE a

\* Cells lo .. hi-1 become `cell'.
Paint(a, lo, hi, cell) ==
  [a EXCEPT !.mem = [i \in DOMAIN @ |-> IF lo <= i /\ i < hi THEN cell ELSE @[i]]]

(***************************************************************************)
(* The array cut to its first n elements.  The code leaves the others      *)
(* where they are; no operation may bring them back, so they count as      *)
(* garbage from here on.                                                   *)
(***************************************************************************)
CutTo(a, n) == [Paint(a, n, a.len, Garbage) EXCEPT !.len = n]

\* A store that leaves the cells between the old end and the index alone.
StoreNoHoles(a, index, v) ==
  LET b == GrowFor(a, index)
  IN  IF index \notin 0..(b.alloc - 1) THEN Failed(a, "bounds")
      ELSE [Paint(b, index, index + 1, v)
              EXCEPT !.len = IF index >= b.len THEN index + 1 ELSE b.len]

\* [[Set]] and [[DefineOwnProperty]] of an index.
Store(a, index, v) ==
  LET b == GrowFor(a, index)
  IN  IF index \notin 0..(b.alloc - 1) THEN Failed(a, "bounds")
      ELSE [Paint(Paint(b, b.len, index, Hole), index, index + 1, v)
              EXCEPT !.len = IF index >= b.len THEN index + 1 ELSE b.len]

\* A length that grows without making holes.
SetLengthNoHoles(a, n) ==
  IF n < 0 THEN Failed([a EXCEPT !.len = -1], "length")
  ELSE LET b == IF n > a.alloc THEN Grow(a, n - a.alloc + 1) ELSE a
       IN  IF n > b.alloc THEN Failed(a, "bounds")
           ELSE IF n < b.len THEN CutTo(b, n) ELSE [b EXCEPT !.len = n]

(***************************************************************************)
(* [[DefineOwnProperty]] of "length".  A number that does not fit 31 bits  *)
(* makes the length negative.                                              *)
(***************************************************************************)
SetLength(a, n) ==
  IF n < 0 THEN Failed([a EXCEPT !.len = -1], "length")
  ELSE LET b == IF n > a.alloc THEN Grow(a, n - a.alloc + 1) ELSE a
       IN  IF n > b.alloc THEN Failed(a, "bounds")
           ELSE IF n < b.len THEN CutTo(b, n)
           ELSE [Paint(b, b.len, n, Hole) EXCEPT !.len = n]

\* [[HasProperty]] and [[Get]] of an index: a hole is there, and is undefined.
Present(a, index) == index \in 0..(a.len - 1)

Read(a, index) == IF Present(a, index) THEN Seen(a.mem[index]) ELSE Undef

\* [[Delete]] of an index, which must be given as a number.
Erase(a, index) == IF Present(a, index) THEN Paint(a, index, index + 1, Hole) ELSE a

(***************************************************************************)
(* [[GetOwnProperty]] of an index reads the cell whatever the index is     *)
(* (idx >= 0 || idx < length).                                             *)
(***************************************************************************)
OwnCell(a, index) ==
  IF index \in DOMAIN a.mem THEN a ELSE Failed(a, "bounds")

-----------------------------------------------------------------------------
\* memmove of `count' cells from `from' to `to' within the block.
Move(a, to, from, count) ==
  [a EXCEPT !.mem = [i \in DOMAIN @ |->
      IF to <= i /\ i < to + count THEN @[i - to + from] ELSE @[i]]]

\* The arguments of a call written from address `at' on.
Write(a, at, vs) ==
  [a EXCEPT !.mem = [i \in DOMAIN @ |->
      IF at <= i /\ i < at + Len(vs) THEN vs[i - at + 1] ELSE @[i]]]

\* A push that writes before it makes room.
PushUnchecked(a, vs) ==
  IF a.len + Len(vs) > a.alloc THEN Failed(a, "bounds")
  ELSE [Write(a, a.len, vs) EXCEPT !.len = a.len + Len(vs)]

PushDense(a, vs) ==
  LET b == Grow(a, Len(vs))
  IN  [Write(b, b.len, vs) EXCEPT !.len = b.len + Len(vs)]

PopDense(a) == IF a.len = 0 THEN a ELSE CutTo(a, a.len - 1)

\* A shift that moves one cell too few.
ShiftShort(a) ==
  IF a.len = 0 THEN a
  ELSE CutTo(Move(a, 0, 1, a.len - 2), a.len - 1)

ShiftDense(a) ==
  IF a.len = 0 THEN a
  ELSE CutTo(Move(a, 0, 1, a.len - 1), a.len - 1)

UnshiftDense(a, vs) ==
  LET b == Grow(a, Len(vs))
  IN  [Write(Move(b, Len(vs), 0, b.len), 0, vs) EXCEPT !.len = b.len + Len(vs)]

(***************************************************************************)
(* push.apply(a, a) and unshift.apply(a, a): apply passes the block of a   *)
(* dense array for the arguments.  Making room frees the block before the  *)
(* arguments are copied; without it they are the cells as they stand.      *)
(***************************************************************************)
OwnArgs(a) == [p \in 1..a.len |-> a.mem[p - 1]]

PushOwn(a) ==
  IF a.len + a.len > a.alloc THEN Failed(a, "freed") ELSE PushDense(a, OwnArgs(a))

UnshiftOwn(a) ==
  IF a.len + a.len > a.alloc THEN Failed(a, "freed") ELSE UnshiftDense(a, OwnArgs(a))

-----------------------------------------------------------------------------
\* Arrays a program can hold: the block is as long as alloc says.
WellFormed(a) ==
  /\ a.len \in Nat /\ a.alloc \in Nat
  /\ a.mem \in [0..(a.alloc - 1) -> Cells]
  /\ a.fault \in {"none", "bounds", "freed", "length", "abort"}

(***************************************************************************)
(* The block holds every element, and each was written since it was        *)
(* allocated.                                                              *)
(***************************************************************************)
Contained(a) ==
  /\ a.len <= a.alloc
  /\ \A i \in 0..(a.len - 1) : a.mem[i] # Garbage
=============================================================================
