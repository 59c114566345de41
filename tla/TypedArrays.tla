---------------------------- MODULE TypedArrays -----------------------------
(***************************************************************************)
(* ejs-typedarrays.c: array buffers, which own a block or are a slice of   *)
(* another buffer, the typed arrays and data views on them, and what the   *)
(* collector keeps of them.  Integers have Word values, as uint32_t; an    *)
(* element is its bytes, least significant first (the integer types; the   *)
(* rounding of the floats is left out).                                    *)
(***************************************************************************)
EXTENDS Integers, Sequences, FiniteSets, FiniteSetsExt, SequencesExt

CONSTANTS
  Buffers, Views,   \* the places for objects of each kind, numbers
  Byte,             \* the values of a byte
  Sizes,            \* the sizes of elements
  Word,             \* the number of values of a uint32_t
  MaxBlock,         \* calloc has no larger block
  Values,           \* the numbers the program stores, as long as any element
  Counts,           \* the integers it passes as sizes
  Offsets,          \* and as offsets and lengths
  Indices           \* and as indices

ASSUME WordAssumption ==
  /\ Word \in Nat /\ Word % 2 = 0 /\ MaxBlock \in Nat /\ 2 * MaxBlock < Word
  \* every argument goes through ToUint32
  /\ Counts \subseteq 0..(Word - 1) /\ Offsets \subseteq 0..(Word - 1)
  /\ Sizes \subseteq Nat \ {0} /\ 1 \in Sizes /\ Indices \subseteq Int
  \* two elements fit in a block
  /\ \A k \in Sizes : 2 * k <= MaxBlock
  /\ 0 \in Byte
  /\ Values \subseteq Seq(Byte) /\ \A x \in Values, k \in Sizes : k <= Len(x)

ASSUME PlacesAssumption ==
  /\ Buffers \subseteq Nat \ {0} /\ IsFiniteSet(Buffers)
  /\ Views \subseteq Nat /\ Buffers \cap Views = {}

VARIABLES
  buffers,   \* the array buffers
  blocks,    \* the bytes of the blocks they own
  views,     \* the typed arrays and data views
  held,      \* the objects the program refers to
  last,      \* the last load or store
  status

vars == <<buffers, blocks, views, held, last, status>>

NONE    == [kind |-> "none"]
Nothing == [op |-> "none"]

Access(op, v, at, bytes, little) ==
  [op |-> op, view |-> v, at |-> at, bytes |-> bytes, little |-> little]

Running == status = "running"

Init ==
  /\ buffers = [b \in Buffers |-> NONE]
  /\ blocks = [b \in Buffers |-> <<>>]
  /\ views = [v \in Views |-> NONE]
  /\ held = {}
  /\ last = Nothing
  /\ status = "running"

-----------------------------------------------------------------------------
(***************************************************************************)
(* Numbers.                                                                *)
(***************************************************************************)
Unsigned(n) == n % Word
Signed(n) == IF Unsigned(n) >= Word \div 2 THEN Unsigned(n) - Word ELSE Unsigned(n)

Zeros(n) == [i \in 1..n |-> 0]
\* calloc: without a block for a size of zero or one that is too large
NewBlock(size) == IF size \in 1..MaxBlock THEN Zeros(size) ELSE <<>>

\* (elementtype)number
Cast(x, k) == SubSeq(x, 1, k)

-----------------------------------------------------------------------------
(***************************************************************************)
(* Buffers.                                                                *)
(***************************************************************************)
Owner(size) == [kind |-> "own", size |-> Signed(size)]

NewBuffer(b, size) ==
  /\ buffers[b] = NONE
  /\ buffers' = [buffers EXCEPT ![b] = Owner(size)]
  /\ blocks' = [blocks EXCEPT ![b] = NewBlock(size)]

\* new ArrayBuffer(size)
ArrayBuffer(b, size) ==
  /\ NewBuffer(b, size)
  /\ held' = held \cup {b}
  /\ last' = Nothing /\ UNCHANGED <<views, status>>

\* The length is cut with the offset as given, not with the one that is kept.
SliceOf(p, offset, size) ==
  LET of == buffers[p].size
      at == Min({of, offset})
  IN [kind |-> "slice", buf |-> p, offset |-> at,
      size |-> IF size + at > of THEN of - offset ELSE size]

\* buffer.slice(length, offset), either of which may be missing.
Slice(b, p, args) ==
  /\ p \in held
  /\ buffers[b] = NONE
  /\ buffers' = [buffers EXCEPT
       ![b] = SliceOf(p, IF Len(args) < 2 THEN 0 ELSE Signed(args[2]),
                         IF args = <<>> THEN buffers[p].size ELSE Signed(args[1]))]
  /\ held' = held \cup {b}
  /\ last' = Nothing /\ UNCHANGED <<blocks, views, status>>

\* One whose slices of slices begin where their parent's parent does.
DataOfNearest(b) ==
  LET f[c \in Buffers] ==
        IF buffers[c].kind = "slice"
          THEN [block |-> f[buffers[c].buf].block, at |-> buffers[c].offset]
          ELSE [block |-> c, at |-> 0]
  IN f[b]

\* _ejs_arraybuffer_get_data: the offsets along the parents, then the block.
DataOf(b) ==
  LET f[c \in Buffers] ==
        IF buffers[c].kind = "slice"
          THEN LET p == f[buffers[c].buf]
               IN [block |-> p.block, at |-> p.at + buffers[c].offset]
          ELSE [block |-> c, at |-> 0]
  IN f[b]

-----------------------------------------------------------------------------
(***************************************************************************)
(* Typed arrays.                                                           *)
(***************************************************************************)
TypedArray(b, k, offset, n) ==
  [kind |-> "typed", buffer |-> b, elem |-> k, byteOffset |-> offset,
   length |-> n]

\* new XArray(n), and _ejs_typedarray_new: the bytes are counted in a word.
TypedArrayOfLength(v, b, k, n) ==
  /\ views[v] = NONE
  /\ NewBuffer(b, Unsigned(n * k))
  /\ views' = [views EXCEPT ![v] = TypedArray(b, k, 0, n)]
  /\ held' = held \cup {v}
  /\ last' = Nothing /\ UNCHANGED status

\* new XArray([...]), and _ejs_typedarray_new_from_array.
TypedArrayFromArray(v, b, k, elements) ==
  LET bytes == FlattenSeq([i \in DOMAIN elements |-> Cast(elements[i], k)])
  IN /\ views[v] = NONE
     /\ buffers[b] = NONE
     /\ buffers' = [buffers EXCEPT ![b] = Owner(Len(bytes))]
     /\ blocks' = [blocks EXCEPT ![b] = bytes]
     /\ views' = [views EXCEPT ![v] = TypedArray(b, k, 0, Len(elements))]
     /\ held' = held \cup {v}
     /\ last' = Nothing /\ UNCHANGED status

\* One that does not cut the length when the view does not begin at 0.
WindowWhole(b, k, args) ==
  LET size == Unsigned(buffers[b].size)
      at == IF args = <<>> THEN 0 ELSE Min({size, args[1]})
      bytes == IF Len(args) < 2 THEN size ELSE Unsigned(args[2] * k)
  IN [at |-> at, bytes |-> bytes,
      stops |-> \/ Len(args) = 2 /\ Unsigned(at + bytes) > size
                \/ at % k # 0 \/ bytes % k # 0]

\* Where new XArray(buffer, byteOffset, length) begins and how many bytes it
\* shows, or why it stops; the last arguments may be missing.
Window(b, k, args) ==
  LET size == Unsigned(buffers[b].size)
      at == IF args = <<>> THEN 0 ELSE Min({size, args[1]})
      asked == IF Len(args) < 2 THEN size ELSE Unsigned(args[2] * k)
      exceeds == Unsigned(at + asked) > size
      bytes == IF exceeds THEN size - at ELSE asked
  IN [at |-> at, bytes |-> bytes,
      stops |-> (Len(args) = 2 /\ exceeds) \/ at % k # 0 \/ bytes % k # 0]

TypedArrayOn(v, b, k, args) ==
  /\ b \in held
  /\ views[v] = NONE
  /\ LET w == Window(b, k, args)
     IN IF w.stops
          THEN /\ status' = "aborted"   \* a RangeError
               /\ last' = Nothing /\ UNCHANGED <<buffers, blocks, views, held>>
          ELSE /\ views' = [views EXCEPT ![v] = TypedArray(b, k, w.at, w.bytes \div k)]
               /\ held' = held \cup {v}
               /\ last' = Nothing /\ UNCHANGED <<buffers, blocks, status>>

\* new DataView(buffer, byteOffset, byteLength): nothing is compared.
DataView(v, b, args) ==
  /\ b \in held
  /\ views[v] = NONE
  /\ LET at == IF args = <<>> THEN 0 ELSE args[1]
         bytes == IF Len(args) < 2 THEN Unsigned(buffers[b].size - at) ELSE args[2]
     IN views' = [views EXCEPT
          ![v] = [kind |-> "data", buffer |-> b, elem |-> 1, byteOffset |-> at,
                  length |-> bytes]]
  /\ held' = held \cup {v}
  /\ last' = Nothing /\ UNCHANGED <<buffers, blocks, status>>

-----------------------------------------------------------------------------
(***************************************************************************)
(* Reading and writing.                                                    *)
(***************************************************************************)
\* _ejs_typedarray_get_data and _ejs_dataview_get_data, plus an index.
Address(v, i) ==
  LET d == DataOf(views[v].buffer)
  IN [block |-> d.block, at |-> Unsigned(d.at + views[v].byteOffset + i)]

Within(a, k) == a.at + k <= Len(blocks[a.block])
BytesAt(a, k) == SubSeq(blocks[a.block], a.at + 1, a.at + k)

\* memcpy from the view; outside of the block is whatever is there.
Fetch(v, at, k, little) ==
  LET a == Address(v, at)
  IN /\ \E x \in IF Within(a, k) THEN {BytesAt(a, k)} ELSE [1..k -> Byte] :
          last' = Access("load", v, at, IF little THEN x ELSE Reverse(x), little)
     /\ UNCHANGED <<buffers, blocks, views, held, status>>

\* memcpy into the view; outside of the block it has no meaning.
Put(v, at, x, little) ==
  LET a == Address(v, at)
      bytes == IF little THEN x ELSE Reverse(x)
      k == Len(bytes)
  IN /\ IF Within(a, k)
          THEN /\ blocks' = [blocks EXCEPT
                    ![a.block] = [j \in DOMAIN @ |->
                                    IF j - a.at \in 1..k THEN bytes[j - a.at] ELSE @[j]]]
               /\ UNCHANGED status
          ELSE status' = "undefined" /\ UNCHANGED blocks
     /\ last' = Access("store", v, at, x, little)
     /\ UNCHANGED <<buffers, views, held>>

IsView(v) == v \in held \cap Views
IsDataView(v) == IsView(v) /\ views[v].kind = "data"

\* view[i]: the comparison lets one element after the last through.  The same
\* comparison is made for the bytes of a data view.
GetElement(v, i) ==
  /\ IsView(v)
  /\ IF i < 0 \/ i > views[v].length
       THEN /\ last' = Access("missing", v, i * views[v].elem, <<>>, TRUE)
            /\ UNCHANGED <<buffers, blocks, views, held, status>>
       ELSE Fetch(v, i * views[v].elem, views[v].elem, TRUE)

\* view[i] = x, and view.set(i, x).  What it answers is used by nobody, and
\* nothing happens for an index that is out of range.
SetElement(v, i, x) ==
  /\ IsView(v)
  /\ i \in 0..(views[v].length - 1)
  /\ Put(v, i * views[v].elem, Cast(x, views[v].elem), TRUE)

\* view.getIntN(i, littleEndian) on a machine that is little endian.
DataGet(v, i, k, littleEndian) == IsDataView(v) /\ Fetch(v, i, k, littleEndian)

\* view.setIntN(i, x, littleEndian)
DataSet(v, i, x, k, littleEndian) ==
  IsDataView(v) /\ Put(v, i, Cast(x, k), littleEndian)

-----------------------------------------------------------------------------
(***************************************************************************)
(* Lifetimes.                                                              *)
(***************************************************************************)
Release(o) ==
  /\ o \in held
  /\ held' = held \ {o}
  /\ last' = Nothing /\ UNCHANGED <<buffers, blocks, views, status>>

\* view.buffer
BufferOf(v) ==
  /\ v \in held \cap Views
  /\ views[v].buffer \notin held
  /\ held' = held \cup {views[v].buffer}
  /\ last' = Nothing /\ UNCHANGED <<buffers, blocks, views, status>>

\* What the scan of a buffer marks: the parent of a slice.
Scan(b) == IF buffers[b].kind = "slice" THEN {buffers[b].buf} ELSE {}

\* The buffers marked: those held, those of the views held, and what is
\* scanned from them.
Marked ==
  LET roots == (held \cap Buffers) \cup {views[v].buffer : v \in held \cap Views}
      after[n \in 0..Cardinality(Buffers)] ==
        IF n = 0 THEN roots ELSE after[n - 1] \cup UNION {Scan(b) : b \in after[n - 1]}
  IN after[Cardinality(Buffers)]

\* A collection; finalizing a buffer frees its own block.
Collect ==
  /\ buffers' = [b \in Buffers |-> IF b \in Marked THEN buffers[b] ELSE NONE]
  /\ blocks' = [b \in Buffers |-> IF b \in Marked THEN blocks[b] ELSE <<>>]
  /\ views' = [v \in Views |-> IF v \in held THEN views[v] ELSE NONE]
  /\ last' = Nothing /\ UNCHANGED <<held, status>>

-----------------------------------------------------------------------------
\* Which place a new object gets makes no difference.
Free == {b \in Buffers : buffers[b] = NONE /\ \A c \in Buffers : c < b => buffers[c] # NONE}
FreeViews == {v \in Views : views[v] = NONE /\ \A w \in Views : w < v => views[w] # NONE}

Arrays == UNION {[1..n -> Values] : n \in 0..2}

Args == UNION {[1..n -> Offsets] : n \in 0..2}

Create ==
  \/ \E b \in Free :
       \/ \E n \in Counts : ArrayBuffer(b, n)
       \/ \E p \in Buffers, args \in Args : Slice(b, p, args)
       \/ \E v \in FreeViews, k \in Sizes :
            \/ \E n \in Counts : TypedArrayOfLength(v, b, k, n)
            \/ \E a \in Arrays : TypedArrayFromArray(v, b, k, a)
  \/ \E v \in FreeViews, b \in Buffers, args \in Args :
       \/ \E k \in Sizes : TypedArrayOn(v, b, k, args)
       \/ DataView(v, b, args)

Use ==
  \E v \in Views, i \in Indices :
    \/ GetElement(v, i)
    \/ \E x \in Values :
         \/ SetElement(v, i, x)
         \/ \E k \in Sizes, e \in BOOLEAN : DataSet(v, i, x, k, e)
    \/ \E k \in Sizes, e \in BOOLEAN : DataGet(v, i, k, e)

Lifetime ==
  \/ \E o \in Buffers \cup Views : Release(o)
  \/ \E v \in Views : BufferOf(v)
  \/ Collect

Next == Running /\ (Create \/ Use \/ Lifetime)

Spec == Init /\ [][Next]_vars

-----------------------------------------------------------------------------
\* The buffers between a buffer and the block.
Chain(b) ==
  LET up[n \in 0..Cardinality(Buffers)] ==
        IF n = 0 THEN {b} ELSE up[n - 1] \cup UNION
          {IF buffers[c].kind = "slice" THEN {buffers[c].buf} ELSE {} : c \in up[n - 1]}
  IN up[Cardinality(Buffers)]

\* A buffer inside the one it is a slice of, and so on.
Regular(b) ==
  \A c \in Chain(b) :
    /\ buffers[c].size \in 0..MaxBlock
    /\ buffers[c].kind = "slice" =>
         buffers[c].offset >= 0
         /\ buffers[c].offset + buffers[c].size <= buffers[buffers[c].buf].size
(***************************************************************************)
(* A typed array shows nothing but bytes of a block that exists, however   *)
(* many slices lie between them and whatever was collected, if the slices  *)
(* begin inside the buffer they are of (_ejs_arraybuffer_new_slice does    *)
(* not see to that) and if the number of bytes fits in a word (the         *)
(* constructors do not see to that either).                                *)
(***************************************************************************)
WindowsInside ==
  \A v \in Views :
    LET w == views[v]
        bytes == w.byteOffset + w.length * w.elem
    IN w.kind = "typed" /\ Regular(w.buffer) /\ bytes < Word =>
         LET d == DataOf(w.buffer)
         IN d.at >= 0 /\ d.at + bytes <= Len(blocks[d.block])

-----------------------------------------------------------------------------
\* Where a buffer begins.
PlaceOf(b) ==
  LET place[c \in Buffers] ==
        IF buffers[c].kind # "slice" THEN [block |-> c, first |-> 0]
        ELSE LET p == place[buffers[c].buf]
             IN [p EXCEPT !.first = Unsigned(@ + buffers[c].offset)]
  IN place[b]

PlaceOfView(v) ==
  LET p == PlaceOf(views[v].buffer)
  IN [block |-> p.block, first |-> Unsigned(p.first + views[v].byteOffset),
      size |-> views[v].elem, count |-> views[v].length, raw |-> views[v].kind = "data"]

Origin == [b \in Buffers |-> IF buffers[b] = NONE THEN [block |-> 0] ELSE PlaceOf(b)]
Windows == [v \in Views |-> IF views[v] = NONE THEN [block |-> 0] ELSE PlaceOfView(v)]

Shared == INSTANCE Bytes WITH
  store  <- blocks,
  origin <- Origin,
  window <- Windows,
  broken <- status = "undefined"

(***************************************************************************)
(* Buffers, slices and views implement shared bytes: what is stored        *)
(* through one view is what every view that shows the same bytes loads, in *)
(* the other byte order if a data view is asked for it, and a collection   *)
(* takes no byte that is still shown.  A load past the last element (the   *)
(* comparison of [[Get]] lets one through) is promised nothing.            *)
(***************************************************************************)
ImplementsBytes == Shared!Spec

=============================================================================
