----------------------------- MODULE Gc_proofs -----------------------------
(***************************************************************************)
(* Proofs about the collector, for every number of cells and every width   *)
(* of the store.  The inductive invariant has three parts: the types; how  *)
(* far num_free_cells can run ahead; and what holds until the first sweep. *)
(***************************************************************************)
EXTENDS Gc, TLAPS, SequenceTheorems, FiniteSetTheorems

Entries == 1 .. Len(cellOf)

Js == [pc : {"run", "roots", "mark", "sweep", "prepend", "flag", "wait",
             "asleep", "retry"},
       work : Seq(Cells), todo : SUBSET Cells, scanned : SUBSET Cells,
       cell : 0 .. N, next : Seq(Entries), for : {"call", "alloc"},
       cleared : BOOLEAN]

\* The memory and the objects in it.
HeapTypes ==
  /\ bitmap \in [Cells -> Flag]
  /\ bump \in Cells \cup {NULL} /\ free \in Int
  /\ page \in {"unmade", "listed", "free"} /\ white \in {0, 1}
  /\ ref \in [DOMAIN ref -> Cells \cup {NULL}] /\ DOMAIN ref \subseteq Cells
  /\ roots \subseteq Cells

\* The two threads and what goes from the one to the other.
ThreadTypes ==
  /\ cellOf \in Seq(Cells) /\ Len(cellOf) <= MaxEntries
  /\ list \in Seq(Entries) /\ freed \subseteq Entries
  /\ js \in Js
  /\ fin \in [pc : {"idle", "take", "run", "count", "release"}, run : Seq(Entries)]
  /\ signal \in [held : BOOLEAN, waiting : BOOLEAN]
  /\ collections \in Nat
  /\ status \in {"running", "aborted", "undefined"}

\* What a place in the program says of the variables.
Places ==
  /\ js.pc \in {"prepend", "flag"} => js.cell < N /\ Len(cellOf) # 0
  /\ js.pc \in {"wait", "asleep", "retry"} => collections # 0
  /\ signal.waiting <=> js.pc = "asleep"
  /\ fin.pc \in {"count", "release"} => fin.run # <<>> /\ Head(fin.run) \notin freed

TypeInv == HeapTypes /\ ThreadTypes /\ Places

\* num_free_cells is raised once for every entry that is run.
CountInv == /\ free >= 0
            /\ free <= N + Cardinality(freed) + (IF fin.pc = "release" THEN 1 ELSE 0)

\* No sweep has begun.
Early == collections = 0 /\ js.pc \in {"run", "roots", "mark"}

\* The finalizer has had nothing to do.
NothingCondemned ==
  list = <<>> /\ fin.run = <<>> /\ fin.pc \in {"idle", "take"}

\* The cells are given out in order, and the bump pointer is at the next one.
BumpInStep ==
  /\ page \in {"unmade", "listed"}
  /\ page = "unmade" => DOMAIN ref = {}
  /\ page = "listed" => (bump = NULL <=> free = 0)
  /\ page = "listed" /\ bump # NULL => free = N - bump

\* There is an object behind every reference.
NothingDangles ==
  /\ roots \subseteq DOMAIN ref
  /\ \A c \in DOMAIN ref : RefsOf(c) \subseteq DOMAIN ref
  /\ \A c \in DOMAIN ref : ~bitmap[c].free

Elements(s) == {s[i] : i \in 1 .. Len(s)}
Seen        == Elements(js.work) \cup js.scanned

(***************************************************************************)
(* The marking as far as it has come.  A store may make an object white    *)
(* again, never the other way: what is not white has been pushed.  Of that *)
(* nothing is known once the work list was overwritten.                    *)
(***************************************************************************)
MarkedSoFar ==
  /\ white = 0
  /\ js.todo \subseteq DOMAIN ref
  /\ js.pc = "run" => /\ ~js.cleared /\ js.scanned = {}
                      /\ \A c \in Cells : bitmap[c].color = 0
  /\ ~js.cleared /\ js.pc # "run" =>
       /\ \A c \in Cells : bitmap[c].color # 0 => c \in Seen
       /\ roots \subseteq Seen \cup js.todo
       /\ \A c \in js.scanned : RefsOf(c) \subseteq Seen \cup js.todo

EarlyInv == Early => /\ Running \/ (Marking /\ js.cleared)
                     /\ NothingCondemned /\ BumpInStep
                     /\ NothingDangles /\ MarkedSoFar

\* Only where it lies behind finalizer_list is the work list overwritten.
ClearedInv == js.cleared => WorkListBehind

IInv == TypeInv /\ CountInv /\ ClearedInv /\ EarlyInv

-----------------------------------------------------------------------------
(***************************************************************************)
(* Stores of flags, and sequences of entries.                              *)
(***************************************************************************)
LEMMA StoreType ==
  ASSUME NEW bm \in [Cells -> Flag], NEW c \in Cells, NEW flags \in Flag
  PROVE  Store(bm, c, flags) \in [Cells -> Flag]
<1>1. Zero \in Flag
  BY DEF Zero, Flags, Flag, Gray
<1> QED
  BY <1>1 DEF Store

LEMMA RecolorType ==
  ASSUME HeapTypes, NEW c \in Cells, NEW color \in {0, 1, Gray}
  PROVE  Recolor(c, color) \in [Cells -> Flag]
<1>1. [bitmap[c] EXCEPT !.color = color] \in Flag
  BY DEF HeapTypes, Flag
<1> QED
  BY <1>1, StoreType DEF HeapTypes, Recolor

LEMMA FlagsType ==
  ASSUME NEW a \in BOOLEAN, NEW b \in BOOLEAN, NEW color \in {0, 1, Gray}
  PROVE  Flags(a, b, color) \in Flag
BY DEF Flags, Flag

\* What was an entry stays one when another is made.
LEMMA EntriesGrow ==
  ASSUME NEW m \in Nat, NEW s \in Seq(1 .. m)
  PROVE  s \in Seq(1 .. (m + 1))
<1>1. /\ Len(s) \in Nat /\ DOMAIN s = 1 .. Len(s)
      /\ \A i \in 1 .. Len(s) : s[i] \in 1 .. m
  OBVIOUS
<1>2. \A i \in 1 .. Len(s) : s[i] \in 1 .. (m + 1)
  BY <1>1
<1>3. s = [i \in 1 .. Len(s) |-> s[i]]
  OBVIOUS
<1> QED
  BY <1>1, <1>2, <1>3, IsASeq

\* A page that is new or comes from the free list starts over.
LEMMA PageTypes ==
  ASSUME HeapTypes
  PROVE  /\ Map \in [Cells -> Flag]
         /\ Bump \in Cells \cup {NULL}
         /\ Taken \subseteq Cells
<1>1. 0 \in Cells
  BY GcAssumption DEF Cells
<1>2. Map \in [Cells -> Flag]
  BY FlagsType DEF HeapTypes, Map
<1>3. Bump \in Cells \cup {NULL}
  BY <1>1 DEF HeapTypes, Bump
<1> QED
  BY <1>2, <1>3 DEF Taken, FreeCells

-----------------------------------------------------------------------------
LEMMA TypeInit == Init => TypeInv
<1> SUFFICES ASSUME Init PROVE TypeInv
  OBVIOUS
<1>1. HeapTypes
  <2>1. ref \in [DOMAIN ref -> Cells \cup {NULL}] /\ DOMAIN ref \subseteq Cells
    BY DEF Init
  <2>2. [c \in Cells |-> Flags(TRUE, FALSE, 0)] \in [Cells -> Flag]
    BY FlagsType
  <2>3. bitmap \in [Cells -> Flag]
    BY <2>2, Zenon DEF Init
  <2>4. /\ bump = NULL /\ free = 0 /\ page = "unmade" /\ white = 0 /\ roots = {}
    BY DEF Init
  <2> QED
    BY <2>1, <2>3, <2>4 DEF HeapTypes
<1>2. ThreadTypes
  <2>1. At("run") \in Js
    BY GcAssumption DEF At, Js, Cells
  <2> QED
    BY <2>1, GcAssumption DEF Init, ThreadTypes
<1>3. Places
  BY DEF Init, Places, At
<1> QED
  BY <1>1, <1>2, <1>3 DEF TypeInv

(***************************************************************************)
(* The program and the allocator.                                          *)
(***************************************************************************)
LEMMA MutatorTypes ==
  ASSUME TypeInv,
         \/ \E c \in Cells : Unroot(c) \/ \E b \in Cells \cup {NULL} : Link(c, b)
         \/ Alloc \/ AllocFails
         \/ \E reason \in {"call", "alloc"} : Collect(reason)
  PROVE  TypeInv'
<1> USE DEF TypeInv
<1>1. ASSUME NEW c \in Cells, Unroot(c) PROVE TypeInv'
  BY <1>1 DEF Unroot, heap, queue, HeapTypes, ThreadTypes, Places, Entries, Js
<1>2. ASSUME NEW a \in Cells, NEW b \in Cells \cup {NULL}, Link(a, b) PROVE TypeInv'
  <2>1. ref' \in [DOMAIN ref' -> Cells \cup {NULL}] /\ DOMAIN ref' \subseteq Cells
    BY <1>2 DEF Link, HeapTypes
  <2>2. HeapTypes'
    BY <1>2, <2>1 DEF Link, HeapTypes, heap
  <2>3. ThreadTypes' /\ Places'
    BY <1>2 DEF Link, ThreadTypes, Places, queue, Entries, Js
  <2> QED
    BY <2>2, <2>3
<1>3. CASE Alloc
  <2>1. HeapTypes'
    <3>1. CASE Taken = {}
      BY <1>3, <3>1 DEF Alloc, HeapTypes, graph
    <3>2. ASSUME NEW c \in Taken, NewObject(c) PROVE HeapTypes'
      <4>1. c \in Cells /\ Map \in [Cells -> Flag] /\ Bump \in Cells \cup {NULL}
        BY <3>2, PageTypes
      <4>2. Map[c].fin \in BOOLEAN /\ white \in {0, 1, Gray}
        BY <4>1 DEF HeapTypes, Flag
      <4>3. bitmap' \in [Cells -> Flag]
        BY <3>2, <4>1, <4>2, StoreType, FlagsType DEF NewObject
      <4>4. bump' \in Cells \cup {NULL}
        <5>1. Bump # NULL /\ BumpFits(Bump + 1) => Bump + 1 \in Cells
          BY <4>1, GcAssumption DEF BumpFits, Cells
        <5> QED
          BY <3>2, <5>1 DEF NewObject
      <4>5. free' \in Int /\ page' = "listed"
        BY <3>2, GcAssumption DEF NewObject, HeapTypes
      <4>6. /\ ref' \in [DOMAIN ref' -> Cells \cup {NULL}] /\ DOMAIN ref' \subseteq Cells
            /\ roots' \subseteq Cells
        BY <3>2, <4>1 DEF NewObject, HeapTypes
      <4> QED
        BY <1>3, <4>3, <4>4, <4>5, <4>6 DEF Alloc, HeapTypes
    <3> QED
      BY <1>3, <3>1, <3>2 DEF Alloc
  <2>2. ThreadTypes' /\ Places'
    BY <1>3 DEF Alloc, ThreadTypes, Places, queue, Entries, Js
  <2> QED
    BY <2>1, <2>2
<1>4. CASE AllocFails
  BY <1>4 DEF AllocFails, heap, graph, queue, HeapTypes, ThreadTypes, Places, Entries, Js
<1>5. ASSUME NEW reason \in {"call", "alloc"}, Collect(reason) PROVE TypeInv'
  <2>1. HeapTypes'
    BY <1>5 DEF Collect, HeapTypes, heap, graph
  <2>2. js' \in Js /\ js'.pc = "roots"
    <3> DEFINE at == At("roots")
    <3>1. at \in Js /\ at.pc = "roots"
      BY GcAssumption DEF At, Js, Cells
    <3>2. roots \in SUBSET Cells /\ reason \in {"call", "alloc"}
      BY DEF HeapTypes
    <3>3. js' = [at EXCEPT !.todo = roots, !.for = reason]
      BY <1>5 DEF Collect
    <3> HIDE DEF at
    <3> QED
      BY <3>1, <3>2, <3>3 DEF Js
  <2>3. ThreadTypes' /\ Places'
    BY <1>5, <2>2 DEF Collect, ThreadTypes, Places, queue, Entries, Js
  <2> QED
    BY <2>1, <2>3
<1> QED
  BY <1>1, <1>2, <1>3, <1>4, <1>5

(***************************************************************************)
(* The collector, on the thread of the program.                            *)
(***************************************************************************)
LEMMA CollectorTypes ==
  ASSUME TypeInv,
         \/ Mark
         \/ SweepSkip \/ SweepRead \/ SweepWrite \/ SweepFlag \/ SweepEnd
         \/ Sleep
  PROVE  TypeInv'
<1> USE DEF TypeInv
<1>1. ASSUME NEW c \in Cells, MarkRoot(c) PROVE TypeInv'
  <2>1. Append(js.work, c) \in Seq(Cells) /\ js \in Js
    BY DEF ThreadTypes, Js
  <2>2. js' \in Js /\ js'.pc = js.pc
    BY <1>1, <2>1 DEF MarkRoot, Js
  <2> QED
    <3>1. HeapTypes'
      BY <1>1, <2>2 DEF MarkRoot, heap, graph, HeapTypes
    <3>2. ThreadTypes' /\ Places'
      BY <1>1, <2>2 DEF MarkRoot, queue, ThreadTypes, Places, Entries, Js
    <3> QED
      BY <3>1, <3>2
<1>2. ASSUME NEW c \in Cells, MarkRef(c) PROVE TypeInv'
  <2>1. Append(js.work, c) \in Seq(Cells) /\ js \in Js
    BY DEF ThreadTypes, Js
  <2>2. js' \in Js /\ js'.pc = js.pc
    BY <1>2, <2>1 DEF MarkRef, Js
  <2>3. Gray \in {0, 1, Gray} /\ bitmap \in [Cells -> Flag]
    BY DEF HeapTypes
  <2>4. bitmap' \in [Cells -> Flag]
    BY <1>2, <2>3, RecolorType DEF MarkRef
  <2> QED
    <3>1. HeapTypes'
      BY <1>2, <2>2, <2>4 DEF MarkRef, graph, HeapTypes
    <3>2. ThreadTypes' /\ Places'
      BY <1>2, <2>2, <2>4 DEF MarkRef, queue, ThreadTypes, Places, Entries, Js
    <3> QED
      BY <3>1, <3>2
<1>3. CASE MarkPop
  <2>1. js.work \in Seq(Cells) /\ Len(js.work) \in Nat \ {0}
    BY <1>3 DEF MarkPop, ThreadTypes, Js
  <2> DEFINE c == js.work[Len(js.work)]
  <2>2. c \in Cells
    BY <2>1
  <2>3. SubSeq(js.work, 1, Len(js.work) - 1) \in Seq(Cells)
    BY <2>1
  <2>4. RefsOf(c) \subseteq Cells
    BY <2>2 DEF RefsOf, HeapTypes
  <2>5. js' \in Js /\ js'.pc = "mark"
    BY <1>3, <2>2, <2>3, <2>4 DEF MarkPop, ThreadTypes, Js, Entries
  <2>6. bitmap' \in [Cells -> Flag]
    <3>1. 1 - white \in {0, 1, Gray}
      BY DEF HeapTypes
    <3> QED
      BY <1>3, <2>2, <3>1, RecolorType DEF MarkPop
  <2> QED
    <3>1. HeapTypes'
      BY <1>3, <2>5, <2>6 DEF MarkPop, graph, HeapTypes
    <3>2. ThreadTypes' /\ Places'
      BY <1>3, <2>5, <2>6 DEF MarkPop, queue, ThreadTypes, Places, Entries, Js
    <3> QED
      BY <3>1, <3>2
<1>4. CASE MarkEnd
  <2>1. js' \in Js /\ js'.pc = "sweep"
    <3>1. js \in Js /\ {} \subseteq Cells /\ N \in 0 .. N /\ 0 \in 0 .. N
      BY GcAssumption DEF ThreadTypes
    <3> QED
      BY <1>4, <3>1 DEF MarkEnd, Js
  <2> QED
    <3>1. HeapTypes'
      BY <1>4, <2>1 DEF MarkEnd, heap, graph, HeapTypes
    <3>2. ThreadTypes' /\ Places'
      BY <1>4, <2>1 DEF MarkEnd, queue, ThreadTypes, Places, Entries, Js
    <3> QED
      BY <3>1, <3>2
<1>5. CASE SweepSkip
  <2>1. js' \in Js /\ js'.pc = "sweep"
    <3>1. js \in Js /\ js.cell + 1 \in 0 .. N
      BY <1>5, GcAssumption DEF SweepSkip, ThreadTypes, Js
    <3> QED
      BY <1>5, <3>1 DEF SweepSkip, Js
  <2> QED
    <3>1. HeapTypes'
      BY <1>5, <2>1 DEF SweepSkip, heap, graph, HeapTypes
    <3>2. ThreadTypes' /\ Places'
      BY <1>5, <2>1 DEF SweepSkip, queue, ThreadTypes, Places, Entries, Js
    <3> QED
      BY <3>1, <3>2
<1>6. CASE SweepRead
  <2>1. /\ js.cell \in Cells /\ js.cell < N
        /\ Len(cellOf) \in Nat /\ cellOf \in Seq(Cells)
    BY <1>6, GcAssumption DEF SweepRead, ThreadTypes, Js, Cells
  <2>2. /\ cellOf' \in Seq(Cells) /\ Len(cellOf') = Len(cellOf) + 1
        /\ Len(cellOf') <= MaxEntries
    BY <1>6, <2>1, GcAssumption DEF SweepRead
  <2>3. Entries' = 1 .. (Len(cellOf) + 1) /\ Entries \subseteq Entries'
    BY <2>1, <2>2 DEF Entries
  <2>4. /\ list' \in Seq(Entries') /\ fin.run \in Seq(Entries')
        /\ fin' = fin /\ freed' = freed
    BY <1>6, <2>1, <2>3, EntriesGrow DEF SweepRead, ThreadTypes, Entries
  <2>5. js'.pc = "prepend" /\ js'.cell = js.cell /\ js' \in Js'
    BY <1>6, <2>4 DEF SweepRead, ThreadTypes, Js
  <2> QED
    <3>1. HeapTypes'
      BY <1>6, <2>1, <2>2, <2>3, <2>4, <2>5 DEF SweepRead, heap, graph, HeapTypes
    <3>2. ThreadTypes' /\ Places'
      BY <1>6, <2>1, <2>2, <2>3, <2>4, <2>5 DEF SweepRead, ThreadTypes, Places, Js
    <3> QED
      BY <3>1, <3>2
<1>7. CASE SweepWrite
  <2>1. js.next \in Seq(Entries) /\ Len(cellOf) \in Entries
    BY <1>7 DEF SweepWrite, ThreadTypes, Places, Js, Entries
  <2>2. list' \in Seq(Entries)
    BY <1>7, <2>1 DEF SweepWrite
  <2>3. js' \in Js /\ js'.pc = "flag" /\ js'.cell = js.cell
    <3>1. js \in Js /\ <<>> \in Seq(Entries)
      BY DEF ThreadTypes
    <3> QED
      BY <1>7, <3>1 DEF SweepWrite, Js
  <2> QED
    <3>1. HeapTypes'
      BY <1>7, <2>2, <2>3 DEF SweepWrite, heap, graph, HeapTypes
    <3>2. ThreadTypes' /\ Places'
      BY <1>7, <2>2, <2>3 DEF SweepWrite, ThreadTypes, Places, Entries, Js
    <3> QED
      BY <3>1, <3>2
<1>8. CASE SweepFlag
  <2>1. js.cell \in Cells /\ js.cell + 1 \in 0 .. N
    BY <1>8, GcAssumption DEF SweepFlag, ThreadTypes, Places, Js, Cells
  <2>2. bitmap' \in [Cells -> Flag]
    BY <1>8, <2>1, StoreType, FlagsType DEF SweepFlag, HeapTypes
  <2>3. js' \in Js /\ js'.pc = "sweep"
    BY <1>8, <2>1 DEF SweepFlag, ThreadTypes, Js
  <2> QED
    <3>1. HeapTypes'
      BY <1>8, <2>2, <2>3 DEF SweepFlag, graph, HeapTypes
    <3>2. ThreadTypes' /\ Places'
      BY <1>8, <2>2, <2>3 DEF SweepFlag, queue, ThreadTypes, Places, Entries, Js
    <3> QED
      BY <3>1, <3>2
<1>9. CASE SweepEnd
  <2>1. PICK pc \in {"run", "wait", "retry"} : js' = At(pc)
    BY <1>9 DEF SweepEnd
  <2>2. js' \in Js /\ js'.pc = pc
    BY <2>1, GcAssumption DEF At, Js, Cells
  <2> QED
    <3>1. HeapTypes'
      BY <1>9, <2>2 DEF SweepEnd, graph, HeapTypes
    <3>2. ThreadTypes' /\ Places'
      BY <1>9, <2>2 DEF SweepEnd, queue, ThreadTypes, Places, Entries, Js
    <3> QED
      BY <3>1, <3>2
<1>10. CASE Sleep
  <2>1. HeapTypes'
    BY <1>10 DEF Sleep, heap, graph, HeapTypes
  <2>2. ThreadTypes' /\ Places'
    BY <1>10 DEF Sleep, queue, ThreadTypes, Places, Entries, Js
  <2> QED
    BY <2>1, <2>2
<1> QED
  BY <1>1, <1>2, <1>3, <1>4, <1>5, <1>6, <1>7, <1>8, <1>9, <1>10 DEF Mark

(***************************************************************************)
(* The finalizer thread.                                                   *)
(***************************************************************************)
LEMMA FinalizerTypes ==
  ASSUME TypeInv,
         FinRead \/ FinTake \/ FinFinalize \/ FinCount \/ FinRelease \/ FinSignal
  PROVE  TypeInv'
<1> USE DEF TypeInv
<1>1. CASE FinRead
  <2>1. HeapTypes'
    BY <1>1 DEF FinRead, heap, graph, HeapTypes
  <2>2. ThreadTypes' /\ Places'
    BY <1>1 DEF FinRead, queue, ThreadTypes, Places, Entries, Js
  <2> QED
    BY <2>1, <2>2
<1>2. CASE FinTake
  <2>1. <<>> \in Seq(Entries)
    OBVIOUS
  <2>2. js' \in Js /\ js'.pc = js.pc /\ js'.cell = js.cell
    <3>1. js \in Js /\ <<>> \in Seq(Cells)
      BY DEF ThreadTypes
    <3>2. CASE js' = js
      BY <3>1, <3>2
    <3>3. CASE WorkListBehind /\ js' = [js EXCEPT !.work = <<>>, !.cleared = TRUE]
      BY <3>1, <3>3, GcAssumption DEF Js
    <3> QED
      BY <1>2, <3>2, <3>3 DEF FinTake, Overwrite
  <2>3. status' \in {"running", "aborted", "undefined"}
    BY <1>2 DEF FinTake, Overwrite, ThreadTypes
  <2> QED
    <3>1. HeapTypes'
      BY <1>2 DEF FinTake, heap, graph, HeapTypes
    <3>2. ThreadTypes'
      BY <1>2, <2>1, <2>2, <2>3 DEF FinTake, ThreadTypes, Entries, Js
    <3>3. Places'
      BY <1>2, <2>2 DEF FinTake, ThreadTypes, Places
    <3> QED
      BY <3>1, <3>2, <3>3
<1>3. CASE FinFinalize
  <2> DEFINE e == Head(fin.run)
             c == cellOf[e]
  <2>1. /\ fin.run \in Seq(Entries) /\ fin.run # <<>>
        /\ e \in Entries /\ c \in Cells /\ Tail(fin.run) \in Seq(Entries)
    BY <1>3 DEF FinFinalize, ThreadTypes, Entries
  <2>2. HeapTypes'
    <3>1. bitmap' \in [Cells -> Flag]
      <4>1. Flags(TRUE, FALSE, 0) \in Flag /\ bitmap \in [Cells -> Flag]
        BY FlagsType DEF HeapTypes
      <4>2. bitmap' \in {bitmap, Store(bitmap, c, Flags(TRUE, FALSE, 0))}
        BY <1>3 DEF FinFinalize
      <4> HIDE DEF c
      <4> QED
        BY <2>1, <4>1, <4>2, StoreType
    <3>2. ref' \in [DOMAIN ref' -> Cells \cup {NULL}] /\ DOMAIN ref' \subseteq Cells
      BY <1>3 DEF FinFinalize, HeapTypes
    <3> QED
      BY <1>3, <3>1, <3>2 DEF FinFinalize, HeapTypes
  <2>3. ThreadTypes' /\ Places'
    BY <1>3, <2>1 DEF FinFinalize, ThreadTypes, Places, queue, Entries, Js
  <2> QED
    BY <2>2, <2>3
<1>4. CASE FinCount
  <2>1. HeapTypes'
    BY <1>4 DEF FinCount, graph, HeapTypes
  <2>2. ThreadTypes' /\ Places'
    BY <1>4 DEF FinCount, queue, ThreadTypes, Places, Entries, Js
  <2> QED
    BY <2>1, <2>2
<1>5. CASE FinRelease
  <2>1. /\ fin.run \in Seq(Entries) /\ fin.run # <<>>
        /\ Head(fin.run) \in Entries /\ Tail(fin.run) \in Seq(Entries)
    BY <1>5 DEF FinRelease, ThreadTypes, Places
  <2> QED
    <3>1. HeapTypes'
      BY <1>5, <2>1 DEF FinRelease, graph, HeapTypes
    <3>2. ThreadTypes' /\ Places'
      BY <1>5, <2>1 DEF FinRelease, ThreadTypes, Places, Entries, Js
    <3> QED
      BY <3>1, <3>2
<1>6. CASE FinSignal
  <2>1. HeapTypes'
    BY <1>6 DEF FinSignal, heap, graph, HeapTypes
  <2>2. /\ fin' \in [pc : {"idle", "take", "run", "count", "release"}, run : Seq(Entries)]
        /\ fin'.pc \in {"idle", "run"}
    BY <1>6 DEF FinSignal, ThreadTypes
  <2>3. /\ signal' \in [held : BOOLEAN, waiting : BOOLEAN]
        /\ js' \in Js /\ js'.cell = js.cell
        /\ js'.pc = js.pc \/ (js.pc = "asleep" /\ js'.pc = "retry")
        /\ signal'.waiting <=> js'.pc = "asleep"
    <3>1. js \in Js /\ signal \in [held : BOOLEAN, waiting : BOOLEAN]
      BY DEF ThreadTypes
    <3>2. CASE UNCHANGED <<signal, js>>
      BY <3>1, <3>2 DEF Places
    <3>3. CASE /\ signal.waiting
               /\ signal' = [held |-> TRUE, waiting |-> FALSE]
               /\ js' = [js EXCEPT !.pc = "retry"]
      BY <3>1, <3>3 DEF Places, Js
    <3> QED
      BY <1>6, <3>2, <3>3 DEF FinSignal
  <2>5. ThreadTypes' /\ Places'
    BY <1>6, <2>2, <2>3 DEF FinSignal, queue, ThreadTypes, Places, Entries, Js
  <2> QED
    BY <2>1, <2>5
<1> QED
  BY <1>1, <1>2, <1>3, <1>4, <1>5, <1>6

LEMMA TypeStep == TypeInv /\ [Next]_vars => TypeInv'
<1>1. ASSUME TypeInv, UNCHANGED vars PROVE TypeInv'
  BY <1>1 DEF vars, heap, graph, queue, TypeInv, HeapTypes, ThreadTypes, Places,
              Entries, Js
<1> QED
  BY <1>1, MutatorTypes, CollectorTypes, FinalizerTypes DEF Next

-----------------------------------------------------------------------------
(***************************************************************************)
(* num_free_cells.                                                         *)
(***************************************************************************)
LEMMA FreedIsFinite ==
  ASSUME TypeInv
  PROVE  /\ IsFiniteSet(freed) /\ Cardinality(freed) \in Nat
         /\ Cardinality(freed) <= Len(cellOf)
         /\ fin.pc = "release" => Cardinality(freed) + 1 <= Len(cellOf)
<1>1. Len(cellOf) \in Nat /\ freed \subseteq Entries
  BY DEF TypeInv, ThreadTypes
<1>2. IsFiniteSet(Entries) /\ Cardinality(Entries) = Len(cellOf)
  BY <1>1, FS_Interval DEF Entries
<1>3. /\ IsFiniteSet(freed) /\ Cardinality(freed) \in Nat
      /\ Cardinality(freed) <= Len(cellOf)
  BY <1>1, <1>2, FS_Subset, FS_CardinalityType
<1>4. ASSUME fin.pc = "release" PROVE Cardinality(freed) + 1 <= Len(cellOf)
  <2>1. Head(fin.run) \in Entries \ freed
    BY <1>4 DEF TypeInv, ThreadTypes, Places
  <2>2. freed \cup {Head(fin.run)} \subseteq Entries
    BY <1>1, <2>1
  <2>3. Cardinality(freed \cup {Head(fin.run)}) = Cardinality(freed) + 1
    BY <1>3, <2>1, FS_AddElement
  <2> QED
    BY <1>2, <2>2, <2>3, FS_Subset
<1> QED
  BY <1>3, <1>4

LEMMA CountStep == TypeInv /\ CountInv /\ [Next]_vars => CountInv'
<1> SUFFICES ASSUME TypeInv, CountInv, [Next]_vars PROVE CountInv'
  OBVIOUS
<1>1. /\ IsFiniteSet(freed) /\ Cardinality(freed) \in Nat
      /\ N \in Nat \ {0} /\ free \in Nat
  BY FreedIsFinite, GcAssumption DEF CountInv, TypeInv, HeapTypes
<1>2. CASE Alloc
  <2>1. free' = free \/ free' = N - 1 \/ (free' = free - 1 /\ free # 0)
    BY <1>2 DEF Alloc, NewObject, Available
  <2>2. fin' = fin /\ freed' = freed
    BY <1>2 DEF Alloc, queue
  <2> QED
    BY <1>1, <2>1, <2>2 DEF CountInv
<1>3. CASE FinCount
  <2>1. fin.pc = "count" /\ fin'.pc = "release" /\ free' = free + 1 /\ freed' = freed
    BY <1>3 DEF FinCount, queue, TypeInv, ThreadTypes
  <2> QED
    BY <1>1, <2>1 DEF CountInv
<1>4. CASE FinRelease
  <2>1. /\ fin.pc = "release" /\ fin'.pc = "run" /\ free' = free
        /\ freed' = freed \cup {Head(fin.run)} /\ Head(fin.run) \notin freed
    BY <1>4 DEF FinRelease, TypeInv, Places
  <2>2. Cardinality(freed') = Cardinality(freed) + 1
    BY <1>1, <2>1, FS_AddElement
  <2> QED
    BY <1>1, <2>1, <2>2 DEF CountInv
<1>5. CASE FinRead \/ FinTake \/ FinFinalize \/ FinSignal
  <2>1. fin.pc # "release" /\ free' = free /\ freed' = freed
    BY <1>5 DEF FinRead, FinTake, FinFinalize, FinSignal, heap, queue
  <2>2. fin'.pc # "release"
    <3>1. fin \in [pc : {"idle", "take", "run", "count", "release"}, run : Seq(Entries)]
      BY DEF TypeInv, ThreadTypes
    <3>2. CASE FinRead
      BY <3>2 DEF FinRead
    <3>3. CASE FinTake
      BY <3>1, <3>3 DEF FinTake
    <3>4. CASE FinFinalize
      <4>1. \/ fin' = fin \/ fin' = [fin EXCEPT !.run = Tail(@)]
            \/ fin' = [fin EXCEPT !.pc = "count"]
        BY <3>4 DEF FinFinalize
      <4> QED
        BY <2>1, <3>1, <4>1
    <3>5. CASE FinSignal
      BY <2>1, <3>1, <3>5 DEF FinSignal
    <3> QED
      BY <1>5, <3>2, <3>3, <3>4, <3>5
  <2> QED
    BY <2>1, <2>2 DEF CountInv
<1>6. ASSUME UNCHANGED <<free, freed, fin>> PROVE CountInv'
  BY <1>6 DEF CountInv
<1>7. CASE \/ \E c \in Cells : Unroot(c) \/ \E b \in Cells \cup {NULL} : Link(c, b)
           \/ AllocFails \/ \E reason \in {"call", "alloc"} : Collect(reason)
  BY <1>6, <1>7 DEF Unroot, Link, AllocFails, Collect, heap, queue
<1>8. CASE Mark
  BY <1>6, <1>8 DEF Mark, MarkRoot, MarkRef, MarkPop, MarkEnd, heap, queue
<1>9. CASE SweepSkip \/ SweepRead \/ SweepWrite \/ SweepFlag \/ SweepEnd \/ Sleep
  BY <1>6, <1>9 DEF SweepSkip, SweepRead, SweepWrite, SweepFlag, SweepEnd, Sleep,
                    heap, queue
<1>10. CASE UNCHANGED vars
  BY <1>6, <1>10 DEF vars, heap, queue
<1> QED
  BY <1>2, <1>3, <1>4, <1>5, <1>7, <1>8, <1>9, <1>10 DEF Next

LEMMA ClearedStep == TypeInv /\ ClearedInv /\ [Next]_vars => ClearedInv'
<1> SUFFICES ASSUME TypeInv, ClearedInv, [Next]_vars PROVE ClearedInv'
  OBVIOUS
<1>1. js \in Js
  BY DEF TypeInv, ThreadTypes
<1>2. ASSUME js'.cleared = js.cleared PROVE ClearedInv'
  BY <1>2 DEF ClearedInv
<1>3. CASE \/ \E c \in Cells : Unroot(c) \/ \E b \in Cells \cup {NULL} : Link(c, b)
           \/ Alloc \/ AllocFails
  BY <1>1, <1>2, <1>3 DEF Unroot, Link, Alloc, AllocFails, Js
<1>4. CASE \E reason \in {"call", "alloc"} : Collect(reason)
  BY <1>4 DEF Collect, At, ClearedInv
<1>5. CASE Mark
  BY <1>1, <1>2, <1>5 DEF Mark, MarkRoot, MarkRef, MarkPop, MarkEnd, Js
<1>6. CASE SweepSkip \/ SweepRead \/ SweepWrite \/ SweepFlag \/ Sleep
  BY <1>1, <1>2, <1>6 DEF SweepSkip, SweepRead, SweepWrite, SweepFlag, Sleep, Js
<1>7. CASE SweepEnd
  BY <1>7 DEF SweepEnd, At, ClearedInv
<1>8. CASE FinTake
  BY <1>2, <1>8 DEF FinTake, Overwrite, ClearedInv
<1>9. CASE FinRead \/ FinFinalize \/ FinCount \/ FinRelease \/ FinSignal
  BY <1>1, <1>2, <1>9 DEF FinRead, FinFinalize, FinCount, FinRelease, FinSignal, Js
<1>10. CASE UNCHANGED vars
  BY <1>2, <1>10 DEF vars
<1> QED
  BY <1>3, <1>4, <1>5, <1>6, <1>7, <1>8, <1>9, <1>10 DEF Next

-----------------------------------------------------------------------------
(***************************************************************************)
(* Until the first sweep.                                                  *)
(***************************************************************************)
LEMMA ElementsAppend ==
  ASSUME NEW s \in Seq(Cells), NEW c \in Cells
  PROVE  Elements(Append(s, c)) = Elements(s) \cup {c}
<1>1. /\ Len(Append(s, c)) = Len(s) + 1 /\ Append(s, c)[Len(s) + 1] = c
      /\ \A i \in 1 .. Len(s) : Append(s, c)[i] = s[i]
      /\ Len(s) \in Nat
  OBVIOUS
<1>2. 1 .. (Len(s) + 1) = (1 .. Len(s)) \cup {Len(s) + 1}
  BY <1>1
<1> QED
  BY <1>1, <1>2 DEF Elements

LEMMA ElementsFront ==
  ASSUME NEW s \in Seq(Cells), s # <<>>
  PROVE  Elements(s) \subseteq Elements(SubSeq(s, 1, Len(s) - 1)) \cup {s[Len(s)]}
<1> DEFINE front == SubSeq(s, 1, Len(s) - 1)
<1>1. /\ Len(s) \in Nat \ {0} /\ Len(front) = Len(s) - 1
      /\ \A i \in 1 .. (Len(s) - 1) : front[i] = s[i]
  <2>1. Len(s) \in Nat \ {0}
    OBVIOUS
  <2>2. PICK n \in Nat : n = Len(s) - 1
    BY <2>1
  <2>3. Len(SubSeq(s, 1, n)) = n /\ \A i \in 1 .. n : SubSeq(s, 1, n)[i] = s[i]
    BY <2>2
  <2> QED
    BY <2>1, <2>2, <2>3
<1>2. SUFFICES ASSUME NEW i \in 1 .. Len(s), i # Len(s)
               PROVE  s[i] \in Elements(front)
  BY DEF Elements
<1>3. i \in 1 .. Len(front) /\ front[i] = s[i]
  BY <1>1, <1>2
<1> HIDE DEF front
<1> QED
  BY <1>3 DEF Elements

\* A store takes marks away from other cells and gives none to them, and it
\* never makes an allocated cell free.
LEMMA StoreElsewhere ==
  ASSUME NEW bm \in [Cells -> Flag], NEW c \in Cells, NEW flags \in Flag,
         NEW d \in Cells, d # c
  PROVE  /\ Store(bm, c, flags)[d].color \in {bm[d].color, 0}
         /\ Store(bm, c, flags)[d].free => bm[d].free
BY DEF Store, Zero, Flags

LEMMA RecolorElsewhere ==
  ASSUME HeapTypes, NEW c \in Cells, NEW color \in {0, 1, Gray}
  PROVE  /\ \A d \in Cells : Recolor(c, color)[d].free => bitmap[d].free
         /\ \A d \in Cells \ {c} : Recolor(c, color)[d].color # 0 => bitmap[d].color # 0
<1>1. /\ bitmap \in [Cells -> Flag]
      /\ [bitmap[c] EXCEPT !.color = color] \in Flag
      /\ [bitmap[c] EXCEPT !.color = color].free = bitmap[c].free
  BY DEF HeapTypes, Flag
<1>2. Recolor(c, color)[c].free = bitmap[c].free
  BY <1>1 DEF Recolor, Store
<1>3. ASSUME NEW d \in Cells, d # c
      PROVE  /\ Recolor(c, color)[d].free => bitmap[d].free
             /\ Recolor(c, color)[d].color # 0 => bitmap[d].color # 0
  BY <1>1, <1>3, StoreElsewhere DEF Recolor
<1> QED
  BY <1>2, <1>3

\* What can be reached is there: the objects there are contain the roots and
\* what they refer to.
LEMMA ReachableExists ==
  ASSUME HeapTypes, NothingDangles
  PROVE  Reachable \subseteq DOMAIN ref
BY DEF HeapTypes, NothingDangles, Reachable, Closed

\* There is no way back from a sweep.
LEMMA StillEarly == TypeInv /\ [Next]_vars /\ Early' => Early
<1> SUFFICES ASSUME TypeInv, [Next]_vars, Early' PROVE Early
  OBVIOUS
<1>1. collections \in Nat /\ js \in Js
  BY DEF TypeInv, ThreadTypes
<1>2. js.pc \in {"wait", "asleep", "retry"} => collections # 0
  BY DEF TypeInv, Places
<1>3. CASE SweepEnd
  BY <1>1, <1>3 DEF SweepEnd, Early
<1>4. ASSUME collections' = collections, js'.pc = js.pc PROVE Early
  BY <1>4 DEF Early
<1>5. CASE \/ \E c \in Cells : Unroot(c) \/ \E b \in Cells \cup {NULL} : Link(c, b)
           \/ AllocFails
           \/ FinRead \/ FinTake \/ FinFinalize \/ FinCount \/ FinRelease
           \/ UNCHANGED vars
  BY <1>1, <1>4, <1>5 DEF Unroot, Link, AllocFails, FinRead, FinTake, Overwrite,
                          FinFinalize, FinCount, FinRelease, vars, Js
<1>6. CASE Alloc
  BY <1>2, <1>6 DEF Alloc, Early
<1>7. ASSUME NEW reason \in {"call", "alloc"}, Collect(reason) PROVE Early
  BY <1>7 DEF Collect, Early
<1>8. CASE Mark
  BY <1>8 DEF Mark, MarkRoot, MarkRef, MarkPop, MarkEnd, Early
<1>9. CASE SweepSkip \/ SweepRead \/ SweepWrite \/ SweepFlag
  BY <1>1, <1>9 DEF SweepSkip, SweepRead, SweepWrite, SweepFlag, Early, Js
<1>10. CASE Sleep
  BY <1>2, <1>10 DEF Sleep, Early
<1>11. CASE FinSignal
  <2>1. CASE UNCHANGED js
    BY <1>4, <1>11, <2>1 DEF FinSignal
  <2>2. CASE signal.waiting
    BY <1>2, <1>11, <2>2 DEF FinSignal, Early, TypeInv, Places
  <2> QED
    BY <1>11, <2>1, <2>2 DEF FinSignal
<1> QED
  BY <1>3, <1>5, <1>6, <1>7, <1>8, <1>9, <1>10, <1>11 DEF Next

\* What the program does: every new object gets the next cell.
LEMMA EarlyMutator ==
  ASSUME TypeInv, EarlyInv, Early,
         \/ \E c \in Cells : Unroot(c) \/ \E b \in Cells \cup {NULL} : Link(c, b)
         \/ Alloc \/ AllocFails
         \/ \E reason \in {"call", "alloc"} : Collect(reason)
  PROVE  EarlyInv'
<1>1. /\ Running /\ NothingCondemned /\ BumpInStep /\ NothingDangles /\ MarkedSoFar
      /\ HeapTypes /\ js \in Js /\ js.pc # "retry"
  BY DEF EarlyInv, Early, TypeInv, ThreadTypes, Unroot, Link, Alloc, AllocFails, Collect
<1>2. ASSUME NEW c \in Cells, Unroot(c) PROVE EarlyInv'
  <2>1. NothingDangles'
    BY <1>1, <1>2 DEF Unroot, NothingDangles, RefsOf, heap
  <2>2. MarkedSoFar'
    BY <1>1, <1>2 DEF Unroot, MarkedSoFar, Seen, Elements, RefsOf, heap
  <2> QED
    BY <1>1, <1>2, <2>1, <2>2
       DEF Unroot, EarlyInv, Running, NothingCondemned, BumpInStep, heap, queue
<1>3. ASSUME NEW a \in Cells, NEW b \in Cells \cup {NULL}, Link(a, b) PROVE EarlyInv'
  <2>1. a \in DOMAIN ref /\ b \in DOMAIN ref \cup {NULL}
    BY <1>1, <1>3, ReachableExists DEF Link
  <2>2. ref' = [ref EXCEPT ![a] = b] /\ status' = status /\ DOMAIN ref' = DOMAIN ref
    BY <1>1, <1>3, <2>1 DEF Link, HeapTypes
  <2>3. NothingDangles'
    <3>1. \A c \in DOMAIN ref : RefsOf(c)' \subseteq DOMAIN ref
      BY <1>1, <2>1, <2>2 DEF NothingDangles, RefsOf, HeapTypes
    <3> QED
      BY <1>1, <1>3, <2>2, <3>1 DEF Link, NothingDangles, heap
  <2>4. js.pc = "run" /\ js' = js
    BY <1>3 DEF Link
  <2>5. MarkedSoFar'
    <3>1. js.scanned = {}
      BY <1>1, <2>4 DEF MarkedSoFar
    <3> QED
      BY <1>1, <1>3, <2>2, <2>4, <3>1 DEF Link, MarkedSoFar, Seen, Elements, heap
  <2> QED
    BY <1>1, <1>3, <2>2, <2>3, <2>5
       DEF Link, EarlyInv, Running, NothingCondemned, BumpInStep, heap, queue
<1>4. CASE Alloc
  <2>1. /\ js.pc = "run" /\ js' = js
        /\ UNCHANGED <<white, list, cellOf, freed, fin, signal, collections>>
    BY <1>1, <1>4 DEF Alloc, queue, Js
  <2>2. Fresh <=> page = "unmade"
    BY <1>1 DEF Fresh, BumpInStep
  <2>3. Bump \in Cells /\ Taken = {Bump} /\ Bump # NULL
    <3>1. page = "listed" => bump # NULL
      BY <1>1, <1>4, <2>2 DEF Alloc, Available, BumpInStep
    <3>2. Bump \in Cells
      BY <1>1, <2>2, <3>1, GcAssumption DEF Bump, HeapTypes, BumpInStep, Cells
    <3>3. Bump # NULL
      BY <3>2, GcAssumption DEF Cells
    <3> QED
      BY <3>2, <3>3 DEF Taken
  <2>4. NewObject(Bump) /\ status' = status
    BY <1>4, <2>3 DEF Alloc
  <2>5. /\ free' = N - Bump - 1
        /\ bump' = IF Bump + 1 < N THEN Bump + 1 ELSE NULL
    <3>1. (IF Fresh THEN N ELSE free) = N - Bump
      BY <1>1, <2>2, <2>3, GcAssumption DEF BumpInStep, Bump
    <3>2. BumpFits(Bump + 1) <=> Bump + 1 < N
      BY <2>3, GcAssumption DEF BumpFits, Cells
    <3> QED
      BY <2>3, <2>4, <3>1, <3>2 DEF NewObject
  <2>6. BumpInStep'
    <3>1. bump' = NULL <=> free' = 0
      BY <2>3, <2>5, GcAssumption DEF Cells
    <3>2. bump' # NULL => free' = N - bump'
      BY <2>3, <2>5, GcAssumption DEF Cells
    <3> QED
      BY <2>4, <3>1, <3>2 DEF NewObject, BumpInStep
  <2>7. /\ \A d \in Cells : bitmap'[d].color = 0
        /\ \A d \in DOMAIN ref \cup {Bump} : ~bitmap'[d].free
    <3> DEFINE flags == Flags(FALSE, Map[Bump].fin, white)
    <3>1. /\ Map \in [Cells -> Flag] /\ flags \in Flag
          /\ flags.color = 0 /\ ~flags.free
      <4>1. Map \in [Cells -> Flag] /\ white = 0
        BY <1>1, PageTypes DEF MarkedSoFar
      <4>2. Map[Bump].fin \in BOOLEAN
        BY <2>3, <4>1 DEF Flag
      <4> QED
        BY <4>1, <4>2, FlagsType DEF Flags
    <3>2. /\ \A d \in Cells : Map[d].color = 0
          /\ \A d \in DOMAIN ref : ~Map[d].free
      BY <1>1, <2>1, <2>2 DEF Map, Flags, MarkedSoFar, BumpInStep, NothingDangles
    <3>3. bitmap' = Store(Map, Bump, flags)
      BY <2>4 DEF NewObject
    <3>4. Store(Map, Bump, flags)[Bump] = flags
      BY <2>3 DEF Store
    <3>5. ASSUME NEW d \in Cells, d # Bump
          PROVE  /\ Store(Map, Bump, flags)[d].color \in {Map[d].color, 0}
                 /\ Store(Map, Bump, flags)[d].free => Map[d].free
      <4> HIDE DEF flags
      <4> QED
        BY <2>3, <3>1, <3>5, StoreElsewhere
    <3> HIDE DEF flags
    <3> QED
      BY <1>1, <2>3, <3>1, <3>2, <3>3, <3>4, <3>5 DEF HeapTypes
  <2>8. /\ DOMAIN ref' = DOMAIN ref \cup {Bump}
        /\ roots' = roots \cup {Bump}
        /\ \A o \in DOMAIN ref \cup {Bump} : ref'[o] = IF o = Bump THEN NULL ELSE ref[o]
    BY <2>4 DEF NewObject
  <2>9. NothingDangles'
    <3>1. \A o \in DOMAIN ref \cup {Bump} : RefsOf(o)' \subseteq DOMAIN ref
      BY <1>1, <2>8 DEF NothingDangles, RefsOf
    <3> QED
      BY <1>1, <2>7, <2>8, <3>1 DEF NothingDangles
  <2>10. MarkedSoFar'
    BY <1>1, <2>1, <2>7, <2>8 DEF MarkedSoFar, Seen
  <2> QED
    BY <1>1, <2>1, <2>4, <2>6, <2>9, <2>10 DEF EarlyInv, Running, NothingCondemned
<1>5. CASE AllocFails
  BY <1>1, <1>5 DEF AllocFails
<1>6. ASSUME NEW reason \in {"call", "alloc"}, Collect(reason) PROVE EarlyInv'
  <2>1. /\ js.pc = "run"
        /\ js' = [At("roots") EXCEPT !.todo = roots, !.for = reason]
        /\ UNCHANGED <<bitmap, bump, free, page, white, ref, roots, list, fin, status>>
    BY <1>6 DEF Collect, heap, graph, queue
  <2>2. js'.pc = "roots" /\ js'.todo = roots /\ js'.scanned = {}
    BY <2>1 DEF At
  <2>3. \A c \in Cells : bitmap[c].color = 0
    BY <1>1, <2>1 DEF MarkedSoFar
  <2>4. MarkedSoFar'
    BY <1>1, <2>1, <2>2, <2>3 DEF MarkedSoFar, NothingDangles
  <2>5. NothingDangles'
    BY <1>1, <2>1 DEF NothingDangles, RefsOf
  <2> QED
    BY <1>1, <2>1, <2>4, <2>5 DEF EarlyInv, Running, NothingCondemned, BumpInStep
<1> QED
  BY <1>2, <1>3, <1>4, <1>5, <1>6

\* Marking only moves objects on: from those still to look at to those that
\* are pushed, from those pushed to those scanned.
LEMMA EarlyMarking ==
  ASSUME TypeInv, EarlyInv, Early, Mark
  PROVE  EarlyInv'
<1>1. /\ Running /\ NothingCondemned /\ BumpInStep /\ NothingDangles /\ MarkedSoFar
      /\ HeapTypes /\ js \in Js
  BY DEF EarlyInv, TypeInv, ThreadTypes, Mark, MarkRoot, MarkRef, MarkPop, MarkEnd
<1>2. /\ js.work \in Seq(Cells) /\ js.scanned \subseteq Cells /\ white = 0
      /\ bitmap \in [Cells -> Flag]
  BY <1>1 DEF Js, MarkedSoFar, HeapTypes
<1>3. ASSUME UNCHANGED <<ref, roots, list, fin, status, bump, free, page>>,
             \A d \in Cells : bitmap'[d].free => bitmap[d].free,
             MarkedSoFar'
      PROVE  EarlyInv'
  <2>1. NothingDangles'
    BY <1>1, <1>3 DEF NothingDangles, RefsOf, HeapTypes
  <2> QED
    BY <1>1, <1>3, <2>1 DEF EarlyInv, Running, NothingCondemned, BumpInStep
<1>4. ASSUME NEW c \in Cells, MarkRoot(c) PROVE EarlyInv'
  <2>1. /\ js.pc = "roots" /\ c \in js.todo /\ c \in DOMAIN ref /\ ~bitmap[c].free
        /\ UNCHANGED <<bitmap, white, ref, roots, list, fin, status, bump, free, page>>
    BY <1>1, <1>4 DEF MarkRoot, MarkedSoFar, NothingDangles, heap, graph, queue
  <2>2. /\ js'.pc = js.pc /\ js'.scanned = js.scanned /\ js'.todo = js.todo \ {c}
        /\ js'.cleared = js.cleared
        /\ js'.work = IF bitmap[c].color = 0 THEN Append(js.work, c) ELSE js.work
    BY <1>1, <1>2, <1>4, <2>1 DEF MarkRoot, IsWhite, Js
  <2>3. ASSUME ~js.cleared
        PROVE  /\ Seen \subseteq Seen' /\ c \in Seen'
               /\ Seen \cup js.todo \subseteq Seen' \cup js'.todo
    BY <1>1, <1>2, <2>1, <2>2, <2>3, ElementsAppend DEF Seen, MarkedSoFar
  <2>4. MarkedSoFar'
    BY <1>1, <2>1, <2>2, <2>3 DEF MarkedSoFar, RefsOf
  <2> QED
    BY <1>3, <2>1, <2>4
<1>5. ASSUME NEW c \in Cells, MarkRef(c) PROVE EarlyInv'
  <2>1. /\ js.pc = "mark" /\ c \in js.todo
        /\ bitmap' = IF bitmap[c].color = 0 THEN Recolor(c, Gray) ELSE bitmap
        /\ UNCHANGED <<white, ref, roots, list, fin, status, bump, free, page>>
    BY <1>2, <1>5 DEF MarkRef, IsWhite, graph, queue
  <2>2. /\ js'.pc = js.pc /\ js'.scanned = js.scanned /\ js'.todo = js.todo \ {c}
        /\ js'.cleared = js.cleared
        /\ js'.work = IF bitmap[c].color = 0 THEN Append(js.work, c) ELSE js.work
    BY <1>1, <1>2, <1>5 DEF MarkRef, IsWhite, Js
  <2>3. ASSUME ~js.cleared
        PROVE  /\ Seen \subseteq Seen' /\ c \in Seen'
               /\ Seen \cup js.todo \subseteq Seen' \cup js'.todo
    BY <1>1, <1>2, <2>1, <2>2, <2>3, ElementsAppend DEF Seen, MarkedSoFar
  <2>4. /\ \A d \in Cells : bitmap'[d].free => bitmap[d].free
        /\ \A d \in Cells \ {c} : bitmap'[d].color # 0 => bitmap[d].color # 0
    <3>1. Gray \in {0, 1, Gray}
      OBVIOUS
    <3> QED
      BY <1>1, <2>1, <3>1, RecolorElsewhere
  <2>5. MarkedSoFar'
    BY <1>1, <2>1, <2>2, <2>3, <2>4 DEF MarkedSoFar, RefsOf
  <2> QED
    BY <1>3, <2>1, <2>4, <2>5
<1>6. CASE MarkPop
  <2> DEFINE c     == js.work[Len(js.work)]
             front == SubSeq(js.work, 1, Len(js.work) - 1)
  <2>1. /\ js.todo = {} /\ js.work # <<>> /\ js.pc # "run" /\ c \in Cells
        /\ bitmap' = Recolor(c, 1)
        /\ UNCHANGED <<white, ref, roots, list, fin, status, bump, free, page>>
    BY <1>2, <1>6 DEF MarkPop, graph, queue
  <2>2. /\ js'.pc = "mark" /\ js'.work = front
        /\ js'.scanned = js.scanned \cup {c} /\ js'.todo = RefsOf(c)
        /\ js'.cleared = js.cleared
    BY <1>1, <1>6 DEF MarkPop, Js
  <2>3. Elements(js.work) \subseteq Elements(front) \cup {c}
    BY <1>2, <2>1, ElementsFront
  <2> HIDE DEF front
  <2>4. Seen \subseteq Seen' /\ c \in Seen'
    BY <2>2, <2>3 DEF Seen
  <2> HIDE DEF c
  <2>5. RefsOf(c) \subseteq DOMAIN ref
    BY <1>1 DEF NothingDangles, RefsOf
  <2>6. /\ \A d \in Cells : bitmap'[d].free => bitmap[d].free
        /\ \A d \in Cells \ {c} : bitmap'[d].color # 0 => bitmap[d].color # 0
    BY <1>1, <2>1, RecolorElsewhere
  <2>7. MarkedSoFar'
    BY <1>1, <2>1, <2>2, <2>4, <2>5, <2>6 DEF MarkedSoFar, RefsOf
  <2> QED
    BY <1>3, <2>1, <2>6, <2>7
<1>7. CASE MarkEnd
  <2>1. js'.pc = "sweep"
    BY <1>1, <1>7 DEF MarkEnd, Js
  <2> QED
    BY <2>1 DEF EarlyInv, Early
<1> QED
  BY <1>4, <1>5, <1>6, <1>7 DEF Mark

LEMMA EarlyStep == TypeInv /\ EarlyInv /\ [Next]_vars => EarlyInv'
<1> SUFFICES ASSUME TypeInv, EarlyInv, [Next]_vars, Early' PROVE EarlyInv'
  BY DEF EarlyInv
<1>1. Early
  BY StillEarly
<1>2. NothingCondemned /\ js.pc \in {"run", "roots", "mark"}
  BY <1>1 DEF EarlyInv, Early
<1>3. ASSUME UNCHANGED <<heap, graph, js, collections, status>>, NothingCondemned'
      PROVE  EarlyInv'
  BY <1>1, <1>3 DEF EarlyInv, heap, graph, Running, BumpInStep, NothingDangles,
                    MarkedSoFar, Marking, RefsOf, Seen
<1>4. CASE FinRead
  BY <1>2, <1>3, <1>4 DEF FinRead, queue, NothingCondemned
<1>5. CASE FinTake
  <2>1. fin \in [pc : {"idle", "take", "run", "count", "release"}, run : Seq(Entries)]
    BY DEF TypeInv, ThreadTypes
  <2>2. NothingCondemned'
    BY <1>2, <1>5, <2>1 DEF FinTake, NothingCondemned
  <2>3. CASE UNCHANGED <<js, status>>
    BY <1>3, <1>5, <2>2, <2>3 DEF FinTake
  <2>4. CASE Marking /\ js' = [js EXCEPT !.work = <<>>, !.cleared = TRUE]
    <3>1. /\ js'.pc = js.pc /\ js'.todo = js.todo /\ js'.cleared
          /\ js.pc # "run"
      BY <2>4 DEF TypeInv, ThreadTypes, Js, Marking
    <3>2. /\ BumpInStep /\ NothingDangles /\ MarkedSoFar
          /\ UNCHANGED <<bitmap, bump, free, page, white, ref, roots>>
      BY <1>1, <1>5 DEF EarlyInv, FinTake, heap, graph
    <3>3. BumpInStep' /\ NothingDangles'
      BY <3>2 DEF BumpInStep, NothingDangles, RefsOf
    <3>4. MarkedSoFar' /\ Marking'
      BY <2>4, <3>1, <3>2 DEF MarkedSoFar, Marking
    <3> QED
      BY <2>2, <3>1, <3>3, <3>4 DEF EarlyInv
  <2> QED
    BY <1>5, <2>3, <2>4 DEF FinTake, Overwrite
<1>6. CASE FinFinalize \/ FinCount \/ FinRelease \/ FinSignal
  BY <1>2, <1>6 DEF FinFinalize, FinCount, FinRelease, FinSignal, NothingCondemned
<1>7. CASE SweepSkip \/ SweepRead \/ SweepWrite \/ SweepFlag \/ SweepEnd \/ Sleep
  BY <1>2, <1>7 DEF SweepSkip, SweepRead, SweepWrite, SweepFlag, SweepEnd, Sleep
<1>8. CASE UNCHANGED vars
  BY <1>2, <1>3, <1>8 DEF vars, queue, NothingCondemned
<1> QED
  BY <1>1, <1>4, <1>5, <1>6, <1>7, <1>8, EarlyMutator, EarlyMarking DEF Next

-----------------------------------------------------------------------------
(***************************************************************************)
(* The invariant holds throughout, for every page and every width.         *)
(***************************************************************************)
THEOREM Invariance == Spec => []IInv
<1>1. Init => IInv
  <2> SUFFICES ASSUME Init PROVE IInv
    OBVIOUS
  <2>1. TypeInv
    BY TypeInit
  <2>2. CountInv
    <3>1. Cardinality({}) = 0
      BY FS_EmptySet
    <3> QED
      BY <3>1, GcAssumption DEF Init, CountInv
  <2>3. EarlyInv
    <3>1. ref = <<>> /\ DOMAIN ref = {} /\ roots = {} /\ Running
      BY DEF Init, Running
    <3>2. NothingCondemned /\ BumpInStep
      BY <3>1 DEF Init, NothingCondemned, BumpInStep
    <3>3. NothingDangles
      BY <3>1 DEF NothingDangles
    <3>4. js.pc = "run" /\ js.todo = {} /\ js.scanned = {} /\ ~js.cleared /\ white = 0
      BY DEF Init, At
    <3>5. \A c \in Cells : bitmap[c].color = 0
      BY DEF Init, Flags
    <3>6. MarkedSoFar
      BY <3>4, <3>5 DEF MarkedSoFar
    <3> QED
      BY <3>1, <3>2, <3>3, <3>6 DEF EarlyInv
  <2>4. ClearedInv
    BY DEF Init, At, ClearedInv
  <2> QED
    BY <2>1, <2>2, <2>3, <2>4 DEF IInv
<1>2. IInv /\ [Next]_vars => IInv'
  BY TypeStep, CountStep, ClearedStep, EarlyStep DEF IInv
<1> QED
  BY <1>1, <1>2, PTL DEF Spec

(***************************************************************************)
(* Every variable keeps its type -- num_free_cells stays below the cells   *)
(* plus the entries made -- and nothing goes wrong before a sweep begins,  *)
(* but by a store of finalizer_list that overwrites the work list.         *)
(***************************************************************************)
THEOREM QuietAndTyped == Spec => []GcInv
<1>1. ASSUME IInv PROVE GcInv
  <2>1. HeapTypes /\ ThreadTypes /\ Places /\ CountInv /\ EarlyInv
    BY <1>1 DEF IInv, TypeInv
  <2>2. free \in 0 .. N + MaxEntries
    <3>1. /\ Cardinality(freed) \in Nat /\ Cardinality(freed) <= Len(cellOf)
          /\ fin.pc = "release" => Cardinality(freed) + 1 <= Len(cellOf)
      BY <1>1, FreedIsFinite DEF IInv
    <3> QED
      BY <2>1, <3>1, GcAssumption DEF CountInv, HeapTypes, ThreadTypes
  <2>3. {list[i] : i \in DOMAIN list} \subseteq DOMAIN cellOf
    BY <2>1 DEF ThreadTypes, Entries
  <2>4. freed \subseteq DOMAIN cellOf
    BY <2>1 DEF ThreadTypes, Entries
  <2>5. /\ js.cell \in 0 .. N /\ js.scanned \subseteq Cells
        /\ js.cleared => WorkListBehind
    BY <1>1, <2>1 DEF ThreadTypes, Js, IInv, ClearedInv
  <2>6. TypeOK
    BY <2>1, <2>2, <2>3, <2>4, <2>5 DEF TypeOK, HeapTypes, ThreadTypes, Places
  <2>7. QuietUntilSwept
    BY <2>1 DEF QuietUntilSwept, EarlyInv, Early
  <2> QED
    BY <2>6, <2>7 DEF GcInv
<1> QED
  BY <1>1, Invariance, PTL

(***************************************************************************)
(* The first marking scans everything that can be reached, although every  *)
(* store of a colour may wipe out those of the cells behind; all but one   *)
(* whose work list is overwritten by the store of finalizer_list.          *)
(***************************************************************************)
THEOREM FirstMarkReachesAll == Spec => []FirstMarkIsComplete
<1>1. ASSUME IInv PROVE FirstMarkIsComplete
  <2> SUFFICES ASSUME Marking, js.todo = {}, js.work = <<>>, collections = 0,
                      ~js.cleared
               PROVE  Reachable \subseteq js.scanned
    BY DEF FirstMarkIsComplete
  <2>1. MarkedSoFar /\ js.pc # "run"
    BY <1>1 DEF IInv, EarlyInv, Early, Marking
  <2>2. js.scanned \subseteq Cells
    BY <1>1 DEF IInv, TypeInv, ThreadTypes, Js
  <2>3. Seen = js.scanned
    BY DEF Seen, Elements
  <2>4. roots \subseteq js.scanned /\ Closed(js.scanned)
    BY <2>1, <2>3 DEF MarkedSoFar, Closed
  <2> QED
    BY <2>2, <2>4 DEF Reachable
<1> QED
  BY <1>1, Invariance, PTL

=============================================================================
