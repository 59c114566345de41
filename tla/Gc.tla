--------------------------------- MODULE Gc ---------------------------------
(***************************************************************************)
(* The collector (ejs-gc.c): allocation, mark and sweep on the thread that *)
(* runs JavaScript, finalization on a second thread.  One page of cells of *)
(* one size, which is all the memory there is, so that an allocation that  *)
(* finds the page full goes through "collect, wait for the finalizer, try  *)
(* again".  One action per access of a thread to what the two share; an    *)
(* allocation, which holds the page's lock, and a macro that changes the   *)
(* flags of one cell are one access each.                                  *)
(*                                                                         *)
(* The flags of a cell are a byte of page_bitmap, written by               *)
(* jsextern_os_swap: a store of 8 bytes that compares nothing.  So is      *)
(* finalizer_list, which is a pointer: where that takes 4 bytes the store  *)
(* goes over the variable behind it, which may be work_list.list: the      *)
(* constant WorkListBehind.  (The 4 bytes it stores there are zeroes.)     *)
(***************************************************************************)
EXTENDS Integers, Sequences, FiniteSets

CONSTANTS N,               \* cells in the page
          Width,           \* bytes a store of one cell's flags writes: 8
          WorkListBehind,  \* is finalizer_list a pointer of 4 bytes, and
                           \* work_list.list in the 4 bytes behind it?
          NULL,
          MaxCollections,  \* bound: collections
          MaxEntries       \* bound: EJSFinalizerEntry's made

ASSUME GcAssumption == /\ N \in Nat \ {0} /\ Width \in Nat \ {0}
                       /\ MaxCollections \in Nat /\ MaxEntries \in Nat
                       /\ WorkListBehind \in BOOLEAN
                       /\ NULL \notin Int

Cells == 0 .. N - 1

VARIABLES
  bitmap,       \* page_bitmap: the flags of each cell
  bump,         \* the cell bump_ptr points at, or NULL
  free,         \* num_free_cells
  page,         \* "unmade", "listed" in heap_pages, or "free"
  white,        \* white_mask; black_mask is the other one of 0 and 1
  ref,          \* the objects: the reference that each of them holds, or NULL
  roots,        \* the cells the registered roots point at
  js,           \* the JavaScript thread
  list,         \* finalizer_list: a sequence of entries
  cellOf,       \* the gcobj of each entry made so far
  freed,        \* the entries given back to malloc
  fin,          \* the finalizer thread
  signal,       \* finalizer_cond: is its mutex held for good, who waits
  collections,  \* how many collections were completed
  status        \* "running", "aborted" or "undefined"

heap   == <<bitmap, bump, free, page, white>>
graph  == <<ref, roots>>
queue  == <<list, cellOf, freed>>
vars   == <<heap, graph, js, queue, fin, signal, collections, status>>

Running == status = "running"

Gray == 2

Flags(isFree, isFin, color) == [free |-> isFree, fin |-> isFin, color |-> color]
Zero == Flags(FALSE, FALSE, 0)

\* A store that is aligned down to the word the cell lies in.
StoreAligned(bm, c, flags) ==
  [d \in Cells |-> IF d = c THEN flags
                   ELSE IF d \div Width = c \div Width THEN Zero ELSE bm[d]]

\* The flags of cell c, and zeroes in those behind it.
Store(bm, c, flags) ==
  [d \in Cells |-> IF d = c THEN flags
                   ELSE IF c < d /\ d < c + Width THEN Zero ELSE bm[d]]

Recolor(c, color) == Store(bitmap, c, [bitmap[c] EXCEPT !.color = color])

IsWhite(c) == bitmap[c].color = white

\* What the program can reach.  (The C stack is not scanned, and is not
\* counted here either.)
RefsOf(c) == IF c \in DOMAIN ref THEN {ref[c]} \ {NULL} ELSE {}
Closed(S) == \A c \in S : RefsOf(c) \subseteq S
Reachable == {c \in Cells : \A S \in SUBSET Cells :
                              roots \subseteq S /\ Closed(S) => c \in S}

\* The thread between two collections: no locals of one.  "cleared" remembers
\* that work_list.list was overwritten during the marking.
At(pc) == [pc |-> pc, work |-> <<>>, todo |-> {}, scanned |-> {}, cell |-> 0,
           next |-> <<>>, for |-> "call", cleared |-> FALSE]

Marking == js.pc \in {"roots", "mark"}

Init ==
  /\ bitmap = [c \in Cells |-> Flags(TRUE, FALSE, 0)]
  /\ bump = NULL /\ free = 0 /\ page = "unmade"
  /\ white = 0
  /\ ref = <<>> /\ roots = {}
  /\ js = At("run")
  /\ list = <<>> /\ cellOf = <<>> /\ freed = {}
  /\ fin = [pc |-> "idle", run |-> <<>>]
  /\ signal = [held |-> FALSE, waiting |-> FALSE]
  /\ collections = 0
  /\ status = "running"

-----------------------------------------------------------------------------
(***************************************************************************)
(* The program: it links objects it can reach and gives roots up.          *)
(***************************************************************************)
Link(a, b) ==
  /\ Running /\ js.pc = "run"
  /\ a \in Reachable /\ b \in Reachable \cup {NULL}
  /\ IF a \in DOMAIN ref
     THEN ref' = [ref EXCEPT ![a] = b] /\ UNCHANGED status
     ELSE status' = "undefined" /\ UNCHANGED ref  \* its ops are gone
  /\ UNCHANGED <<heap, roots, js, queue, fin, signal, collections>>

Unroot(c) ==
  /\ Running /\ js.pc = "run"
  /\ c \in roots
  /\ roots' = roots \ {c}
  /\ UNCHANGED <<heap, ref, js, queue, fin, signal, collections, status>>

-----------------------------------------------------------------------------
(***************************************************************************)
(* _ejs_gc_alloc.  A page that is new or comes from the free list starts   *)
(* over; a listed one gives its cells in order, then those it finds free.  *)
(***************************************************************************)
\* A bump pointer that gives up the last cell.
BumpFitsStrict(b) == b + 1 < N

\* One that is kept beyond the end of the page.
BumpFitsLate(b) == b <= N

BumpFits(b) == b + 1 <= N

Fresh == page # "listed"
Bump  == IF Fresh THEN 0 ELSE bump
Map   == IF Fresh THEN [c \in Cells |-> Flags(TRUE, FALSE, 0)] ELSE bitmap
FreeCells == {c \in Cells : Map[c].free}

Available == Fresh \/ free # 0

\* The cell alloc_from_page takes, if it finds one.
Taken == IF Bump # NULL THEN {Bump}
         ELSE {c \in FreeCells : \A d \in FreeCells : c <= d}

NewObject(c) ==
  /\ bitmap' = Store(Map, c, Flags(FALSE, Map[c].fin, white))
  /\ bump' = IF Bump # NULL /\ BumpFits(Bump + 1) THEN Bump + 1 ELSE NULL
  /\ free' = (IF Fresh THEN N ELSE free) - 1
  /\ page' = "listed"
  /\ ref' = [o \in DOMAIN ref \cup {c} |-> IF o = c THEN NULL ELSE ref[o]]
  /\ roots' = roots \cup {c}

Alloc ==
  /\ Running /\ js.pc \in {"run", "retry"}
  /\ Available
  /\ IF Taken # {}
     THEN /\ \E c \in Taken : NewObject(c)
          /\ UNCHANGED status
     ELSE /\ status' = "aborted"  \* EJS_ASSERT (rv)
          /\ UNCHANGED <<bitmap, bump, free, page, graph>>
  /\ js' = [js EXCEPT !.pc = "run"]
  /\ UNCHANGED <<white, queue, fin, signal, collections>>

\* No page the second time: the throw is compiled out, the page is NULL.
AllocFails ==
  /\ Running /\ js.pc = "retry"
  /\ ~Available
  /\ status' = "undefined"
  /\ UNCHANGED <<heap, graph, js, queue, fin, signal, collections>>

\* GC.collect() or an allocation that is due for one ("call"), or an
\* allocation that failed ("alloc").
Collect(reason) ==
  /\ Running /\ js.pc = "run"
  /\ collections < MaxCollections
  /\ reason = "alloc" => ~Available
  /\ js' = [At("roots") EXCEPT !.todo = roots, !.for = reason]
  /\ UNCHANGED <<heap, graph, queue, fin, signal, collections, status>>

-----------------------------------------------------------------------------
(***************************************************************************)
(* Marking.  A root's cell is pushed but stays white: the macro grays a    *)
(* local copy of its flags.                                                *)
(***************************************************************************)
MarkRoot(c) ==
  /\ Running /\ js.pc = "roots"
  /\ c \in js.todo
  /\ js' = [js EXCEPT !.todo = @ \ {c},
                      !.work = IF ~bitmap[c].free /\ IsWhite(c)
                               THEN Append(@, c) ELSE @]
  /\ UNCHANGED <<heap, graph, queue, fin, signal, collections, status>>

\* process_worklist takes the next object and blackens it.
MarkPop ==
  /\ Running /\ js.pc \in {"roots", "mark"}
  /\ js.todo = {} /\ js.work # <<>>
  /\ LET c == js.work[Len(js.work)]
     IN  /\ bitmap' = Recolor(c, 1 - white)
         /\ js' = [js EXCEPT !.pc = "mark",
                             !.work = SubSeq(@, 1, Len(@) - 1),
                             !.todo = RefsOf(c),
                             !.scanned = @ \cup {c}]
  /\ UNCHANGED <<bump, free, page, white, graph, queue, fin, signal,
                 collections, status>>

\* A scan that grays the object before it asks whether it is white.
MarkRefGrayFirst(c) ==
  /\ Running /\ js.pc = "mark"
  /\ c \in js.todo
  /\ js' = [js EXCEPT !.todo = @ \ {c}]
  /\ bitmap' = IF IsWhite(c) THEN Recolor(c, Gray) ELSE bitmap
  /\ UNCHANGED <<bump, free, page, white, graph, queue, fin, signal,
                 collections, status>>

\* The scan of the object comes to a reference it holds.
MarkRef(c) ==
  /\ Running /\ js.pc = "mark"
  /\ c \in js.todo
  /\ js' = [js EXCEPT !.todo = @ \ {c},
                      !.work = IF IsWhite(c) THEN Append(@, c) ELSE @]
  /\ bitmap' = IF IsWhite(c) THEN Recolor(c, Gray) ELSE bitmap
  /\ UNCHANGED <<bump, free, page, white, graph, queue, fin, signal,
                 collections, status>>

\* The work is done; sweep_heap looks into the page unless it counts as empty.
MarkEnd ==
  /\ Running /\ js.pc \in {"roots", "mark"}
  /\ js.todo = {} /\ js.work = <<>>
  /\ js' = [js EXCEPT !.pc = "sweep", !.scanned = {},
                      !.cell = IF page = "unmade" \/ free = N THEN N ELSE 0]
  /\ UNCHANGED <<heap, graph, queue, fin, signal, collections, status>>

-----------------------------------------------------------------------------
(***************************************************************************)
(* Sweeping.  A white cell is prepended to the finalizer's list: the list  *)
(* is read, written, and then the cell is flagged.  (The store of the list *)
(* finds work_list.list NULL, and no other thread looks at it.)            *)
(***************************************************************************)
Condemned(c) == ~bitmap[c].free /\ ~bitmap[c].fin /\ IsWhite(c)

SweepSkip ==
  /\ Running /\ js.pc = "sweep" /\ js.cell < N
  /\ ~Condemned(js.cell)
  /\ js' = [js EXCEPT !.cell = @ + 1]
  /\ UNCHANGED <<heap, graph, queue, fin, signal, collections, status>>

SweepRead ==
  /\ Running /\ js.pc = "sweep" /\ js.cell < N
  /\ Condemned(js.cell)
  /\ Len(cellOf) < MaxEntries
  /\ cellOf' = Append(cellOf, js.cell)
  /\ js' = [js EXCEPT !.pc = "prepend", !.next = list]
  /\ UNCHANGED <<heap, graph, list, freed, fin, signal, collections, status>>

SweepWrite ==
  /\ Running /\ js.pc = "prepend"
  /\ list' = <<Len(cellOf)>> \o js.next
  /\ js' = [js EXCEPT !.pc = "flag", !.next = <<>>]
  /\ UNCHANGED <<heap, graph, cellOf, freed, fin, signal, collections, status>>

SweepFlag ==
  /\ Running /\ js.pc = "flag"
  /\ bitmap' = Store(bitmap, js.cell, Flags(FALSE, TRUE, 0))
  /\ js' = [js EXCEPT !.pc = "sweep", !.cell = @ + 1]
  /\ UNCHANGED <<bump, free, page, white, graph, queue, fin, signal,
                 collections, status>>

\* The masks change places; an allocation that failed goes to wait, one that
\* was due counts as its own second try.
SweepEnd ==
  /\ Running /\ js.pc = "sweep" /\ js.cell = N
  /\ white' = 1 - white
  /\ collections' = collections + 1
  /\ \E pc \in IF js.for = "alloc" THEN {"wait"} ELSE {"run", "retry"} :
       js' = At(pc)
  /\ UNCHANGED <<bitmap, bump, free, page, graph, queue, fin, signal, status>>

\* jsextern_signal_wait up to the sleep.  The condition was never initialised:
\* its memory is zero, which serves, or it is not.
Sleep ==
  /\ Running /\ js.pc = "wait"
  /\ \/ /\ signal' = [signal EXCEPT !.waiting = TRUE]
        /\ js' = [js EXCEPT !.pc = "asleep"]
        /\ UNCHANGED status
     \/ status' = "undefined" /\ UNCHANGED <<signal, js>>
  /\ UNCHANGED <<heap, graph, queue, fin, collections>>

-----------------------------------------------------------------------------
(***************************************************************************)
(* The finalizer thread: it reads the list, empties it, and runs through   *)
(* what it read.                                                           *)
(***************************************************************************)
FinRead ==
  /\ Running /\ fin.pc = "idle"
  /\ fin' = [pc |-> "take", run |-> list]
  /\ UNCHANGED <<heap, graph, js, queue, signal, collections, status>>

\* What the eight bytes stored for finalizer_list do to a marking: nothing (a
\* push or pop under way writes its own value after them), or its work list is
\* empty from here on, or a push or pop follows the NULL.
Overwrite ==
  \/ UNCHANGED <<js, status>>
  \/ /\ WorkListBehind /\ Marking
     /\ js' = [js EXCEPT !.work = <<>>, !.cleared = TRUE]
     /\ status' \in {"running", "undefined"}

FinTake ==
  /\ Running /\ fin.pc = "take"
  /\ list' = <<>>
  /\ Overwrite
  /\ fin' = [fin EXCEPT !.pc = IF fin.run = <<>> THEN "idle" ELSE "run"]
  /\ UNCHANGED <<heap, graph, cellOf, freed, signal, collections>>

\* An entry, up to the store that frees its cell.
FinFinalize ==
  /\ Running /\ fin.pc = "run" /\ fin.run # <<>>
  /\ LET e == Head(fin.run)
         c == cellOf[e]
     IN  IF e \in freed
         THEN status' = "undefined" /\ UNCHANGED <<bitmap, ref, fin>>
         ELSE IF bitmap[c].free
         THEN fin' = [fin EXCEPT !.run = Tail(@)] /\ UNCHANGED <<bitmap, ref, status>>
         ELSE IF ~bitmap[c].fin
         THEN status' = "aborted" /\ UNCHANGED <<bitmap, ref, fin>>
         ELSE /\ ref' = [o \in DOMAIN ref \ {c} |-> ref[o]]
              /\ bitmap' = Store(bitmap, c, Flags(TRUE, FALSE, 0))
              /\ fin' = [fin EXCEPT !.pc = "count"]
              /\ UNCHANGED status
  /\ UNCHANGED <<bump, free, page, white, roots, js, queue, signal, collections>>

FinCount ==
  /\ Running /\ fin.pc = "count"
  /\ free' = free + 1
  /\ fin' = [fin EXCEPT !.pc = "release"]
  /\ UNCHANGED <<bitmap, bump, page, white, graph, js, queue, signal,
                 collections, status>>

\* The page goes to the free list when it counts as empty; the entry is freed.
FinRelease ==
  /\ Running /\ fin.pc = "release"
  /\ page' = IF free = N THEN "free" ELSE page
  /\ status' = IF free = N /\ page = "free" THEN "undefined" ELSE status
  /\ freed' = freed \cup {Head(fin.run)}
  /\ fin' = [pc |-> "run", run |-> Tail(fin.run)]
  /\ UNCHANGED <<bitmap, bump, free, white, graph, js, list, cellOf, signal,
                 collections>>

\* jsextern_signal_send; the one it wakes up locks the mutex once more.
FinSignal ==
  /\ Running /\ fin.pc = "run" /\ fin.run = <<>>
  /\ ~signal.held
  /\ \/ /\ fin' = [fin EXCEPT !.pc = "idle"]
        /\ IF signal.waiting
           THEN /\ signal' = [held |-> TRUE, waiting |-> FALSE]
                /\ js' = [js EXCEPT !.pc = "retry"]
           ELSE UNCHANGED <<signal, js>>
        /\ UNCHANGED status
     \/ status' = "undefined" /\ UNCHANGED <<fin, signal, js>>
  /\ UNCHANGED <<heap, graph, queue, collections>>

-----------------------------------------------------------------------------
Mark == \/ \E c \in Cells : MarkRoot(c) \/ MarkRef(c)
        \/ MarkPop \/ MarkEnd

Next ==
  \/ \E c \in Cells : Unroot(c) \/ \E b \in Cells \cup {NULL} : Link(c, b)
  \/ Alloc \/ AllocFails
  \/ \E reason \in {"call", "alloc"} : Collect(reason)
  \/ Mark
  \/ SweepSkip \/ SweepRead \/ SweepWrite \/ SweepFlag \/ SweepEnd
  \/ Sleep
  \/ FinRead \/ FinTake \/ FinFinalize \/ FinCount \/ FinRelease \/ FinSignal

Spec == Init /\ [][Next]_vars

\* The JavaScript thread is running while it marks.
FairSpec == Spec /\ WF_vars(Mark)

-----------------------------------------------------------------------------
Flag == [free : BOOLEAN, fin : BOOLEAN, color : {0, 1, Gray}]

\* Every variable holds what the code can store in it.
TypeOK ==
  /\ bitmap \in [Cells -> Flag]
  /\ bump \in Cells \cup {NULL} /\ free \in 0 .. N + MaxEntries
  /\ page \in {"unmade", "listed", "free"} /\ white \in {0, 1}
  /\ DOMAIN ref \subseteq Cells /\ roots \subseteq Cells
  /\ \A c \in DOMAIN ref : ref[c] \in Cells \cup {NULL}
  /\ {list[i] : i \in DOMAIN list} \subseteq DOMAIN cellOf
  /\ freed \subseteq DOMAIN cellOf
  /\ js.cell \in 0 .. N /\ js.scanned \subseteq Cells
  /\ js.cleared => WorkListBehind
  /\ signal.waiting <=> js.pc = "asleep"
  /\ status \in {"running", "aborted", "undefined"}

\* process_worklist comes to an end: a store that resets the marks of the
\* cells behind the one it is for makes objects be scanned again, but not for
\* ever.
MarkingEnds == Running /\ Marking ~> ~Marking \/ ~Running

\* The marking of the first collection, in which zero is white, scans every
\* object that can be reached from a root, unless the finalizer's store of its
\* list went over the work list in the meantime.
FirstMarkIsComplete ==
  Marking /\ js.todo = {} /\ js.work = <<>> /\ collections = 0 /\ ~js.cleared
    => Reachable \subseteq js.scanned

\* Until a sweep begins every allocation that finds cells left gets one: it
\* is by bump_ptr only that they are found, as the bitmap calls the cells
\* behind the first one taken allocated.  Only that store can do harm so early,
\* and only to a marking.
QuietUntilSwept ==
  collections = 0 /\ js.pc \in {"run", "roots", "mark"}
    => Running \/ (Marking /\ js.cleared)

\* Both: the bump pointer stays in its page, and serves all of it.
GcInv == TypeOK /\ QuietUntilSwept

\* CELL_FINALIZABLE: "object in cell is ready to be finalized", so nothing
\* that can be reached is flagged.
LiveIsKept == \A c \in Cells : bitmap[c].fin => c \notin Reachable

=============================================================================
