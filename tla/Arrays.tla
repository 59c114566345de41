------------------------------- MODULE Arrays -------------------------------
(***************************************************************************)
(* One dense array, the methods of Array.prototype called on it, an        *)
(* iterator of it, and the methods that call JavaScript back between two   *)
(* elements (ejs-array.c).                                                 *)
(***************************************************************************)
EXTENDS DenseArray, SequencesExt

CONSTANTS Indices,   \* indices and lengths a program uses
          Starts,    \* relative positions it passes to slice, splice, fill
          Counts,    \* delete counts
          Args,      \* argument lists of push, unshift, concat, splice
          Word,      \* 2^32: len is a uint32_t in splice
          MaxLen,    \* bound: length of the array
          LoopLen,   \* bound: its length while a loop is in progress
          MaxDepth   \* bound: loops nested in callbacks

ASSUME ArgumentsAssumption ==
  /\ Indices \subseteq Int /\ Starts \subseteq Int /\ Counts \subseteq Nat
  /\ Args \subseteq Seq(Vals)
  /\ Word \in Nat \ {0} /\ LoopLen \in Nat /\ MaxDepth \in Nat
  /\ MaxLen \in Nat /\ LoopLen <= MaxLen

VARIABLES
  arr,     \* the array
  frames,  \* the loops in progress, innermost last
  last,    \* the answer of the last method
  culprit  \* the method that left the block, or ended the process

vars == <<arr, frames, last, culprit>>

Running == arr.fault = "none"

\* The array literals, Array(n), new Array(n).
Init ==
  /\ arr \in {NewCopy(vs) : vs \in Args} \cup {NewFilled(1), NewZeroed(1)}
  /\ frames = <<>>
  /\ last = <<>>
  /\ culprit = "none"

(***************************************************************************)
(* A method that changes the array to b and answers r.  When b is faulty   *)
(* the process has no defined state and nothing else changes.              *)
(***************************************************************************)
Do(method, b, r) ==
  /\ Running
  /\ b.len <= IF frames = <<>> THEN MaxLen ELSE LoopLen
  /\ IF b.fault = "none"
     THEN arr' = b /\ last' = r /\ UNCHANGED culprit
     ELSE /\ arr' = [arr EXCEPT !.fault = b.fault, !.len = IF b.len < 0 THEN -1 ELSE @]
          /\ culprit' = method
          /\ UNCHANGED last
  /\ UNCHANGED frames

Ask(method, r) == Do(method, arr, r)

Set(i, v)    == Do("set", Store(arr, i, v), <<v>>)
Length(n)    == Do("length", SetLength(arr, n), <<n>>)
Delete(i)    == Do("delete", Erase(arr, i), <<>>)
Own(i)       == OwnCell(arr, i).fault # "none" /\ Do("own", OwnCell(arr, i), <<>>)
Push(vs)     == Do("push", PushDense(arr, vs), <<arr.len + Len(vs)>>)
Unshift(vs)  == Do("unshift", UnshiftDense(arr, vs), <<arr.len + Len(vs)>>)

\* The arguments are the array's own elements.
PushItself    == Do("pushItself", PushOwn(arr), <<arr.len + arr.len>>)
UnshiftItself == Do("unshiftItself", UnshiftOwn(arr), <<arr.len + arr.len>>)

\* The cell itself comes out, a hole as a hole.
Taken(i) == IF arr.len = 0 THEN Undef ELSE arr.mem[i]
Pop      == Do("pop", PopDense(arr), <<Taken(arr.len - 1)>>)
Shift    == Do("shift", ShiftDense(arr), <<Taken(0)>>)

\* A reverse that stops one pair early.
Reversed(a) ==
  [a EXCEPT !.mem = [i \in DOMAIN @ |->
     IF i < a.len /\ 2 * i + 1 # a.len THEN Seen(@[a.len - 1 - i]) ELSE @[i]]]

Reversal == Do("reverse", Reversed(arr), <<>>)

-----------------------------------------------------------------------------
(***************************************************************************)
(* fill and splice compute max(len + rel, 0) with an unsigned len, so a    *)
(* position before the start stays negative.                               *)
(***************************************************************************)
Relative(a, rel) ==
  IF rel < 0 THEN a.len + rel ELSE (IF rel < a.len THEN rel ELSE a.len)

Unsigned(n) == n % Word

\* lo, lo+1 .. hi-1 and hi, hi-1 .. lo+1
Upwards(lo, hi)   == [p \in 1..(IF hi < lo THEN 0 ELSE hi - lo) |-> lo + p - 1]
Downwards(hi, lo) == [p \in 1..(IF hi < lo THEN 0 ELSE hi - lo) |-> hi - p + 1]

Carry(a, from, to) ==
  IF Present(a, from) THEN Store(a, to, Read(a, from)) ELSE Erase(a, to)

(***************************************************************************)
(* What one turn of a loop over the elements does to the array: store a    *)
(* value, carry an element to another index, erase an index, or nothing.   *)
(***************************************************************************)
Turn(what, at, from, value) ==
  [what |-> what, at |-> at, from |-> from, value |-> value]

Storing(at, v)     == Turn("store", at, 0, v)
Carrying(from, to) == Turn("carry", to, from, Undef)
Erasing(at)        == Turn("erase", at, 0, Undef)
Passing            == Turn("pass", 0, 0, Undef)

Perform(a, t) ==
  CASE t.what = "store" -> Store(a, t.at, t.value)
    [] t.what = "carry" -> Carry(a, t.from, t.at)
    [] t.what = "erase" -> Erase(a, t.at)
    [] OTHER            -> a

\* A lost array takes no more turns.
Continued(a, t) == IF a.fault = "none" THEN Perform(a, t) ELSE a

Looped(a, turns) ==
  LET after[p \in 0..Len(turns)] ==
        IF p = 0 THEN a ELSE Continued(after[p - 1], turns[p])
  IN  after[Len(turns)]

Filled(a, v, start, end) ==
  LET ks == Upwards(Relative(a, start), Relative(a, end))
  IN  Looped(a, [p \in DOMAIN ks |-> Storing(ks[p], v)])

Fill(v, s, e) == Do("fill", Filled(arr, v, s, e), <<>>)

\* splice: what is cut out, as a new array.
Cut(a, s, n) ==
  Looped(NewRaw(0), [p \in 1..n |-> IF Present(a, s + p - 1)
                                    THEN Storing(p - 1, Read(a, s + p - 1))
                                    ELSE Passing])

(***************************************************************************)
(* splice with n elements cut at s and m put there: the tail moves down,   *)
(* first element first, or up, last element first.  The first loop         *)
(* compares k with an unsigned number.                                     *)
(***************************************************************************)
Closing(a, s, n, m) ==
  LET end   == a.len - n
      down  == IF (s < 0) = (end < 0) THEN Upwards(s, end) ELSE <<>>
      freed == IF Unsigned(a.len) > Unsigned(end + m) THEN Downwards(a.len, end + m)
                                                      ELSE <<>>
  IN  [p \in DOMAIN down |-> Carrying(down[p] + n, down[p] + m)]
        \o [p \in DOMAIN freed |-> Erasing(freed[p] - 1)]

\* An opening loop that goes upwards, over what it has still to move.
OpeningUpwards(a, s, n, m) ==
  LET up == Upwards(s + 1, a.len - n + 1)
  IN  [p \in DOMAIN up |-> Carrying(up[p] + n - 1, up[p] + m - 1)]

Opening(a, s, n, m) ==
  LET up == Downwards(a.len - n, s)
  IN  [p \in DOMAIN up |-> Carrying(up[p] + n - 1, up[p] + m - 1)]

CutCount(a, s, count) == IF count < a.len - s THEN count ELSE a.len - s

Spliced(a, s, n, vs) ==
  LET m     == Len(vs)
      moves == IF m < n THEN Closing(a, s, n, m)
               ELSE IF m > n THEN Opening(a, s, n, m) ELSE <<>>
      b     == Looped(a, moves \o [p \in 1..m |-> Storing(s + p - 1, vs[p])])
  IN  IF b.fault # "none" THEN b ELSE SetLength(b, a.len - n + m)

Splice(start, count, vs) ==
  LET s == Relative(arr, start)
      n == CutCount(arr, s, count)
  IN  Do("splice", Spliced(arr, s, n, vs), Contents(Cut(arr, s, n)))

-----------------------------------------------------------------------------
\* slice copies cells from begin to end, whatever their signs and order.
Slice(start, end) ==
  LET begin == IF start > arr.len THEN arr.len ELSE start
      stop  == IF end > arr.len THEN arr.len ELSE end
  IN  Do("slice",
         IF stop # begin /\ (begin < 0 \/ stop < begin) THEN Failed(arr, "bounds") ELSE arr,
         [p \in 1..(stop - begin) |-> Seen(arr.mem[begin + p - 1])])

Concat(vs) == Ask("concat", Contents(arr) \o vs)

\* Array.from of the array.
From == Ask("from", Contents(arr))

IndicesOf(a, v) == {i \in 0..(a.len - 1) : a.mem[i] = v}

IndexOf(v) ==
  LET is == IndicesOf(arr, v)
  IN  Ask("indexOf", <<IF is = {} THEN -1 ELSE CHOOSE i \in is : \A j \in is : i <= j>>)

\* From min(n, len - 1), or len - |n|, downwards.
LastIndexOf(v, from) ==
  LET k  == IF from < 0 THEN arr.len + from ELSE from
      is == {i \in IndicesOf(arr, v) : i <= k}
  IN  Ask("lastIndexOf", <<IF is = {} THEN -1 ELSE CHOOSE i \in is : \A j \in is : j <= i>>)

-----------------------------------------------------------------------------
(***************************************************************************)
(* The loops.  A frame stands in a callback: the index it was called for   *)
(* and the value it was given, the length read before the first one, and   *)
(* what has been gathered: the new array of map or filter, or the          *)
(* accumulator.                                                            *)
(***************************************************************************)
Kinds == {"forEach", "every", "some", "map", "filter", "reduce", "reduceRight",
          "find", "findIndex", "join", "iterator"}

Top == frames[Len(frames)]

LiveLoops == {"forEach", "iterator"}

(***************************************************************************)
(* The indices a loop has still to call back for, if no callback changes   *)
(* the array: forEach and the `next' of an iterator compare with the       *)
(* present length, join with the one at its start and reads what is there, *)
(* the others skip what is not.                                            *)
(***************************************************************************)
Ahead(a, f) ==
  CASE f.kind \in LiveLoops   -> (f.k + 1)..(a.len - 1)
    [] f.kind = "join"        -> (f.k + 1)..(f.len - 1)
    [] f.kind = "reduceRight" -> {i \in 0..(f.k - 1) : i < a.len}
    [] OTHER                  -> {i \in (f.k + 1)..(f.len - 1) : i < a.len}

\* A loop that takes the far end of what is ahead.
NearestFromEnd(f, is) == CHOOSE i \in is : \A j \in is : j <= i

Nearest(f, is) ==
  IF f.kind = "reduceRight" THEN CHOOSE i \in is : \A j \in is : j <= i
  ELSE CHOOSE i \in is : \A j \in is : i <= j

\* join's buffer has room for one separator less than the array has elements.
JoinOverruns(a, f) == f.kind = "join" /\ a.len < f.len

\* What a loop that has seen everything answers; 1 is true and 0 is false.
Outcome(f) ==
  CASE f.kind \in {"map", "filter", "reduce", "reduceRight"} -> f.out
    [] f.kind = "every" -> <<1>>
    [] f.kind = "some"  -> <<0>>
    [] f.kind = "findIndex" -> <<-1>>
    [] OTHER -> <<Undef>>

\* Only find and filter use the value again when the callback has returned.
Kept(f, v) == IF f.kind \in {"find", "filter"} THEN v ELSE Undef

\* Goes on to the next callback of f, over the frames below it, or ends.
Continue(f, below) ==
  IF Ahead(arr, f) # {}
  THEN LET k == Nearest(f, Ahead(arr, f))
       IN  /\ frames' = Append(below, [f EXCEPT !.k = k, !.val = Kept(f, Seen(arr.mem[k]))])
           /\ last' = <<>>
           /\ UNCHANGED <<arr, culprit>>
  ELSE /\ frames' = below
       /\ last' = Outcome(f)
       /\ IF JoinOverruns(arr, f)
          THEN arr' = Failed(arr, "bounds") /\ culprit' = "join"
          ELSE UNCHANGED <<arr, culprit>>

Begun(kind, out) ==
  [kind |-> kind, k |-> IF kind = "reduceRight" THEN arr.len ELSE -1,
   len |-> IF kind \in LiveLoops THEN 0 ELSE arr.len, val |-> Undef, out |-> out]

\* map makes its array without filling it.
LoopBegin(kind) ==
  /\ Running /\ Len(frames) < MaxDepth /\ arr.len <= LoopLen
  /\ kind \notin {"reduce", "reduceRight"}
  /\ Continue(Begun(kind, IF kind = "map" THEN [p \in 1..arr.len |-> Garbage] ELSE <<>>),
              frames)

(***************************************************************************)
(* reduce and reduceRight.  The tests of the missing initial value are     *)
(* wrong in both: reduce without one always throws, reduceRight throws     *)
(* when it has one and the array is not empty.                             *)
(***************************************************************************)
ReduceBegin(init) ==
  /\ Running /\ Len(frames) < MaxDepth /\ arr.len <= LoopLen
  /\ Continue(Begun("reduce", <<init>>), frames)

ReduceRightBegin ==
  /\ Running /\ Len(frames) < MaxDepth /\ arr.len <= LoopLen
  /\ arr.len > 0
  /\ Continue([Begun("reduceRight", <<Read(arr, arr.len - 1)>>) EXCEPT !.k = arr.len - 1], frames)

ReduceRightOfEmpty(init) == arr.len = 0 /\ Ask("reduceRight", <<init>>)

ReduceAborts ==
  \/ Do("reduce", Failed(arr, "abort"), <<>>)
  \/ Do("reduceRight", Failed(arr, "abort"), <<>>)

Below == SubSeq(frames, 1, Len(frames) - 1)

\* The callback of a loop of this kind is about to return.
Returning(kind) == Running /\ frames # <<>> /\ Top.kind = kind

GoOn == Continue(Top, Below)

GoOnWith(out) == Continue([Top EXCEPT !.out = out], Below)

Leave(r) == frames' = Below /\ last' = r /\ UNCHANGED <<arr, culprit>>

ForEachReturn  == Returning("forEach") /\ GoOn
IteratorNext   == Returning("iterator") /\ GoOn
JoinReturn     == Returning("join") /\ GoOn
MapReturn(v)   == Returning("map") /\ GoOnWith([Top.out EXCEPT ![Top.k + 1] = v])
ReduceReturn(v) == Returning("reduce") /\ GoOnWith(<<v>>)
ReduceRightReturn(v) == Returning("reduceRight") /\ GoOnWith(<<v>>)
EveryReturn(accepts) == Returning("every") /\ IF accepts THEN GoOn ELSE Leave(<<0>>)
SomeReturn(accepts)  == Returning("some") /\ IF accepts THEN Leave(<<1>>) ELSE GoOn
FindReturn(accepts) ==
  Returning("find") /\ IF accepts THEN Leave(<<Top.val>>) ELSE GoOn
FindIndexReturn(accepts) ==
  Returning("findIndex") /\ IF accepts THEN Leave(<<Top.k>>) ELSE GoOn
FilterReturn(accepts) ==
  /\ Returning("filter")
  /\ GoOnWith(IF accepts THEN Append(Top.out, Top.val) ELSE Top.out)

\* The values passed to a method that takes one.
Single == {vs[1] : vs \in Args \ {<<>>}}

Next ==
  \/ \E i \in Indices, v \in Single : Set(i, v)
  \/ \E n \in Indices : n >= 0 /\ (Length(n) \/ Delete(n))
  \/ \E n \in Indices : Own(n)
  \/ \E vs \in Args : Push(vs) \/ Unshift(vs) \/ Concat(vs)
  \/ PushItself \/ UnshiftItself
  \/ Pop \/ Shift \/ Reversal \/ From
  \/ \E v \in Single, s, e \in Starts : Fill(v, s, e)
  \/ \E s \in Starts, n \in Counts, vs \in Args : Splice(s, n, vs)
  \/ \E s, e \in Starts : Slice(s, e)
  \/ \E v \in Single : IndexOf(v) \/ \E k \in Starts : LastIndexOf(v, k)
  \/ \E kind \in Kinds : LoopBegin(kind)
  \/ \E v \in Single : ReduceBegin(v) \/ ReduceRightOfEmpty(v)
  \/ ReduceRightBegin \/ ReduceAborts
  \/ ForEachReturn \/ IteratorNext \/ JoinReturn
  \/ \E v \in Single : MapReturn(v) \/ ReduceReturn(v) \/ ReduceRightReturn(v)
  \/ \E accepts \in BOOLEAN :
       \/ EveryReturn(accepts) \/ SomeReturn(accepts) \/ FindReturn(accepts)
       \/ FindIndexReturn(accepts) \/ FilterReturn(accepts)

Spec == Init /\ [][Next]_vars

-----------------------------------------------------------------------------
\* The type invariant.
TypeOK ==
  /\ WellFormed([arr EXCEPT !.len = IF @ < 0 THEN 0 ELSE @])
  /\ \A d \in DOMAIN frames : frames[d].kind \in Kinds /\ frames[d].k \in 0..MaxLen

(***************************************************************************)
(* While the process is well, the block is at least as long as the array   *)
(* says it is, and no element is what malloc left: every way to grow       *)
(* makes room and fills the gap, in any order of calls and callbacks.      *)
(***************************************************************************)
ElementsAreWritten == Running => Contained(arr)

\* Both: the fields of an array agree, and its elements are in its block.
ArrayInv == TypeOK /\ ElementsAreWritten

(***************************************************************************)
(* Only an access that names a position can leave the block: a store, a    *)
(* length or a fill beyond it, a splice or slice from before the start, a  *)
(* descriptor; and a join whose array shrank under it.  Only an array      *)
(* pushed or unshifted onto itself reads the block it has freed, and only  *)
(* when the block has no room for both.  Popping, shifting, reversing, the *)
(* other loops, and pushing anything else never go astray.                 *)
(***************************************************************************)
OnlyPositionsOrItselfFail ==
  [][/\ arr'.fault = "bounds" =>
          culprit' \in {"set", "length", "fill", "splice", "slice", "own", "join"}
     /\ arr'.fault = "freed" =>
          culprit' \in {"pushItself", "unshiftItself"} /\ arr.len + arr.len > arr.alloc]_vars

\* Called back for an index the array had when the loop began and still has.
StaysWithin(f) == f.kind \notin LiveLoops \cup {"join"} => f.k < f.len /\ f.k < arr.len

\* Nothing lies between the index the loop stood on and the one it goes to, or
\* the end, that is there now and was there when it began.
SkipsNothing ==
  LET grown == Len(frames') > Len(frames)
      f     == IF grown THEN frames'[Len(frames')] ELSE Top
      came  == IF grown THEN -1 ELSE f.k
      goes  == IF Len(frames') < Len(frames) THEN arr.len ELSE frames'[Len(frames')].k
  IN  f.kind \in LiveLoops \cup {"map", "filter", "reduce"} =>
        \A i \in (came + 1)..(goes - 1) :
          i < arr.len => f.kind \notin LiveLoops /\ i >= f.len

(***************************************************************************)
(* Whatever its callbacks do to the array, a loop sees what is there: every*)
(* loop but forEach and join calls back only for indices the array had at  *)
(* the start and still has, and one that is not left early passes over no  *)
(* element.                                                                *)
(***************************************************************************)
LoopsSeeWhatIsThere ==
  [][frames' # frames =>
       /\ \A d \in DOMAIN frames' :
            (d \in DOMAIN frames => frames[d] # frames'[d]) => StaysWithin(frames'[d])
       /\ SkipsNothing]_vars

(***************************************************************************)
(* No method answers memory nobody wrote; map in particular makes its     *)
(* array "as if by new Array(len)" (step 6).                               *)
(***************************************************************************)
AnswersAreWritten == \A p \in DOMAIN last : last[p] # Garbage

(***************************************************************************)
(* The array as a sequence of values, whatever its block does.             *)
(***************************************************************************)
Shown == IF Running THEN Contents(arr) ELSE <<>>

Abstract == INSTANCE ArraySeq WITH
  contents <- Shown,
  answer   <- last,
  alive    <- Running,
  calls    <- frames

(***************************************************************************)
(* An array is a sequence, and its methods are those of a sequence.        *)
(***************************************************************************)
ImplementsSequence == Abstract!Spec
=============================================================================
