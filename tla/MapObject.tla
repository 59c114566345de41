------------------------------ MODULE MapObject ------------------------------
(***************************************************************************)
(* The Map object and its iterators (ejs-map.c).  One Map, the iterators   *)
(* made on it and the forEach calls in progress on it.  A call of a method *)
(* is one action; forEach is one action per callback, because the callback *)
(* is JavaScript and may call anything.                                    *)
(***************************************************************************)
EXTENDS EntryList

CONSTANTS Keys,        \* the values used as keys
          Vals,        \* the values stored
          Iterators,   \* handles of the iterators a program makes
          MaxEntries,  \* bound: nodes in one entry list
          MaxLists,    \* bound: runs of the constructor on this object, + 1
          MaxDepth     \* bound: forEach calls nested in callbacks

ASSUME MapAssumption ==
  /\ MaxEntries \in Nat /\ MaxLists \in Nat /\ MaxDepth \in Nat
  /\ \A k \in Keys : k.tag # Empty.tag

VARIABLES
  lists,       \* the entry lists headed so far; the last one is head_insert's
  comparator,  \* undefined, or the string "is"
  iters,       \* the EJSMapIterator of each handle
  frames,      \* the forEach calls in progress, innermost last
  last,        \* the last call of a method of the map returned
  status       \* "running", or "aborted" after EJS_NOT_IMPLEMENTED

vars == <<lists, comparator, iters, frames, last, status>>

Self  == Value("OBJECT", "this")
StrIs == Value("STRING", "is")

entries == lists[Len(lists)]

Same(x, y) == IF comparator = Undefined THEN SameValueZero(x, y)
                                        ELSE SameValue(x, y)

(***************************************************************************)
(* An iterator: whether it was made and what its `iterated' slot says, its *)
(* next_index, and (history, for the properties) the list and the position *)
(* of the entry it yielded last.                                           *)
(***************************************************************************)
Unmade   == [on |-> "unmade", index |-> 0, list |-> 0, pos |-> 0]
NewIter  == [on |-> "map",    index |-> 0, list |-> 0, pos |-> 0]

Answer(method, k, r) == last' = Call(method, k, r)

Running == status = "running"

Init ==
  /\ lists = << <<>> >>
  /\ comparator = Undefined
  /\ iters = [i \in Iterators |-> Unmade]
  /\ frames = <<>>
  /\ last = Call("none", Undefined, Undefined)
  /\ status = "running"

SetEntries(es) == lists' = [lists EXCEPT ![Len(lists)] = es]

(***************************************************************************)
(* The constructor on this object.  It empties the list whatever the list  *)
(* holds: the nodes stay reachable from a forEach that is walking them.    *)
(***************************************************************************)
Construct(c) ==
  /\ Running
  /\ Len(lists) < MaxLists
  /\ lists' = Append(lists, <<>>)
  /\ comparator' = c
  /\ Answer("construct", Undefined, Self)
  /\ UNCHANGED <<iters, frames, status>>

\* A set that appends without looking.
SetNoScan(k, v) ==
  /\ Running
  /\ ~ScanAborts(entries, Same, k)
  /\ Len(entries) < MaxEntries
  /\ SetEntries(Append(entries, Entry(k, v)))
  /\ Answer("put", k, Self)
  /\ UNCHANGED <<comparator, iters, frames, status>>

Set(k, v) ==
  /\ Running
  /\ ~ScanAborts(entries, Same, k)
  /\ \/ /\ Holds(entries, Same, k)
        /\ SetEntries([entries EXCEPT ![At(entries, Same, k)].value = v])
     \/ /\ ~Holds(entries, Same, k)
        /\ Len(entries) < MaxEntries
        /\ SetEntries(Append(entries, Entry(k, v)))
  /\ Answer("put", k, Self)
  /\ UNCHANGED <<comparator, iters, frames, status>>

Get(k) ==
  /\ Running
  /\ ~ScanAborts(entries, Same, k)
  /\ Answer("get", k, IF Holds(entries, Same, k)
                      THEN entries[At(entries, Same, k)].value ELSE Undefined)
  /\ UNCHANGED <<lists, comparator, iters, frames, status>>

Has(k) ==
  /\ Running
  /\ ~ScanAborts(entries, Same, k)
  /\ Answer("has", k, Truth(Holds(entries, Same, k)))
  /\ UNCHANGED <<lists, comparator, iters, frames, status>>

\* The steps of the method are comments; the body returns false.
Delete(k) ==
  /\ Running
  /\ Answer("delete", k, False)
  /\ UNCHANGED <<lists, comparator, iters, frames, status>>

\* A clear that blanks the head entry only.
ClearHead ==
  /\ Running
  /\ SetEntries([i \in DOMAIN entries |->
                    IF i = 1 THEN Tombstone ELSE entries[i]])
  /\ Answer("clear", Undefined, Undefined)
  /\ UNCHANGED <<comparator, iters, frames, status>>

\* A clear that keeps the values: they stay reachable from the list.
ClearKeysOnly ==
  /\ Running
  /\ SetEntries([i \in DOMAIN entries |-> [entries[i] EXCEPT !.key = Empty]])
  /\ Answer("clear", Undefined, Undefined)
  /\ UNCHANGED <<comparator, iters, frames, status>>

Clear ==
  /\ Running
  /\ SetEntries([i \in DOMAIN entries |-> Tombstone])
  /\ Answer("clear", Undefined, Undefined)
  /\ UNCHANGED <<comparator, iters, frames, status>>

\* get, has and set stop the process on a symbol key (Values!SameAborts).
Crash(k) ==
  /\ Running
  /\ ScanAborts(entries, Same, k)
  /\ status' = "aborted"
  /\ UNCHANGED <<lists, comparator, iters, frames, last>>

-----------------------------------------------------------------------------
\* keys(), values() and entries(): the three kinds differ in what they copy
\* out of an entry, not in which entry they come to.
IterNew(i) ==
  /\ Running
  /\ iters[i].on = "unmade"
  /\ iters' = [iters EXCEPT ![i] = NewIter]
  /\ UNCHANGED <<lists, comparator, frames, last, status>>

(***************************************************************************)
(* next: the iterator comes to the live entry that has as many live ones   *)
(* before it as its index says, or it has finished and drops the map.  (On *)
(* a finished iterator next answers "done" and changes nothing.)           *)
(***************************************************************************)
Yielded(it, p) ==
  [on |-> "map", index |-> it.index + 1, list |-> Len(lists), pos |-> p]

\* A next that counts before it compares (++i for i++).
AdvancePreIncrement(it) ==
  LET ps == NthLive(entries, IF it.index = 0 THEN 0 ELSE it.index - 1)
  IN  IF ps = {} THEN [it EXCEPT !.on = "done"] ELSE Yielded(it, First(ps))

Advance(it) ==
  LET ps == NthLive(entries, it.index)
  IN  IF ps = {} THEN [it EXCEPT !.on = "done"] ELSE Yielded(it, First(ps))

IterNext(i) ==
  /\ Running
  /\ iters[i].on = "map"
  /\ iters' = [iters EXCEPT ![i] = Advance(@)]
  /\ UNCHANGED <<lists, comparator, frames, last, status>>

-----------------------------------------------------------------------------
(***************************************************************************)
(* forEach walks next_insert from the head the list had when it began.     *)
(* `seen' is the history of the positions whose callback has run.          *)
(***************************************************************************)
Walk(f) ==
  LET ahead == LiveBeyond(lists[f.list], f.pos)
  IN  [f EXCEPT !.pos = First(ahead), !.seen = @ \cup {First(ahead)}]

NewFrame == [list |-> Len(lists), pos |-> 0, seen |-> {}]

ForEachBegin ==
  /\ Running
  /\ Len(frames) < MaxDepth
  /\ IF Live(entries) = {}
     THEN Answer("forEach", Undefined, Undefined) /\ UNCHANGED frames
     ELSE frames' = Append(frames, Walk(NewFrame)) /\ UNCHANGED last
  /\ UNCHANGED <<lists, comparator, iters, status>>

\* A callback returns; the next live entry, if any, is handed to another.
ForEachNext ==
  /\ Running
  /\ frames # <<>>
  /\ LET top == frames[Len(frames)]
     IN  /\ LiveBeyond(lists[top.list], top.pos) # {}
         /\ frames' = [frames EXCEPT ![Len(frames)] = Walk(top)]
  /\ UNCHANGED <<lists, comparator, iters, last, status>>

\* A walk that ends at the first tombstone after it.
ForEachEndEarly ==
  /\ Running
  /\ frames # <<>>
  /\ LET top == frames[Len(frames)]
     IN  \/ LiveBeyond(lists[top.list], top.pos) = {}
         \/ /\ top.pos + 1 \in DOMAIN lists[top.list]
            /\ top.pos + 1 \notin Live(lists[top.list])
  /\ frames' = SubSeq(frames, 1, Len(frames) - 1)
  /\ Answer("forEach", Undefined, Undefined)
  /\ UNCHANGED <<lists, comparator, iters, status>>

ForEachEnd ==
  /\ Running
  /\ frames # <<>>
  /\ LET top == frames[Len(frames)]
     IN  LiveBeyond(lists[top.list], top.pos) = {}
  /\ frames' = SubSeq(frames, 1, Len(frames) - 1)
  /\ Answer("forEach", Undefined, Undefined)
  /\ UNCHANGED <<lists, comparator, iters, status>>

-----------------------------------------------------------------------------
Next ==
  \/ \E c \in {Undefined, StrIs} : Construct(c)
  \/ \E k \in Keys, v \in Vals : Set(k, v)
  \/ \E k \in Keys : Get(k) \/ Has(k) \/ Delete(k) \/ Crash(k)
  \/ Clear
  \/ \E i \in Iterators : IterNew(i) \/ IterNext(i)
  \/ ForEachBegin \/ ForEachNext \/ ForEachEnd

Spec == Init /\ [][Next]_vars

-----------------------------------------------------------------------------
IterType == [on: {"unmade", "map", "done"}, index: Nat, list: Nat, pos: Nat]

EntryType == [key: Keys, value: Vals] \cup {Tombstone}

\* The type invariant; no call lets the magic value out.
TypeOK ==
  /\ lists \in Seq(Seq(EntryType))
  /\ Len(lists) >= 1
  /\ comparator \in {Undefined, StrIs}
  /\ iters \in [Iterators -> IterType]
  /\ frames \in Seq([list: Nat, pos: Nat, seen: SUBSET Nat])
  /\ last.answer \in Vals \cup {Self, Undefined, True, False}
  /\ status \in {"running", "aborted"}

(***************************************************************************)
(* No key is in the list twice: an entry whose key the comparator would    *)
(* have matched is updated in place, so at most one live entry answers for *)
(* a key.  The scan runs over tombstones too, which must never match.      *)
(***************************************************************************)
UniqueKeys ==
  \A i, j \in Live(entries) :
    i < j => ~Same(entries[i].key, entries[j].key)

(***************************************************************************)
(* An iterator only moves forward: next never yields an entry it has       *)
(* passed, whatever was cleared, deleted or added since, although          *)
(* next_index counts live entries and clear renumbers them.                *)
(***************************************************************************)
IterForward ==
  [][\A i \in Iterators :
       iters'[i].index > iters[i].index /\ iters'[i].list = iters[i].list
         => iters'[i].pos > iters[i].pos]_vars

(***************************************************************************)
(* forEach reaches every entry: when it returns, each entry of the list it *)
(* walked that is still there has been given to the callback, those        *)
(* appended by the callbacks included.                                     *)
(***************************************************************************)
ForEachReachesAll ==
  [][Len(frames') < Len(frames) =>
       LET top == frames[Len(frames)]
       IN  Live(lists[top.list]) \subseteq top.seen]_vars

(***************************************************************************)
(* The Map is an ordered dictionary.  A re-run of the constructor is a     *)
(* clear that returns the map.                                             *)
(***************************************************************************)
Abstract == INSTANCE OrderedMap WITH dict <- LiveEntries(entries)

(***************************************************************************)
(* Every step of the Map is a step of that dictionary, or changes nothing  *)
(* in it; its delete always refuses.                                       *)
(***************************************************************************)
ImplementsOrderedMap == Abstract!SpecWithoutDelete
=============================================================================
