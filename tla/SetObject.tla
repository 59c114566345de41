------------------------------ MODULE SetObject ------------------------------
(***************************************************************************)
(* The Set object and its iterators (ejs-set.c).  Unlike Map it has a      *)
(* working delete, it turns -0 into +0 when it appends, and its            *)
(* constructor refuses a set that has ever held an entry.                  *)
(***************************************************************************)
EXTENDS EntryList, TLC

CONSTANTS Keys,        \* the values added
          Iterators,   \* handles of the iterators a program makes
          MaxEntries,  \* bound: nodes in the entry list
          MaxDepth     \* bound: forEach calls nested in callbacks

ASSUME SetAssumption ==
  /\ MaxEntries \in Nat /\ MaxDepth \in Nat
  /\ \A k \in Keys : k.tag # Empty.tag

VARIABLES
  entries,     \* the list from head_insert on; an entry is its own value
  iters,       \* the EJSSetIterator of each handle
  frames,      \* the forEach calls in progress, innermost last
  last,        \* the last call of a method of the set returned
  status       \* "running", or "aborted"

vars == <<entries, iters, frames, last, status>>

Self      == Value("OBJECT", "this")
Number(n) == Value("NUMBER", ToString(n))
Member(k) == Entry(k, k)

Unmade  == [on |-> "unmade", index |-> 0, pos |-> 0]
NewIter == [on |-> "set",    index |-> 0, pos |-> 0]

Answer(method, k, r) == last' = Call(method, k, r)

Running == status = "running"

Init ==
  /\ entries = <<>>
  /\ iters = [i \in Iterators |-> Unmade]
  /\ frames = <<>>
  /\ last = Call("none", Undefined, Undefined)
  /\ status = "running"

(***************************************************************************)
(* The constructor called on this set.  With an iterable it goes on to     *)
(* call `add' once per item: those are Add actions.                        *)
(***************************************************************************)
Construct ==
  /\ Running
  /\ entries = <<>>
  /\ Answer("construct", Undefined, Self)
  /\ UNCHANGED <<entries, iters, frames, status>>

\* Step 4 throws; nothing catches, and the throw ends in EJS_NOT_REACHED.
ConstructAgain ==
  /\ Running
  /\ entries # <<>>
  /\ status' = "aborted"
  /\ UNCHANGED <<entries, iters, frames, last>>

Normal(k) == IF IsNegZero(k) THEN PosZero ELSE k

\* An add that appends without looking.
AddNoScan(k) ==
  /\ Running
  /\ ~ScanAborts(entries, SameValueZero, k)
  /\ Len(entries) < MaxEntries
  /\ entries' = Append(entries, Member(Normal(k)))
  /\ Answer("put", k, Self)
  /\ UNCHANGED <<iters, frames, status>>

\* The scan looks for the value as given, the append stores it normalised.
Add(k) ==
  /\ Running
  /\ ~ScanAborts(entries, SameValueZero, k)
  /\ \/ /\ Holds(entries, SameValueZero, k)
        /\ UNCHANGED entries
     \/ /\ ~Holds(entries, SameValueZero, k)
        /\ Len(entries) < MaxEntries
        /\ entries' = Append(entries, Member(Normal(k)))
  /\ Answer("put", k, Self)
  /\ UNCHANGED <<iters, frames, status>>

Has(k) ==
  /\ Running
  /\ ~ScanAborts(entries, SameValueZero, k)
  /\ Answer("has", k, Truth(Holds(entries, SameValueZero, k)))
  /\ UNCHANGED <<entries, iters, frames, status>>

\* A delete that answers true and blanks the entry after the one it found.
DeleteOffByOne(k) ==
  /\ Running
  /\ ~ScanAborts(entries, SameValueZero, k)
  /\ IF Holds(entries, SameValueZero, k)
     THEN /\ entries' = [p \in DOMAIN entries |->
                           IF p = At(entries, SameValueZero, k) + 1
                           THEN Tombstone ELSE entries[p]]
          /\ Answer("delete", k, True)
     ELSE UNCHANGED entries /\ Answer("delete", k, False)
  /\ UNCHANGED <<iters, frames, status>>

Delete(k) ==
  /\ Running
  /\ ~ScanAborts(entries, SameValueZero, k)
  /\ IF Holds(entries, SameValueZero, k)
     THEN /\ entries' = [entries EXCEPT ![At(entries, SameValueZero, k)]
                                          = Tombstone]
          /\ Answer("delete", k, True)
     ELSE UNCHANGED entries /\ Answer("delete", k, False)
  /\ UNCHANGED <<iters, frames, status>>

\* A clear that keeps the values: they stay reachable from the list.
ClearKeysOnly ==
  /\ Running
  /\ entries' = [p \in DOMAIN entries |-> [entries[p] EXCEPT !.key = Empty]]
  /\ Answer("clear", Undefined, Undefined)
  /\ UNCHANGED <<iters, frames, status>>

Clear ==
  /\ Running
  /\ entries' = [p \in DOMAIN entries |-> Tombstone]
  /\ Answer("clear", Undefined, Undefined)
  /\ UNCHANGED <<iters, frames, status>>

Size ==
  /\ Running
  /\ Answer("size", Undefined, Number(Cardinality(Live(entries))))
  /\ UNCHANGED <<entries, iters, frames, status>>

\* add, delete and has stop the process on a symbol (Values!SameAborts).
Crash(k) ==
  /\ Running
  /\ ScanAborts(entries, SameValueZero, k)
  /\ status' = "aborted"
  /\ UNCHANGED <<entries, iters, frames, last>>

-----------------------------------------------------------------------------
\* values(), keys() (the same function) and entries().
IterNew(i) ==
  /\ Running
  /\ iters[i].on = "unmade"
  /\ iters' = [iters EXCEPT ![i] = NewIter]
  /\ UNCHANGED <<entries, frames, last, status>>

(***************************************************************************)
(* next: the iterator comes to the live entry that has as many live ones   *)
(* before it as its index says, or it has finished and drops the set.  (On *)
(* a finished iterator next answers "done" and changes nothing.)           *)
(***************************************************************************)
Yielded(it, p) ==
  [on |-> "set", index |-> it.index + 1, pos |-> p]

\* A next that counts before it compares (++i for i++).
AdvancePreIncrement(it) ==
  LET ps == NthLive(entries, IF it.index = 0 THEN 0 ELSE it.index - 1)
  IN  IF ps = {} THEN [it EXCEPT !.on = "done"] ELSE Yielded(it, First(ps))

Advance(it) ==
  LET ps == NthLive(entries, it.index)
  IN  IF ps = {} THEN [it EXCEPT !.on = "done"] ELSE Yielded(it, First(ps))

IterNext(i) ==
  /\ Running
  /\ iters[i].on = "set"
  /\ iters' = [iters EXCEPT ![i] = Advance(@)]
  /\ UNCHANGED <<entries, frames, last, status>>

-----------------------------------------------------------------------------
\* `seen' is the history of the positions handed to the callback.
Walk(f) == LET p == First(LiveBeyond(entries, f.pos))
           IN  [pos |-> p, seen |-> f.seen \cup {p}]

ForEachBegin ==
  /\ Running
  /\ Len(frames) < MaxDepth
  /\ IF Live(entries) = {}
     THEN Answer("forEach", Undefined, Undefined) /\ UNCHANGED frames
     ELSE /\ frames' = Append(frames, Walk([pos |-> 0, seen |-> {}]))
          /\ UNCHANGED last
  /\ UNCHANGED <<entries, iters, status>>

ForEachNext ==
  /\ Running
  /\ frames # <<>>
  /\ LiveBeyond(entries, frames[Len(frames)].pos) # {}
  /\ frames' = [frames EXCEPT ![Len(frames)] = Walk(@)]
  /\ UNCHANGED <<entries, iters, last, status>>

\* A walk that stops when the entry it stands on was deleted.
ForEachEndOnDeleted ==
  /\ Running
  /\ frames # <<>>
  /\ LET top == frames[Len(frames)]
     IN  \/ LiveBeyond(entries, top.pos) = {}
         \/ top.pos \notin Live(entries)
  /\ frames' = SubSeq(frames, 1, Len(frames) - 1)
  /\ Answer("forEach", Undefined, Undefined)
  /\ UNCHANGED <<entries, iters, status>>

ForEachEnd ==
  /\ Running
  /\ frames # <<>>
  /\ LiveBeyond(entries, frames[Len(frames)].pos) = {}
  /\ frames' = SubSeq(frames, 1, Len(frames) - 1)
  /\ Answer("forEach", Undefined, Undefined)
  /\ UNCHANGED <<entries, iters, status>>

-----------------------------------------------------------------------------
Next ==
  \/ Construct \/ ConstructAgain
  \/ \E k \in Keys : Add(k) \/ Has(k) \/ Delete(k) \/ Crash(k)
  \/ Clear \/ Size
  \/ \E i \in Iterators : IterNew(i) \/ IterNext(i)
  \/ ForEachBegin \/ ForEachNext \/ ForEachEnd

Spec == Init /\ [][Next]_vars

-----------------------------------------------------------------------------
Stored == {Normal(k) : k \in Keys}

\* The type invariant; the set never stores -0.
TypeOK ==
  /\ entries \in Seq({Member(k) : k \in Stored} \cup {Tombstone})
  /\ iters \in [Iterators -> [on: {"unmade", "set", "done"},
                              index: Nat, pos: Nat]]
  /\ frames \in Seq([pos: Nat, seen: SUBSET Nat])
  /\ last.answer \in {Self, Undefined, True, False}
                       \cup {Number(n) : n \in 0..MaxEntries}
  /\ status \in {"running", "aborted"}

(***************************************************************************)
(* No two live entries are the same value: add finds the entry a value     *)
(* already has, behind any number of tombstones.                           *)
(***************************************************************************)
UniqueMembers ==
  \A p, q \in Live(entries) :
    p < q => ~SameValueZero(entries[p].key, entries[q].key)

\* Both: the value that marks a deleted node is no member, and no member
\* is there twice.
SetInv == TypeOK /\ UniqueMembers

(***************************************************************************)
(* An iterator only moves forward: next never yields an entry it has       *)
(* passed, although next_index counts live entries and each delete         *)
(* renumbers those behind it.                                              *)
(***************************************************************************)
IterForward ==
  [][\A i \in Iterators : iters'[i].index > iters[i].index
                            => iters'[i].pos > iters[i].pos]_vars

(***************************************************************************)
(* When forEach returns, every entry still in the set has been given to    *)
(* the callback, whatever the callbacks deleted, cleared or added.         *)
(***************************************************************************)
ForEachReachesAll ==
  [][Len(frames') < Len(frames)
       => Live(entries) \subseteq frames[Len(frames)].seen]_vars

(***************************************************************************)
(* The Set is an ordered dictionary whose values are its keys.             *)
(***************************************************************************)
Abstract == INSTANCE OrderedMap WITH Vals <- Keys, dict <- LiveEntries(entries)

(***************************************************************************)
(* Every step of the Set is a step of that dictionary, or changes nothing  *)
(* in it.                                                                  *)
(***************************************************************************)
ImplementsES6Set == Abstract!Spec
=============================================================================
