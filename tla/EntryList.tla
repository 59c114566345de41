------------------------------ MODULE EntryList ------------------------------
(***************************************************************************)
(* The insertion-ordered entry list that Map and Set keep (EJSKeyValueEntry*)
(* in ejs-map.h, EJSSetValueEntry in ejs-set.h), as a sequence.  Entries   *)
(* are appended at the tail and are never unlinked: clear and delete       *)
(* overwrite the key with the magic value Empty and leave the node.        *)
(***************************************************************************)
EXTENDS Values, Integers, Sequences, FiniteSets

Entry(k, v) == [key |-> k, value |-> v]
Tombstone   == Entry(Empty, Empty)

First(S) == CHOOSE i \in S : \A j \in S : i <= j

Live(es)          == {i \in DOMAIN es : es[i].key # Empty}
LiveUpTo(es, p)   == {i \in Live(es) : i <= p}
LiveBeyond(es, p) == {i \in Live(es) : i > p}

(***************************************************************************)
(* Where the scan of get, has, set, add and delete stops: the first entry  *)
(* the comparator accepts, or on which it stops the process.               *)
(***************************************************************************)
Stops(es, Same(_, _), k) ==
  {i \in DOMAIN es : Same(es[i].key, k) \/ SameAborts(es[i].key, k)}

ScanAborts(es, Same(_, _), k) ==
  /\ Stops(es, Same, k) # {}
  /\ SameAborts(es[First(Stops(es, Same, k))].key, k)

Holds(es, Same(_, _), k) == Stops(es, Same, k) # {} /\ ~ScanAborts(es, Same, k)

At(es, Same(_, _), k) == First(Stops(es, Same, k))

(***************************************************************************)
(* What an iterator whose next_index is n yields: the live entry that has  *)
(* exactly n live entries before it.                                       *)
(***************************************************************************)
NthLive(es, n) == {p \in Live(es) : Cardinality(LiveUpTo(es, p - 1)) = n}

\* The entries that are not tombstones, in order.
LiveEntries(es) ==
  [n \in 1..Cardinality(Live(es)) |-> es[First(NthLive(es, n - 1))]]
=============================================================================
