------------------------------- MODULE Bytes --------------------------------
(***************************************************************************)
(* What array buffers and their views promise: blocks of bytes, places in  *)
(* them that never move, and loads and stores through those places that    *)
(* all see the same bytes for as long as something shows them.  Addresses  *)
(* are machine words.                                                      *)
(***************************************************************************)
EXTENDS Integers, Sequences, FiniteSets, SequencesExt

CONSTANTS Buffers, Views,
          Byte,      \* the values of a byte, 0 among them
          Sizes,     \* the sizes of elements
          Word,      \* the number of values of a machine word
          MaxBlock   \* the largest block

VARIABLES
  store,    \* the bytes of each buffer's own block
  origin,   \* where each buffer begins
  window,   \* where each view begins, the size and the number of its elements
  last,     \* the last load or store
  broken    \* a store went outside its block

vars == <<store, origin, window, last, broken>>

None    == [block |-> 0]
Nothing == [op |-> "none"]
Tuples(k) == [1..k -> Byte]

Init ==
  /\ store = [b \in Buffers |-> <<>>]
  /\ origin = [b \in Buffers |-> None]
  /\ window = [v \in Views |-> None]
  /\ last = Nothing
  /\ broken = FALSE

\* A new block, zeroed or with what it is filled with.
Allocate(b) ==
  /\ origin[b] = None
  /\ store'[b] \in UNION {Tuples(n) : n \in 0..MaxBlock}
  /\ store' = [store EXCEPT ![b] = store'[b]]
  /\ origin' = [origin EXCEPT ![b] = [block |-> b, first |-> 0]]

\* A buffer that begins somewhere in the block of another one.
Share(b, p) ==
  /\ origin[b] = None /\ origin[p] # None
  /\ origin'[b] \in [block : {origin[p].block}, first : 0..(Word - 1)]
  /\ origin' = [origin EXCEPT ![b] = origin'[b]]
  /\ UNCHANGED store

\* A view on a buffer.  A raw view is read and written byte by byte, wherever
\* the program likes.
Open(v, b) ==
  /\ window[v] = None /\ origin'[b] # None
  /\ window'[v] \in [block : {origin'[b].block}, first : 0..(Word - 1), size : Sizes,
                     count : 0..(Word - 1), raw : BOOLEAN]
  /\ window' = [window EXCEPT ![v] = window'[v]]

\* What nothing shows any more is gone.
Release(dead) ==
  /\ origin' = [b \in Buffers |-> IF b \in dead THEN None ELSE origin[b]]
  /\ window' = [v \in Views |-> IF v \in dead THEN None ELSE window[v]]
  /\ LET shown == {origin'[b].block : b \in Buffers} \cup {window'[v].block : v \in Views}
     IN store' = [b \in Buffers |-> IF b \in shown THEN store[b] ELSE <<>>]

First(a) == (window[a.view].first + a.at) % Word
There(a) ==
  LET w == window[a.view] IN SubSeq(store[w.block], First(a) + 1, First(a) + Len(a.bytes))
InBlock(a) == First(a) + Len(a.bytes) <= Len(store[window[a.view].block])

\* Among the elements of the view; a raw view has any.
InView(a) ==
  LET w == window[a.view] IN w.raw \/ a.at + Len(a.bytes) <= w.count * w.size

Ordered(a, bytes) == IF a.little THEN bytes ELSE Reverse(bytes)

\* A load outside the view or the block is promised nothing.
Load ==
  /\ last'.op = "load"
  /\ window[last'.view] # None
  /\ InView(last') /\ InBlock(last') => last'.bytes = Ordered(last', There(last'))
  /\ UNCHANGED <<store, origin, window, broken>>

\* There is no such element.
Miss ==
  /\ last'.op = "missing"
  /\ LET w == window[last'.view] IN w # None /\ last'.at \notin 0..(w.count * w.size - 1)
  /\ UNCHANGED <<store, origin, window, broken>>

\* A store outside the block has no meaning; none is outside the view.
Store ==
  /\ last'.op = "store"
  /\ window[last'.view] # None
  /\ InView(last')
  /\ IF InBlock(last')
       THEN /\ store' = [store EXCEPT
                 ![window[last'.view].block] = [j \in DOMAIN @ |->
                    LET i == j - First(last')
                    IN IF i \in DOMAIN last'.bytes THEN Ordered(last', last'.bytes)[i] ELSE @[j]]]
            /\ UNCHANGED broken
       ELSE broken' = TRUE /\ UNCHANGED store
  /\ UNCHANGED <<origin, window>>

Create ==
  \/ /\ \E b \in Buffers : Allocate(b) \/ \E p \in Buffers : Share(b, p)
     /\ UNCHANGED window
  \/ \E b \in Buffers, v \in Views :
       Open(v, b) /\ (Allocate(b) \/ UNCHANGED <<store, origin>>)

Quiet ==
  /\ last' = Nothing
  /\ UNCHANGED broken
  /\ Create \/ (\E dead \in SUBSET (Buffers \cup Views) : Release(dead)) \/ UNCHANGED <<store, origin, window>>

Next == Load \/ Miss \/ Store \/ Quiet

Spec == Init /\ [][Next]_vars
=============================================================================
