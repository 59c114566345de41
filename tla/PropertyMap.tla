----------------------------- MODULE PropertyMap -----------------------------
(***************************************************************************)
(* The property map of an object (ejs-object.c, EJSPropertyMap): a hash    *)
(* table whose entries are also linked in insertion order.  The heap of    *)
(* entries and its pointers are modelled as they are, because the two      *)
(* linkings have to be kept in step by insert, remove and rehash.          *)
(* A walk is a C loop over the insertion list that lets JavaScript run     *)
(* between two entries, as the one of Object.assign does.                  *)
(***************************************************************************)
EXTENDS Values, Integers, Sequences, FiniteSets

CONSTANTS Names,    \* the values used as property names
          Descs,    \* the descriptors stored
          Nodes,    \* bound: the addresses malloc has for entries
          NULL,     \* the null pointer
          Hash,     \* JSValueHash of each name
          Primes    \* the bucket counts a table may have, ascending

ASSUME PropertyMapAssumption ==
  /\ NULL \notin Nodes
  /\ Hash \in [Names -> Nat]
  /\ \A m, n \in Names : StrictEq(m, n) => Hash[m] = Hash[n]
  /\ Primes \in Seq(Nat \ {0}) /\ Primes # <<>>
  \* three quarters of a table are at least one entry more than of the one before
  /\ \A i \in 1 .. Len(Primes) - 1 :
       (3 * Primes[i]) \div 4 < (3 * Primes[i + 1]) \div 4

VARIABLES
  heap,     \* the allocated entries: [allocated addresses -> entry]
  head,     \* head_insert
  tail,     \* tail_insert
  buckets,  \* the first entry of each bucket, numbered from 0
  inuse,    \* how many entries the map counts
  found,    \* what the last lookup answered
  walk,     \* the walk in progress
  status    \* "running", "aborted", or "undefined" after a freed entry is read

table == <<heap, head, tail, buckets, inuse>>
vars  == <<heap, head, tail, buckets, inuse, found, walk, status>>

Pointer == Nodes \cup {NULL}

nbuckets == Cardinality(DOMAIN buckets)

NoWalk == [on |-> "idle", at |-> NULL, seen |-> {}]

Running == status = "running"

\* The least and the greatest of a set of positions.
Least(is)    == CHOOSE i \in is : \A j \in is : i <= j
Greatest(is) == CHOOSE i \in is : \A j \in is : j <= i

\* The entries of h from n on, along one of the two links.
ChainIn(h, n, link) ==
  LET follows == [m \in Pointer |-> IF m \in DOMAIN h THEN h[m][link] ELSE NULL]
      size    == Cardinality(DOMAIN h)
      at[k \in 0 .. size] == IF k = 0 THEN n ELSE follows[at[k - 1]]
  IN  [i \in 1 .. Least({k \in 0 .. size : at[k] = NULL \/ k = size}) |-> at[i - 1]]

Chain(n, link) == ChainIn(heap, n, link)

Inserted == Chain(head, "next_insert")

BucketOf(name, n) == Hash[name] % n

\* A scan that looks at the first entry of the bucket only.
MatchFirst(name) ==
  IF nbuckets = 0 \/ buckets[BucketOf(name, nbuckets)] = NULL THEN NULL
  ELSE LET n == buckets[BucketOf(name, nbuckets)]
       IN  IF StrictEq(heap[n].name, name) THEN n ELSE NULL

\* The entry the loops of lookup, insert and remove stop at.
Match(name) ==
  IF nbuckets = 0 THEN NULL
  ELSE LET chain == Chain(buckets[BucketOf(name, nbuckets)], "next_bucket")
           is    == {i \in DOMAIN chain : StrictEq(heap[chain[i]].name, name)}
       IN  IF is = {} THEN NULL ELSE chain[Least(is)]

Init ==
  /\ heap = <<>>
  /\ head = NULL /\ tail = NULL
  /\ buckets = <<>>
  /\ inuse = 0
  /\ found = NULL
  /\ walk = NoWalk
  /\ status = "running"

Lookup(name) ==
  /\ Running
  /\ found' = IF inuse = 0 \/ Match(name) = NULL THEN NULL
              ELSE heap[Match(name)].desc
  /\ UNCHANGED <<table, walk, status>>

-----------------------------------------------------------------------------
(***************************************************************************)
(* rehash empties the buckets and pushes the entries of the insertion list *)
(* on them in order, so that a chain is the reverse of that order.         *)
(***************************************************************************)
\* The last of the first p entries of `es' that falls in bucket b of n.
TopOf(h, es, p, b, n) ==
  LET is == {i \in 1 .. p : BucketOf(h[es[i]].name, n) = b}
  IN  IF is = {} THEN NULL ELSE es[Greatest(is)]

Rehashed(h, order, n) ==
  [m \in DOMAIN h |->
     LET i == CHOOSE i \in DOMAIN order : order[i] = m
     IN  [h[m] EXCEPT !.next_bucket =
            TopOf(h, order, i - 1, BucketOf(h[m].name, n), n)]]

\* The prime after n in the table, or 0.
NextPrime(n) ==
  LET at == {i \in 1 .. Len(Primes) - 1 : Primes[i] = n}
  IN  IF at = {} THEN 0 ELSE Primes[1 + CHOOSE i \in at : TRUE]

FirstBuckets == IF buckets = <<>>
                THEN [b \in 0 .. Primes[1] - 1 |-> NULL] ELSE buckets

Replace(name, desc) ==
  /\ Running
  /\ Match(name) # NULL
  /\ heap' = [heap EXCEPT ![Match(name)].desc = desc]
  /\ UNCHANGED <<head, tail, buckets, inuse, found, walk, status>>

\* The table with a new entry at address n, before the load is looked at.
Linked(n, name, desc) ==
  LET b == BucketOf(name, Cardinality(DOMAIN FirstBuckets))
      new == [name |-> name, desc |-> desc, next_insert |-> NULL,
              next_bucket |-> FirstBuckets[b]]
      old == [m \in DOMAIN heap |->
                IF m = tail THEN [heap[m] EXCEPT !.next_insert = n] ELSE heap[m]]
  IN  [heap |-> [m \in DOMAIN heap \cup {n} |-> IF m = n THEN new ELSE old[m]],
       buckets |-> [FirstBuckets EXCEPT ![b] = n]]

\* A load that forgets the entry being added.
FullBefore == 4 * inuse > 3 * Cardinality(DOMAIN FirstBuckets)

\* inuse > nbuckets * 0.75, once the new entry is counted.
Full == 4 * (inuse + 1) > 3 * Cardinality(DOMAIN FirstBuckets)

Add(n, name, desc) ==
  /\ Running
  /\ n \in Nodes \ DOMAIN heap
  /\ Match(name) = NULL
  /\ inuse' = inuse + 1
  /\ head' = IF head = NULL THEN n ELSE head
  /\ tail' = n
  /\ LET new  == Linked(n, name, desc)
         next == NextPrime(Cardinality(DOMAIN new.buckets))
         order == Append(Inserted, n)
     IN  IF Full /\ next # 0
         THEN /\ heap' = Rehashed(new.heap, order, next)
              /\ buckets' = [b \in 0 .. next - 1 |->
                               TopOf(new.heap, order, Len(order), b, next)]
              /\ UNCHANGED status
         ELSE /\ heap' = new.heap
              /\ buckets' = new.buckets
              /\ status' = IF Full THEN "aborted" ELSE status
  /\ UNCHANGED <<found, walk>>

-----------------------------------------------------------------------------
\* The list without node s: its predecessor under a link, if any, skips it.
Unlink(h, s) ==
  [m \in DOMAIN h \ {s} |->
     [h[m] EXCEPT !.next_bucket = IF @ = s THEN h[s].next_bucket ELSE @,
                  !.next_insert = IF @ = s THEN h[s].next_insert ELSE @]]

Before(s) == {m \in DOMAIN heap : heap[m].next_insert = s}

\* A remove that leaves tail_insert on the entry it freed.
RemoveKeepsTail(name) ==
  /\ Running
  /\ IF inuse = 0 \/ Match(name) = NULL
     THEN UNCHANGED <<table, walk>>
     ELSE LET s == Match(name)
              b == BucketOf(name, nbuckets)
          IN  /\ heap' = Unlink(heap, s)
              /\ buckets' = [buckets EXCEPT ![b] =
                               IF @ = s THEN heap[s].next_bucket ELSE @]
              /\ head' = IF head = s THEN heap[s].next_insert ELSE head
              /\ tail' = tail
              /\ inuse' = inuse - 1
              /\ walk' = [walk EXCEPT !.on = IF walk.at = s THEN "dangling"
                                                            ELSE @,
                                      !.seen = @ \ {s}]
  /\ UNCHANGED <<found, status>>

Remove(name) ==
  /\ Running
  /\ IF inuse = 0 \/ Match(name) = NULL
     THEN UNCHANGED <<table, walk>>
     ELSE LET s == Match(name)
              b == BucketOf(name, nbuckets)
          IN  /\ heap' = Unlink(heap, s)
              /\ buckets' = [buckets EXCEPT ![b] =
                               IF @ = s THEN heap[s].next_bucket ELSE @]
              /\ head' = IF head = s THEN heap[s].next_insert ELSE head
              /\ tail' = IF tail # s THEN tail
                         ELSE IF head = s THEN NULL
                         ELSE CHOOSE m \in Before(s) : TRUE
              /\ inuse' = inuse - 1
              /\ walk' = [walk EXCEPT !.on = IF walk.at = s THEN "dangling"
                                                            ELSE @,
                                      !.seen = @ \ {s}]
  /\ UNCHANGED <<found, status>>

-----------------------------------------------------------------------------
(***************************************************************************)
(* A walk reads the entry it is at, runs JavaScript that may do anything   *)
(* to the map, then follows next_insert from that entry.  `seen' is the    *)
(* history of the entries it has read that are still in the map.           *)
(***************************************************************************)
WalkTo(n) == [on |-> "walking", at |-> n, seen |-> walk.seen \cup {n}]

WalkBegin ==
  /\ Running
  /\ walk.on = "idle" /\ head # NULL
  /\ walk' = WalkTo(head)
  /\ UNCHANGED <<table, found, status>>

\* A loop whose body moves on as well as its header.
WalkNextTwice ==
  /\ Running
  /\ walk.on = "walking" /\ heap[walk.at].next_insert # NULL
  /\ LET n == heap[walk.at].next_insert
     IN  walk' = WalkTo(IF heap[n].next_insert = NULL THEN n
                        ELSE heap[n].next_insert)
  /\ UNCHANGED <<table, found, status>>

WalkNext ==
  /\ Running
  /\ walk.on = "walking" /\ heap[walk.at].next_insert # NULL
  /\ walk' = WalkTo(heap[walk.at].next_insert)
  /\ UNCHANGED <<table, found, status>>

WalkEnd ==
  /\ Running
  /\ walk.on = "walking" /\ heap[walk.at].next_insert = NULL
  /\ walk' = NoWalk
  /\ UNCHANGED <<table, found, status>>

\* next_insert of a freed entry.
WalkFreed ==
  /\ Running
  /\ walk.on = "dangling"
  /\ status' = "undefined"
  /\ UNCHANGED <<table, found, walk>>

-----------------------------------------------------------------------------
Next ==
  \/ \E name \in Names :
       \/ Lookup(name)
       \/ Remove(name)
       \/ \E desc \in Descs : \/ Replace(name, desc)
                              \/ \E n \in Nodes : Add(n, name, desc)
  \/ WalkBegin \/ WalkNext \/ WalkEnd \/ WalkFreed

Spec == Init /\ [][Next]_vars

-----------------------------------------------------------------------------
BucketChain(b) == Chain(buckets[b], "next_bucket")

Elements(s) == {s[i] : i \in DOMAIN s}

LastOf(s) == IF s = <<>> THEN NULL ELSE s[Len(s)]

(***************************************************************************)
(* The two linkings hold the same entries: the insertion list and the      *)
(* bucket chains each reach every allocated entry exactly once, an entry   *)
(* lies in the bucket of its hash, tail_insert is the end of the list and  *)
(* inuse its length.  Insert, remove and rehash each update them by hand.  *)
(***************************************************************************)
WellLinked ==
  /\ Elements(Inserted) = DOMAIN heap
  /\ Len(Inserted) = inuse /\ Cardinality(DOMAIN heap) = inuse
  /\ tail = LastOf(Inserted)
  /\ \A b \in DOMAIN buckets :
       /\ Elements(BucketChain(b)) =
            {n \in DOMAIN heap : BucketOf(heap[n].name, nbuckets) = b}
       /\ Len(BucketChain(b)) = Cardinality(Elements(BucketChain(b)))

(***************************************************************************)
(* A table in use is never overfull: rehash keeps inuse within 3/4 of the  *)
(* buckets, and a table that cannot grow stops the process instead.        *)
(***************************************************************************)
LoadBounded == Running => 4 * inuse <= 3 * nbuckets

(***************************************************************************)
(* A walk whose entry was not freed under it reads every entry of the map: *)
(* when it ends, none is left that it has not read, those appended by the  *)
(* JavaScript it ran included.                                             *)
(***************************************************************************)
WalkReadsAll ==
  [][walk.on = "walking" /\ walk'.on = "idle" => walk.seen = DOMAIN heap]_vars

\* The names and the descriptors of the entries of h, in the order es.
Properties(h, es) ==
  [i \in 1 .. Len(es) |-> [name |-> h[es[i]].name, desc |-> h[es[i]].desc]]

Abstract == INSTANCE PropertyTable WITH table <- Properties(heap, Inserted)

\* The map is a table of properties: its list, read in order, is one.
ImplementsTable == Abstract!Spec
=============================================================================
