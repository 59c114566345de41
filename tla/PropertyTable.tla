---------------------------- MODULE PropertyTable ----------------------------
(***************************************************************************)
(* What the property map of an object promises: one descriptor for a name, *)
(* names kept in the order they were first inserted, a lookup that answers *)
(* with the descriptor inserted last.  Any ejsval is a name and is its own *)
(* key (ejs-object.c:84).                                                  *)
(***************************************************************************)
EXTENDS Naturals, Sequences

CONSTANTS Names, Descs, NULL

VARIABLES table,  \* the sequence of properties, in insertion order
          found   \* what the last lookup answered

vars == <<table, found>>

Places(name) == {i \in DOMAIN table : table[i].name = name}

Init == table = <<>> /\ found = NULL

Insert(name, desc) ==
  /\ table' = IF Places(name) = {}
              THEN Append(table, [name |-> name, desc |-> desc])
              ELSE [i \in DOMAIN table |->
                      IF i \in Places(name) THEN [name |-> name, desc |-> desc]
                                            ELSE table[i]]
  /\ UNCHANGED found

\* The table without what it holds at place i.
Without(i) ==
  [n \in 1 .. Len(table) - 1 |-> IF n < i THEN table[n] ELSE table[n + 1]]

Remove(name) ==
  /\ table' = IF Places(name) = {} THEN table
              ELSE Without(CHOOSE i \in Places(name) : TRUE)
  /\ UNCHANGED found

Lookup(name) ==
  /\ found' = IF Places(name) = {} THEN NULL
              ELSE table[CHOOSE i \in Places(name) : TRUE].desc
  /\ UNCHANGED table

Next == \E name \in Names :
          \/ \E desc \in Descs : Insert(name, desc)
          \/ Remove(name)
          \/ Lookup(name)

Spec == Init /\ [][Next]_vars
=============================================================================
