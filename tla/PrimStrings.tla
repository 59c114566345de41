---------------------------- MODULE PrimStrings ----------------------------
(***************************************************************************)
(* The three forms of a primitive string in ejs-string.[ch]: flat          *)
(* characters, a rope of two strings, and a string that depends on a       *)
(* stretch of another.  A heap is a sequence of nodes that refer to        *)
(* earlier nodes by index.  Whoever needs the characters of a string       *)
(* flattens its node in place.                                             *)
(*                                                                         *)
(* Characters are ASCII: one byte each in the UTF-8 build (macros.h:9).    *)
(* The hash is kept as the sequence of the characters mixed into it, which *)
(* loses nothing but collisions.                                           *)
(***************************************************************************)
EXTENDS Integers, Sequences

Least(a, b) == IF a > b THEN b ELSE a
Most(a, b) == IF a > b THEN a ELSE b

FlatString(s) ==
  [type |-> "flat", length |-> Len(s), flat |-> s, left |-> 0, right |-> 0,
   off |-> 0, hash |-> <<>>, hasHash |-> FALSE]

StringConcat(h, l, r) ==
  Append(h, [FlatString(<<>>) EXCEPT !.type = "rope", !.left = l, !.right = r,
                                     !.length = h[l].length + h[r].length])

NewSubstring(h, s, off, len) ==
  Append(h, [FlatString(<<>>) EXCEPT !.type = "dependent", !.left = s,
                                     !.off = off, !.length = len])

(***************************************************************************)
(* What is still to be copied: s.len characters behind the next s.off.  A  *)
(* walk over node n answers what is left to do and the characters copied.  *)
(* A dependent node below moves the offset but does not bound the copy,    *)
(* and is entered even when it lies in front of the offset.                *)
(***************************************************************************)
Stretch == [off : Nat, len : Nat]
Span(off, len) == [off |-> off, len |-> len]
Copied(off, len, out) == [off |-> off, len |-> len, out |-> out]

\* A flat node gives what it has behind the offset, or is passed over.
CopyFlat(node, s) ==
  IF s.off < node.length
  THEN LET k == Least(s.len, node.length - s.off)
       IN Copied(0, s.len - k, SubSeq(node.flat, s.off + 1, s.off + k))
  ELSE Copied(s.off - node.length, s.len, <<>>)

\* The right half of a rope goes on where the left one stopped.
CopyBoth(l, right) ==
  LET r == right[Span(l.off, l.len)] IN Copied(r.off, r.len, l.out \o r.out)

FlattenDep(h) ==
  LET d[n \in DOMAIN h] == [s \in Stretch |->
        IF s.len = 0 THEN Copied(s.off, 0, <<>>)
        ELSE CASE h[n].type = "flat" -> CopyFlat(h[n], s)
               [] h[n].type = "rope" -> CopyBoth(d[h[n].left][s], d[h[n].right])
               [] h[n].type = "dependent" ->
                    d[h[n].left][Span(s.off + h[n].off, s.len)]]
  IN d

FlattenRope(h) ==
  LET f[n \in DOMAIN h] ==
        CASE h[n].type = "flat" -> h[n].flat
          [] h[n].type = "rope" -> f[h[n].left] \o f[h[n].right]
          [] h[n].type = "dependent" ->
               FlattenDep(h)[h[n].left][Span(h[n].off, h[n].length)].out
  IN f

\* Node n, with its characters in a buffer of its own.
Flattened(h, n, s) ==
  [h EXCEPT ![n].type = "flat", ![n].left = 0, ![n].right = 0, ![n].off = 0, ![n].flat = s]

\* A flatten that starts a dependent string at the start of its base.
FlattenFromStart(h, n) ==
  CASE h[n].type = "flat" -> h
    [] h[n].type = "dependent" ->
         Flattened(h, n, FlattenDep(h)[h[n].left][Span(0, h[n].length)].out)
    [] h[n].type = "rope" -> Flattened(h, n, FlattenRope(h)[n])

PrimFlatten(h, n) ==
  CASE h[n].type = "flat" -> h
    [] h[n].type = "dependent" ->
         Flattened(h, n, FlattenDep(h)[n][Span(0, h[n].length)].out)
    [] h[n].type = "rope" -> Flattened(h, n, FlattenRope(h)[n])

\* The hash of a stretch walks the nodes as the copy of a stretch does.
HashDep(h) == FlattenDep(h)

\* A hash that mixes the halves of a rope in the wrong order.
HashRightFirst(h) ==
  LET m[n \in DOMAIN h] ==
        CASE h[n].type = "flat" -> h[n].flat
          [] h[n].type = "dependent" -> HashDep(h)[n][Span(0, h[n].length)].out
          [] h[n].type = "rope" -> m[h[n].right] \o m[h[n].left]
  IN m

\* What each node mixes into a hash.
HashInner(h) ==
  LET m[n \in DOMAIN h] ==
        CASE h[n].type = "flat" -> h[n].flat
          [] h[n].type = "dependent" -> HashDep(h)[n][Span(0, h[n].length)].out
          [] h[n].type = "rope" -> m[h[n].left] \o m[h[n].right]
  IN m

PrimHash(h, n) ==
  IF h[n].hasHash THEN h
  ELSE [h EXCEPT ![n].hash = HashInner(h)[n], ![n].hasHash = TRUE]

\* A look-up that forgets where a dependent string starts.
StringAtBase(h) ==
  LET at[n \in DOMAIN h] == [i \in Nat |->
        CASE h[n].type = "flat" -> h[n].flat[i + 1]
          [] h[n].type = "dependent" -> at[h[n].left][i]
          [] h[n].type = "rope" ->
               IF i < h[h[n].left].length THEN at[h[n].left][i]
               ELSE at[h[n].right][i - h[h[n].left].length]]
  IN at

StringAt(h) ==
  LET at[n \in DOMAIN h] == [i \in Nat |->
        CASE h[n].type = "flat" -> h[n].flat[i + 1]
          [] h[n].type = "dependent" -> at[h[n].left][i + h[n].off]
          [] h[n].type = "rope" ->
               IF i < h[h[n].left].length THEN at[h[n].left][i]
               ELSE at[h[n].right][i - h[h[n].left].length]]
  IN at

-----------------------------------------------------------------------------
\* What a node stands for, whatever its form.
TextOf(h) ==
  LET t[n \in DOMAIN h] ==
        CASE h[n].type = "flat" -> h[n].flat
          [] h[n].type = "rope" -> t[h[n].left] \o t[h[n].right]
          [] h[n].type = "dependent" ->
               SubSeq(t[h[n].left], h[n].off + 1, h[n].off + h[n].length)
  IN t

Below(h) ==
  LET b[n \in DOMAIN h] ==
        IF h[n].type = "flat" THEN {n}
        ELSE {n} \cup b[h[n].left] \cup (IF h[n].type = "rope" THEN b[h[n].right] ELSE {})
  IN b

(***************************************************************************)
(* A base from which a stretch is copied faithfully: no rope below it      *)
(* holds a dependent string.                                               *)
(***************************************************************************)
Regular(h, n) ==
  \A r \in Below(h)[n] :
    h[r].type = "rope" => \A d \in Below(h)[r] : h[d].type # "dependent"
=============================================================================
