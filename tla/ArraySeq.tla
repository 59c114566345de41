------------------------------ MODULE ArraySeq ------------------------------
(***************************************************************************)
(* What an array promises: a sequence of values with the operations of     *)
(* Array.prototype on it.  A hole is undefined; a block, its size and its  *)
(* reallocations do not exist.  The process may end at any step.  `calls'  *)
(* stands for the calls of JavaScript in progress: a method that makes     *)
(* none leaves them alone.                                                 *)
(***************************************************************************)
EXTENDS SequencesExt, Integers

CONSTANTS Undef,
          Hole   \* what the process keeps where an element is missing

VARIABLES contents, answer, alive, calls

seqVars == <<contents, answer, alive, calls>>

NoneOf(n) == [p \in 1..n |-> Undef]

\* The sequence made as long as n, by cutting it or filling it up.
Resized(n) == IF n <= Len(contents) THEN SubSeq(contents, 1, n)
              ELSE contents \o NoneOf(n - Len(contents))

Becomes(c, r) == contents' = c /\ answer' = r /\ UNCHANGED <<alive, calls>>
Answers(r)    == Becomes(contents, r)

Init == answer = <<>> /\ alive = TRUE /\ calls = <<>>

Set(i, v) == /\ i >= 0
             /\ Becomes([Resized(IF i < Len(contents) THEN Len(contents) ELSE i + 1)
                           EXCEPT ![i + 1] = v], <<v>>)
SetLength(n) == n >= 0 /\ Becomes(Resized(n), <<n>>)
Delete(i) == Becomes([p \in DOMAIN contents |->
                        IF p = i + 1 THEN Undef ELSE contents[p]], <<>>)
Push(vs)    == Becomes(contents \o vs, <<Len(contents) + Len(vs)>>)
Unshift(vs) == Becomes(vs \o contents, <<Len(contents) + Len(vs)>>)

\* An element taken out may come out as the hole it was, not as undefined.
Out(v) == IF v = Undef THEN {Undef, Hole} ELSE {v}

Pop   == IF contents = <<>> THEN Answers(<<Undef>>)
         ELSE \E r \in Out(Last(contents)) : Becomes(Front(contents), <<r>>)
Shift == IF contents = <<>> THEN Answers(<<Undef>>)
         ELSE \E r \in Out(Head(contents)) : Becomes(Tail(contents), <<r>>)
Reversal == Becomes(Reverse(contents), <<>>)

\* An index given relative to the start or, when negative, to the end.
Clamp(i) == LET n == Len(contents)
            IN  IF i < 0 THEN (IF n + i < 0 THEN 0 ELSE n + i)
                ELSE (IF i < n THEN i ELSE n)

Splice(start, count, vs) ==
  LET s   == Clamp(start)
      cut == IF count > Len(contents) - s THEN Len(contents) - s ELSE count
  IN  /\ start + Len(contents) >= 0
      /\ Becomes(SubSeq(contents, 1, s) \o vs
                   \o SubSeq(contents, s + cut + 1, Len(contents)),
                 SubSeq(contents, s + 1, s + cut))

\* Nothing is promised of a splice from before the first element.
SpliceBefore(start) == start + Len(contents) < 0 /\ UNCHANGED <<alive, calls>>

Fill(v, start, end) ==
  Becomes([p \in DOMAIN contents |->
             IF Clamp(start) < p /\ p <= Clamp(end) THEN v ELSE contents[p]], <<>>)
Slice(start, end) == Answers(SubSeq(contents, Clamp(start) + 1, Clamp(end)))
Concat(vs) == Answers(contents \o vs)
Copy == Answers(contents)

\* The positions a search finds v at: an undefined element may be a hole, which
\* it passes over.
Found(ps, v) ==
  /\ ps \subseteq {p \in DOMAIN contents : contents[p] = v}
  /\ v # Undef => \A p \in DOMAIN contents : contents[p] = v => p \in ps

IndexOf(v) == \E ps \in SUBSET DOMAIN contents :
  /\ Found(ps, v)
  /\ Answers(<<IF ps = {} THEN -1 ELSE (CHOOSE p \in ps : \A q \in ps : p <= q) - 1>>)

LastIndexOf(v, from) == \E all \in SUBSET DOMAIN contents :
  LET ps == {p \in all : p <= (IF from < 0 THEN Len(contents) + from ELSE from) + 1}
  IN  /\ Found(all, v)
      /\ Answers(<<IF ps = {} THEN -1 ELSE (CHOOSE p \in ps : \A q \in ps : p >= q) - 1>>)

\* A method has called back, or ends after its calls: its answer depends on them.
Called == calls' # calls /\ UNCHANGED <<contents, alive>>

\* One of those methods finds nothing to call back for.
NothingToCallFor ==
  /\ contents = <<>> \/ (Len(contents) = 1 /\ answer' = contents)
  /\ UNCHANGED <<contents, alive, calls>>

Halt == alive' = FALSE

CONSTANTS Vals, Indices, Starts, Counts, Args

Next ==
  \/ Called \/ NothingToCallFor \/ Halt
  \/ \E i \in Indices, v \in Vals : Set(i, v)
  \/ \E n \in Indices : SetLength(n) \/ Delete(n)
  \/ \E vs \in Args : Push(vs) \/ Unshift(vs) \/ Concat(vs)
  \/ Push(contents) \/ Unshift(contents)
  \/ Pop \/ Shift \/ Reversal \/ Copy
  \/ \E s \in Starts, n \in Counts, vs \in Args : Splice(s, n, vs) \/ SpliceBefore(s)
  \/ \E v \in Vals, s, e \in Starts : Fill(v, s, e)
  \/ \E s, e \in Starts : Slice(s, e)
  \/ \E v \in Vals : IndexOf(v) \/ \E k \in Starts : LastIndexOf(v, k)

Spec == Init /\ [][Next]_seqVars
=============================================================================
