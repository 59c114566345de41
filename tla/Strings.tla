------------------------------ MODULE Strings -------------------------------
(***************************************************************************)
(* The methods of String.prototype in ejs-string.c.  A method that reads   *)
(* characters flattens the strings it reads; a string it makes is a new    *)
(* node.  The methods that stop the process (concat, localeCompare,        *)
(* search, trim, valueOf and the Locale cases) and those that need a       *)
(* regular expression are left out.                                        *)
(***************************************************************************)
EXTENDS PrimStrings, Texts

CONSTANTS Chars,       \* the characters
          Literals,    \* the strings of the source text, a sequence
          Positions,   \* the numbers passed as positions, lengths and limits
          MaxStrings,  \* bound on the heap
          AnyBase,     \* whether a substring may be taken of an irregular base
          Outside      \* the character found before the start of a buffer

\* One letter in two cases stands for all of them.
ASSUME StringsAssumption ==
  /\ {"a", "A"} \subseteq Chars
  /\ Literals \in Seq(Seq(Chars))
  /\ Positions \subseteq Int /\ Undef \notin Positions
  /\ MaxStrings \in Nat /\ Len(Literals) <= MaxStrings
  /\ AnyBase \in BOOLEAN

Upper == [c \in Chars |-> IF c = "a" THEN "A" ELSE c]
Lower == [c \in Chars |-> IF c = "A" THEN "a" ELSE c]

VARIABLES heap,     \* every string made so far
          iterator  \* the string iterator of the program

vars == <<heap, iterator>>

NoString == 0

-----------------------------------------------------------------------------
Num(h, n) == [heap |-> h, num |-> n, made |-> NoString, texts |-> <<>>]
Bool(h, b) == Num(h, IF b THEN 1 ELSE 0)
Same(h, n) == [heap |-> h, num |-> Undef, made |-> n, texts |-> <<>>]
Made(h) == Same(h, Len(h))
Texts(h, list) == [heap |-> h, num |-> Undef, made |-> NoString, texts |-> list]
EmptyAtom(h) == Texts(h, <<<<>>>>)
Undefined(h) == Texts(h, <<>>)
NewString(h, s) == Made(Append(h, FlatString(s)))

Both(h, m, n) == PrimFlatten(PrimFlatten(h, m), n)

\* The character a C pointer to the i-th of a buffer reads, 0-based.
CharOf(s, i) == IF i \in 0..(Len(s) - 1) THEN s[i + 1] ELSE Outside

\* ToInteger of an argument that is a small number or undefined.
ToInteger(a) == IF a = Undef THEN 0 ELSE a

Charstrstr(s, needle) ==
  LET found == {i \in 0..(Len(s) - 1) :
                  /\ needle # <<>>
                  /\ \A j \in 0..(Len(needle) - 1) :
                       i + j < Len(s) /\ CharOf(s, i + j) = CharOf(needle, j)}
  IN IF found = {} THEN -1 ELSE CHOOSE i \in found : \A j \in found : i <= j

\* The scan backwards compares with what lies before the buffer.
Charstrrstr(s, needle) ==
  LET found == {i \in (1 - Len(needle))..(Len(s) - Len(needle)) :
                  \A j \in 0..(Len(needle) - 1) : CharOf(s, i + j) = CharOf(needle, j)}
  IN IF Len(needle) > Len(s) \/ found = {} THEN -1
     ELSE CHOOSE i \in found : \A j \in found : i >= j

CharAt(h, c) ==
  LET i == ToInteger(c.a)
  IN IF i < 0 \/ i >= h[c.this].length THEN EmptyAtom(h)
     ELSE NewString(h, <<StringAt(h)[c.this][i]>>)

\* The answer of charCodeAt is the character itself.
CharCodeAt(h, c) ==
  LET i == ToInteger(c.a)
  IN IF i < 0 \/ i >= h[c.this].length THEN Num(h, NaN)
     ELSE Texts(h, <<<<StringAt(h)[c.this][i]>>>>)

\* No ASCII character is half of a pair.
CodePointAt(h, c) ==
  LET i == ToInteger(c.a)
  IN IF i < 0 \/ i >= h[c.this].length THEN Undefined(h)
     ELSE Texts(h, <<<<StringAt(h)[c.this][i]>>>>)

\* String(s), and toString of the object that wraps s.
StringToString(h, c) == Same(h, c.this)

\* The code points are those of the characters of `this'.
FromCodePoint(h, c) ==
  IF h[c.this].length = 0 THEN EmptyAtom(h) ELSE NewString(h, TextOf(h)[c.this])

StringGet(h, c) ==
  IF c.a < 0 \/ c.a >= h[c.this].length THEN Undefined(h)
  ELSE NewString(h, <<StringAt(h)[c.this][c.a]>>)

GetLength(h, c) == Num(h, h[c.this].length)

IndexOf(h, c) ==
  LET f == Both(h, c.this, c.arg)
  IN Num(f, Charstrstr(f[c.this].flat, f[c.arg].flat))

LastIndexOf(h, c) ==
  LET f == Both(h, c.this, c.arg)
  IN Num(f, Charstrrstr(f[c.this].flat, f[c.arg].flat))

Substring(h, c) ==
  LET len == h[c.this].length
      start == Least(Most(ToInteger(c.a), 0), len)
      end == Least(Most(IF c.b = Undef THEN len ELSE c.b, 0), len)
  IN Made(NewSubstring(h, c.this, Least(start, end),
                       Most(start, end) - Least(start, end)))

Substr(h, c) ==
  LET start == IF ToInteger(c.a) >= 0 THEN ToInteger(c.a)
               ELSE Most(h[c.this].length + c.a, 0)
      len == Least(Most(c.b, 0), h[c.this].length - start)
  IN IF len <= 0 THEN EmptyAtom(h) ELSE Made(NewSubstring(h, c.this, start, len))

\* A slice that does not clamp its start.
StringSliceUnclamped(h, c) ==
  LET len == h[c.this].length
      start == ToInteger(c.a)
      end == IF c.b = Undef THEN len ELSE c.b
      from == IF start < 0 THEN Most(len + start, 0) ELSE start
      to == IF end < 0 THEN len + end ELSE Least(end, len)
  IN Made(NewSubstring(h, c.this, from, Most(to - from, 0)))

StringSlice(h, c) ==
  LET len == h[c.this].length
      start == ToInteger(c.a)
      end == IF c.b = Undef THEN len ELSE c.b
      from == IF start < 0 THEN Most(len + start, 0) ELSE Least(start, len)
      to == IF end < 0 THEN Most(len + end, 0) ELSE Least(end, len)
  IN Made(NewSubstring(h, c.this, from, Most(to - from, 0)))

ChangeCase(h, c, map) ==
  LET f == PrimFlatten(h, c.this) IN NewString(f, Mapped(f[c.this].flat, map))

StartsWith(h, c) ==
  LET start == Least(Most(ToInteger(c.a), 0), h[c.this].length)
      f == Both(h, c.this, c.arg)
  IN IF h[c.arg].length + start > h[c.this].length THEN Bool(h, FALSE)
     ELSE Bool(f, \A i \in 0..(h[c.arg].length - 1) :
                    CharOf(f[c.this].flat, i + start) = CharOf(f[c.arg].flat, i))

\* The start is unsigned, so the test of a negative one never holds.
EndsWith(h, c) ==
  LET pos == IF c.a = Undef THEN h[c.this].length ELSE c.a
      start == Least(Most(pos, 0), h[c.this].length) - h[c.arg].length
      f == Both(h, c.this, c.arg)
  IN Bool(f, \A i \in 0..(h[c.arg].length - 1) :
               CharOf(f[c.this].flat, i + start) = CharOf(f[c.arg].flat, i))

\* A contains that ignores its position.
ContainsAnywhere(h, c) ==
  LET f == Both(h, c.this, c.arg)
  IN Bool(f, Charstrstr(f[c.this].flat, f[c.arg].flat) # -1)

Contains(h, c) ==
  LET start == Least(Most(ToInteger(c.a), 0), h[c.this].length)
      f == Both(h, c.this, c.arg)
      rest == SubSeq(f[c.this].flat, start + 1, h[c.this].length)
  IN Bool(f, Charstrstr(rest, f[c.arg].flat) # -1)

\* The heap after n concatenations of a repeat, each to the rope of the last.
ConcatCopies(h, s, n) ==
  LET g[k \in 0..n] ==
        IF k = 0 THEN h
        ELSE StringConcat(g[k - 1], IF k = 1 THEN s ELSE Len(g[k - 1]), s)
  IN g[n]

Repeat(h, c) ==
  CASE c.a = 0 -> EmptyAtom(h)
    [] c.a = 1 -> Same(h, c.this)
    [] c.a > 1 -> Made(ConcatCopies(h, c.this, c.a - 1))

\* Replaces the first match of `arg' by the string c.a.
Replace(h, c) ==
  LET f == Both(h, c.this, c.arg)
      p == Charstrstr(f[c.this].flat, f[c.arg].flat)
      g == PrimFlatten(f, c.a)
  IN IF p = -1 THEN Same(f, c.this)
     ELSE NewString(g, SubSeq(g[c.this].flat, 1, p) \o g[c.a].flat
                        \o SubSeq(g[c.this].flat, p + h[c.arg].length + 1, h[c.this].length))

SplitMatch(f, s, r, q) ==
  /\ q + f[r].length <= f[s].length
  /\ \A i \in 0..(f[r].length - 1) : CharOf(f[s].flat, q + i) = CharOf(f[r].flat, i)

(***************************************************************************)
(* The loop of split: the pieces so far, the start p of the next, the      *)
(* position q, and whether it goes on.  A turn finds no match, or one that *)
(* ends at p, or ends a piece; the last one adds what is left.             *)
(***************************************************************************)
SplitTurn(f, c, s) ==
  LET len == f[c.this].length
      e == s.q + f[c.arg].length
      piece == SubSeq(TextOf(f)[c.this], s.p + 1, s.q)
      match == SplitMatch(f, c.this, c.arg, s.q) /\ e # s.p
  IN CASE ~s.on -> s
       [] s.on /\ s.q = len ->
            [list |-> Append(s.list, piece), p |-> s.p, q |-> s.q, on |-> FALSE]
       [] s.on /\ s.q # len /\ ~match -> [s EXCEPT !.q = @ + 1]
       [] s.on /\ s.q # len /\ match ->
            [list |-> Append(s.list, piece), p |-> e, q |-> e, on |-> Len(s.list) + 1 # c.a]

\* The position stands still at most once before each move and the end.
SplitLoop(f, c) ==
  LET most == 2 * f[c.this].length + 1
      turn[k \in 0..most] == IF k = 0 THEN [list |-> <<>>, p |-> 0, q |-> 0, on |-> TRUE]
                             ELSE SplitTurn(f, c, turn[k - 1])
  IN turn[most].list

\* A separator longer than the string is never compared.
Split(h, c) ==
  LET f == IF h[c.arg].length > h[c.this].length THEN h ELSE Both(h, c.this, c.arg)
  IN CASE c.a = 0 -> Texts(h, <<>>)
       [] c.a # 0 /\ h[c.this].length = 0 ->
            IF SplitMatch(f, c.this, c.arg, 0) THEN Texts(f, <<>>) ELSE Texts(f, <<<<>>>>)
       [] c.a # 0 /\ h[c.this].length # 0 -> Texts(f, SplitLoop(f, c))

-----------------------------------------------------------------------------
(***************************************************************************)
(* The calls: a method, its string, a second string or none, two numbers.  *)
(* Without are the calls the code does not answer as the standard does:    *)
(* searches for the empty string, endsWith of more than there is, and      *)
(* positions given to indexOf and lastIndexOf, which are ignored.          *)
(***************************************************************************)
Call(op, this, arg, a, b) == [op |-> op, this |-> this, arg |-> arg, a |-> a, b |-> b]

Sizes == {i \in Positions : i >= 0}

Calls(h) ==
  LET Ids == DOMAIN h
      Needles == {n \in Ids : h[n].length > 0}
      Args == Positions \cup {Undef}
      Bases == {n \in Ids : AnyBase \/ Regular(h, n)}
  IN {Call(op, s, NoString, i, Undef) : op \in {"charAt", "charCodeAt", "codePointAt"}, s \in Ids, i \in Args}
     \cup {Call("get", s, NoString, i, Undef) : s \in Ids, i \in Positions}
     \cup {Call(op, s, NoString, Undef, Undef) :
             op \in {"length", "toLowerCase", "toUpperCase", "toString", "fromCodePoint"}, s \in Ids}
     \cup {Call(op, s, NoString, i, j) : op \in {"substring", "slice"}, s \in Bases, i \in Args, j \in Args}
     \cup {Call("substr", s, NoString, i, j) : s \in Bases, i \in Args, j \in Positions}
     \cup {Call(op, s, n, Undef, Undef) : op \in {"indexOf", "lastIndexOf"}, s \in Ids, n \in Needles}
     \cup {Call(op, s, n, i, Undef) : op \in {"startsWith"}, s \in Ids, n \in Ids, i \in Args}
     \cup {Call("contains", s, n, i, Undef) : s \in Ids, n \in Needles, i \in Args}
     \cup {c \in {Call("endsWith", s, n, i, Undef) : s \in Ids, n \in Ids, i \in Args} :
             h[c.arg].length <= Least(IF c.a = Undef THEN h[c.this].length ELSE Most(c.a, 0),
                                      h[c.this].length)}
     \cup {Call("repeat", s, NoString, n, Undef) : s \in Ids, n \in Sizes}
     \cup {Call("replace", s, n, r, Undef) : s \in Ids, n \in Needles, r \in Ids}
     \cup {Call("split", s, n, lim, Undef) : s \in Bases, n \in Ids, lim \in Sizes \cup {Undef}}
     \cup {Call("concat", s, n, Undef, Undef) : s \in Ids, n \in Ids}

Do(h, c) ==
  CASE c.op = "charAt"      -> CharAt(h, c)
    [] c.op = "charCodeAt"  -> CharCodeAt(h, c)
    [] c.op = "codePointAt" -> CodePointAt(h, c)
    [] c.op = "toString"    -> StringToString(h, c)
    [] c.op = "fromCodePoint" -> FromCodePoint(h, c)
    [] c.op = "get"         -> StringGet(h, c)
    [] c.op = "length"      -> GetLength(h, c)
    [] c.op = "toLowerCase" -> ChangeCase(h, c, Lower)
    [] c.op = "toUpperCase" -> ChangeCase(h, c, Upper)
    [] c.op = "substring"   -> Substring(h, c)
    [] c.op = "slice"       -> StringSlice(h, c)
    [] c.op = "substr"      -> Substr(h, c)
    [] c.op = "indexOf"     -> IndexOf(h, c)
    [] c.op = "lastIndexOf" -> LastIndexOf(h, c)
    [] c.op = "startsWith"  -> StartsWith(h, c)
    [] c.op = "contains"    -> Contains(h, c)
    [] c.op = "endsWith"    -> EndsWith(h, c)
    [] c.op = "repeat"      -> Repeat(h, c)
    [] c.op = "replace"     -> Replace(h, c)
    [] c.op = "split"       -> Split(h, c)
    [] c.op = "concat"      -> Made(StringConcat(h, c.this, c.arg))

\* What the standard answers: a number, or texts.
Expected(t, c) ==
  LET N(n) == [num |-> n, texts |-> <<>>]
      B(b) == N(IF b THEN 1 ELSE 0)
      S(s) == [num |-> Undef, texts |-> <<s>>]
      x == t[c.this]
      i == Or(c.a, 0)
      CharOr(none) == IF HasChar(x, i) THEN S(CharText(x, i)) ELSE none
  IN CASE c.op = "charAt"     -> S(CharText(x, i))
       [] c.op = "charCodeAt" -> CharOr(N(NaN))
       [] c.op \in {"codePointAt", "get"} -> CharOr([num |-> Undef, texts |-> <<>>])
       [] c.op \in {"toString", "fromCodePoint"} -> S(x)
       [] c.op = "length"      -> N(Len(x))
       [] c.op = "toLowerCase" -> S(Mapped(x, Lower))
       [] c.op = "toUpperCase" -> S(Mapped(x, Upper))
       [] c.op = "substring"   -> S(SubstringText(x, c.a, c.b))
       [] c.op = "slice"       -> S(SliceText(x, c.a, c.b))
       [] c.op = "substr"      -> S(SubstrText(x, c.a, c.b))
       [] c.op = "indexOf"     -> N(IndexOfText(x, t[c.arg]))
       [] c.op = "lastIndexOf" -> N(LastIndexOfText(x, t[c.arg]))
       [] c.op = "startsWith"  -> B(StartsWithText(x, t[c.arg], c.a))
       [] c.op = "contains"    -> B(ContainsText(x, t[c.arg], c.a))
       [] c.op = "endsWith"    -> B(EndsWithText(x, t[c.arg], c.a))
       [] c.op = "repeat"      -> S(RepeatText(x, c.a))
       [] c.op = "replace"     -> S(ReplaceText(x, t[c.arg], t[c.a]))
       [] c.op = "split"       -> [num |-> Undef, texts |-> SplitText(x, t[c.arg], c.a)]
       [] c.op = "concat"      -> S(x \o t[c.arg])

-----------------------------------------------------------------------------
\* `of', `yielded' and `length' are history: the string of the iterator, the
\* characters in the strings it gave, the length field of the last of these.
NoIterator ==
  [iterated |-> NoString, next |-> 0, of |-> NoString, yielded |-> <<>>, length |-> 0]

\* The length a string made of n 16-bit characters is given: the difference of
\* two pointers, the wrong way round.  As the field is unsigned, -1 reads 2^32 - 1.
Ucs2Length(n) == 0 - n

Init ==
  /\ heap = [i \in 1..Len(Literals) |-> FlatString(Literals[i])]
  /\ iterator = NoIterator

\* A call whose strings fit the bound.
Method ==
  \E h \in {Do(heap, c).heap : c \in Calls(heap)} :
    /\ Len(h) <= MaxStrings
    /\ heap' = h
    /\ UNCHANGED iterator

\* A property map, a Map or a Set asks for the hash of a name.
\* Hashes and iterators have no field in common: a behaviour shows one or the
\* other, which bounds the states.
Hash ==
  /\ iterator = NoIterator
  /\ \E s \in DOMAIN heap : heap' = PrimHash(heap, s)
  /\ UNCHANGED iterator

NewIterator ==
  \E s \in DOMAIN heap :
    /\ iterator = NoIterator /\ \A n \in DOMAIN heap : ~heap[n].hasHash
    /\ iterator' = [NoIterator EXCEPT !.iterated = s, !.of = s]
    /\ UNCHANGED heap

IteratorNext ==
  /\ iterator.iterated # NoString
  /\ iterator' = IF iterator.next >= heap[iterator.iterated].length
                 THEN [iterator EXCEPT !.iterated = NoString]
                 ELSE [iterator EXCEPT !.next = @ + 1, !.length = Ucs2Length(1),
                         !.yielded = Append(@, StringAt(heap)[iterator.iterated][iterator.next])]
  /\ UNCHANGED heap

Next == Method \/ Hash \/ NewIterator \/ IteratorNext

Spec == Init /\ [][Next]_vars

-----------------------------------------------------------------------------
\* The heap is well-formed: a node refers to earlier ones, a dependent string
\* lies within its base, and a length is that of the text.
TypeOK ==
  /\ Len(heap) <= MaxStrings
  /\ \A n \in DOMAIN heap :
       /\ heap[n].type \in {"flat", "rope", "dependent"}
       /\ heap[n].type # "flat" => heap[n].left \in 1..(n - 1)
       /\ heap[n].type = "rope" => heap[n].right \in 1..(n - 1)
       /\ heap[n].type = "dependent" =>
            heap[n].off \in 0..(heap[heap[n].left].length - heap[n].length)
       /\ heap[n].length = Len(TextOf(heap)[n])

\* Strings are immutable: flattening, hashing and every method leave the text
\* of each string as it was, whatever its form and whoever shares its parts.
TextsAreKept ==
  [][\A n \in DOMAIN heap : TextOf(heap')[n] = TextOf(heap)[n]]_vars

\* Every method answers what the standard says of the texts, whatever the forms
\* of the strings it is given.
AnswersAgree ==
  iterator = NoIterator =>
    LET t == TextOf(heap)
    IN \A c \in Calls(heap) :
         LET r == Do(heap, c)
         IN Expected(t, c) = [num |-> r.num,
              texts |-> IF r.made = NoString THEN r.texts ELSE <<TextOf(r.heap)[r.made]>>]

\* Equal texts have equal hashes, computed now or cached before the string was
\* flattened: a property is found under any string of its name.
HashIsOfText ==
  \A n \in DOMAIN heap :
    (heap[n].hasHash \/ Regular(heap, n)) =>
      PrimHash(heap, n)[n].hash = TextOf(heap)[n]

\* Both: every rope and dependent string stays within what it refers to,
\* and is hashed as its text.
StringInv == TypeOK /\ HashIsOfText

\* An iterator puts the characters of its string in order, one each, into the
\* strings it hands out, although its own may be flattened between two steps,
\* and ends after the last; but no string it hands out has the length of its text.
IterationReadsText ==
  iterator.of # NoString =>
    LET t == TextOf(heap)[iterator.of]
    IN /\ iterator.yielded = SubSeq(t, 1, iterator.next)
       /\ iterator.iterated = NoString => iterator.next = Len(t)
       /\ iterator.next > 0 => iterator.length # Len(CharText(t, iterator.next - 1))
=============================================================================
