# jslang: TLA+ models, checks and proofs

jslang compiles JavaScript ahead of time: `lib/` lexes, parses and emits LLVM
IR, and the C runtime in `ejs_runtime/`, compiled to IR and linked with it,
implements the values, the objects and the library. This directory models the
core of the runtime and the way the compiler turns expressions and statements
into code, checks the models with TLC on small instances, and proves the main
results about maps, sets, property maps, objects, proxies, arrays and the
collector's first marking with TLAPS for every instance.

## 1. The system

### Build that is modelled

The code has several configurations; the models follow the one the sources
select.

* Words are 32 bits wide (`EJS_BITS_PER_WORD 32`). The *tag* of a value, which
  every "same type?" test compares, is its high word; for a number that is the
  high word of the double.
* Exceptions are compiled out: `_ejs_exception_throw` returns, and
  `_ejs_throw_nativeerror*` ends in `EJS_NOT_REACHED`. A TypeError is therefore
  the end of the process: models set `status` to `"aborted"`.
* Assertions (`EJS_ASSERT`) are always on, and `EJS_NOT_IMPLEMENTED` ends the
  process too.
* `JSLANG_UTF8` is defined (`macros.h:9`): a character of a string is a `char`.
* In the compiler `CodeGenContext::abort()` is `exit(-1)`.

What C leaves undefined (a read outside a block, a use of freed memory, a
conversion of a double that does not fit) is a status of its own, or a choice
over what the build can produce.

### Components

| Component | State | Operations | Hard behaviour |
|---|---|---|---|
| Values, conversions, operators (`ejs-value.*`, `ejs-ops.c`) | none | SameValue, SameValueZero, `===`, `==`, the conversions, the operators, numerals | zeros, NaNs and denormals whose high words differ or coincide; conversions that call JavaScript, in an order |
| Invocation (`ejs-function.c`, `ejs-closureenv.c`, `ejs-arguments.c`) | functions with environments | call, apply, bind, arguments objects | arguments found by slot number through chains of bound functions |
| Map, Set (`ejs-map.*`, `ejs-set.*`) | a linked list of entries never unlinked, iterators with an index, `forEach` calls in progress | constructor, set/add, get, has, delete, clear, size, forEach, iterators | JavaScript runs inside `forEach`; iterators outlive clears and deletes that renumber the entries |
| Property map (`ejs-object.c`, `EJSPropertyMap`) | entries linked both in insertion order and in hash buckets | insert, lookup, remove, rehash | two linkings updated by hand; loops that run JavaScript while they stand on an entry |
| Ordinary objects (`ejs-object.c`) | own properties, prototype, extensible flag | the internal methods, `Object.create`, `defineProperty`, `setPrototypeOf`, `preventExtensions`, `freeze`, `seal` | the validation of a define, prototype cycles, [[Set]] through a chain with another receiver |
| Proxies, Reflect (`ejs-proxy.c`, `ejs-reflect.c`) | target and handler | a trap for each internal method | a trap is JavaScript and changes the target its answer is compared with |
| Arrays (`ejs-array.*`) | length, block, size of the block | the internal methods, `Array.prototype`, iterator | index arithmetic on signed and unsigned lengths; callbacks that change the array a loop walks |
| Typed arrays (`ejs-typedarrays.*`) | blocks, slices of buffers, views | constructors, slice, elements, data views | lengths and offsets that wrap; views through several slices; collection of a buffer that is still shown |
| Strings (`ejs-string.*`) | a graph of flat, rope and dependent nodes | `String.prototype`, flattening, hash, iterator | a node is rewritten in place while others refer to it |
| Garbage collector (`ejs-gc.c`) | arenas, pages, bitmaps, a finalizer list shared with a second thread | allocate, mark, sweep, finalize | the only real concurrency of the runtime |
| Parser and code generator (`lib/Parse`, `lib/AST`, `lib/CodeGen`) | a tree of nodes; basic blocks, a stack of branch targets, operands | `make...Node`, `emitBytecode` | targets left on the stack; operands that are pointers read later than they were emitted; an order of emission C++ does not fix |
| Promises, exceptions, JSON, Math, Date, start-up, drivers, lexer | - | - | see section 7 |

Interaction: generated code calls the runtime; the library calls the internal
methods of objects; objects keep their properties in a property map; the
property map compares names with `===`; Map and Set compare keys with
SameValueZero or SameValue. Any callback, getter, setter, trap or iterator is
JavaScript and may call everything again on the same thread. The collector runs
inside an allocation; the finalizer thread runs beside everything.
`PROJECT.json` lists every component with its status, and every hazard with the
line where it bites.

## 2. The modules

### Runtime

| Module | Models | Correspondence |
|---|---|---|
| `Values` | `ejs-value.*`, the equality relations of `ejs-ops.c` | A value is a record of its high word (`tag`) and of what it denotes (`val`). `SameValue`, `SameValueZero`, `StrictEq` follow the C branch by branch; the `...ES6` operators are the definitions of the standard. |
| `Operators`, `Numerals` | the conversions, operators and numerals of `ejs-ops.c`, the tests of `ejs-number.c` | What an operator does is an outcome: the C operation it performs, on what, after which calls of JavaScript. Doubles are not computed. The `...ES6` operators are the same of ECMAScript. |
| `Invocation` | `ejs-function.c` (call, apply, bind, `bound_wrapper`, `_ejs_invoke_closure`), `ejs-closureenv.c`, `ejs-arguments.c` | A function is its code and its environment, a function from slots; `Reached` is what a written call comes to, `ReachedES6` the same of ECMAScript. |
| `EntryList` | the entry list of Map and Set | A sequence; a cleared or deleted node stays as `Tombstone`. `Stops`/`At` are the scan loops, `NthLive` the loop of the iterators' `next`. |
| `MapObject` | `ejs-map.c` | One action per method. `lists` keeps every list the constructor has headed, because a `forEach` can be standing on an old one. `forEach` is one action per callback (`ForEachBegin`, `ForEachNext`, `ForEachEnd`), so that any call may come between two callbacks; `frames` is the C stack of such calls. `Crash` is the end of the process on a symbol. |
| `SetObject` | `ejs-set.c` | The same, with a `delete` that works, `size`, -0 stored as +0, and a constructor that refuses a set that has held entries. |
| `PropertyMap` | `ejs-object.c`, the `_ejs_propertymap_*` functions and the loop of `Object.assign` | `heap` is the set of malloc'ed entries with their two links, so that dangling pointers, unlinking and rehashing are visible. |
| `ObjectProps` | `ejs-object.c`, the internal methods and the `Object` functions over them | `props`, `proto`, `extensible` are the fields of an EJSObject; a descriptor is a function whose domain is its `_SET` bits. Each internal method, or the library function over it, is one action; a refusal that the code turns into a TypeError sets `status`. |
| `Proxies` | `ejs-proxy.c`, `ejs-reflect.c` over `ObjectProps` | A proxy is an object and may be a prototype. `asked` is the operation whose trap is running. Until `Return` the program takes any step of `ObjectProps`; then the answer is compared with the target as it is by then. `SetPrototypeAsks`, `Walk` and what follows are the loop of [[SetPrototypeOf]] when it meets a proxy: it waits for the trap and goes on from the object that was answered, and stores without looking again; status `"overtaken"` is a store whose checks no longer hold by then. |
| `DenseArray` | the storage of an EJSArray and its internal methods | A record of length, block size and cells by address; a `fault` says how its life ended. |
| `Arrays` | `ejs-array.c`, every method of `Array.prototype` on a dense array | One action per method; a C loop that calls no JavaScript is a sequence of turns (`Storing`, `Carrying`, `Erasing`) that stops when the array is lost; `PushItself` and `UnshiftItself` are the calls through apply whose arguments are the array's own block; the loops with callbacks are one action per element, and the callbacks any other action. |
| `PrimStrings` | the three forms of a string, `_ejs_string_flatten`, concatenation, hash | A heap of nodes that refer to earlier nodes; `PrimFlatten` rewrites a node in place. A walk over the tree (copy, hash, look-up) is a recursive function of the nodes: what the copy of each stretch gives and leaves to do. |
| `Strings` | `String.prototype`, the iterator | One operator per method, and one action that calls them: a method flattens what it reads and appends the nodes it makes. The loop of split is a sequence of turns. `iterator` has what its steps read and the length of the string the last one handed out, which the UTF-8 build computes apart from its text. |
| `TypedArrays` | `ejs-typedarrays.c` | Buffers own a block or are a slice of a buffer, views hold a buffer and an offset, and every access walks there. `held` is what the program still has; `Collect` is what the collector's scan functions keep. |
| `Gc` | `ejs-gc.c`, the swap and the signal of `tools/driver/jsextern.cpp` | One page of `N` cells. `bitmap` is the page's flag bytes; `Store` writes one of them and zeroes those behind it, as the 8-byte store of `jsextern_os_swap` does. The same store to the pointer `finalizer_list` reaches the variable behind it: with `WorkListBehind` that is the work list of the marking (`Overwrite`). `js` and `fin` are the two threads with their program counters and locals: marking goes root by root and reference by reference, a sweep reads the finalizer's list, writes it and flags the cell in three steps, the finalizer reads and empties the list in two. Every new object has a root, as the C stack is not scanned. |

### Compiler

| Module | Models | Correspondence |
|---|---|---|
| `Blocks` | `CodeGen.h`, `CodeGen.cpp` | The state of the generator: blocks with their last instruction, PHI nodes, and the stack of `CodeGenBlock`s on which `break`, `continue` and the logical operators look for their targets. |
| `Emission` | `Nodes.cpp`, the statements, `LogicalInfo` and `&&`, `\|\|`, `!`, `?:`; the truth, comparison and hash functions of `CodeGenJSValue.cpp` | What is collected of a condition before it is emitted and the branches made of it; then one operator per `emitBytecode`. A statement is a record with the kind of its node. |
| `JsSemantics`, `CodeGen` | - | Both sides as machines over observable events, and the module that runs them side by side. |
| `Operands` | `CodeGenJSValue.cpp`, `CodeGenJSObject.cpp` | Values as terms over the events they come from, and what `emitBytecode` returns: a pointer, read by the instruction that uses it; an `i64`; a C number. Code without branches is run as it is emitted. |
| `Expressions` | `Parser.cpp`, the `make...Node` functions; `Nodes.cpp`, the `emitBytecode` of expressions, declarations, `return` and functions | From a source expression to nodes and from nodes to events on a machine. `m.order` is the order in which C++ evaluates the arguments of one call. |
| `JsExpressions` | - | The meaning of an expression in JavaScript; `Fits`, the fragment on which both agree. |

### Abstract specifications and instances

| Module | What it promises |
|---|---|
| `OrderedMap` | A dictionary in insertion order without tombstones: Map and Set. |
| `PropertyTable` | An insertion-ordered table of descriptors: the property map. |
| `ArraySeq` | A sequence of values with the operations of `Array.prototype`: arrays. |
| `Texts` | What the methods of a string answer, on sequences of characters: strings. |
| `Bytes` | Blocks of bytes and places in them: typed arrays. |

`MCValues`, `MCMapObject`, `MCSetObject`, `MCPropertyMap`, `MCObjectProps`,
`MCArrays`, `MCStrings`, `MCTypedArrays`, `MCCodeGen` and `MCExpressions` are the
small instances: the constants' values, the programs and expressions that are
enumerated, and the refinement properties. `Gc` is checked as it is (`Gc.cfg`,
`Gc_live.cfg`).
`MapObject_proofs`, `SetObject_proofs`, `PropertyMap_proofs`, `Proxies_proofs`
(objects too), `Arrays_proofs`, `TypedArrays_proofs`, `Strings_proofs` and
`Gc_proofs` hold the theorems of section 6. The lemmas on entry lists that the
proofs of Map and Set have in common stand in both.

History variables, which the code does not have, are named in the modules:
`seen` in a walk, the list and position an iterator yielded last, `promised`
in `Proxies`. `last` records the answer of a call, so that the abstract
specification can be compared with what the program sees.

An operator with the comment "A set that appends without looking" and its like
is a wrong variant of the definition that follows; the mutants of
`PROJECT.json` replace the definition by it to show that the property can
fail.

## 3. The runs

Only `gc` has a liveness property and only it assumes fairness: `WF_vars(Mark)`,
that the thread which marks goes on marking. It is justified because the one
lock marking takes, the `arena_lock` of `find_arena` (`ejs-gc.c:485`), is held
only for a search of the arenas and released on each way out, so that nobody
keeps it; nothing is assumed of the finalizer. All other
runs check safety. `CHECK_DEADLOCK FALSE` is set where the model may stop: after
an abort or an undefined step the process is gone, and a model whose nodes,
collections, entries or programs are used up has nothing left to do.

| Run | Instance | Shows |
|---|---|---|
| `values` | every pair of 41 representative values; ints of 11 bits (`IntMax = 1023`), every one of them written; texts of up to four characters; 3 024 calls through up to two binds | The relations, conversions, operators and numerals are ECMAScript's, after the same calls of JavaScript, outside operands each property names (`LooseExcepted`, `InstanceExcepted`, `BadNumber`, ...), aborts, an overflow and a write behind a buffer included; a call reaches its function with the right this and arguments outside `CallExcepted`. Most exception sets are exact: the property says that the two sides differ there. |
| `map` | an object and a symbol as keys, 1 value, 1 iterator, 1 `forEach`, 2 constructions, lists of 3 nodes | The magic value of a cleared entry never gets out, keys stay unique, an iterator never goes back, a `forEach` reaches all that is there when it returns, and Map is an `OrderedMap` whose remove always refuses. |
| `set` | a number, an object and a symbol, 1 iterator, 2 nested `forEach`, 3 nodes | The same for Set, with a delete; and Set is an `OrderedMap`. |
| `propertymap` | 4 names that collide, 2 descriptors, 4 nodes, tables of 2, 3 and 5 buckets | The two linkings agree after every insert, remove and rehash, the load stays bounded or the process ends, a walk whose entry is not freed under it reads everything, and the map is a `PropertyTable`. |
| `object` | four scenarios, see below | Non-configurable and non-extensible mean what they should through any define, set, delete, freeze and seal; freeze restricts the first kind of names; no prototype cycle, unless a trap changed the chain a [[SetPrototypeOf]] was checking; a [[Set]] with any receiver that answers true is seen by the next read; what a proxy's accepted answer says of a fixed target stays true. |
| `array` | 1 array of at most 3 elements (2 in a loop), 2 values, spare room of 1 cell, lengths modulo 256, 1 loop | The elements stay inside the block and written, only a store to a position outside the array, a join that was shortened under its buffer or an array pushed onto itself without room for both ends badly, a loop hands its callbacks what is there, and the array is an `ArraySeq`. |
| `strings` | one literal of two letters, 3 strings made of it and of each other | No method, flattening or hash changes a text; methods answer what `Texts` says; equal texts have equal hashes; an iterator reads the characters of its text in order, and the strings it hands out never have the length of theirs. |
| `typedarrays` | 3 buffers, 2 views, blocks of up to 4 bytes, elements of 1 and 2 bytes, words of 4 bits | A view that the constructors made of lengths that did not wrap shows only bytes of a block that exists, every view of a byte sees what was stored through any other, and a collection takes no block that is still shown: `Bytes`. |
| `codegen` | 1 822 of 7 110 candidate programs, those that fit | Where the stack of blocks holds the right targets, the code does what the program says, and every block it reaches is complete. |
| `expressions` | 9 064 expressions, declarations and functions, in every typing of their variables and answers | In the fragment `Fits`, which about half of them are in, code and program make the same calls with the same values in the same order and leave the same variables, in both orders of C++ arguments. |
| `gc` | 1 page of 2 cells, stores of 8 bytes, the work list behind the list of the finalizer, 2 collections, 4 finalizer entries | Marking ends although the wide stores undo marks and empty the work list; the first marking scans all that can be reached and until the first sweep every allocation that finds cells left gets one, except where the finalizer's store emptied the work list. |
| `gc_live` | the same, with nothing behind the list | *Violation.* A cell that was never allocated is condemned, because the store to the flags of its neighbour made it look allocated and white, and the object then put there is flagged for finalization while in use. |

### Bounds, and why they are enough

* *Keys and values* (Map, Set). The code tells keys apart by SameValueZero
  only, so two ordinary keys show every pattern of a list, and a symbol shows
  the abort. The values on which SameValueZero is wrong are kept out of these
  runs: `values` is about them.
* *Nodes.* With 3 or 4 nodes a list has tombstones before, between and after
  live entries, and room to append behind an iterator or a walk.
* *Lists, depth.* Two constructions put a walk on an old list; two nested
  calls let an inner walk change what the outer one stands on.
* *Primes.* 2, 3, 5 instead of the code's primes: two rehashes and then the
  table that cannot grow, with four entries. The hashes make names collide in
  each size. Addresses are interchangeable, and the run uses that symmetry; it
  checks safety only, for which it is sound.
* *Objects and proxies.* The constraint `Small` of `object` keeps four
  scenarios of one specification: one object with two names of different kinds
  and every descriptor (a define looks at one object and one name); two objects
  with the properties literals and classes make, on a prototype chain (a set
  looks at the owner and at the receiver); an object with a proxy, where the
  second object is only there to become a prototype inside a trap; and three
  objects with a proxy on their chains (`Walks`), which is what it takes for a
  trap to answer one object after it has linked another. The theorems hold for
  any number of objects, proxies and names.
* *Arrays.* Three elements and one spare cell make a block grow, fill and
  shrink; lengths are modulo 256 so that a subtraction below zero is as large as
  it is with 32 bits. A loop starts on at most two elements, and its callbacks
  may do anything to the array. Loops do not nest (`MaxDepth = 1`). Of the
  relative positions, -2 is before the start of a short array and inside a long one.
* *Strings.* One literal of two different letters, of which two more strings are
  made: a rope of a rope, a substring of a flattened rope, a rope that holds a
  substring. `AnyBase = FALSE` leaves out substrings of a rope that itself holds
  a substring: their texts are wrong, see section 5, and with `AnyBase = TRUE`
  `TextsAreKept` fails. `Outside`, what lies before a buffer, is a third letter.
  The theorems hold for any characters, literals and positions, and any length of
  the heap.
* *Typed arrays.* Words of 4 bits (15 is -1), so that sizes, offsets and their
  sums wrap as those of 32 bits do; elements of one and two bytes, so that views
  overlap by halves. The constraint `Small` keeps two objects one of which may be
  forgotten, a view on a slice, and nests of three or four objects; a byte is
  stored at most once. The view `State` leaves out the record of the last
  access, which only the refinement reads.
* *Compiler.* Programs are enumerated: every shape of condition in every
  statement that has one, around every shape of body, followed by statements that
  meet what the first left on the stack. `Limit = 40` steps without an event are
  an endless loop, on both sides. Leaf values are 0 and 1, and the hash table
  makes equal residues meet. Expressions are one operation over every leaf, and
  larger ones over the leaves `Rich`: a literal, a local and a global variable,
  which are the three ways an operand is read.
* *Numerals.* Texts of up to 4 characters out of a space, a sign, `x` and digits
  that belong to each radix; ints of 11 bits, so that every one is
  written: they pass the code's boundaries at 10, 100 and 200, and the longest do
  not fit the buffer with their sign, which is made for the digits of the largest
  unsigned as `int_buf` is; a text of three or four digits passes the largest int
  as one of ten does that of 32 bits.
* *Calls.* Two binds show the order in which slots are appended; longer chains
  repeat the same wrapper.
* *Cells.* Two cells are one store wide, so every store to the first reaches
  the second: objects that refer to each other in both orders, a cell never
  allocated, a page that fills, empties and is reused. Two collections give
  both meanings of the colour masks, and a second wait for the finalizer. With
  three cells and one collection (`N = 3`, `MaxCollections = 1`) the safety
  invariants hold too, on some 0.8 million states without a work list behind; `Width` only has to be `N` or
  more.

## 4. Abstract specifications

| Detailed | Abstract | Mapping |
|---|---|---|
| `MapObject`, `SetObject` | `OrderedMap` | The live entries of the list are the dictionary: a tombstone is invisible, `forEach` is one abstract step when it returns, iterators are stutters. `OrderedMap` has two specifications: with a remove (Set) and with one that always refuses (Map, whose `delete` is a stub). |
| `PropertyMap` | `PropertyTable` | The insertion list is the table; bucket chains and rehashes are stutters. |
| `Arrays` | `ArraySeq` | The cells below the length are the sequence, a hole being undefined, which pop and shift may take out as the hole it is (`Out`); a method without callbacks is one abstract step with its answer, any other changes nothing by itself, and the process may end at any step. Of a splice from before the first element nothing is promised (`SpliceBefore`), and a search for undefined may pass over some, which are holes (`Found`). |
| `TypedArrays` | `Bytes` | A block is a sequence of bytes, a view a place in it, whatever slices lie between; a collection is a step that may take only what nothing shows. |
| `Strings` | `Texts` | Not a state machine: `AnswersAgree` compares every answer with the operator of `Texts` on the characters, `TextsAreKept` says no step changes the text of an existing node. Both are proved for any heap that calls can make (section 6). |
| `Emission`, `Expressions` | `JsSemantics`, `JsExpressions` | Code and program run side by side, and observable events must be the same. |

## 5. Where the code differs from what it says

`gc_live` is the violation run: the collector's flags are bytes stored eight at a
time without a comparison (`jsextern.cpp:212`), where the comments speak of a
cmpswap (`ejs-gc.c:940`). What follows is visible in the definitions and not run
separately; line numbers are of `src/ejs_runtime/` unless another file is
named.

**Collector.** `finalizer_list` is a pointer stored as eight bytes
(`ejs-gc.c:632`, 942, 970), which in a 32-bit build sets the variable behind it to
NULL, as declared the work list (128), while the other thread may be marking; an
entry prepended between the finalizer's read and its store is lost; `num_free_cells` counts cells that were never allocated; the finalizer's
assertion fails when it takes an entry before the sweep has flagged the cell;
`jsextern_signal_wait` locks its mutex again after the wait and never unlocks
it; inserting an arena in the middle moves one pointer too few (`ejs-gc.c:404`).

**Values.** +0 and -0 differ under SameValueZero and `===`, and SameValue(+0, +0)
is false (`ejs-ops.c:464`, `479`); both end the process on two symbols (`:501`,
`:553`). `++` and `--` of an iterator call its next and answer the result object
(`:591`). instanceof ends the process on a bound function and lets a symbol be
the prototype. `IntToString` tests a variable its loop has
made 0, so numbers above 200 get a minus sign, for which `int_buf` has no room
beside ten digits (`:172`); parseInt adds up in an int that overflows (`:1364`);
other numerals have six digits; -0 prints as "-0". `"5 "` is NaN and `"inf"` infinity. NaN is truthy, `typeof
null` is "null". null aborts arithmetic. `+` looks at operands before it makes
them primitive and converts an object twice beside a string; the other
operators abort on most left operands. `==` differs exactly on `LooseExcepted`.
`parseInt` knows radix 8, 10 and 16 and skips no white space.

**Invocation.** bind, and apply without a list, box a primitive this; call and
apply with a list do not (`ejs-function.c:462`). `call` trusts what it is called
on (`:228`); apply lets a proxy pass; an object without a length has undefined
read as a count (`:175`); holes are passed on as such (`:181`).
`arguments[arguments.length]` reads behind the block (`ejs-arguments.c:53`).

**Map, Set.** Adding -0 twice stores +0 twice (`ejs-set.c:236`).
`Map.prototype.delete` always answers false (`ejs-map.c:100`). The constructor
run again on a live Map discards its entries (`ejs-map.c:426`), where step 9 asks
for a TypeError. Map iterators skip after a clear, Set iterators after a delete
too (`ejs-set.c:491`).

**Objects.** `isFrozen` and `isSealed` answer true for every non-extensible object
(`ejs-object.c:1490`). A define with neither value, writable, get nor set makes a
property that is neither data nor accessor (`:2203`). NaN as a name is inserted
by each define and found by no lookup. `[[OwnPropertyKeys]]` copies the names of
the second kind to 8 times their offset, so freeze misses them (`:2483`).
`Object.assign` follows the link of an entry that a getter may have freed
(`:1149`). [[SetPrototypeOf]] looks for a cycle by asking each object of the chain,
and stores (`:1975`) without testing again whether the object is extensible or
what its prototype is by now; the comment at `:1966` takes the earlier steps to
cover that. Where a proxy is on the chain its trap runs in between: it can close
a cycle, or see an object that is no longer extensible change its prototype. A
primitive that such a trap answers is followed as an object. `FromPropertyDescriptor` tests the getter for "set".

**Proxies.** Each check of an answer that is missing or inverted is in the trap's
action: getPrototypeOf refuses null and lets primitives pass (`ejs-proxy.c:162`),
setPrototypeOf's comparison is inverted (`:233`), get compares nothing, set tests
writable for read-only (`:443`), has dereferences NULL for an absent name
(`:502`), delete skips step 15, a define of an existing name and an object as
answer of getOwnProperty end the process. `PromisesHold` is stated of the
others. isExtensible, preventExtensions and ownKeys act on the proxy itself.

**Arrays.** pop and shift answer the cell itself, so that a hole gets out
(`ejs-array.c:120`, 183, 186), and forEach hands it to its callback (`:1006`).
`push.apply(a, a)` and unshift read the block that `maybe_realloc_dense` has freed
(`:68`, 109, 258) when there is no room for both. A store behind the end makes room from the length and not the
position (`ejs-array.c:64`). splice and fill clamp a negative start wrongly
(`:1332`, `:1485`), slice knows no negatives (`:619`), map and from leave cells
uninitialised (`:1080`), forEach reads the length anew (`:1007`), join writes to a
buffer sized before its conversions ran (`:735`), the guards of reduce and
reduceRight are inverted (`:1140`, `:1235`), getOwnProperty accepts every index
(`:2229`). `AnswersAreWritten` in `Arrays` says that no answer is garbage; it does
not hold and no run checks it.

**Strings.** A substring of a rope that holds a substring is copied from the
wrong place. Searching the empty string answers -1; a needle longer than the
text makes endsWith read before the buffer (`ejs-string.c:1338`), and the scan of
lastIndexOf backwards compares with what lies there (`:161`); indexOf and
lastIndexOf ignore the position; concat, search, trim, valueOf, localeCompare and
a substr without length abort. The UTF-8 build takes the length of a string made
from UCS-2 as `buf - buf_ptr`, the wrong way round (`:344`, 1893): each string an
iterator hands out (`:1632`, 1642, 1647), and each one of fromCharCode (`:1066`),
has the length 2^32 - 1.

**Typed arrays.** [[Get]] lets the index `length` through; [[Set]] answers false
when it has stored and true when it has not; slice shares its block, takes
(length, offset) and lets the offset pass the size; byte counts wrap; a data view
never compares its offset. A typed array made of another, subarray and `get` are
not implemented.

**Compiler, statements.** `Fits` in `CodeGen` is the fragment in which targets are
right. Outside it: conditions with `&&` or `||` leave stale targets; a `break`
behind an inner loop or switch binds to that one; `continue` of a do-while skips
the condition; a do-while whose condition is no comparison has a test that never
branches, as the branch into the loop is taken for one (`Nodes.cpp:3174`, 3191);
an `if` whose body ends in another compound statement, and an
empty body, abort the compiler; a labelled break jumps to the start of the
labelled statement; `switch` goes to its end after a literal that did not match
(`Nodes.cpp:3948`, against the comment at 3775); `!0`, NaN and `'0'` have wrong
truth values; a function without return answers 0.

**Compiler, expressions.** `Fits` in `JsExpressions` is the fragment without the
following. Operands are pointers and are read after the right operand has run;
arguments are emitted in whatever order C++ takes. `typeof (x = e)`, `(x = f)()`
and `(x = 1)++` drop the assignment, as the node answers `isLocation`
(`Nodes.h:963`). `-x`, `+x`, `~x`, `!==`, `1 * x` and the bit operators abort the
compiler; `in`, and compound assignment to a property, emit nothing. Call,
postfix and delete on `o[k]` take the base for the key (`Nodes.cpp:1523`, 1689,
1800). `delete` never deletes. `f()(x)` passes the callee as this. `new f(a)`
evaluates its arguments late and ignores an object result. `1 + "s"` is numeric.
An assignment to a property emits the right side before the base. `arguments`
is a copy. A declared function is made where its name is first used, which may
be inside a branch (`CodeGenJSObject.cpp:591`).

## 6. What is proved

All proofs are in modules of their own, next to the module they are about. They
assume the named assumptions of those modules (`MapAssumption`, `SetAssumption`,
`PropertyMapAssumption`, `ObjectAssumption`, `ArrayAssumption`,
`ArgumentsAssumption`, `WordAssumption`, `PlacesAssumption`,
`StringsAssumption`, `GcAssumption`): bounds are natural numbers, literals are
made of characters and fit the heap, what is passed to a constructor of views
has been through ToUint32, the magic value is no key, NULL is no object, entry
or cell, descriptors are descriptors, a page has a cell, a block has room for
what it is made with. Two say more. `PropertyMapAssumption` has that names which
are `===` have one hash and that three quarters of each bucket count are an
entry more than of the one before, which is why one rehash is enough; the table
of primes (`ejs-object.c:347`) is like that. And eight theorems have a
hypothesis of their own, named with them.

* **Map** (`MapObject_proofs`). `TypeCorrect`, `KeysAreUnique`,
  `IteratorsGoForward`, `ForEachIsComplete`, `MapIsOrderedMap`. Uniqueness alone is
  inductive together with the type invariant, once it is known that the
  comparators are symmetric enough on what the scan stops at and that no
  comparator accepts the magic value; both are lemmas on `Values`. Forwardness is
  not: it needs that an iterator on the current list has at most `index` live
  entries up to its last position (`Counted`), which clear, set and the
  constructor preserve because none makes a dead entry live. `ForEachIsComplete`
  needs the like of walks (`Covered`): each stands inside its list, which may be
  one the constructor has replaced, and what is live up to there was handed to
  the callback. The refinement rests on the rank of an entry among the live ones:
  `LiveEntries` is the list in rank order, a scan stops at the entry whose rank
  is the dictionary's place (`ScanIsLookup`), and an append, a rewrite and a clear
  are the dictionary's. Its hypothesis is `OneForm`: no key is a zero, and no
  number comes in two representations, where the comparators themselves are not
  ECMAScript's (run `values`).
* **Set** (`SetObject_proofs`). `TypeCorrect` needs that the list is never longer
  than its bound (`Bounded`), as size answers with a count of it. `MembersAreUnique`
  holds under `NoNegZero` only, which is its hypothesis: add scans for the value
  as given and stores it normalised, so with -0 it is false. `IteratorsGoForward`
  and `ForEachIsComplete` rest on `Counted` and `Covered`, as for Map, and
  `SetIsOrderedMap` on the ranks, which a delete shifts by one
  (`LiveEntriesDrop`), under `OneForm`.
* **Property map** (`PropertyMap_proofs`). The proofs reason about pointers. A
  chain is a sequence without repetition in which each entry links to the next
  and the last to NULL (`IsChain`); there is at most one from a given entry
  (`ChainIsUnique`, by a least position where two would part), so that what the
  loops compute is known as soon as a chain is exhibited. Five lemmas say what
  becomes of a chain: kept by a change of other entries, pushed, appended to, and
  with an entry unlinked off it or on it. A rehash is taken prefix by prefix of
  the insertion list: the chain of a bucket over one more entry is pushed or kept
  (`RehashedBuckets`). The invariant says of the heap that the insertion list is a
  chain of all entries that ends at the tail, that each bucket has a chain of the
  entries of its hash, that the load is bounded, and that a walk has read a prefix
  of the list. It gives `LinkingsAgree`, `TableHasRoom` and `WalkIsComplete`.
  `PropertyMapIsTable` adds `OneForm`: names that are `===` are the same value, so
  that neither NaN nor a number in two representations is a name; with them the
  map holds a name twice.
* **Objects** (`Proxies_proofs`, first part). `ObjectTypeCorrect`: the hard case is a
  define that turns data into accessor, where `Merged` must drop what `Kept`
  drops. `PrototypeChainsEnd`, of ordinary objects: a chain is the least set closed under the
  prototype function, so the proof shows that with the new edge of
  `SetPrototypeOf` the complement of the changed object's descendants remains
  closed. `NonExtensibleStays` and `NonConfigurableStays` follow action by
  action from the type invariant and a lemma on `Rejects` and `Merged`. The run
  `object` checks the same properties of `Proxies!ProxySpec`, for which the next
  item proves them again.
* **Proxies** (`Proxies_proofs`). `PromisesAreKept` needs to know of what promises
  are made: every one is `Lasting`, that is, it is about a target that is not
  extensible or an accessor that is not configurable; and while a trap is asked,
  the proxy still has the target it was asked for (`Asking`, `TargetsExist`). What
  lasts is kept by any step on ordinary objects, and a proxy changes its target
  by such steps only. `ProxiedChainsEnd` allows proxies on the chains: a walk that
  waits for a trap keeps the links it began with, under which what it is about to
  link does not lead back (`Walking`), and the store closes no cycle if the links
  are still those (`WalkIsStored`); where they are not, the store may close one, the
  status says so and the behaviour ends, as the next look-up may not.
  `ProxiedObjectsStayFixed` carries the other theorems on objects over to programs
  with proxies, and has the same exception for a prototype, as has a promise of
  what an object's prototype is. `SetsAreSeen` and
  `ListedStayRestricted` are about the call a step made last, which stays the last
  when a call that is refused follows, so that its answer must still be true then
  (`LastInv`). A name is read where a look-up stops, which is at the receiver
  itself because two objects are never on each other's chain
  (`ChainsAreOrdered`); and what [[DefineOwnProperty]] refuses of a restriction
  is restricted already (`RestrictedIs`).
* **Arrays** (`Arrays_proofs`). A lemma for each operation of `DenseArray` says that
  it leaves a good array (elements inside the block, all written) or a lost one;
  a loop without callbacks does, because each turn does (`LoopedGood`, from the
  least turn after which the array would not be good). `NextIs` then splits the
  steps of every method into four: a call that leaves `b` and is `Sound` (if `b`
  is lost at the bounds of the block, the method was given a position), a loop that
  begins, goes on, or is left early. `ElementsStayInside` follows with `FramesOK`:
  an array in a loop is short enough for the loop's types, and a loop that has read
  the length stands below it. `OnlyPositionsOrItselfGoAstray` and
  `LoopsSee` are proved of the four kinds of step. `ArraysAreSequences` is the refinement of
  `ArraySeq`, method by method: what a program reads at each index after an
  operation (`StoreReads` to `SetLengthReads`), then after a loop of them. A loop
  without callbacks has a history (`History`), and what it has read and written
  after p turns is an induction over p (`UpTo`): a tail that moves down is carried
  first element first, one that moves up last element first, so that no turn reads
  what an earlier one wrote (`CarriesDownRead`, `CarriesUpRead`). An array that
  survives such a loop took every turn of it (`AliveThroughout`). A loop that calls
  back always moves its frame, and finds nothing to call back for only in an empty
  array or, for reduceRight, one of a single element (`NothingFound`).
* **Typed arrays** (`TypedArrays_proofs`). `ViewsShowWhatExists`. Three things are
  not visible in one step. The walk along the parents of a slice is a function
  that is defined by itself, and has a value because the parents are ranked
  (`Ranked`, `WalkIs`): a slice is made of a buffer that is there. Marking is as
  many rounds as there are buffers, and by then it is closed (`RoundsClose`: until
  it is, each round adds a buffer), so that what stays of a collection leads to
  nothing that went (`Standing`). And an own buffer's size fits its block unless
  it wrapped (`Backed`), a view fits the size of its buffer unless its own count
  wrapped (`WindowsFit`); `RegularInside` carries the one along the slices to the
  other. `ViewsShareBytes` is the refinement of `Bytes`, step by step. `Bytes` cuts
  an address to a word at every slice and the code once, after the walk, which is
  the same (`CutEarly`, `PlacedIs`); a buffer that keeps its parents keeps its
  place (`WalkStays`), so that a new object moves no other, and what a marked
  buffer leads to is marked (`CollectStep`); only owners have bytes (`Bare`), so
  that what a collection clears is what nothing shows. It rests on one assumption
  on the sizes: two elements fit in a block.
* **Strings** (`Strings_proofs`), for any characters, literals and arguments:
  `StringsAreWellFormed`, `StringsAreImmutable`, `IteratorsReadTheText` and
  `MethodsAgree`. The text of a node, the copy, the hash and the look-up are
  recursive over the tree, and are compared along the heap, where a node refers to
  earlier ones only (`NodeInduction`, from a least counterexample). The copy of a
  stretch over a node without dependent strings below is that of its text: a rope
  passes what the left half leaves to do to the right one (`CopyJoins`,
  `CopyPure`). Over a dependent string the copy is not bounded by it, so a stretch
  is copied faithfully only if it ends inside and no rope below holds a dependent
  string (`CopyRegular`, `CopyWhole`): the invariant `Good` keeps that every base is
  such a node, and that cached hashes are those of the texts. A step then either
  appends a node (`NodeAppended`) or replaces one by another that stands for the
  same text (`NodeReplaced`), and both keep all texts, the regular bases and the
  hashes, though the node may be below any other. Each method has a lemma that it
  takes such steps and answers as `Texts` says. The hard ones are the searches
  (`StrstrIs`, `StrrstrIs`: the scan backwards reads before the buffer), repeat,
  and split, whose loop is shown, turn by turn, to have collected a prefix of the
  pieces (`LoopInv`, `LoopGives`) and to come to its end in one turn more than
  twice as many as there are characters; the pieces are those of `Texts` for a
  separator with characters (`PiecesCut`) and the letters for the empty one
  (`LettersCut`). The hypothesis of all four is `AnyBase = FALSE`: no substring is
  taken of a rope over a dependent string, of which it would copy the wrong
  characters (section 5). `MethodsAgree` also has `Outside \notin Chars`: what lies
  before a buffer, where lastIndexOf reads, is no character; if it were,
  lastIndexOf could find a match that begins there. `IteratorsReadTheText` says of
  the strings handed out that their characters are right and their length is not.
* **Collector** (`Gc_proofs`), for every number of cells, every width of the store
  and any number of entries. `FirstMarkReachesAll`: until the first sweep zero is
  white, so a store that zeroes the flags behind a cell can make an object white
  again but never the other way; hence what is not white has been pushed or
  scanned (`MarkedSoFar`), unless the work list was emptied by the finalizer's
  store (`js.cleared`, which only `WorkListBehind` allows and the theorem excepts);
  and when nothing is left to do the scanned objects are closed under references
  and hold the roots. `QuietAndTyped`: a count of the free cells runs ahead of the
  page by at most the entries released (`CountInv`), and until the first sweep the
  bump pointer and the count are in step (`BumpInStep`), so that every allocation
  that passes the test of the count finds a cell. It excepts the same store, which
  may come between the steps of a push or a pop. Neither holds after a sweep, as
  the violation run shows.

Only model-checked, and why:

* `MarkingEnds` is liveness under fairness, which the prover does not do.
* The compiler (`SameEvents`, `BlocksAreComplete`, `SameMeaning`): its machines are
  recursive over the program, and what a recursive definition computes for every
  input is induction over data. The values, operators, numerals and calls
  (`ConversionsAgree`, `OperatorsAgree`, `CallsAgree`, `NumeralsAgree`): finite
  tables in which the case analysis is all there is, or recursive numerals.

## 7. Not modelled

* *Out of reach or without state of its own.* The lexer and the grammar (text to
  nodes; `Expressions` begins at the `make...Node` functions), LLVM itself,
  regular expressions (pcre), JSON (vendored parson), Math, Date, console,
  process, start-up, the table of atoms.
* *Not in this build.* Exceptions are compiled out; a promise's executor is never
  called and the task queue is disabled; symbols and URIs are stubs; the
  property iterator of for-in is called by nothing, as the compiler has no code
  for it.
* *Left out of modelled parts.* The conversion of an object to a descriptor;
  sparse arrays and the methods of `Array.prototype` on other objects; an array's
  own block as the arguments of other methods than push and unshift
  (`splice.apply(a, a)`), and a hole that pop or shift gave out and the program
  stores again; the rounding of doubles; a string of length 2^32 - 1 as an operand
  of a method.
  *Proxies:* the target of a proxy is an ordinary object, so that a look-up which
  never comes back from a proxy to itself is not there; look-ups ([[Get]], [[Set]],
  [[HasProperty]]) do not go through a proxy on a chain; one trap runs at a time,
  and while it does the program takes any step on ordinary objects but none on
  another proxy.
  *Collector:* pages, arenas and large objects beside the one page of `Gc`; the
  objects only the C stack holds; variables other than the work list behind
  `finalizer_list`; each SET_* macro is one store although it reads the byte
  first, and the store of `WORKLIST_PUSH_AND_GRAY_CELL` to its local copy of a
  flag, which reaches the locals behind it, is left out. That `num_free_cells` does
  pass `num_cells` is in the model and no property forbids it; `GcInv` bounds by
  how much.
  *Compiler:* `with`, `throw`, `try`, `eval`, closures over locals and declared
  functions; `Expressions` is about code inside functions, where `var` and `const`
  are locals: in the main function they are globals (`Nodes.cpp:985`), and a `const`
  there takes only an initializer that is a number (`Nodes.cpp:2730`); a for-in
  whose target is an expression other than a variable, which is evaluated once
  (`Nodes.cpp:3431`).

What could be added next: `Gc` with several pages, and proxies as targets of
proxies.
