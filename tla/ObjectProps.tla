----------------------------- MODULE ObjectProps -----------------------------
(***************************************************************************)
(* Ordinary objects (ejs-object.c): their own properties, their prototype  *)
(* and their extensible flag, and the internal methods over them.  The     *)
(* table that holds the properties is PropertyMap; here it is a function   *)
(* from names to descriptors.                                              *)
(*                                                                         *)
(* A descriptor is a function from the fields that are present: the _SET   *)
(* bits of EJSPropertyDesc are its domain.                                 *)
(***************************************************************************)
EXTENDS Values, Naturals

CONSTANTS Objects,  \* the heap's objects
          Names,    \* property names
          KindOf,   \* how [[OwnPropertyKeys]] sorts a name
          Vals,     \* the values stored
          Funs,     \* functions used as getters and setters
          Descs,    \* the descriptors a program passes to defineProperty
          NULL      \* the null prototype

DataFields     == {"value", "writable"}
AccessorFields == {"get", "set"}
Flags          == {"writable", "enumerable", "configurable"}
Fields         == DataFields \cup AccessorFields \cup Flags

Has(d, f)  == f \in DOMAIN d
Flag(d, f) == Has(d, f) /\ d[f]
Slot(d, f) == IF Has(d, f) THEN d[f] ELSE Undefined

IsAccessorDescriptor(d) == DOMAIN d \cap AccessorFields # {}
IsDataDescriptor(d)     == DOMAIN d \cap DataFields # {}
IsGenericDescriptor(d)  == ~IsAccessorDescriptor(d) /\ ~IsDataDescriptor(d)

\* What ToPropertyDescriptor returns: no value or writable beside get or set.
IsDescriptor(d) ==
  /\ DOMAIN d \subseteq Fields
  /\ \A f \in DOMAIN d :
       /\ f = "value"          => d[f] \in Vals \cup {Undefined}
       /\ f \in AccessorFields => d[f] \in Funs \cup {Undefined}
       /\ f \in Flags          => d[f] \in BOOLEAN
  /\ ~(IsAccessorDescriptor(d) /\ IsDataDescriptor(d))

ASSUME ObjectAssumption ==
  /\ NULL \notin Objects
  /\ \A n \in Names : KindOf[n] \in {"index", "string", "other"}
  /\ \A d \in Descs : IsDescriptor(d)

VARIABLES
  born,        \* the objects created so far
  props,       \* the own properties of each object
  proto,       \* its prototype
  extensible,  \* its extensible flag
  last,        \* the last [[Set]] or SetIntegrityLevel, and its answer
  status       \* "running", "aborted" (a TypeError), "undefined", or "overtaken":
               \* a link was stored that its check no longer covers (Proxies)

vars == <<born, props, proto, extensible, last, status>>

Running == status = "running"

Call3(op, o, n, r, v, answer) ==
  [op |-> op, object |-> o, name |-> n, receiver |-> r, value |-> v,
   answer |-> answer]
NoCall == Call3("none", NULL, NULL, NULL, NULL, TRUE)

-----------------------------------------------------------------------------
(***************************************************************************)
(* The prototype chain of o, o included: what no set that holds o and is   *)
(* closed under [[GetPrototypeOf]] can be without.                         *)
(***************************************************************************)
Closed(S) == \A x \in S : proto[x] # NULL => proto[x] \in S

Chain(o) ==
  {y \in Objects : y = o \/ \A S \in SUBSET (Objects \ {o, y}) : ~Closed(S \cup {o})}

\* The object the lookup of a name from o stops at.
Owners(o, n) == {x \in Chain(o) : n \in DOMAIN props[x]}
Owner(o, n)  == CHOOSE x \in Owners(o, n) : Owners(o, n) \subseteq Chain(x)

\* [[Get]] with no getter to call.
Read(o, n) == IF Owners(o, n) = {} THEN Undefined
              ELSE Slot(props[Owner(o, n)][n], "value")

-----------------------------------------------------------------------------
(***************************************************************************)
(* [[DefineOwnProperty]]: what it refuses and what it makes of the current *)
(* descriptor.                                                             *)
(***************************************************************************)
\* A validation that lets the value of a read-only property be replaced.
RejectsFlagsOnly(cur, d) ==
  /\ cur # d
  /\ ~Flag(cur, "configurable")
  /\ \/ Flag(d, "configurable")
     \/ Has(d, "enumerable") /\ Flag(d, "enumerable") # Flag(cur, "enumerable")
     \/ /\ ~IsGenericDescriptor(d)
        /\ IsDataDescriptor(cur) # IsDataDescriptor(d)
     \/ /\ IsDataDescriptor(cur) /\ IsDataDescriptor(d)
        /\ ~Flag(cur, "writable") /\ Flag(d, "writable")

Rejects(cur, d) ==
  /\ cur # d
  /\ ~Flag(cur, "configurable")
  /\ \/ Flag(d, "configurable")
     \/ Has(d, "enumerable") /\ Flag(d, "enumerable") # Flag(cur, "enumerable")
     \/ /\ ~IsGenericDescriptor(d)
        /\ IsDataDescriptor(cur) # IsDataDescriptor(d)
     \/ /\ IsDataDescriptor(cur) /\ IsDataDescriptor(d)
        /\ ~Flag(cur, "writable")
        /\ \/ Flag(d, "writable")
           \/ Has(d, "value") /\ d["value"] # Slot(cur, "value")
     \/ /\ ~IsDataDescriptor(cur) /\ IsAccessorDescriptor(d)
        /\ \E f \in AccessorFields : Has(d, f) /\ d[f] # Slot(cur, f)

\* A conversion that clears nothing.
KeptAll(cur, d) == DOMAIN cur

\* What survives of cur when d turns data into accessor or back.
Kept(cur, d) ==
  IF IsGenericDescriptor(d) \/ IsDataDescriptor(cur) = IsDataDescriptor(d)
  THEN DOMAIN cur
  ELSE DOMAIN cur \ (IF IsDataDescriptor(cur) THEN DataFields
                                              ELSE AccessorFields)

Merged(cur, d) ==
  [f \in Kept(cur, d) \cup DOMAIN d |-> IF Has(d, f) THEN d[f] ELSE cur[f]]

Insert(ps, n, d) ==
  [m \in DOMAIN ps \cup {n} |-> IF m = n THEN d ELSE ps[m]]

\* A define that creates without looking at the extensible flag.
CanDefineAlways(o, n, d) ==
  n \in DOMAIN props[o] => ~Rejects(props[o][n], d)

CanDefine(o, n, d) == IF n \in DOMAIN props[o] THEN ~Rejects(props[o][n], d)
                                              ELSE extensible[o]

Defined(o, n, d) ==
  Insert(props[o], n,
         IF n \in DOMAIN props[o] THEN Merged(props[o][n], d) ELSE d)

DefineOwn(o, n, d) ==
  props' = IF CanDefine(o, n, d)
           THEN [props EXCEPT ![o] = Defined(o, n, d)] ELSE props

-----------------------------------------------------------------------------
Init ==
  /\ born = {}
  /\ props = [o \in Objects |-> <<>>]
  /\ proto = [o \in Objects |-> NULL]
  /\ extensible = [o \in Objects |-> TRUE]
  /\ last = NoCall
  /\ status = "running"

\* Object.create and object literals.
Create(o, p) ==
  /\ Running
  /\ o \in Objects \ born
  /\ p \in born \cup {NULL}
  /\ born' = born \cup {o}
  /\ proto' = [proto EXCEPT ![o] = p]
  /\ last' = NoCall
  /\ UNCHANGED <<props, extensible, status>>

\* Object.defineProperty: a refusal is a TypeError, which ends the process.
DefineProperty(o, n, d) ==
  /\ Running
  /\ o \in born
  /\ DefineOwn(o, n, d)
  /\ status' = IF CanDefine(o, n, d) THEN status ELSE "aborted"
  /\ last' = NoCall
  /\ UNCHANGED <<born, proto, extensible>>

(***************************************************************************)
(* [[Set]] of o with a receiver (o itself in an assignment, any object in  *)
(* Reflect.set).  A setter is JavaScript: it runs after the last thing the *)
(* method does, and what it does are further steps.                        *)
(***************************************************************************)
Plain(v, all) ==
  [f \in {"value"} \cup (IF all THEN Flags ELSE {}) |->
     IF f = "value" THEN v ELSE TRUE]

OwnDesc(o, n) == IF Owners(o, n) = {} THEN Plain(Undefined, TRUE)
                 ELSE props[Owner(o, n)][n]

Assigned(r, n, v) == Plain(v, n \notin DOMAIN props[r])

\* A set that writes the property where it was found.
SetOnOwner(o, n, v, r) ==
  /\ Running
  /\ {o, r} \subseteq born
  /\ LET own == OwnDesc(o, n)
         at  == IF Owners(o, n) = {} THEN r ELSE Owner(o, n)
         store == IsDataDescriptor(own) /\ Flag(own, "writable")
     IN  /\ IF store THEN DefineOwn(at, n, Assigned(at, n, v))
                     ELSE UNCHANGED props
         /\ last' = Call3("set", o, n, r, v,
              IF IsDataDescriptor(own)
              THEN store /\ CanDefine(at, n, Assigned(at, n, v))
              ELSE IsAccessorDescriptor(own) => Slot(own, "set") # Undefined)
  /\ UNCHANGED <<born, proto, extensible, status>>

Set(o, n, v, r) ==
  /\ Running
  /\ {o, r} \subseteq born
  /\ LET own == OwnDesc(o, n)
         store == IsDataDescriptor(own) /\ Flag(own, "writable")
     IN  /\ IF store THEN DefineOwn(r, n, Assigned(r, n, v))
                     ELSE UNCHANGED props
         /\ last' = Call3("set", o, n, r, v,
              IF IsDataDescriptor(own)
              THEN store /\ CanDefine(r, n, Assigned(r, n, v))
              ELSE IsAccessorDescriptor(own) => Slot(own, "set") # Undefined)
  /\ UNCHANGED <<born, proto, extensible, status>>

Remove(ps, n) == [m \in DOMAIN ps \ {n} |-> ps[m]]

\* [[Delete]]; the delete operator does not throw.
Delete(o, n) ==
  /\ Running
  /\ o \in born
  /\ n \in DOMAIN props[o] /\ Flag(props[o][n], "configurable")
  /\ props' = [props EXCEPT ![o] = Remove(@, n)]
  /\ last' = NoCall
  /\ UNCHANGED <<born, proto, extensible, status>>

\* A set that looks at the new prototype only, not at the ones above it.
SetPrototypeOfNear(o, p) ==
  /\ Running
  /\ o \in born /\ p \in born \cup {NULL}
  /\ p # proto[o] /\ extensible[o]
  /\ p # o
  /\ proto' = [proto EXCEPT ![o] = p]
  /\ last' = NoCall
  /\ UNCHANGED <<born, props, extensible, status>>

\* [[SetPrototypeOf]], when it is neither refused nor a no-op.
SetPrototypeOf(o, p) ==
  /\ Running
  /\ o \in born /\ p \in born \cup {NULL}
  /\ p # proto[o] /\ extensible[o]
  /\ p # NULL => o \notin Chain(p)
  /\ proto' = [proto EXCEPT ![o] = p]
  /\ last' = NoCall
  /\ UNCHANGED <<born, props, extensible, status>>

\* Object.setPrototypeOf: a refusal is a TypeError, which ends the process.
SetPrototypeOfRefused(o, p) ==
  /\ Running
  /\ o \in born /\ p \in born \cup {NULL}
  /\ p # proto[o]
  /\ ~extensible[o] \/ (p # NULL /\ o \in Chain(p))
  /\ status' = "aborted"
  /\ UNCHANGED <<born, props, proto, extensible, last>>

PreventExtensions(o) ==
  /\ Running
  /\ o \in born
  /\ extensible' = [extensible EXCEPT ![o] = FALSE]
  /\ last' = NoCall
  /\ UNCHANGED <<born, props, proto, status>>

-----------------------------------------------------------------------------
(***************************************************************************)
(* SetIntegrityLevel.  [[OwnPropertyKeys]] sorts the names in three lists  *)
(* and copies them behind one another into an array, the second and third  *)
(* at 8 times the offset they belong at: outside the array, unless the     *)
(* lists before are empty.  The elements left unwritten are whatever       *)
(* malloc returned.                                                        *)
(***************************************************************************)
Kind(o, k) == {n \in DOMAIN props[o] : KindOf[n] = k}

KeysListed(o) == IF Kind(o, "index") # {} THEN Kind(o, "index")
                 ELSE IF Kind(o, "string") # {} THEN Kind(o, "string")
                 ELSE Kind(o, "other")

\* A freeze that leaves data properties writable.
RestrictionConfigurable(level, cur) == [f \in {"configurable"} |-> FALSE]

Restriction(level, cur) ==
  [f \in {"configurable"} \cup
         (IF level = "frozen" /\ ~IsAccessorDescriptor(cur) THEN {"writable"}
                                                           ELSE {}) |-> FALSE]

Restricted(o, n, level) ==
  LET cur == props[o][n]
      d   == Restriction(level, cur)
  IN  IF n \in KeysListed(o) /\ ~Rejects(cur, d) THEN Merged(cur, d) ELSE cur

SetIntegrityLevel(o, level) ==
  /\ Running
  /\ o \in born
  /\ props' = [props EXCEPT ![o] =
                 [n \in DOMAIN @ |-> Restricted(o, n, level)]]
  /\ extensible' = [extensible EXCEPT ![o] = FALSE]
  /\ last' = Call3(level, o, NULL, NULL, NULL, TRUE)
  /\ UNCHANGED <<born, proto, status>>

\* The copy outside the array, or the garbage in it, does anything else.
SetIntegrityLevelOverruns(o) ==
  /\ Running
  /\ o \in born
  /\ KeysListed(o) # DOMAIN props[o]
  /\ status' = "undefined"
  /\ UNCHANGED <<born, props, proto, extensible, last>>

\* TestIntegrityLevel: the properties are not examined.
TestIntegrityLevel(o, level) ==
  /\ Running
  /\ o \in born
  /\ last' = Call3(level, o, "test", NULL, NULL, ~extensible[o])
  /\ UNCHANGED <<born, props, proto, extensible, status>>

-----------------------------------------------------------------------------
Next ==
  \E o \in Objects :
    \/ \E p \in Objects \cup {NULL} :
         Create(o, p) \/ SetPrototypeOf(o, p) \/ SetPrototypeOfRefused(o, p)
    \/ \E n \in Names :
         \/ Delete(o, n)
         \/ \E d \in Descs : DefineProperty(o, n, d)
         \/ \E v \in Vals, r \in Objects : Set(o, n, v, r)
    \/ PreventExtensions(o)
    \/ \E level \in {"sealed", "frozen"} :
         SetIntegrityLevel(o, level) \/ TestIntegrityLevel(o, level)
    \/ SetIntegrityLevelOverruns(o)

Spec == Init /\ [][Next]_vars

-----------------------------------------------------------------------------
IsFrozen(o) ==
  /\ ~extensible[o]
  /\ \A n \in DOMAIN props[o] : ~Flag(props[o][n], "configurable")
                             /\ ~Flag(props[o][n], "writable")

IsSealed(o) ==
  /\ ~extensible[o]
  /\ \A n \in DOMAIN props[o] : ~Flag(props[o][n], "configurable")

\* The type invariant: among the rest, no define leaves a property that is
\* data and accessor at once.
TypeOK ==
  /\ born \subseteq Objects
  /\ DOMAIN props = Objects
  /\ \A o \in Objects : /\ DOMAIN props[o] \subseteq Names
                        /\ \A n \in DOMAIN props[o] : IsDescriptor(props[o][n])
                        /\ DOMAIN props[o] # {} => o \in born
  /\ proto \in [Objects -> born \cup {NULL}]
  /\ extensible \in [Objects -> BOOLEAN]
  /\ \A o \in Objects \ born : extensible[o]
  /\ status \in {"running", "aborted", "undefined", "overtaken"}

(***************************************************************************)
(* No object is on its own prototype chain, so the recursions of [[Get]],  *)
(* [[Set]] and [[HasProperty]] and the loop of [[SetPrototypeOf]] end, as  *)
(* long as they meet no proxy.                                             *)
(***************************************************************************)
PrototypesAcyclic ==
  \A o \in Objects : proto[o] # NULL => o \notin Chain(proto[o])

(***************************************************************************)
(* A property that is not configurable is there for good: no call removes  *)
(* it, makes it configurable, changes whether it is enumerable, replaces   *)
(* its accessors, or, once it is read-only, its value; and it never turns  *)
(* from data into accessor or back.                                        *)
(***************************************************************************)
Fixed(old, new) ==
  /\ ~Flag(new, "configurable")
  /\ Flag(new, "enumerable") = Flag(old, "enumerable")
  /\ IsDataDescriptor(old) =>
       /\ IsDataDescriptor(new)
       /\ Flag(old, "writable") \/ (/\ ~Flag(new, "writable")
                                    /\ Slot(new, "value") = Slot(old, "value"))
  /\ IsAccessorDescriptor(old) =>
       \A f \in AccessorFields : Slot(new, f) = Slot(old, f)

NonConfigurableIsFixed ==
  [][\A o \in Objects : \A n \in DOMAIN props[o] :
       ~Flag(props[o][n], "configurable") =>
         n \in DOMAIN props'[o] /\ Fixed(props[o][n], props'[o][n])]_vars

(***************************************************************************)
(* An object that is not extensible gains no property, keeps its prototype *)
(* and never becomes extensible again; the prototype is kept unless the    *)
(* check of a [[SetPrototypeOf]] was overtaken.                            *)
(***************************************************************************)
NonExtensibleIsFixed ==
  [][\A o \in Objects : ~extensible[o] =>
       /\ DOMAIN props'[o] \subseteq DOMAIN props[o]
       /\ proto'[o] = proto[o] \/ status' = "overtaken"
       /\ ~extensible'[o]]_vars

(***************************************************************************)
(* When Object.freeze or Object.seal returns, the object is frozen or      *)
(* sealed (ejs-object.c:1415: for each element k of keys).                 *)
(***************************************************************************)
IntegrityIsSet ==
  [][last'.name # "test" =>
       /\ last'.op = "frozen" => IsFrozen(last.object)'
       /\ last'.op = "sealed" => IsSealed(last.object)']_vars

(***************************************************************************)
(* What is left of that in this build: the object is not extensible and    *)
(* the properties of the first kind it has are sealed or frozen, the       *)
(* accessors among them included.                                          *)
(***************************************************************************)
ListedAreRestricted ==
  [][last'.name # "test" /\ last'.op \in {"sealed", "frozen"} =>
       (/\ ~extensible[last.object]
        /\ \A n \in KeysListed(last.object) :
             /\ ~Flag(props[last.object][n], "configurable")
             /\ last.op = "frozen" =>
                  ~Flag(props[last.object][n], "writable"))']_vars

(***************************************************************************)
(* A [[Set]] that answers true and finds a data property is seen: reading  *)
(* the receiver gives the value, whatever the chain above it holds.        *)
(***************************************************************************)
SetIsSeen ==
  [][/\ last'.op = "set" /\ last'.answer
     /\ IsDataDescriptor(OwnDesc(last'.object, last'.name))
     => (Read(last.receiver, last.name) = last.value)']_vars

=============================================================================
