---------------------------- MODULE Proxies_proofs ----------------------------
(***************************************************************************)
(* Proofs about the own properties and the prototypes of ordinary objects, *)
(* and about the proxies of them, for any number of objects, names,        *)
(* descriptors and proxies and whatever the traps do: the guarantees of    *)
(* ordinary objects are not lost behind a proxy, and what a proxy has said *)
(* of a fixed target is true from then on.                                 *)
(***************************************************************************)
EXTENDS Proxies, TLAPS

-----------------------------------------------------------------------------
(***************************************************************************)
(* The prototype chain, as a function of the links alone, so that the      *)
(* chains before and after a step can be compared.                         *)
(***************************************************************************)
Links == [Objects -> Objects \cup {NULL}]

ClosedUnder(up, S) == \A x \in S : up[x] # NULL => up[x] \in S

ChainBy(up, o) ==
  {y \in Objects :
     y = o \/ \A S \in SUBSET (Objects \ {o, y}) : ~ClosedUnder(up, S \cup {o})}

Acyclic(up) == \A o \in Objects : up[o] # NULL => o \notin ChainBy(up, up[o])

LEMMA ChainOfProto ==
  /\ PrototypesAcyclic <=> Acyclic(proto)
  /\ \A o : Chain(o) = ChainBy(proto, o)
BY DEF PrototypesAcyclic, Acyclic, Chain, ChainBy, Closed, ClosedUnder

LEMMA ChainHasStart ==
  ASSUME NEW up, NEW o \in Objects
  PROVE  o \in ChainBy(up, o)
BY DEF ChainBy

\* A chain is inside every closed set that holds its start.
LEMMA ChainInClosed ==
  ASSUME NEW up, NEW S \in SUBSET Objects, ClosedUnder(up, S), NEW o \in S
  PROVE  ChainBy(up, o) \subseteq S
<1> SUFFICES ASSUME NEW y \in ChainBy(up, o), y \notin S PROVE FALSE
  OBVIOUS
<1>1. S \ {o} \in SUBSET (Objects \ {o, y}) /\ (S \ {o}) \cup {o} = S
  OBVIOUS
<1> QED
  BY <1>1 DEF ChainBy

\* It is what all of them have in common.
LEMMA InEveryClosed ==
  ASSUME NEW up, NEW o \in Objects, NEW y \in Objects,
         \A S \in SUBSET Objects : o \in S /\ ClosedUnder(up, S) => y \in S
  PROVE  y \in ChainBy(up, o)
<1> SUFFICES ASSUME y # o, NEW S \in SUBSET (Objects \ {o, y}), ClosedUnder(up, S \cup {o})
             PROVE  FALSE
  BY DEF ChainBy
<1>1. S \cup {o} \in SUBSET Objects /\ o \in S \cup {o} /\ y \notin S \cup {o}
  OBVIOUS
<1> QED
  BY <1>1

LEMMA ChainIsClosed ==
  ASSUME NEW up \in Links, NEW o \in Objects
  PROVE  ChainBy(up, o) \in SUBSET Objects /\ ClosedUnder(up, ChainBy(up, o))
<1>1. ChainBy(up, o) \in SUBSET Objects
  BY DEF ChainBy
<1>2. ASSUME NEW x \in ChainBy(up, o), up[x] # NULL
      PROVE  up[x] \in ChainBy(up, o)
  <2>1. x \in Objects /\ up[x] \in Objects
    BY <1>1, <1>2 DEF Links
  <2>2. ASSUME NEW S \in SUBSET Objects, o \in S, ClosedUnder(up, S)
        PROVE  up[x] \in S
    <3>1. x \in S
      BY <1>2, <2>2, ChainInClosed
    <3> QED
      BY <1>2, <2>2, <3>1 DEF ClosedUnder
  <2> QED
    BY <2>1, <2>2, InEveryClosed
<1> QED
  BY <1>1, <1>2 DEF ClosedUnder

(***************************************************************************)
(* Hanging a on p makes no cycle when a is not on the chain of p: the      *)
(* chains that change are those through a, and they continue on that of p. *)
(***************************************************************************)
LEMMA RelinkKeepsAcyclic ==
  ASSUME NEW up \in Links, Acyclic(up),
         NEW a \in Objects, NEW p \in Objects \cup {NULL},
         p # NULL => a \notin ChainBy(up, p)
  PROVE  Acyclic([up EXCEPT ![a] = p])
<1> DEFINE new == [up EXCEPT ![a] = p]
<1>1. \A x \in Objects : new[x] = IF x = a THEN p ELSE up[x]
  BY DEF Links
<1> HIDE DEF new
<1>2. SUFFICES ASSUME NEW o \in Objects, new[o] # NULL
               PROVE  o \notin ChainBy(new, new[o])
  BY DEF Acyclic, new
<1>3. SUFFICES \E S \in SUBSET Objects :
                 ClosedUnder(new, S) /\ new[o] \in S /\ o \notin S
  BY ChainInClosed
<1>4. p # NULL => /\ ChainBy(up, p) \in SUBSET Objects
                  /\ ClosedUnder(up, ChainBy(up, p))
                  /\ p \in ChainBy(up, p)
  BY ChainIsClosed, ChainHasStart
<1>5. CASE o = a
  <2>1. p # NULL /\ new[o] = p
    BY <1>1, <1>2, <1>5
  <2>2. ClosedUnder(new, ChainBy(up, p))
    BY <1>1, <1>4, <2>1 DEF ClosedUnder
  <2> QED
    BY <1>4, <1>5, <2>1, <2>2
<1>6. CASE o # a
  <2> DEFINE q == up[o]
             old == ChainBy(up, q)
  <2>1. new[o] = q /\ q \in Objects
    BY <1>1, <1>2, <1>6 DEF Links
  <2>2. old \in SUBSET Objects /\ ClosedUnder(up, old) /\ q \in old
    BY <2>1, ChainIsClosed, ChainHasStart
  <2>3. o \notin old
    BY <1>2, <2>1 DEF Acyclic
  <2>4. CASE a \notin old \/ p = NULL
    <3>1. ClosedUnder(new, old)
      BY <1>1, <2>2, <2>4 DEF ClosedUnder
    <3> QED
      BY <2>1, <2>2, <2>3, <3>1
  <2>5. CASE a \in old /\ p # NULL
    <3> DEFINE S == old \cup ChainBy(up, p)
    <3>1. S \in SUBSET Objects /\ q \in S
      BY <1>4, <2>2, <2>5
    <3>2. ClosedUnder(new, S)
      BY <1>1, <1>4, <2>2, <2>5 DEF ClosedUnder
    <3>3. o \notin ChainBy(up, p)
      <4>1. SUFFICES ASSUME o \in ChainBy(up, p) PROVE FALSE
        OBVIOUS
      <4>2. q \in ChainBy(up, p)
        BY <1>2, <1>4, <2>1, <2>5, <4>1 DEF ClosedUnder
      <4>3. old \subseteq ChainBy(up, p)
        BY <1>4, <2>5, <4>2, ChainInClosed
      <4> QED
        BY <2>5, <4>3
    <3> QED
      BY <2>1, <2>3, <3>1, <3>2, <3>3
  <2> QED
    BY <2>4, <2>5
<1> QED
  BY <1>5, <1>6

-----------------------------------------------------------------------------
(* Descriptors.                                                            *)

LEMMA MergedFields ==
  ASSUME NEW cur, NEW d
  PROVE  /\ DOMAIN Merged(cur, d) = Kept(cur, d) \cup DOMAIN d
         /\ \A f \in Kept(cur, d) \cup DOMAIN d :
              Merged(cur, d)[f] = IF Has(d, f) THEN d[f] ELSE cur[f]
         /\ Kept(cur, d) \subseteq DOMAIN cur
BY DEF Merged, Kept

\* A property is never data and accessor at once.
LEMMA MergedIsDescriptor ==
  ASSUME NEW cur, NEW d, IsDescriptor(cur), IsDescriptor(d)
  PROVE  IsDescriptor(Merged(cur, d))
<1> DEFINE m == Merged(cur, d)
<1>1. /\ DOMAIN m = Kept(cur, d) \cup DOMAIN d
      /\ \A f \in DOMAIN m : m[f] = IF Has(d, f) THEN d[f] ELSE cur[f]
      /\ Kept(cur, d) \subseteq DOMAIN cur
  BY MergedFields
<1> HIDE DEF m
<1>2. DOMAIN m \subseteq Fields
  BY <1>1 DEF IsDescriptor
<1>3. \A f \in DOMAIN m : (f \in DOMAIN d /\ m[f] = d[f])
                          \/ (f \in DOMAIN cur /\ m[f] = cur[f])
  BY <1>1 DEF Has
<1>4. ASSUME NEW f \in DOMAIN m
      PROVE  /\ f = "value"          => m[f] \in Vals \cup {Undefined}
             /\ f \in AccessorFields => m[f] \in Funs \cup {Undefined}
             /\ f \in Flags          => m[f] \in BOOLEAN
  BY <1>3, <1>4 DEF IsDescriptor
<1>5. ~(IsAccessorDescriptor(m) /\ IsDataDescriptor(m))
  <2>1. CASE IsGenericDescriptor(d)
    <3>1. DOMAIN m \cap AccessorFields \subseteq DOMAIN cur
      BY <1>1, <2>1 DEF IsGenericDescriptor, IsAccessorDescriptor
    <3>2. DOMAIN m \cap DataFields \subseteq DOMAIN cur
      BY <1>1, <2>1 DEF IsGenericDescriptor, IsDataDescriptor
    <3> QED
      BY <3>1, <3>2 DEF IsDescriptor, IsAccessorDescriptor, IsDataDescriptor
  <2>2. CASE IsDataDescriptor(d)
    <3>1. DOMAIN d \cap AccessorFields = {}
      BY <2>2 DEF IsDescriptor, IsAccessorDescriptor
    <3>2. Kept(cur, d) \cap AccessorFields = {}
      BY <2>2 DEF Kept, IsGenericDescriptor, IsDescriptor,
                  IsAccessorDescriptor, IsDataDescriptor
    <3> QED
      BY <1>1, <3>1, <3>2 DEF IsAccessorDescriptor
  <2>3. CASE IsAccessorDescriptor(d)
    <3>1. DOMAIN d \cap DataFields = {}
      BY <2>3 DEF IsDescriptor, IsDataDescriptor
    <3>2. Kept(cur, d) \cap DataFields = {}
      BY <2>3, <3>1 DEF Kept, IsGenericDescriptor, IsDataDescriptor
    <3> QED
      BY <1>1, <3>1, <3>2 DEF IsDataDescriptor
  <2> QED
    BY <2>1, <2>2, <2>3 DEF IsGenericDescriptor
<1> QED
  BY <1>2, <1>4, <1>5 DEF IsDescriptor, m

LEMMA PlainIsDescriptor ==
  ASSUME NEW v \in Vals \cup {Undefined}, NEW all \in BOOLEAN
  PROVE  IsDescriptor(Plain(v, all))
BY DEF Plain, IsDescriptor, IsAccessorDescriptor, IsDataDescriptor,
       Fields, DataFields, AccessorFields, Flags

LEMMA RestrictionIsDescriptor ==
  ASSUME NEW level, NEW cur
  PROVE  /\ IsDescriptor(Restriction(level, cur))
         /\ DOMAIN Restriction(level, cur) \subseteq {"configurable", "writable"}
BY DEF Restriction, IsDescriptor, IsAccessorDescriptor, IsDataDescriptor,
       Fields, DataFields, AccessorFields, Flags

(***************************************************************************)
(* What [[DefineOwnProperty]] does not refuse leaves a property that is    *)
(* not configurable as it must be.                                         *)
(***************************************************************************)
LEMMA AcceptedKeepsFixed ==
  ASSUME NEW cur, NEW d, IsDescriptor(cur), IsDescriptor(d),
         ~Flag(cur, "configurable"), ~Rejects(cur, d)
  PROVE  Fixed(cur, Merged(cur, d))
<1> DEFINE m == Merged(cur, d)
<1>1. Kept(cur, d) = DOMAIN cur
  BY DEF Kept, Rejects
<1>2. /\ DOMAIN m = DOMAIN cur \cup DOMAIN d
      /\ \A f \in DOMAIN m : m[f] = IF Has(d, f) THEN d[f] ELSE cur[f]
  BY <1>1, MergedFields
<1> HIDE DEF m
<1>3. CASE cur = d
  <2>1. DOMAIN m = DOMAIN cur /\ \A f \in DOMAIN m : m[f] = cur[f]
    BY <1>2, <1>3 DEF Has
  <2> QED
    BY <2>1 DEF Fixed, Flag, Slot, Has, IsDataDescriptor, m
<1>4. CASE cur # d
  <2>1. \A f : Has(m, f) <=> Has(cur, f) \/ Has(d, f)
    BY <1>2 DEF Has
  <2>2. \A f : (Has(d, f) => m[f] = d[f])
             /\ (Has(cur, f) /\ ~Has(d, f) => m[f] = cur[f])
    BY <1>2 DEF Has
  <2>3. ~Flag(m, "configurable")
    BY <1>4, <2>1, <2>2 DEF Rejects, Flag
  <2>4. Flag(m, "enumerable") = Flag(cur, "enumerable")
    BY <1>4, <2>1, <2>2 DEF Rejects, Flag
  <2>5. ASSUME IsDataDescriptor(cur)
        PROVE  /\ IsDataDescriptor(m)
               /\ Flag(cur, "writable") \/ (/\ ~Flag(m, "writable")
                                           /\ Slot(m, "value") = Slot(cur, "value"))
    <3>1. IsDataDescriptor(m)
      BY <1>2, <2>5 DEF IsDataDescriptor
    <3>2. IsDataDescriptor(d) \/ IsGenericDescriptor(d)
      BY <1>4, <2>5 DEF Rejects
    <3>3. ASSUME ~Flag(cur, "writable")
          PROVE  /\ ~Flag(m, "writable")
                 /\ Slot(m, "value") = Slot(cur, "value")
      <4>1. ~Flag(d, "writable") /\ (Has(d, "value") => d["value"] = Slot(cur, "value"))
        <5>1. CASE IsDataDescriptor(d)
          BY <1>4, <2>5, <3>3, <5>1 DEF Rejects
        <5>2. CASE ~IsDataDescriptor(d)
          BY <5>2 DEF IsDataDescriptor, DataFields, Flag, Has
        <5> QED
          BY <5>1, <5>2
      <4> QED
        BY <2>1, <2>2, <3>3, <4>1 DEF Flag, Slot
    <3> QED
      BY <3>1, <3>3
  <2>6. ASSUME IsAccessorDescriptor(cur), NEW f \in AccessorFields
        PROVE  Slot(m, f) = Slot(cur, f)
    <3>1. ~IsDataDescriptor(cur)
      BY <2>6 DEF IsDescriptor
    <3>2. Has(d, f) => IsAccessorDescriptor(d)
      BY <2>6 DEF IsAccessorDescriptor, Has
    <3>3. Has(d, f) => d[f] = Slot(cur, f)
      BY <1>4, <2>6, <3>1, <3>2 DEF Rejects
    <3> QED
      BY <2>1, <2>2, <3>3 DEF Slot
  <2> QED
    BY <2>3, <2>4, <2>5, <2>6 DEF Fixed, m
<1> QED
  BY <1>3, <1>4

-----------------------------------------------------------------------------
(* The inductive invariant.                                                *)

IInv == TypeOK /\ PrototypesAcyclic

\* What a define leaves of the own properties of an object.
PropsType(ps) ==
  /\ DOMAIN ps \subseteq Names
  /\ \A n \in DOMAIN ps : IsDescriptor(ps[n])

LEMMA DefinedType ==
  ASSUME NEW o, PropsType(props[o]), NEW n \in Names, NEW d, IsDescriptor(d)
  PROVE  PropsType(Defined(o, n, d))
<1> DEFINE e == IF n \in DOMAIN props[o] THEN Merged(props[o][n], d) ELSE d
<1>1. IsDescriptor(e)
  BY MergedIsDescriptor DEF PropsType
<1> HIDE DEF e
<1>2. PropsType(Insert(props[o], n, e))
  BY <1>1 DEF PropsType, Insert
<1> QED
  BY <1>2 DEF Defined, e

LEMMA DefineOwnType ==
  ASSUME TypeOK, NEW o \in born, NEW n \in Names, NEW d, IsDescriptor(d),
         DefineOwn(o, n, d)
  PROVE  /\ DOMAIN props' = Objects
         /\ \A x \in Objects : PropsType(props'[x])
         /\ \A x \in Objects : x # o => props'[x] = props[x]
<1>1. o \in Objects /\ PropsType(props[o])
  BY DEF TypeOK, PropsType
<1>2. PropsType(Defined(o, n, d))
  BY <1>1, DefinedType
<1> QED
  BY <1>1, <1>2 DEF DefineOwn, TypeOK, PropsType

LEMMA TypeStep ==
  ASSUME TypeOK, Next
  PROVE  TypeOK'
<1> USE ObjectAssumption
<1>1. ASSUME NEW o \in Objects, NEW p \in Objects \cup {NULL}, Create(o, p)
      PROVE  TypeOK'
  BY <1>1 DEF Create, TypeOK
<1>2. ASSUME NEW o \in Objects, NEW p \in Objects \cup {NULL}, SetPrototypeOf(o, p)
      PROVE  TypeOK'
  BY <1>2 DEF SetPrototypeOf, TypeOK
<1>3. ASSUME NEW o \in Objects, NEW n \in Names, Delete(o, n)
      PROVE  TypeOK'
  <2>1. PropsType(Remove(props[o], n))
    BY <1>3 DEF Remove, PropsType, TypeOK
  <2>2. /\ props' = [props EXCEPT ![o] = Remove(props[o], n)]
        /\ o \in born
        /\ UNCHANGED <<born, proto, extensible, status>>
    BY <1>3 DEF Delete
  <2> QED
    BY <2>1, <2>2 DEF TypeOK, PropsType
<1>4. ASSUME NEW o \in Objects, NEW n \in Names, NEW d \in Descs,
             DefineProperty(o, n, d)
      PROVE  TypeOK'
  <2>1. /\ o \in born /\ DefineOwn(o, n, d)
        /\ UNCHANGED <<born, proto, extensible>>
        /\ status' \in {status, "aborted"}
    BY <1>4 DEF DefineProperty
  <2>2. /\ DOMAIN props' = Objects
        /\ \A x \in Objects : PropsType(props'[x])
        /\ \A x \in Objects : x # o => props'[x] = props[x]
    BY <2>1, DefineOwnType
  <2> QED
    BY <2>1, <2>2 DEF TypeOK, PropsType
<1>5. ASSUME NEW o \in Objects, NEW n \in Names, NEW v \in Vals,
             NEW r \in Objects, Set(o, n, v, r)
      PROVE  TypeOK'
  <2>1. /\ r \in born
        /\ DefineOwn(r, n, Assigned(r, n, v)) \/ UNCHANGED props
        /\ UNCHANGED <<born, proto, extensible, status>>
    BY <1>5 DEF Set
  <2>2. IsDescriptor(Assigned(r, n, v))
    BY PlainIsDescriptor DEF Assigned
  <2>3. /\ DOMAIN props' = Objects
        /\ \A x \in Objects : PropsType(props'[x])
        /\ \A x \in Objects : x # r => props'[x] = props[x]
    <3>1. CASE DefineOwn(r, n, Assigned(r, n, v))
      BY <2>1, <2>2, <3>1, DefineOwnType
    <3>2. CASE UNCHANGED props
      BY <3>2 DEF TypeOK, PropsType
    <3> QED
      BY <2>1, <3>1, <3>2
  <2> QED
    BY <2>1, <2>3 DEF TypeOK, PropsType
<1>6. ASSUME NEW o \in Objects, PreventExtensions(o)
      PROVE  TypeOK'
  BY <1>6 DEF PreventExtensions, TypeOK
<1>7. ASSUME NEW o \in Objects, NEW level, SetIntegrityLevel(o, level)
      PROVE  TypeOK'
  <2> DEFINE ps == [n \in DOMAIN props[o] |-> Restricted(o, n, level)]
  <2>1. PropsType(ps)
    <3>1. \A n \in DOMAIN props[o] : IsDescriptor(Restricted(o, n, level))
      BY MergedIsDescriptor, RestrictionIsDescriptor DEF Restricted, TypeOK
    <3> QED
      BY <3>1 DEF PropsType, TypeOK
  <2>2. /\ props' = [props EXCEPT ![o] = ps]
        /\ extensible' = [extensible EXCEPT ![o] = FALSE]
        /\ o \in born
        /\ UNCHANGED <<born, proto, status>>
    BY <1>7 DEF SetIntegrityLevel
  <2> HIDE DEF ps
  <2> QED
    BY <2>1, <2>2 DEF TypeOK, PropsType
<1>8. ASSUME NEW o \in Objects, NEW level, TestIntegrityLevel(o, level)
      PROVE  TypeOK'
  BY <1>8 DEF TestIntegrityLevel, TypeOK
<1>9. ASSUME NEW o \in Objects, SetIntegrityLevelOverruns(o)
      PROVE  TypeOK'
  BY <1>9 DEF SetIntegrityLevelOverruns, TypeOK
<1>10. ASSUME NEW o \in Objects, NEW p, SetPrototypeOfRefused(o, p)
       PROVE  TypeOK'
  BY <1>10 DEF SetPrototypeOfRefused, TypeOK
<1> QED
  BY <1>1, <1>2, <1>3, <1>4, <1>5, <1>6, <1>7, <1>8, <1>9, <1>10 DEF Next

LEMMA AcyclicStep ==
  ASSUME TypeOK, PrototypesAcyclic, Next
  PROVE  PrototypesAcyclic'
<1> USE ObjectAssumption
<1>1. proto \in Links /\ Acyclic(proto)
  BY ChainOfProto DEF TypeOK, Links
<1>2. SUFFICES Acyclic(proto')
  BY DEF PrototypesAcyclic, Acyclic, Chain, ChainBy, Closed, ClosedUnder
<1>3. ASSUME NEW o \in Objects, NEW p \in Objects \cup {NULL}, Create(o, p)
      PROVE  Acyclic(proto')
  <2>1. proto' = [proto EXCEPT ![o] = p] /\ o \notin born /\ p \in born \cup {NULL}
    BY <1>3 DEF Create
  <2>2. born \in SUBSET Objects /\ ClosedUnder(proto, born)
    BY DEF TypeOK, ClosedUnder
  <2>3. p # NULL => o \notin ChainBy(proto, p)
    BY <2>1, <2>2, ChainInClosed
  <2> QED
    BY <1>1, <2>1, <2>3, RelinkKeepsAcyclic
<1>4. ASSUME NEW o \in Objects, NEW p \in Objects \cup {NULL}, SetPrototypeOf(o, p)
      PROVE  Acyclic(proto')
  <2>1. proto' = [proto EXCEPT ![o] = p]
    BY <1>4 DEF SetPrototypeOf
  <2>2. p # NULL => o \notin ChainBy(proto, p)
    BY <1>4, ChainOfProto DEF SetPrototypeOf
  <2> QED
    BY <1>1, <2>1, <2>2, RelinkKeepsAcyclic
<1>5. ASSUME proto' = proto PROVE Acyclic(proto')
  BY <1>1, <1>5
<1>6. \/ \E o \in Objects, p \in Objects \cup {NULL} :
           Create(o, p) \/ SetPrototypeOf(o, p)
      \/ proto' = proto
  <2>1. \A o, n, d : DefineProperty(o, n, d) => proto' = proto
    BY DEF DefineProperty
  <2>2. \A o, n, v, r : Set(o, n, v, r) => proto' = proto
    BY DEF Set
  <2>3. \A o, n : Delete(o, n) => proto' = proto
    BY DEF Delete
  <2>4. \A o, level : SetIntegrityLevel(o, level) => proto' = proto
    BY DEF SetIntegrityLevel
  <2>5. \A o, level : TestIntegrityLevel(o, level) => proto' = proto
    BY DEF TestIntegrityLevel
  <2>6. \A o : PreventExtensions(o) \/ SetIntegrityLevelOverruns(o) => proto' = proto
    BY DEF PreventExtensions, SetIntegrityLevelOverruns
  <2>7. \A o, p : SetPrototypeOfRefused(o, p) => proto' = proto
    BY DEF SetPrototypeOfRefused
  <2> QED
    BY <2>1, <2>2, <2>3, <2>4, <2>5, <2>6, <2>7, Zenon DEF Next
<1> QED
  BY <1>3, <1>4, <1>5, <1>6

LEMMA InvariantStart == Init => IInv
<1> SUFFICES ASSUME Init PROVE IInv
  OBVIOUS
<1>1. TypeOK
  BY DEF Init, TypeOK
<1>2. PrototypesAcyclic
  BY DEF Init, PrototypesAcyclic
<1> QED
  BY <1>1, <1>2 DEF IInv

LEMMA InvariantStep == IInv /\ [Next]_vars => IInv'
<1> SUFFICES ASSUME IInv, [Next]_vars PROVE IInv'
  OBVIOUS
<1>1. CASE Next
  BY <1>1, TypeStep, AcyclicStep DEF IInv
<1>2. CASE UNCHANGED vars
  <2>1. TypeOK'
    BY <1>2 DEF IInv, TypeOK, vars
  <2>2. PrototypesAcyclic'
    BY <1>2 DEF IInv, PrototypesAcyclic, Chain, Closed, vars
  <2> QED
    BY <2>1, <2>2 DEF IInv
<1> QED
  BY <1>1, <1>2

THEOREM ObjectInvariance == Spec => []IInv
<1> QED
  BY InvariantStart, InvariantStep, PTL DEF Spec

(***************************************************************************)
(* Every state is well typed; in particular no sequence of definitions     *)
(* makes a property that is data and accessor at once.                     *)
(***************************************************************************)
THEOREM ObjectTypeCorrect == Spec => []TypeOK
<1>1. IInv => TypeOK
  BY DEF IInv
<1> QED
  BY <1>1, ObjectInvariance, PTL

(***************************************************************************)
(* No sequence of Object.create and setPrototypeOf closes a prototype      *)
(* chain on itself: the loops that climb one end.                          *)
(***************************************************************************)
THEOREM PrototypeChainsEnd == Spec => []PrototypesAcyclic
<1>1. IInv => PrototypesAcyclic
  BY DEF IInv
<1> QED
  BY <1>1, ObjectInvariance, PTL

-----------------------------------------------------------------------------
(* What a step may never do.                                               *)

NonExtensibleStep ==
  \A o \in Objects : ~extensible[o] =>
    /\ DOMAIN props'[o] \subseteq DOMAIN props[o]
    /\ proto'[o] = proto[o] \/ status' = "overtaken"
    /\ ~extensible'[o]

NonConfigurableStep ==
  \A o \in Objects : \A n \in DOMAIN props[o] :
    ~Flag(props[o][n], "configurable") =>
      n \in DOMAIN props'[o] /\ Fixed(props[o][n], props'[o][n])

\* What a define does to an object, taken or refused.
LEMMA DefineOwnKeeps ==
  ASSUME TypeOK, NEW o \in born, NEW n \in Names, NEW d, IsDescriptor(d),
         DefineOwn(o, n, d)
  PROVE  /\ \A x \in Objects : ~extensible[x] =>
                                 DOMAIN props'[x] \subseteq DOMAIN props[x]
         /\ NonConfigurableStep
<1>1. \A x \in Objects : \A m \in DOMAIN props[x] : IsDescriptor(props[x][m])
  BY DEF TypeOK
<1>2. \A x, m : ~Flag(props[x][m], "configurable") =>
                  Fixed(props[x][m], props[x][m])
  BY DEF Fixed
<1>3. CASE ~CanDefine(o, n, d)
  BY <1>2, <1>3 DEF DefineOwn, NonConfigurableStep
<1>4. CASE CanDefine(o, n, d)
  <2>1. /\ props' = [props EXCEPT ![o] = Defined(o, n, d)]
        /\ o \in Objects /\ DOMAIN props = Objects
    BY <1>4 DEF DefineOwn, TypeOK
  <2>2. \A x \in Objects : props'[x] = IF x = o THEN Defined(o, n, d) ELSE props[x]
    BY <2>1
  <2>3. CASE n \in DOMAIN props[o]
    <3>1. /\ DOMAIN Defined(o, n, d) = DOMAIN props[o]
          /\ \A m \in DOMAIN props[o] : Defined(o, n, d)[m] =
               IF m = n THEN Merged(props[o][n], d) ELSE props[o][m]
      BY <2>3 DEF Defined, Insert
    <3>2. ~Flag(props[o][n], "configurable") =>
            Fixed(props[o][n], Merged(props[o][n], d))
      BY <1>1, <1>4, <2>1, <2>3, AcceptedKeepsFixed DEF CanDefine
    <3> QED
      BY <1>2, <2>2, <3>1, <3>2 DEF NonConfigurableStep
  <2>4. CASE n \notin DOMAIN props[o]
    <3>1. /\ DOMAIN Defined(o, n, d) = DOMAIN props[o] \cup {n}
          /\ \A m \in DOMAIN props[o] : Defined(o, n, d)[m] = props[o][m]
      BY <2>4 DEF Defined, Insert
    <3>2. extensible[o]
      BY <1>4, <2>4 DEF CanDefine
    <3> QED
      BY <1>2, <2>2, <3>1, <3>2 DEF NonConfigurableStep
  <2> QED
    BY <2>3, <2>4
<1> QED
  BY <1>3, <1>4

LEMMA FixedStep ==
  ASSUME TypeOK, [Next]_vars
  PROVE  NonExtensibleStep /\ NonConfigurableStep
<1> USE ObjectAssumption
<1>1. /\ proto \in [Objects -> born \cup {NULL}] /\ DOMAIN props = Objects
      /\ extensible \in [Objects -> BOOLEAN]
      /\ \A o \in Objects : \A n \in DOMAIN props[o] : IsDescriptor(props[o][n])
  BY DEF TypeOK
<1>2. \A o, n : ~Flag(props[o][n], "configurable") =>
                  Fixed(props[o][n], props[o][n])
  BY DEF Fixed
<1>3. CASE UNCHANGED <<props, proto, extensible>>
  BY <1>2, <1>3 DEF NonExtensibleStep, NonConfigurableStep
<1>4. ASSUME NEW o \in Objects, NEW p \in Objects \cup {NULL}, Create(o, p)
      PROVE  NonExtensibleStep /\ NonConfigurableStep
  <2>1. /\ proto' = [proto EXCEPT ![o] = p] /\ extensible[o]
        /\ UNCHANGED <<props, extensible>>
    BY <1>4 DEF Create, TypeOK
  <2> QED
    BY <1>1, <1>2, <2>1 DEF NonExtensibleStep, NonConfigurableStep
<1>5. ASSUME NEW o \in Objects, NEW p \in Objects \cup {NULL}, SetPrototypeOf(o, p)
      PROVE  NonExtensibleStep /\ NonConfigurableStep
  <2>1. /\ proto' = [proto EXCEPT ![o] = p] /\ extensible[o]
        /\ UNCHANGED <<props, extensible>>
    BY <1>5 DEF SetPrototypeOf
  <2> QED
    BY <1>1, <1>2, <2>1 DEF NonExtensibleStep, NonConfigurableStep
<1>6. ASSUME NEW o \in Objects, NEW n \in Names, Delete(o, n)
      PROVE  NonExtensibleStep /\ NonConfigurableStep
  <2>1. /\ props' = [props EXCEPT ![o] = Remove(props[o], n)]
        /\ Flag(props[o][n], "configurable")
        /\ UNCHANGED <<proto, extensible>>
    BY <1>6 DEF Delete
  <2>2. /\ DOMAIN Remove(props[o], n) = DOMAIN props[o] \ {n}
        /\ \A m \in DOMAIN props[o] \ {n} : Remove(props[o], n)[m] = props[o][m]
    BY DEF Remove
  <2>3. \A x \in Objects : props'[x] = IF x = o THEN Remove(props[o], n)
                                                ELSE props[x]
    BY <1>1, <2>1
  <2>4. NonExtensibleStep
    BY <2>1, <2>2, <2>3 DEF NonExtensibleStep
  <2>5. NonConfigurableStep
    BY <1>2, <2>1, <2>2, <2>3 DEF NonConfigurableStep
  <2> QED
    BY <2>4, <2>5
<1>7. ASSUME NEW o \in Objects, NEW n \in Names, NEW d \in Descs,
             DefineProperty(o, n, d)
      PROVE  NonExtensibleStep /\ NonConfigurableStep
  <2>1. o \in born /\ DefineOwn(o, n, d) /\ UNCHANGED <<proto, extensible>>
    BY <1>7 DEF DefineProperty
  <2> QED
    BY <2>1, DefineOwnKeeps DEF NonExtensibleStep
<1>8. ASSUME NEW o \in Objects, NEW n \in Names, NEW v \in Vals,
             NEW r \in Objects, Set(o, n, v, r)
      PROVE  NonExtensibleStep /\ NonConfigurableStep
  <2>1. /\ r \in born /\ UNCHANGED <<proto, extensible>>
        /\ DefineOwn(r, n, Assigned(r, n, v)) \/ UNCHANGED props
    BY <1>8 DEF Set
  <2>2. IsDescriptor(Assigned(r, n, v))
    BY PlainIsDescriptor DEF Assigned
  <2>3. CASE DefineOwn(r, n, Assigned(r, n, v))
    BY <2>1, <2>2, <2>3, DefineOwnKeeps DEF NonExtensibleStep
  <2>4. CASE UNCHANGED props
    BY <1>3, <2>1, <2>4
  <2> QED
    BY <2>1, <2>3, <2>4
<1>9. ASSUME NEW o \in Objects, PreventExtensions(o)
      PROVE  NonExtensibleStep /\ NonConfigurableStep
  <2>1. /\ extensible' = [extensible EXCEPT ![o] = FALSE]
        /\ UNCHANGED <<props, proto>>
    BY <1>9 DEF PreventExtensions
  <2> QED
    BY <1>1, <1>2, <2>1 DEF NonExtensibleStep, NonConfigurableStep
<1>10. ASSUME NEW o \in Objects, NEW level, SetIntegrityLevel(o, level)
       PROVE  NonExtensibleStep /\ NonConfigurableStep
  <2> DEFINE ps == [n \in DOMAIN props[o] |-> Restricted(o, n, level)]
  <2>1. /\ props' = [props EXCEPT ![o] = ps]
        /\ extensible' = [extensible EXCEPT ![o] = FALSE]
        /\ UNCHANGED proto
    BY <1>10 DEF SetIntegrityLevel
  <2>2. \A n \in DOMAIN props[o] : ~Flag(props[o][n], "configurable") =>
          Fixed(props[o][n], Restricted(o, n, level))
    BY <1>1, <1>2, AcceptedKeepsFixed, RestrictionIsDescriptor DEF Restricted
  <2>3. DOMAIN ps = DOMAIN props[o] /\ \A n \in DOMAIN ps : ps[n] = Restricted(o, n, level)
    OBVIOUS
  <2> HIDE DEF ps
  <2>4. \A x \in Objects : props'[x] = IF x = o THEN ps ELSE props[x]
    BY <1>1, <2>1
  <2>5. NonExtensibleStep
    BY <1>1, <2>1, <2>3, <2>4 DEF NonExtensibleStep
  <2>6. NonConfigurableStep
    BY <1>2, <2>2, <2>3, <2>4 DEF NonConfigurableStep
  <2> QED
    BY <2>5, <2>6
<1> QED
  BY <1>3, <1>4, <1>5, <1>6, <1>7, <1>8, <1>9, <1>10
  DEF Next, TestIntegrityLevel, SetIntegrityLevelOverruns, SetPrototypeOfRefused,
      vars

(***************************************************************************)
(* An object that is not extensible gains no property, keeps its prototype *)
(* and stays so, whatever is called on it or on another object, as long as *)
(* no proxy is asked in the middle of a call.                              *)
(***************************************************************************)
THEOREM NonExtensibleStays == Spec => NonExtensibleIsFixed
<1>1. TypeOK /\ [Next]_vars => NonExtensibleStep
  BY FixedStep
<1>2. TypeOK /\ [Next]_vars =>
        [\A o \in Objects : ~extensible[o] =>
           /\ DOMAIN props'[o] \subseteq DOMAIN props[o]
           /\ proto'[o] = proto[o] \/ status' = "overtaken"
           /\ ~extensible'[o]]_vars
  BY <1>1 DEF NonExtensibleStep
<1> QED
  BY <1>2, ObjectTypeCorrect, PTL DEF Spec, NonExtensibleIsFixed

(***************************************************************************)
(* A property that is not configurable stays, with the attributes and the  *)
(* accessors it has and, once read-only, its value.                        *)
(***************************************************************************)
THEOREM NonConfigurableStays == Spec => NonConfigurableIsFixed
<1>1. TypeOK /\ [Next]_vars => NonConfigurableStep
  BY FixedStep
<1>2. TypeOK /\ [Next]_vars =>
        [\A o \in Objects : \A n \in DOMAIN props[o] :
           ~Flag(props[o][n], "configurable") =>
             n \in DOMAIN props'[o] /\ Fixed(props[o][n], props'[o][n])]_vars
  BY <1>1 DEF NonConfigurableStep
<1> QED
  BY <1>2, ObjectTypeCorrect, PTL DEF Spec, NonConfigurableIsFixed

-----------------------------------------------------------------------------
(***************************************************************************)
(* The strengthening PromisesHold needs.  A promise is only made of a      *)
(* target that is no longer extensible, or of an accessor that is no       *)
(* longer configurable; and these stay so, by the theorems on ordinary     *)
(* objects.                                                                *)
(***************************************************************************)
Lasting(q) ==
  /\ q.object \in Objects
  /\ \/ /\ q.kind = "prototype" /\ ~extensible[q.object]
        /\ proto[q.object] = q.about \/ status = "overtaken"
     \/ q.kind = "absent" /\ ~extensible[q.object] /\ q.about \notin DOMAIN props[q.object]
     \/ /\ q.kind = "setter"
        /\ q.about \in DOMAIN props[q.object]
        /\ ~Flag(props[q.object][q.about], "configurable")
        /\ IsAccessorDescriptor(props[q.object][q.about])
        /\ Slot(props[q.object][q.about], "set") # Undefined

\* A trap runs on behalf of a proxy that has been constructed.
Asking == asked # NoTrap => asked.proxy \in Proxies /\ targetOf[asked.proxy] # NULL

TargetsExist ==
  /\ targetOf \in [Proxies -> (Objects \ Proxies) \cup {NULL}]
  /\ \A p \in Proxies \cap born : targetOf[p] # NULL

\* The check of [[SetPrototypeOf]] holds of the links it began with.
Walking ==
  asked.op = "walk" =>
    /\ asked.object \in Objects
    /\ asked.proto \in born
    /\ asked.object \notin ChainBy(asked.links, asked.proto)

ProxyInv ==
  /\ TypeOK /\ ChainsEnd
  /\ TargetsExist /\ Asking /\ Walking
  /\ \A q \in promised : Lasting(q)

LEMMA WhileRunning ==
  ASSUME ProxyInv, Running
  PROVE  IInv
BY DEF ProxyInv, Running, ChainsEnd, IInv

-----------------------------------------------------------------------------
(***************************************************************************)
(* Without a trap a proxy does to its target what the program could do.    *)
(***************************************************************************)
LEMMA OrdinaryIsNext ==
  ASSUME Ordinary
  PROVE  /\ Next /\ Running /\ UNCHANGED pvars
         /\ born' \cap Proxies = born \cap Proxies
         /\ born \subseteq born'
<1>1. PICK o \in Objects \ Proxies :
       \/ \E p \in Objects \cup {NULL} :
            Create(o, p) \/ SetPrototypeOf(o, p) \/ SetPrototypeOfRefused(o, p)
       \/ \E n \in Names :
            \/ Delete(o, n)
            \/ \E d \in Descs : DefineProperty(o, n, d)
            \/ \E v \in Vals, r \in Objects : Set(o, n, v, r)
       \/ PreventExtensions(o)
       \/ \E level \in {"sealed", "frozen"} :
            SetIntegrityLevel(o, level) \/ TestIntegrityLevel(o, level)
       \/ SetIntegrityLevelOverruns(o)
  BY Zenon DEF Ordinary, SetOrdinary, SetPrototypeOrdinary
<1>2. Next
  BY <1>1, Zenon DEF Next
<1>3. Running /\ (born' = born \/ born' = born \cup {o})
  BY <1>1 DEF Create, SetPrototypeOf, SetPrototypeOfRefused, Delete, DefineProperty, Set,
              PreventExtensions, SetIntegrityLevel, TestIntegrityLevel, SetIntegrityLevelOverruns
<1>4. UNCHANGED pvars
  BY DEF Ordinary
<1>5. QED  BY <1>1, <1>2, <1>3, <1>4

LEMMA ForwardIsOrdinary ==
  ASSUME TargetsExist, NEW p \in Proxies, Forward(p)
  PROVE  Ordinary
<1>1. targetOf[p] \in Objects \ Proxies
  BY DEF Forward, TargetsExist
<1>2. UNCHANGED pvars
  BY DEF Forward
<1>3. \/ \E q \in Objects \cup {NULL} : SetPrototypeOrdinary(targetOf[p], q)
      \/ \E n \in Names : \/ Delete(targetOf[p], n)
                          \/ \E v \in Vals : SetOrdinary(targetOf[p], n, v, targetOf[p])
                          \/ \E d \in Descs : DefineProperty(targetOf[p], n, d)
  BY DEF Forward
<1>4. QED  BY <1>1, <1>2, <1>3, Zenon DEF Ordinary

(***************************************************************************)
(* What a step of the proxies is to the objects: one of their own steps,   *)
(* none, or the end of the process.                                        *)
(***************************************************************************)
Halts == /\ UNCHANGED <<born, props, proto, extensible, last, pvars>>
         /\ status' \in {"aborted", "undefined"}

Asks(p, q) == Ask(p, q) /\ q.proxy = p /\ p \in Proxies /\ q.op # "walk"

LEMMA ReturnStep ==
  ASSUME Return
  PROVE  \/ Halts
         \/ asked' = NoTrap /\ UNCHANGED <<vars, targetOf>>
         \/ \E r : WalkEnds(r)
<1>1. \A how \in {"aborted", "undefined"} : Stop(how) => Halts
  BY DEF Stop, Halts
<1>2. \A ps : Answer(ps) => asked' = NoTrap /\ UNCHANGED <<vars, targetOf>>
  BY DEF Answer
<1>3. \/ \E how \in {"aborted", "undefined"} : Stop(how)
      \/ \E ps : Answer(ps)
      \/ \E r : WalkEnds(r)
  BY DEF Return, TrapGetPrototypeOf, TrapSetPrototypeOf, TrapGet, TrapGetOwnProperty,
         TrapSet, TrapHas, TrapDelete, TrapDefine, WalkStops
<1>4. QED  BY <1>1, <1>2, <1>3

LEMMA ProxyStep ==
  ASSUME ProxyInv, ProxyNext
  PROVE  \/ Ordinary
         \/ \E p \in Proxies, t \in Objects : NewProxy(p, t)
         \/ \E p \in Proxies : \E q : Asks(p, q)
         \/ \E o, p \in Objects : SetPrototypeAsks(o, p)
         \/ Return
<1>1. CASE \E p \in Proxies : \E t \in Objects : NewProxy(p, t)
  BY <1>1
<1>2. CASE \E p \in Proxies : Forward(p)
  BY <1>2, ForwardIsOrdinary DEF ProxyInv
<1>3. ASSUME NEW p \in Proxies,
             \/ ReflectGetPrototypeOf(p)
             \/ \E v \in born \cup {NULL} : ReflectSetPrototypeOf(p, v)
             \/ \E n \in Names :
                  \/ ReflectGet(p, n)
                  \/ ReflectGetOwn(p, n)
                  \/ ReflectHas(p, n)
                  \/ DeleteOf(p, n)
                  \/ \E v \in Vals : ReflectSet(p, n, v)
                  \/ \E d \in Descs : DefineOf(p, n, d)
      PROVE  \E q : Asks(p, q)
  <2>1. \A q : Ask(p, q) /\ q.proxy = p /\ q.op # "walk" => Asks(p, q)
    BY DEF Asks
  <2>2. \/ Ask(p, [op |-> "getPrototypeOf", proxy |-> p])
        \/ \E v : Ask(p, [op |-> "setPrototypeOf", proxy |-> p, proto |-> v])
        \/ \E n : \/ Ask(p, [op |-> "get", proxy |-> p, name |-> n])
                 \/ Ask(p, [op |-> "getOwn", proxy |-> p, name |-> n])
                 \/ Ask(p, [op |-> "has", proxy |-> p, name |-> n])
                 \/ Ask(p, [op |-> "delete", proxy |-> p, name |-> n])
                 \/ \E v : Ask(p, [op |-> "set", proxy |-> p, name |-> n, value |-> v])
                 \/ \E d : Ask(p, [op |-> "define", proxy |-> p, name |-> n, desc |-> d])
    BY <1>3, Zenon DEF ReflectGetPrototypeOf, ReflectSetPrototypeOf, ReflectGet, ReflectGetOwn,
              ReflectHas, DeleteOf, ReflectSet, DefineOf
  <2> QED
    BY <2>1, <2>2
<1>4. CASE Ordinary \/ Return \/ \E o, p \in Objects : SetPrototypeAsks(o, p)
  BY <1>4
<1>5. QED  BY <1>1, <1>2, <1>3, <1>4, Zenon DEF ProxyNext

-----------------------------------------------------------------------------
(***************************************************************************)
(* The chain of an object that exists is made of objects that exist.       *)
(***************************************************************************)
LEMMA ChainIsBorn ==
  ASSUME TypeOK, NEW r \in born
  PROVE  Chain(r) \subseteq born
<1>1. born \in SUBSET Objects /\ ClosedUnder(proto, born)
  BY DEF TypeOK, ClosedUnder
<1>2. ChainBy(proto, r) \subseteq born
  BY <1>1, ChainInClosed
<1>3. QED  BY <1>2, ChainOfProto

(***************************************************************************)
(* The walk of a [[SetPrototypeOf]] that asks a proxy: it begins with a    *)
(* check of the links as they are, and it ends with a store that is        *)
(* covered by the check unless it was overtaken.                           *)
(***************************************************************************)
LEMMA WalkBegins ==
  ASSUME ProxyInv, NEW o \in Objects, NEW p \in Objects, SetPrototypeAsks(o, p)
  PROVE  /\ UNCHANGED <<vars, targetOf, promised>>
         /\ Asking' /\ Walking'
<1>1. PICK q \in Proxies \cap Chain(p) :
        Ask(q, Walk(q, o, p, proto))
  BY DEF SetPrototypeAsks
<1>2. /\ p \in born /\ o \notin ChainBy(proto, p)
      /\ targetOf[q] # NULL /\ UNCHANGED <<vars, targetOf, promised>>
  BY <1>1, ChainOfProto DEF SetPrototypeAsks, Ask
<1>3. /\ asked'.proxy = q /\ asked'.object = o /\ asked'.proto = p
      /\ asked'.links = proto
  BY <1>1 DEF Ask, Walk
<1>4. QED  BY <1>2, <1>3 DEF Asking, Walking, vars

LEMMA WalkIsStored ==
  ASSUME ProxyInv, Running, asked.op = "walk", UNCHANGED <<born, props, extensible>>,
         proto' = [proto EXCEPT ![asked.object] = asked.proto],
         status' = IF Overtaken THEN "overtaken" ELSE status
  PROVE  TypeOK' /\ ChainsEnd' /\ NonExtensibleStep /\ NonConfigurableStep
<1>1. PICK o \in Objects, p \in born :
             o = asked.object /\ p = asked.proto /\ o \notin ChainBy(asked.links, p)
  BY DEF ProxyInv, Walking
<1>2. TypeOK /\ PrototypesAcyclic
  BY WhileRunning DEF IInv
<1>3. proto' = [proto EXCEPT ![o] = p]
  BY <1>1
<1>4. TypeOK'
  <2>1. proto' \in [Objects -> born' \cup {NULL}]
    BY <1>1, <1>2, <1>3 DEF TypeOK
  <2>2. status' \in {"running", "aborted", "undefined", "overtaken"}
    BY <1>2 DEF TypeOK
  <2>3. QED  BY <1>2, <2>1, <2>2 DEF TypeOK
<1>5. ChainsEnd'
  <2>1. SUFFICES ASSUME ~Overtaken  PROVE PrototypesAcyclic'
    BY DEF ChainsEnd
  <2>2. proto \in Links /\ Acyclic(proto) /\ p \in Objects
    BY <1>1, <1>2, ChainOfProto DEF TypeOK, Links
  <2>3. o \notin ChainBy(proto, p)
    BY <1>1, <2>1 DEF Overtaken
  <2>4. Acyclic(proto')
    <3>1. Acyclic([proto EXCEPT ![o] = p])
      BY <1>1, <2>2, <2>3, RelinkKeepsAcyclic, Zenon
    <3>2. QED  BY <1>3, <3>1, Zenon
  <2>5. PrototypesAcyclic' <=> Acyclic(proto')
    BY DEF PrototypesAcyclic, Acyclic, Chain, ChainBy, Closed, ClosedUnder
  <2>6. QED  BY <2>4, <2>5
<1>6. NonExtensibleStep
  <2>1. ~extensible[o] => status' = "overtaken"
    BY <1>1 DEF Overtaken
  <2>2. \A x \in Objects : x # o => proto'[x] = proto[x]
    BY <1>2, <1>3 DEF TypeOK
  <2>3. QED  BY <2>1, <2>2 DEF NonExtensibleStep
<1>7. NonConfigurableStep
  BY DEF NonConfigurableStep, Fixed
<1>8. QED  BY <1>4, <1>5, <1>6, <1>7

-----------------------------------------------------------------------------
(***************************************************************************)
(* Every step leaves the objects with their invariant, and does to them    *)
(* nothing a fixed object or property forbids.                             *)
(***************************************************************************)
ObjectsKept ==
  /\ TypeOK' /\ ChainsEnd' /\ born \subseteq born'
  /\ NonExtensibleStep /\ NonConfigurableStep
  /\ status = "overtaken" => status' = "overtaken"

LEMMA ObjectsAreKept ==
  ASSUME ProxyInv, [ProxyNext]_allVars
  PROVE  ObjectsKept
<1>1. CASE Ordinary
  <2>1. Next /\ Running /\ born \subseteq born'
    BY <1>1, OrdinaryIsNext
  <2>2. IInv' /\ NonExtensibleStep /\ NonConfigurableStep
    BY <2>1, WhileRunning, InvariantStep, FixedStep DEF IInv
  <2>3. QED  BY <2>1, <2>2 DEF IInv, ChainsEnd, Running, ObjectsKept
<1>2. CASE /\ UNCHANGED <<props, proto, extensible>>
           /\ born' = born \/ \E p \in Proxies : born' = born \cup {p}
           /\ status' = status \/ (Running /\ status' \in {"aborted", "undefined"})
  <2>1. TypeOK'
    BY <1>2, ProxyAssumption DEF ProxyInv, TypeOK
  <2>2. ChainsEnd'
    BY <1>2 DEF ProxyInv, ChainsEnd, Running, PrototypesAcyclic, Chain, Closed
  <2>3. NonExtensibleStep /\ NonConfigurableStep
    BY <1>2 DEF NonExtensibleStep, NonConfigurableStep, Fixed
  <2>4. QED  BY <1>2, <2>1, <2>2, <2>3 DEF Running, ObjectsKept
<1>3. CASE UNCHANGED allVars
  BY <1>2, <1>3 DEF allVars, vars
<1>4. CASE \E p \in Proxies, t \in Objects : NewProxy(p, t)
  BY <1>2, <1>4 DEF NewProxy
<1>5. CASE \E p \in Proxies : \E q : Asks(p, q)
  BY <1>2, <1>5 DEF Asks, Ask, vars
<1>6. CASE \E o, p \in Objects : SetPrototypeAsks(o, p)
  BY <1>2, <1>6, WalkBegins DEF vars
<1>7. CASE Return
  <2>1. Running
    BY <1>7 DEF Return
  <2>2. CASE Halts
    BY <1>2, <2>1, <2>2 DEF Halts
  <2>3. CASE UNCHANGED <<vars, targetOf>>
    BY <1>2, <2>3 DEF vars
  <2>4. ASSUME NEW r, WalkEnds(r), UNCHANGED vars  PROVE ObjectsKept
    BY <1>2, <2>4 DEF vars
  <2>5. ASSUME NEW r, WalkEnds(r), ~UNCHANGED vars  PROVE ObjectsKept
    <3>1. /\ asked.op = "walk" /\ UNCHANGED <<born, props, extensible>>
          /\ proto' = [proto EXCEPT ![asked.object] = asked.proto]
          /\ status' = IF Overtaken THEN "overtaken" ELSE status
      BY <2>5 DEF WalkEnds
    <3>2. QED  BY <2>1, <3>1, WalkIsStored DEF Running, ObjectsKept
  <2>6. QED  BY <1>7, <2>2, <2>3, <2>4, <2>5, ReturnStep
<1>8. QED  BY <1>1, <1>3, <1>4, <1>5, <1>6, <1>7, ProxyStep

(***************************************************************************)
(* A promise outlives every step that makes no other one.                  *)
(***************************************************************************)
LEMMA PromiseStays ==
  ASSUME ObjectsKept, NEW q, Lasting(q)
  PROVE  Lasting(q)'
<1> USE DEF ObjectsKept
<1>1. q.object \in Objects
  BY DEF Lasting
<1>2. CASE /\ q.kind = "prototype" /\ ~extensible[q.object]
           /\ proto[q.object] = q.about \/ status = "overtaken"
  BY <1>1, <1>2 DEF NonExtensibleStep, Lasting
<1>3. CASE q.kind = "absent" /\ ~extensible[q.object] /\ q.about \notin DOMAIN props[q.object]
  <2>1. DOMAIN props'[q.object] \subseteq DOMAIN props[q.object] /\ ~extensible'[q.object]
    BY <1>1, <1>3 DEF NonExtensibleStep
  <2>2. QED  BY <1>1, <1>3, <2>1 DEF Lasting
<1>4. CASE /\ q.kind = "setter"
           /\ q.about \in DOMAIN props[q.object]
           /\ ~Flag(props[q.object][q.about], "configurable")
           /\ IsAccessorDescriptor(props[q.object][q.about])
           /\ Slot(props[q.object][q.about], "set") # Undefined
  <2> DEFINE old == props[q.object][q.about]
             new == props'[q.object][q.about]
  <2>1. q.about \in DOMAIN props'[q.object] /\ Fixed(old, new)
    BY <1>1, <1>4 DEF NonConfigurableStep
  <2> HIDE DEF new
  <2>2. Slot(new, "set") = Slot(old, "set") /\ ~Flag(new, "configurable")
    BY <1>4, <2>1 DEF Fixed, AccessorFields
  <2>3. Slot(new, "set") # Undefined
    BY <1>4, <2>2
  <2>4. IsAccessorDescriptor(new)
    BY <2>3 DEF Slot, Has, IsAccessorDescriptor, AccessorFields
  <2>5. QED  BY <1>1, <1>4, <2>1, <2>2, <2>3, <2>4 DEF Lasting, new
<1>5. QED  BY <1>2, <1>3, <1>4 DEF Lasting

(***************************************************************************)
(* A trap's answer that is taken promises only what is true of the target  *)
(* as it is now, and can no longer change.                                 *)
(***************************************************************************)
LEMMA AnswersAreTrue ==
  ASSUME ProxyInv, Return
  PROVE  \A q \in promised' : q \in promised \/ Lasting(q)
<1> DEFINE Sound(ps) == \A q \in ps : Lasting(q)
<1>1. Target \in Objects
  BY DEF Return, ProxyInv, Asking, TargetsExist, Target
<1>2. ASSUME NEW kind, NEW about
      PROVE  LET q == Promise(kind, about)
             IN  q.kind = kind /\ q.object = Target /\ q.about = about
  BY DEF Promise
<1>3. ASSUME NEW ps, Answer(ps), Sound(ps)
      PROVE  \A q \in promised' : q \in promised \/ Lasting(q)
  BY <1>3 DEF Answer
<1>4. ASSUME NEW how, Stop(how)
      PROVE  \A q \in promised' : q \in promised \/ Lasting(q)
  BY <1>4 DEF Stop, pvars
<1>5. Sound({})
  OBVIOUS
<1>6. ASSUME NEW r, TrapGetPrototypeOf(r)
      PROVE  \A q \in promised' : q \in promised \/ Lasting(q)
  <2>1. ASSUME ~extensible[Target], r = proto[Target]
        PROVE  Sound({Promise("prototype", r)})
    BY <1>1, <1>2, <2>1 DEF Lasting
  <2> HIDE DEF Sound
  <2>2. QED  BY <1>3, <1>4, <1>5, <1>6, <2>1 DEF TrapGetPrototypeOf
<1>7. ASSUME NEW r, TrapGetOwnProperty(r)
      PROVE  \A q \in promised' : q \in promised \/ Lasting(q)
  <2>1. ASSUME ~extensible[Target], ~TargetHas
        PROVE  Sound({Promise("absent", asked.name)})
    BY <1>1, <1>2, <2>1 DEF Lasting, TargetHas
  <2> HIDE DEF Sound
  <2>2. QED  BY <1>3, <1>4, <1>5, <1>7, <2>1 DEF TrapGetOwnProperty
<1>8. ASSUME NEW b \in BOOLEAN, TrapSet(b)
      PROVE  \A q \in promised' : q \in promised \/ Lasting(q)
  <2>1. ASSUME TargetHas, ~Flag(TargetDesc, "configurable"),
               IsAccessorDescriptor(TargetDesc), Slot(TargetDesc, "set") # Undefined
        PROVE  Sound({Promise("setter", asked.name)})
    BY <1>1, <1>2, <2>1 DEF Lasting, TargetHas, TargetDesc
  <2> HIDE DEF Sound
  <2>2. QED  BY <1>3, <1>4, <1>5, <1>8, <2>1 DEF TrapSet
<1> HIDE DEF Sound
<1>9. CASE (\E how : Stop(how)) \/ Answer({}) \/ \E r : WalkEnds(r)
  BY <1>3, <1>4, <1>5, <1>9 DEF WalkEnds
<1>10. QED
  BY <1>6, <1>7, <1>8, <1>9
  DEF Return, TrapGet, TrapDelete, TrapSetPrototypeOf, TrapHas, TrapDefine, WalkStops

LEMMA ProxyInitInv == ProxyInit => ProxyInv
<1> SUFFICES ASSUME ProxyInit  PROVE ProxyInv
  OBVIOUS
<1>1. TypeOK /\ ChainsEnd
  BY InvariantStart DEF ProxyInit, IInv, ChainsEnd
<1>2. Asking /\ Walking
  BY DEF ProxyInit, Asking, Walking, NoTrap
<1>3. QED  BY <1>1, <1>2 DEF ProxyInit, Init, ProxyInv, TargetsExist

\* A step that leaves the questions alone and brings no proxy into being.
LEMMA QuestionsStay ==
  ASSUME TargetsExist, Asking, Walking, UNCHANGED <<targetOf, asked>>,
         born' \cap Proxies = born \cap Proxies, born \subseteq born'
  PROVE  TargetsExist' /\ Asking' /\ Walking'
BY DEF TargetsExist, Asking, Walking

\* A step to a state in which no trap runs.
LEMMA NoQuestion ==
  ASSUME TargetsExist, asked' = NoTrap, UNCHANGED <<targetOf, born>>
  PROVE  TargetsExist' /\ Asking' /\ Walking'
BY DEF TargetsExist, Asking, Walking, NoTrap

LEMMA QuestionsStep ==
  ASSUME ProxyInv, [ProxyNext]_allVars
  PROVE  TargetsExist' /\ Asking' /\ Walking'
<1>1. TypeOK /\ TargetsExist /\ Asking /\ Walking
  BY DEF ProxyInv
<1>2. CASE Ordinary
  BY <1>1, <1>2, OrdinaryIsNext, QuestionsStay DEF pvars
<1>3. CASE UNCHANGED allVars
  BY <1>1, <1>3, QuestionsStay DEF allVars, vars, pvars
<1>4. CASE \E p \in Proxies, t \in Objects : NewProxy(p, t)
  <2>1. PICK p \in Proxies, t \in Objects : NewProxy(p, t)
    BY <1>4
  <2>2. /\ targetOf' = [targetOf EXCEPT ![p] = t] /\ t \in Objects \ Proxies /\ t # NULL
        /\ born' = born \cup {p} /\ UNCHANGED asked
    BY <2>1, ObjectAssumption DEF NewProxy
  <2>3. TargetsExist'
    BY <1>1, <2>2 DEF TargetsExist
  <2>4. Asking' /\ Walking'
    BY <1>1, <2>2 DEF TargetsExist, Asking, Walking
  <2>5. QED  BY <2>3, <2>4
<1>5. CASE \E p \in Proxies : \E q : Asks(p, q)
  <2>1. PICK p \in Proxies : \E q : Asks(p, q)
    BY <1>5
  <2>2. PICK q : Asks(p, q)
    BY <2>1
  <2>3. /\ targetOf[p] # NULL /\ asked' = q /\ q.proxy = p /\ q.op # "walk"
        /\ UNCHANGED <<targetOf, born>>
    BY <2>2 DEF Asks, Ask, vars
  <2>4. QED  BY <1>1, <2>3 DEF TargetsExist, Asking, Walking
<1>6. CASE \E o, p \in Objects : SetPrototypeAsks(o, p)
  BY <1>1, <1>6, WalkBegins DEF TargetsExist, vars
<1>7. CASE Return
  <2>1. CASE Halts
    BY <1>1, <2>1, QuestionsStay DEF Halts, pvars
  <2>2. CASE asked' = NoTrap /\ UNCHANGED <<vars, targetOf>>
    BY <1>1, <2>2, NoQuestion DEF vars
  <2>3. ASSUME NEW r, WalkEnds(r), asked' = NoTrap  PROVE TargetsExist' /\ Asking' /\ Walking'
    BY <1>1, <2>3, NoQuestion DEF WalkEnds, vars
  <2>4. ASSUME NEW r, WalkEnds(r), asked' # NoTrap  PROVE TargetsExist' /\ Asking' /\ Walking'
    <3>1. /\ asked.op = "walk" /\ r # NULL /\ UNCHANGED <<vars, targetOf>> /\ WalkGoesTo(r)
          /\ \E q \in Chain(r) \cap Proxies :
               asked' = Walk(q, asked.object, asked.proto, asked.links)
      BY <2>4 DEF WalkEnds
    <3>2. PICK q \in Chain(r) \cap Proxies :
               asked' = Walk(q, asked.object, asked.proto, asked.links)
      BY <3>1
    <3>3. r \in born
      <4>1. Target \in Objects
        BY <1>1, <1>7 DEF Return, Asking, TargetsExist, Target
      <4>2. QED  BY <1>1, <3>1, <4>1 DEF WalkGoesTo, TypeOK
    <3>4. q \in Proxies \cap born
      BY <1>1, <3>2, <3>3, ChainIsBorn
    <3>5. /\ asked'.proxy = q /\ asked'.object = asked.object /\ asked'.proto = asked.proto
          /\ asked'.links = asked.links
      BY <3>2 DEF Walk
    <3>6. targetOf[q] # NULL
      BY <1>1, <3>4 DEF TargetsExist
    <3>7. TargetsExist' /\ Asking'
      BY <1>1, <3>1, <3>4, <3>5, <3>6 DEF TargetsExist, Asking, vars
    <3>8. Walking'
      BY <1>1, <3>1, <3>5 DEF Walking, vars
    <3>9. QED  BY <3>7, <3>8
  <2>5. QED  BY <1>7, <2>1, <2>2, <2>3, <2>4, ReturnStep
<1>8. QED  BY <1>2, <1>3, <1>4, <1>5, <1>6, <1>7, ProxyStep

LEMMA ProxyInvStep ==
  ASSUME ProxyInv, [ProxyNext]_allVars
  PROVE  ProxyInv'
<1>1. ObjectsKept
  BY ObjectsAreKept
<1>2. ASSUME NEW q, Lasting(q)  PROVE Lasting(q)'
  BY <1>1, <1>2, PromiseStays
<1>3. \A q \in promised : Lasting(q)
  BY DEF ProxyInv
<1>4. \A q \in promised' : q \in promised \/ Lasting(q)
  <2>1. CASE Return
    BY <2>1, AnswersAreTrue
  <2>2. CASE ~Return
    <3>1. UNCHANGED promised
      BY <2>2, ProxyStep, OrdinaryIsNext, WalkBegins DEF NewProxy, Asks, Ask, allVars, pvars
    <3>2. QED  BY <3>1
  <2>3. QED  BY <2>1, <2>2
<1>5. \A q \in promised' : Lasting(q)'
  BY <1>2, <1>3, <1>4
<1>6. QED  BY <1>1, <1>5, QuestionsStep DEF ProxyInv, ObjectsKept

-----------------------------------------------------------------------------
THEOREM ProxyInvariance == ProxySpec => []ProxyInv
<1>1. ProxyInv /\ [ProxyNext]_allVars => ProxyInv'
  BY ProxyInvStep
<1>2. QED  BY <1>1, ProxyInitInv, PTL DEF ProxySpec

(***************************************************************************)
(* What a proxy has answered of a target that is not extensible, or of an  *)
(* accessor that is not configurable, stays true for ever, whatever traps  *)
(* and programs do after it.                                               *)
(***************************************************************************)
THEOREM PromisesAreKept == ProxySpec => []PromisesHold
<1>1. ProxyInv => PromisesHold
  BY DEF ProxyInv, Lasting, PromisesHold
<1>2. QED  BY <1>1, ProxyInvariance, PTL

(***************************************************************************)
(* A check of [[SetPrototypeOf]] that asks proxies for their prototypes is *)
(* as good as one that does not, whatever they answer, as long as no link  *)
(* changes and the object stays extensible until the store: that is all    *)
(* the code relies on.                                                     *)
(***************************************************************************)
THEOREM ProxiedChainsEnd == ProxySpec => []ChainsEnd
<1>1. ProxyInv => ChainsEnd
  BY DEF ProxyInv
<1>2. QED  BY <1>1, ProxyInvariance, PTL

(***************************************************************************)
(* No trap gets around non-extensible and non-configurable: nothing a      *)
(* program does through a proxy changes what is fixed on its target, but   *)
(* for the prototype stored behind a trap that overtook its check.         *)
(***************************************************************************)
THEOREM ProxiedObjectsStayFixed ==
  ProxySpec => NonExtensibleIsFixed /\ NonConfigurableIsFixed
<1>1. ProxyInv /\ [ProxyNext]_allVars =>
        [\A o \in Objects : ~extensible[o] =>
           /\ DOMAIN props'[o] \subseteq DOMAIN props[o]
           /\ proto'[o] = proto[o] \/ status' = "overtaken"
           /\ ~extensible'[o]]_vars
  BY ObjectsAreKept DEF ObjectsKept, NonExtensibleStep
<1>2. ProxyInv /\ [ProxyNext]_allVars =>
        [\A o \in Objects : \A n \in DOMAIN props[o] :
           ~Flag(props[o][n], "configurable") =>
             n \in DOMAIN props'[o] /\ Fixed(props[o][n], props'[o][n])]_vars
  BY ObjectsAreKept DEF ObjectsKept, NonConfigurableStep
<1>3. QED
  BY <1>1, <1>2, ProxyInvariance, PTL
  DEF ProxySpec, NonExtensibleIsFixed, NonConfigurableIsFixed

-----------------------------------------------------------------------------
(***************************************************************************)
(* What the last call said.  A look-up is a function of the properties and *)
(* of the links, so that it can be compared before and after a step.       *)
(***************************************************************************)
OwnersBy(ps, up, o, n) == {x \in ChainBy(up, o) : n \in DOMAIN ps[x]}

OwnerBy(ps, up, o, n) ==
  CHOOSE x \in OwnersBy(ps, up, o, n) : OwnersBy(ps, up, o, n) \subseteq ChainBy(up, x)

ReadBy(ps, up, o, n) ==
  IF OwnersBy(ps, up, o, n) = {} THEN Undefined
  ELSE Slot(ps[OwnerBy(ps, up, o, n)][n], "value")

OwnDescBy(ps, up, o, n) ==
  IF OwnersBy(ps, up, o, n) = {} THEN Plain(Undefined, TRUE)
  ELSE ps[OwnerBy(ps, up, o, n)][n]

LEMMA LookUps ==
  ASSUME NEW o, NEW n
  PROVE  /\ Read(o, n) = ReadBy(props, proto, o, n)
         /\ OwnDesc(o, n) = OwnDescBy(props, proto, o, n)
BY DEF Read, ReadBy, OwnDesc, OwnDescBy, Owner, OwnerBy, Owners, OwnersBy, Chain, ChainBy,
       Closed, ClosedUnder

LEMMA LookUpsAfter ==
  /\ Read(last.receiver, last.name)' = ReadBy(props', proto', last'.receiver, last'.name)
  /\ OwnDesc(last.object, last.name)' = OwnDescBy(props', proto', last'.object, last'.name)
BY DEF Read, ReadBy, OwnDesc, OwnDescBy, Owner, OwnerBy, Owners, OwnersBy, Chain, ChainBy,
       Closed, ClosedUnder

\* Without cycles no two objects are on each other's chain.
LEMMA ChainsAreOrdered ==
  ASSUME NEW up \in Links, Acyclic(up), NEW r \in Objects,
         NEW x \in ChainBy(up, r), r \in ChainBy(up, x)
  PROVE  x = r
<1> SUFFICES ASSUME x # r PROVE FALSE
  OBVIOUS
<1>1. x \in Objects
  BY ChainIsClosed
<1>2. up[x] # NULL
  <2> SUFFICES ASSUME up[x] = NULL PROVE FALSE
    OBVIOUS
  <2>1. {x} \in SUBSET Objects /\ ClosedUnder(up, {x}) /\ x \in {x}
    BY <1>1 DEF ClosedUnder
  <2>2. ChainBy(up, x) \subseteq {x}
    BY <2>1, ChainInClosed
  <2> QED
    BY <2>2
<1> DEFINE p == up[x]
           S == {x} \cup ChainBy(up, p)
<1>3. p \in Objects
  BY <1>1, <1>2 DEF Links
<1>4. ChainBy(up, p) \in SUBSET Objects /\ ClosedUnder(up, ChainBy(up, p)) /\ p \in ChainBy(up, p)
  BY <1>3, ChainIsClosed, ChainHasStart
<1>5. S \in SUBSET Objects /\ ClosedUnder(up, S) /\ x \in S
  BY <1>1, <1>4 DEF ClosedUnder
<1>6. ChainBy(up, x) \subseteq S
  <2> HIDE DEF S
  <2> QED
    BY <1>5, ChainInClosed
<1>7. r \in ChainBy(up, p)
  BY <1>6
<1>8. ChainBy(up, r) \subseteq ChainBy(up, p)
  BY <1>4, <1>7, ChainInClosed
<1> QED
  BY <1>1, <1>2, <1>8 DEF Acyclic

\* A property of its own is what an object reads.
LEMMA OwnIsRead ==
  ASSUME NEW up \in Links, Acyclic(up), NEW ps, NEW r \in Objects, NEW n, n \in DOMAIN ps[r]
  PROVE  ReadBy(ps, up, r, n) = Slot(ps[r][n], "value")
<1> DEFINE Os == OwnersBy(ps, up, r, n)
<1>1. r \in Os /\ Os \subseteq ChainBy(up, r)
  BY ChainHasStart DEF OwnersBy
<1>2. \A x \in Os : Os \subseteq ChainBy(up, x) => x = r
  BY <1>1, ChainsAreOrdered
<1>3. OwnerBy(ps, up, r, n) = r
  <2> HIDE DEF Os
  <2>1. (CHOOSE x \in Os : Os \subseteq ChainBy(up, x)) = r
    BY <1>1, <1>2
  <2> QED
    BY <2>1 DEF OwnerBy, Os
<1> QED
  BY <1>1, <1>3 DEF ReadBy

-----------------------------------------------------------------------------
Seen(l, ps, up) ==
  l.op = "set" /\ l.answer /\ IsDataDescriptor(OwnDescBy(ps, up, l.object, l.name)) =>
    ReadBy(ps, up, l.receiver, l.name) = l.value

IsRestricted(o, frozen) ==
  /\ ~extensible[o]
  /\ \A n \in KeysListed(o) : /\ ~Flag(props[o][n], "configurable")
                              /\ frozen => ~Flag(props[o][n], "writable")

Listed ==
  last.name # "test" /\ last.op \in {"sealed", "frozen"} =>
    IsRestricted(last.object, last.op = "frozen")

\* What is left of the answer of the last call when calls that are refused come
\* after it.
LastInv == Seen(last, props, proto) /\ Listed

SeenStep ==
  /\ last'.op = "set" /\ last'.answer
  /\ IsDataDescriptor(OwnDesc(last'.object, last'.name))
  => (Read(last.receiver, last.name) = last.value)'

ListedStep ==
  last'.name # "test" /\ last'.op \in {"sealed", "frozen"} =>
       (/\ ~extensible[last.object]
        /\ \A n \in KeysListed(last.object) :
             /\ ~Flag(props[last.object][n], "configurable")
             /\ last.op = "frozen" =>
                  ~Flag(props[last.object][n], "writable"))'

LEMMA ListedIsStep == Listed' => ListedStep
BY DEF Listed, ListedStep, IsRestricted

\* A step that leaves the objects and the answer alone.
LEMMA NothingSaid ==
  ASSUME LastInv, UNCHANGED <<props, proto, extensible, last>>
  PROVE  LastInv' /\ SeenStep /\ ListedStep
<1>1. Seen(last', props', proto')
  BY DEF LastInv
<1>2. Listed'
  BY DEF LastInv, Listed, IsRestricted, KeysListed, Kind
<1>3. SeenStep
  <2>1. OwnDesc(last'.object, last'.name) = OwnDescBy(props', proto', last'.object, last'.name)
    <3>1. OwnDesc(last.object, last.name) = OwnDescBy(props, proto, last.object, last.name)
      BY LookUps
    <3> QED
      BY <3>1
  <2>2. Read(last.receiver, last.name)' = ReadBy(props', proto', last'.receiver, last'.name)
    BY LookUpsAfter
  <2>3. (Read(last.receiver, last.name) = last.value)' <=> Read(last.receiver, last.name)' = last'.value
    OBVIOUS
  <2> QED
    BY <1>1, <2>1, <2>2, <2>3 DEF Seen, SeenStep
<1> QED
  BY <1>1, <1>2, <1>3, ListedIsStep DEF LastInv

\* A step that records neither a set nor a restriction.
LEMMA OtherCall ==
  ASSUME last'.op # "set", last'.op \notin {"sealed", "frozen"} \/ last'.name = "test"
  PROVE  LastInv' /\ SeenStep /\ ListedStep
<1>1. Seen(last', props', proto') /\ Listed'
  BY DEF Seen, Listed
<1> QED
  BY <1>1, ListedIsStep DEF LastInv, SeenStep

\* What a define leaves of a name it is given a value for.
LEMMA StoredValue ==
  ASSUME NEW ps, NEW n, NEW d, NEW v, Has(d, "value"), d["value"] = v
  PROVE  LET e == IF n \in DOMAIN ps THEN Merged(ps[n], d) ELSE d
             to == Insert(ps, n, e)
         IN  n \in DOMAIN to /\ Slot(to[n], "value") = v
<1> DEFINE e == IF n \in DOMAIN ps THEN Merged(ps[n], d) ELSE d
<1>1. Slot(e, "value") = v
  <2>1. CASE n \in DOMAIN ps
    <3>1. /\ DOMAIN Merged(ps[n], d) = Kept(ps[n], d) \cup DOMAIN d
          /\ \A f \in Kept(ps[n], d) \cup DOMAIN d :
               Merged(ps[n], d)[f] = IF Has(d, f) THEN d[f] ELSE ps[n][f]
      BY MergedFields
    <3> QED
      BY <2>1, <3>1 DEF Slot, Has
  <2>2. CASE n \notin DOMAIN ps
    BY <2>2 DEF Slot, Has
  <2> QED
    BY <2>1, <2>2
<1> HIDE DEF e
<1>2. n \in DOMAIN Insert(ps, n, e) /\ Insert(ps, n, e)[n] = e
  BY DEF Insert
<1> QED
  BY <1>1, <1>2 DEF e

LEMMA SetSaid ==
  ASSUME IInv, NEW o \in Objects, NEW n \in Names, NEW v \in Vals, NEW r \in Objects,
         Set(o, n, v, r)
  PROVE  LastInv' /\ SeenStep /\ ListedStep
<1> DEFINE own == OwnDesc(o, n)
           store == IsDataDescriptor(own) /\ Flag(own, "writable")
           d == Assigned(r, n, v)
           a == IF IsDataDescriptor(own) THEN store /\ CanDefine(r, n, d)
                ELSE IsAccessorDescriptor(own) => Slot(own, "set") # Undefined
<1>1. /\ last' = Call3("set", o, n, r, v, a) /\ UNCHANGED proto
      /\ IF store THEN DefineOwn(r, n, d) ELSE UNCHANGED props
  BY DEF Set
<1>2. /\ last'.op = "set" /\ last'.object = o /\ last'.name = n /\ last'.receiver = r
      /\ last'.value = v /\ last'.answer = a
  <2> HIDE DEF a
  <2> QED
    BY <1>1 DEF Call3
<1>3. own = OwnDescBy(props, proto, o, n)
  BY LookUps
<1>4. proto \in Links /\ Acyclic(proto) /\ DOMAIN props = Objects
  BY ChainOfProto DEF IInv, TypeOK, Links
<1>5. ASSUME a, IsDataDescriptor(own) PROVE ReadBy(props', proto', r, n) = v
  <2>1. props' = [props EXCEPT ![r] = Defined(r, n, d)]
    BY <1>1, <1>5 DEF DefineOwn
  <2>2. props'[r] = Defined(r, n, d)
    BY <1>4, <2>1
  <2>3. Has(d, "value") /\ d["value"] = v
    BY DEF Assigned, Plain, Has
  <2> HIDE DEF d
  <2>4. n \in DOMAIN Defined(r, n, d) /\ Slot(Defined(r, n, d)[n], "value") = v
    BY <2>3, StoredValue DEF Defined
  <2>5. ReadBy(props', proto, r, n) = Slot(props'[r][n], "value")
    BY <1>4, <2>2, <2>4, OwnIsRead
  <2> QED
    BY <1>1, <2>2, <2>4, <2>5
<1>6. ASSUME ~IsDataDescriptor(own) PROVE OwnDescBy(props', proto', o, n) = own
  BY <1>1, <1>3, <1>6
<1> HIDE DEF own, a
<1>7. Seen(last', props', proto')
  BY <1>2, <1>5, <1>6 DEF Seen
<1>8. SeenStep
  <2>1. Read(last.receiver, last.name)' = ReadBy(props', proto', last'.receiver, last'.name)
    BY LookUpsAfter
  <2>2. (Read(last.receiver, last.name) = last.value)' <=> Read(last.receiver, last.name)' = last'.value
    OBVIOUS
  <2>3. OwnDesc(last'.object, last'.name) = own
    BY <1>2 DEF own
  <2> QED
    BY <1>2, <1>5, <2>1, <2>2, <2>3 DEF SeenStep
<1>9. Listed'
  BY <1>2 DEF Listed
<1> QED
  BY <1>7, <1>8, <1>9, ListedIsStep DEF LastInv

\* What a restriction leaves of a property it reaches.
LEMMA RestrictedIs ==
  ASSUME NEW cur, IsDescriptor(cur), NEW level \in {"sealed", "frozen"},
         NEW to, to = IF ~Rejects(cur, Restriction(level, cur)) THEN Merged(cur, Restriction(level, cur))
                      ELSE cur
  PROVE  ~Flag(to, "configurable") /\ (level = "frozen" => ~Flag(to, "writable"))
<1> DEFINE d == Restriction(level, cur)
<1>1. /\ "configurable" \in DOMAIN d /\ d["configurable"] = FALSE
      /\ DOMAIN d \subseteq {"configurable", "writable"}
      /\ \A f \in DOMAIN d : d[f] = FALSE
      /\ "writable" \in DOMAIN d <=> level = "frozen" /\ ~IsAccessorDescriptor(cur)
  BY DEF Restriction
<1> HIDE DEF d
<1>2. \A f : ~Flag(d, f)
  BY <1>1 DEF Flag, Has
<1>3. CASE Rejects(cur, d)
  <2>1. ~Flag(cur, "configurable")
    BY <1>3 DEF Rejects
  <2>2. ~Has(d, "enumerable") /\ ~Has(d, "value") /\ ~IsAccessorDescriptor(d)
    BY <1>1 DEF Has, IsAccessorDescriptor, AccessorFields
  <2>3. IsDataDescriptor(cur) # IsDataDescriptor(d) /\ ~IsGenericDescriptor(d)
    BY <1>2, <1>3, <2>2 DEF Rejects
  <2>4. ~IsDataDescriptor(cur)
    <3>1. IsDataDescriptor(d)
      BY <2>2, <2>3 DEF IsGenericDescriptor
    <3> QED
      BY <2>3, <3>1 DEF IsDataDescriptor
  <2>5. ~Flag(cur, "writable")
    BY <2>4 DEF IsDataDescriptor, DataFields, Flag, Has
  <2> QED
    BY <1>3, <2>1, <2>5 DEF d
<1>4. CASE ~Rejects(cur, d)
  <2>1. to = Merged(cur, d)
    BY <1>4 DEF d
  <2>2. /\ DOMAIN to = Kept(cur, d) \cup DOMAIN d /\ Kept(cur, d) \subseteq DOMAIN cur
        /\ \A f \in DOMAIN to : to[f] = IF Has(d, f) THEN d[f] ELSE cur[f]
    <3>1. /\ DOMAIN Merged(cur, d) = Kept(cur, d) \cup DOMAIN d
          /\ \A f \in Kept(cur, d) \cup DOMAIN d :
               Merged(cur, d)[f] = IF Has(d, f) THEN d[f] ELSE cur[f]
          /\ Kept(cur, d) \subseteq DOMAIN cur
      BY MergedFields
    <3> QED
      BY <2>1, <3>1
  <2>3. ~Flag(to, "configurable")
    BY <1>1, <2>2 DEF Flag, Has
  <2>4. ASSUME level = "frozen" PROVE ~Flag(to, "writable")
    <3>1. CASE IsAccessorDescriptor(cur)
      <4>1. "writable" \notin DOMAIN cur
        BY <3>1 DEF IsDescriptor, IsDataDescriptor, DataFields
      <4> QED
        BY <1>1, <2>2, <3>1, <4>1 DEF Flag, Has
    <3>2. CASE ~IsAccessorDescriptor(cur)
      BY <1>1, <2>2, <2>4, <3>2 DEF Flag, Has
    <3> QED
      BY <3>1, <3>2
  <2> QED
    BY <2>3, <2>4
<1> QED
  BY <1>3, <1>4

LEMMA RestrictionSaid ==
  ASSUME IInv, NEW o \in Objects, NEW level \in {"sealed", "frozen"}, SetIntegrityLevel(o, level)
  PROVE  LastInv' /\ SeenStep /\ ListedStep
<1>1. /\ last' = Call3(level, o, NULL, NULL, NULL, TRUE)
      /\ props' = [props EXCEPT ![o] = [n \in DOMAIN @ |-> Restricted(o, n, level)]]
      /\ extensible' = [extensible EXCEPT ![o] = FALSE]
  BY DEF SetIntegrityLevel
<1>2. last'.op = level /\ last'.object = o
  BY <1>1 DEF Call3
<1>3. DOMAIN props = Objects /\ extensible \in [Objects -> BOOLEAN]
      /\ \A n \in DOMAIN props[o] : IsDescriptor(props[o][n])
  BY DEF IInv, TypeOK
<1>4. /\ ~extensible'[o] /\ DOMAIN props'[o] = DOMAIN props[o]
      /\ \A n \in DOMAIN props[o] : props'[o][n] = Restricted(o, n, level)
  BY <1>1, <1>3
<1>5. KeysListed(o)' = KeysListed(o) /\ KeysListed(o) \subseteq DOMAIN props[o]
  BY <1>4 DEF KeysListed, Kind
<1>6. ASSUME NEW n \in KeysListed(o)
      PROVE  /\ ~Flag(props'[o][n], "configurable")
             /\ level = "frozen" => ~Flag(props'[o][n], "writable")
  <2>1. n \in DOMAIN props[o] /\ IsDescriptor(props[o][n])
    BY <1>3, <1>5
  <2>2. props'[o][n] = IF ~Rejects(props[o][n], Restriction(level, props[o][n]))
                         THEN Merged(props[o][n], Restriction(level, props[o][n]))
                         ELSE props[o][n]
    BY <1>4, <2>1 DEF Restricted
  <2> QED
    BY <2>1, <2>2, RestrictedIs
<1>7. Listed'
  <2>1. KeysListed(last.object)' = KeysListed(o)'
    BY <1>2, <1>5 DEF KeysListed, Kind
  <2> QED
    BY <1>2, <1>4, <1>5, <1>6, <2>1 DEF Listed, IsRestricted
<1>8. Seen(last', props', proto') /\ SeenStep
  BY <1>2 DEF Seen, SeenStep
<1> QED
  BY <1>7, <1>8, ListedIsStep DEF LastInv

LEMMA LastStep ==
  ASSUME IInv, LastInv, [Next]_vars
  PROVE  LastInv' /\ SeenStep /\ ListedStep
<1> DEFINE Goal == LastInv' /\ SeenStep /\ ListedStep
<1> SUFFICES Goal
  OBVIOUS
<1> HIDE DEF Goal
<1>1. last' = NoCall => Goal
  <2>1. NoCall.op = "none"
    BY DEF NoCall, Call3
  <2> QED
    BY <2>1, OtherCall DEF Goal
<1>2. UNCHANGED <<props, proto, extensible, last>> => Goal
  BY NothingSaid DEF Goal
<1>3. ASSUME NEW o \in Objects, NEW p \in Objects \cup {NULL},
             Create(o, p) \/ SetPrototypeOf(o, p) \/ SetPrototypeOfRefused(o, p)
      PROVE  Goal
  BY <1>1, <1>2, <1>3 DEF Create, SetPrototypeOf, SetPrototypeOfRefused
<1>4. ASSUME NEW o \in Objects, NEW n \in Names,
             Delete(o, n) \/ \E d \in Descs : DefineProperty(o, n, d)
      PROVE  Goal
  BY <1>1, <1>4 DEF Delete, DefineProperty
<1>5. ASSUME NEW o \in Objects, NEW n \in Names, NEW v \in Vals, NEW r \in Objects,
             Set(o, n, v, r)
      PROVE  Goal
  BY <1>5, SetSaid DEF Goal
<1>6. ASSUME NEW o \in Objects, PreventExtensions(o) \/ SetIntegrityLevelOverruns(o) PROVE Goal
  BY <1>1, <1>2, <1>6 DEF PreventExtensions, SetIntegrityLevelOverruns
<1>7. ASSUME NEW o \in Objects, NEW level \in {"sealed", "frozen"}, SetIntegrityLevel(o, level)
      PROVE  Goal
  BY <1>7, RestrictionSaid DEF Goal
<1>8. ASSUME NEW o \in Objects, NEW level \in {"sealed", "frozen"}, TestIntegrityLevel(o, level)
      PROVE  Goal
  <2>1. last' = Call3(level, o, "test", NULL, NULL, ~extensible[o])
    BY <1>8 DEF TestIntegrityLevel
  <2>2. last'.op = level /\ last'.name = "test"
    BY <2>1 DEF Call3
  <2> QED
    BY <2>2, OtherCall DEF Goal
<1>9. CASE UNCHANGED vars
  BY <1>2, <1>9 DEF vars
<1>10. CASE Next
  <2>1. PICK o \in Objects :
          \/ \E p \in Objects \cup {NULL} :
               Create(o, p) \/ SetPrototypeOf(o, p) \/ SetPrototypeOfRefused(o, p)
          \/ \E n \in Names :
               \/ Delete(o, n)
               \/ \E d \in Descs : DefineProperty(o, n, d)
               \/ \E v \in Vals, r \in Objects : Set(o, n, v, r)
          \/ PreventExtensions(o)
          \/ \E level \in {"sealed", "frozen"} :
               SetIntegrityLevel(o, level) \/ TestIntegrityLevel(o, level)
          \/ SetIntegrityLevelOverruns(o)
    BY <1>10, Zenon DEF Next
  <2> QED
    BY <1>3, <1>4, <1>5, <1>6, <1>7, <1>8, <2>1, Zenon
<1> QED
  BY <1>9, <1>10

LEMMA LastInit == Init => LastInv
<1>1. NoCall.op = "none"
  BY DEF NoCall, Call3
<1> QED
  BY <1>1 DEF Init, LastInv, Seen, Listed

LEMMA ProxiedLastStep ==
  ASSUME ProxyInv, LastInv, [ProxyNext]_allVars
  PROVE  LastInv' /\ SeenStep /\ ListedStep
<1>1. CASE Ordinary
  BY <1>1, OrdinaryIsNext, WhileRunning, LastStep
<1>2. CASE UNCHANGED <<props, proto, extensible, last>>
  BY <1>2, NothingSaid
<1>3. CASE UNCHANGED allVars
  BY <1>2, <1>3 DEF allVars, vars
<1>4. CASE last' = NoCall
  <2>1. NoCall.op = "none"
    BY DEF NoCall, Call3
  <2>2. QED  BY <1>4, <2>1, OtherCall
<1>5. CASE ProxyNext
  <2>1. CASE \E p \in Proxies, t \in Objects : NewProxy(p, t)
    BY <1>2, <2>1 DEF NewProxy
  <2>2. CASE \E p \in Proxies : \E q : Asks(p, q)
    BY <1>2, <2>2 DEF Asks, Ask, vars
  <2>3. CASE \E o, p \in Objects : SetPrototypeAsks(o, p)
    BY <1>2, <2>3, WalkBegins DEF vars
  <2>4. CASE Return
    <3>1. \A r : WalkEnds(r) => UNCHANGED vars \/ last' = NoCall
      BY DEF WalkEnds
    <3>2. QED  BY <1>2, <1>4, <2>4, <3>1, ReturnStep DEF Halts, vars
  <2>5. QED  BY <1>1, <1>5, <2>1, <2>2, <2>3, <2>4, ProxyStep
<1>6. QED  BY <1>3, <1>5

LEMMA LastInvariance == ProxySpec => []LastInv
<1>1. ProxyInit => LastInv
  BY LastInit DEF ProxyInit
<1>2. ProxyInv /\ LastInv /\ [ProxyNext]_allVars => LastInv'
  BY ProxiedLastStep
<1>3. QED  BY <1>1, <1>2, ProxyInvariance, PTL DEF ProxySpec

(***************************************************************************)
(* When a [[Set]] that found a data property has answered true, what the   *)
(* receiver reads is the value, whatever its chain holds above it.         *)
(***************************************************************************)
THEOREM SetsAreSeen == ProxySpec => SetIsSeen
<1>1. ProxyInv /\ LastInv /\ [ProxyNext]_allVars =>
        [/\ last'.op = "set" /\ last'.answer
         /\ IsDataDescriptor(OwnDesc(last'.object, last'.name))
         => (Read(last.receiver, last.name) = last.value)']_vars
  BY ProxiedLastStep DEF SeenStep
<1>2. QED  BY <1>1, ProxyInvariance, LastInvariance, PTL DEF ProxySpec, SetIsSeen

(***************************************************************************)
(* Object.seal and Object.freeze restrict every name of the first kind,    *)
(* accessors included.                                                     *)
(***************************************************************************)
THEOREM ListedStayRestricted == ProxySpec => ListedAreRestricted
<1>1. ProxyInv /\ LastInv /\ [ProxyNext]_allVars =>
        [last'.name # "test" /\ last'.op \in {"sealed", "frozen"} =>
          (/\ ~extensible[last.object]
           /\ \A n \in KeysListed(last.object) :
                /\ ~Flag(props[last.object][n], "configurable")
                /\ last.op = "frozen" =>
                     ~Flag(props[last.object][n], "writable"))']_vars
  BY ProxiedLastStep DEF ListedStep
<1>2. QED  BY <1>1, ProxyInvariance, LastInvariance, PTL DEF ProxySpec, ListedAreRestricted
=============================================================================
