------------------------------ MODULE Proxies ------------------------------
(***************************************************************************)
(* Proxies (ejs-proxy.c) over ordinary objects, and the functions of       *)
(* Reflect (ejs-reflect.c) that reach them.  An operation on a proxy calls *)
(* a trap of its handler, which is JavaScript: until it returns the        *)
(* program may do to the target whatever it may do at any time.  Then what *)
(* the trap answered is compared with the target as it is now.             *)
(*                                                                         *)
(* A proxy is an object like another to whoever takes it for a prototype.  *)
(* Its own link is never read: a chain ends at it, and who goes on asks it.*)
(***************************************************************************)
EXTENDS ObjectProps

CONSTANT Proxies   \* the objects of the heap that are proxies

ASSUME ProxyAssumption == Proxies \subseteq Objects

VARIABLES
  targetOf,  \* the target of each proxy, NULL before it is constructed
  asked,     \* the operation whose trap is running
  promised   \* what the answers said of a target for good

pvars == <<targetOf, asked, promised>>
allVars == <<vars, pvars>>

NoTrap == [op |-> "none"]

ProxyInit ==
  /\ Init
  /\ targetOf = [p \in Proxies |-> NULL]
  /\ asked = NoTrap
  /\ promised = {}

\* new Proxy(target, handler), of an ordinary target.
NewProxy(p, t) ==
  /\ Running
  /\ targetOf[p] = NULL
  /\ t \in born \ Proxies
  /\ born' = born \cup {p}
  /\ targetOf' = [targetOf EXCEPT ![p] = t]
  /\ UNCHANGED <<props, proto, extensible, last, status, asked, promised>>

\* Going up from o the code comes to no proxy.
NoProxyAbove(o) == Proxies \cap Chain(o) = {}

\* A store that meets no proxy on its way, nor has one as its receiver.
SetOrdinary(o, n, v, r) ==
  /\ {o, r} \subseteq born \ Proxies
  /\ Owners(o, n) = {} => NoProxyAbove(o)
  /\ Set(o, n, v, r)

\* The walk of the check comes to no proxy.
SetPrototypeOrdinary(o, p) ==
  /\ p # NULL => NoProxyAbove(p)
  /\ SetPrototypeOf(o, p)

\* Everything the program does with ordinary objects, inside a trap or not.
Ordinary ==
  /\ \E o \in Objects \ Proxies :
       \/ \E p \in Objects \cup {NULL} :
            Create(o, p) \/ SetPrototypeOrdinary(o, p) \/ SetPrototypeOfRefused(o, p)
       \/ \E n \in Names :
            \/ Delete(o, n)
            \/ \E d \in Descs : DefineProperty(o, n, d)
            \/ \E v \in Vals, r \in Objects : SetOrdinary(o, n, v, r)
       \/ PreventExtensions(o)
       \/ \E level \in {"sealed", "frozen"} :
            SetIntegrityLevel(o, level) \/ TestIntegrityLevel(o, level)
       \/ SetIntegrityLevelOverruns(o)
  /\ UNCHANGED pvars

-----------------------------------------------------------------------------
(***************************************************************************)
(* The operations that call a trap.  One trap runs at a time: a proxy used *)
(* inside its own trap is left out.                                        *)
(***************************************************************************)
Ask(p, question) ==
  /\ Running
  /\ asked = NoTrap
  /\ targetOf[p] # NULL
  /\ asked' = question
  /\ UNCHANGED <<vars, targetOf, promised>>

\* The handler is an object of the program's and may have no such trap.
ReflectGetPrototypeOf(p) == Ask(p, [op |-> "getPrototypeOf", proxy |-> p])
ReflectSetPrototypeOf(p, v) ==
  Ask(p, [op |-> "setPrototypeOf", proxy |-> p, proto |-> v])
ReflectGet(p, n) == Ask(p, [op |-> "get", proxy |-> p, name |-> n])
ReflectGetOwn(p, n) == Ask(p, [op |-> "getOwn", proxy |-> p, name |-> n])
ReflectHas(p, n) == Ask(p, [op |-> "has", proxy |-> p, name |-> n])
ReflectSet(p, n, v) ==
  Ask(p, [op |-> "set", proxy |-> p, name |-> n, value |-> v])
DeleteOf(p, n) == Ask(p, [op |-> "delete", proxy |-> p, name |-> n])
DefineOf(p, n, d) ==
  Ask(p, [op |-> "define", proxy |-> p, name |-> n, desc |-> d])

\* [[SetPrototypeOf]] of an ordinary object looks for it on the chain above its
\* new prototype, and asks the proxy it comes to for its prototype.
Walk(q, o, p, links) ==
  [op |-> "walk", proxy |-> q, object |-> o, proto |-> p, links |-> links]

SetPrototypeAsks(o, p) ==
  /\ o \in born \ Proxies /\ p \in born
  /\ p # proto[o] /\ extensible[o]
  /\ o \notin Chain(p)
  /\ \E q \in Proxies \cap Chain(p) : Ask(q, Walk(q, o, p, proto))

\* Without a trap the operation is the target's, the proxy being the
\* receiver of a set, whose define then comes back to the target.
Forward(p) ==
  /\ targetOf[p] # NULL
  /\ LET t == targetOf[p]
     IN \/ \E q \in Objects \cup {NULL} : SetPrototypeOrdinary(t, q)
        \/ \E n \in Names :
             \/ Delete(t, n)
             \/ \E v \in Vals : SetOrdinary(t, n, v, t)
             \/ \E d \in Descs : DefineProperty(t, n, d)
  /\ UNCHANGED pvars

-----------------------------------------------------------------------------
(***************************************************************************)
(* What becomes of the trap's answer.                                      *)
(***************************************************************************)
Target == targetOf[asked.proxy]
TargetHas == asked.name \in DOMAIN props[Target]
TargetDesc == props[Target][asked.name]

\* What an answer says of a target that can no longer change in that respect.
Promise(kind, about) ==
  [kind |-> kind, object |-> Target, about |-> about]

\* The result itself goes to the program and is kept by no variable.
Answer(promises) ==
  /\ asked' = NoTrap
  /\ promised' = promised \cup promises
  /\ UNCHANGED <<vars, targetOf>>

\* A TypeError, or a part that is not implemented, ends the process.
Stop(how) ==
  /\ status' = how
  /\ UNCHANGED <<born, props, proto, extensible, last, pvars>>

\* One that does not ask the target when it is not extensible.
TrapGetPrototypeOfUnchecked(r) ==
  /\ asked.op = "getPrototypeOf"
  /\ IF r = NULL THEN Stop("aborted")
     ELSE Answer(IF extensible[Target] THEN {} ELSE {Promise("prototype", r)})

\* null is refused (step 9), so is a prototype that is not the target's own
\* when that can no longer change (step 15); a primitive is not.
TrapGetPrototypeOf(r) ==
  /\ asked.op = "getPrototypeOf"
  /\ IF r = NULL \/ (~extensible[Target] /\ r # proto[Target]) THEN Stop("aborted")
     ELSE Answer(IF extensible[Target] THEN {} ELSE {Promise("prototype", r)})

\* Step 16 refuses the prototype the target has, not the others.
TrapSetPrototypeOf(b) ==
  /\ asked.op = "setPrototypeOf"
  /\ IF ~extensible[Target] /\ b /\ asked.proto = proto[Target] THEN Stop("aborted")
     ELSE Answer({})

\* Step 12 is taken when there is no descriptor, and compares nothing.
TrapGet == asked.op = "get" /\ Answer({})

\* Step 19 and those after it are not implemented: only undefined is answered.
TrapGetOwnProperty(r) ==
  /\ asked.op = "getOwn"
  /\ IF r # Undefined \/ (TargetHas /\ (~Flag(TargetDesc, "configurable") \/ ~extensible[Target]))
     THEN Stop("aborted")
     ELSE Answer(IF extensible[Target] THEN {} ELSE {Promise("absent", asked.name)})

\* Step 14a examines the writable properties instead of the read-only ones.
TrapSet(b) ==
  /\ asked.op = "set"
  /\ LET fixed == TargetHas /\ ~Flag(TargetDesc, "configurable")
         stops == /\ b /\ fixed
                  /\ \/ /\ IsDataDescriptor(TargetDesc) /\ Flag(TargetDesc, "writable")
                        /\ asked.value # Slot(TargetDesc, "value")
                     \/ /\ IsAccessorDescriptor(TargetDesc)
                        /\ Slot(TargetDesc, "set") = Undefined
     IN IF stops THEN Stop("aborted")
        ELSE Answer(IF b /\ fixed /\ IsAccessorDescriptor(TargetDesc)
                       THEN {Promise("setter", asked.name)} ELSE {})

\* Step 11c is taken when there is no descriptor, and reads through it.
TrapHas(b) ==
  /\ asked.op = "has"
  /\ IF ~b /\ ~TargetHas THEN Stop("undefined") ELSE Answer({})

\* Step 15 is not there: true and false come back alike.
TrapDelete == asked.op = "delete" /\ Answer({})

\* Step 21 is not implemented.
TrapDefine(b) ==
  /\ asked.op = "define"
  /\ LET d == asked.desc
         stops == b /\ \/ TargetHas
                       \/ ~extensible[Target]
                       \/ Has(d, "configurable") /\ ~Flag(d, "configurable")
     IN IF stops THEN Stop("aborted") ELSE Answer({})

\* The walk goes on at what the proxy answered, or what its target has for a
\* prototype if the handler has no such trap.
WalkGoesTo(r) == r = proto[Target] \/ (r \in born /\ extensible[Target])

\* Object.setPrototypeOf makes a TypeError of a refusal, Reflect.setPrototypeOf
\* does not.  A primitive for a prototype is read as if it were an object.
WalkStops(r) ==
  /\ asked.op = "walk"
  /\ \/ (r = NULL \/ (r # proto[Target] /\ ~extensible[Target])) /\ Stop("aborted")
     \/ r = Undefined /\ extensible[Target] /\ Stop("undefined")
     \/ r # NULL /\ WalkGoesTo(r) /\ asked.object \in Chain(r)
          /\ (Stop("aborted") \/ Answer({}))

\* When the walk is at its end the link is stored, whatever became of the
\* objects since it began: `links` is what it began with.
Overtaken == proto # asked.links \/ ~extensible[asked.object]

WalkEnds(r) ==
  /\ asked.op = "walk"
  /\ WalkGoesTo(r)
  /\ r # NULL => asked.object \notin Chain(r)
  /\ IF r # NULL /\ ~NoProxyAbove(r)
     THEN /\ \E q \in Proxies \cap Chain(r) :
               asked' = Walk(q, asked.object, asked.proto, asked.links)
          /\ UNCHANGED <<vars, targetOf, promised>>
     ELSE /\ proto' = [proto EXCEPT ![asked.object] = asked.proto]
          /\ status' = IF Overtaken THEN "overtaken" ELSE status
          /\ last' = NoCall
          /\ asked' = NoTrap
          /\ UNCHANGED <<born, props, extensible, targetOf, promised>>

\* The trap returns.
Return ==
  /\ Running
  /\ asked # NoTrap
  /\ \/ \E r \in born \cup {NULL, Undefined} :
          TrapGetPrototypeOf(r) \/ WalkStops(r) \/ WalkEnds(r)
     \/ TrapGet
     \/ TrapDelete
     \/ \E r \in {Undefined} \cup born : TrapGetOwnProperty(r)
     \/ \E b \in BOOLEAN :
          \/ TrapSetPrototypeOf(b)
          \/ TrapSet(b)
          \/ TrapHas(b)
          \/ TrapDefine(b)

ProxyNext ==
  \/ Ordinary
  \/ \E o, p \in Objects : SetPrototypeAsks(o, p)
  \/ \E p \in Proxies :
       \/ \E t \in Objects : NewProxy(p, t)
       \/ Forward(p)
       \/ ReflectGetPrototypeOf(p)
       \/ \E v \in born \cup {NULL} : ReflectSetPrototypeOf(p, v)
       \/ \E n \in Names :
            \/ ReflectGet(p, n)
            \/ ReflectGetOwn(p, n)
            \/ ReflectHas(p, n)
            \/ DeleteOf(p, n)
            \/ \E v \in Vals : ReflectSet(p, n, v)
            \/ \E d \in Descs : DefineOf(p, n, d)
  \/ Return

ProxySpec == ProxyInit /\ [][ProxyNext]_allVars

-----------------------------------------------------------------------------
(***************************************************************************)
(* A proxy does not contradict itself: what an accepted answer says of a   *)
(* target that is not extensible, or of a property that is not             *)
(* configurable, is true when the trap returns, whatever the trap did to   *)
(* the target, and stays true.  It covers the prototype, the absence of a  *)
(* property and the presence of a setter; what steps 12 of [[Get]], 14a of *)
(* [[Set]], 16 of [[SetPrototypeOf]] and 15 of [[Delete]] would add is not *)
(* in the code; nor is a prototype kept when the check of a                *)
(* [[SetPrototypeOf]] was overtaken.                                       *)
(***************************************************************************)
PromisesHold ==
  \A q \in promised :
    CASE q.kind = "prototype" -> proto[q.object] = q.about \/ status = "overtaken"
      [] q.kind = "absent"    -> q.about \notin DOMAIN props[q.object]
      [] q.kind = "setter"    -> Slot(props[q.object][q.about], "set") # Undefined

(***************************************************************************)
(* No object comes to be on its own prototype chain, also when its check   *)
(* asks proxies, unless JavaScript ran inside the check (a trap, or what   *)
(* the trap's look-up calls) and changed a link or made the object not     *)
(* extensible: the code stores without looking again (ejs-object.c:1975).  *)
(***************************************************************************)
ChainsEnd == status # "overtaken" => PrototypesAcyclic

=============================================================================
