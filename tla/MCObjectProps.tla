---------------------------- MODULE MCObjectProps ----------------------------
(* Four small instances of Proxies in one: an object whose two properties  *)
(* are of different kinds, two objects on a prototype chain, an object     *)
(* with a proxy, and objects without properties whose chains meet a proxy. *)
EXTENDS Proxies, TLC

CONSTANTS o1, o2, o3, v1, v2, fun, p1

SomeObjects == {o1, o2, o3, p1}
TwoNames   == {"a", "b"}
MixedKind  == [n \in Names |-> IF n = "a" THEN "string" ELSE "other"]

Absent == [f \in {} |-> FALSE]
Maybe(f, S) == {Absent} \cup {[g \in {f} |-> x] : x \in S}

\* At most one field: with SomeDescs, every branch of the validation.
FieldDescs ==
  Maybe("value", Vals) \cup Maybe("writable", {TRUE}) \cup Maybe("get", {fun, Undefined})
    \cup Maybe("enumerable", {TRUE}) \cup Maybe("configurable", BOOLEAN)

Complete(S) == S \cup {"enumerable", "configurable"}

\* As object literals and classes make them, and read-only.
SomeDescs ==
  {[f \in Complete({"value", "writable"}) |->
      IF f = "value" THEN v1 ELSE f # "writable"],
   [f \in Complete({"get"}) |-> IF f = "get" THEN fun ELSE TRUE],
   [f \in Complete({"set"}) |-> IF f = "set" THEN fun ELSE FALSE]}

AllDescs == FieldDescs \cup SomeDescs

\* A data property as a literal or a class makes it, or what a set, a seal or
\* a freeze leaves of one.
Full(d) == DOMAIN d = Complete(DataFields) /\ d["value"] # Undefined /\ d["enumerable"]

\* Alone, an object has any property "a"; where there is a second object or a
\* proxy it is one of SomeDescs, a sealed one among them.
Usual(o) ==
  \A n \in DOMAIN props[o] :
    LET d == props[o][n]
    IN /\ n = "a"
       /\ \/ Full(d) /\ (d["value"] = v1 \/ d["writable"])
          \/ d \in {e \in SomeDescs : IsAccessorDescriptor(e)}
          \/ DOMAIN d = {"get", "enumerable", "configurable"} /\ d["get"] = fun /\ d["enumerable"]

Bare(o) == props[o] = <<>> /\ extensible[o]

\* The walks of o1 along chains of o2 and the proxy; the third object is there
\* to be answered.
Walks ==
  /\ props[o1] = <<>> /\ Bare(o2) /\ Bare(o3) /\ proto[o3] = NULL
  /\ o1 \in born => targetOf[p1] \in {NULL, o3} /\ born = SomeObjects
  /\ last = NoCall /\ promised = {}
  /\ asked # NoTrap => asked.op = "walk" /\ asked.object = o1

Small ==
  \/ /\ born \subseteq {o1}
     /\ "b" \in DOMAIN props[o1] => Full(props[o1]["b"]) /\ props[o1]["b"]["value"] = v1
  \/ /\ born \subseteq {o1, o2} /\ Usual(o1) /\ Usual(o2)
     \* a set of the other name is like one of this, and a test changes nothing
     /\ last.name \in {NULL, "a"}
  \/ /\ Usual(o1) /\ targetOf[p1] = o1
     \* the second object is only there to be a prototype
     /\ Bare(o2) /\ proto[o2] = NULL /\ o3 \notin born
     /\ asked # NoTrap =>
          /\ last = NoCall
          /\ "name" \in DOMAIN asked => asked.name = "a"
          /\ asked.op = "define" => asked.desc \in SomeDescs
  \/ Walks

=============================================================================
