---------------------------- MODULE MCPoolBindings ----------------------------
(***************************************************************************)
(* A yorick process that publishes and a python one that subscribes; both  *)
(* do everything else as well.                                             *)
(***************************************************************************)
EXTENDS MCShmPool, PoolBindings
CONSTANT z

Languages == [p \in Proc |-> IF p = p1 THEN "yorick" ELSE "python"]

Vector(d) == [typeID |-> 2, number |-> <<3>>, data |-> d]
Matrix == [typeID |-> 2, number |-> <<3, 1>>, data |-> "matrix"]
Scalar == [typeID |-> 5, number |-> <<>>, data |-> "scalar"]
Complex == [typeID |-> 6, number |-> <<3>>, data |-> "complex"]

(* Either language writes its vector to x; y is yorick's, for a matrix, z  *)
(* is python's, for a scalar. Complex arrays and yorick's scalar are       *)
(* refused.                                                                *)
Sources ==
  [p \in Proc |->
     [id \in Id |-> CASE id = x -> {Vector(IF p = p1 THEN "one" ELSE "two"), Complex}
                      [] id = y -> IF p = p1 THEN {Matrix} ELSE {}
                      [] id = z -> {Scalar}]]

WrittenArrays == UNION {SlotArrays(p, id) : p \in Proc, id \in Id}

BothLanguages ==
  [p \in Proc |->
     UNION {{Write(id, a) : a \in SlotArrays(p, id)} : id \in Id}
     \cup {Read(id) : id \in Id} \cup {Free(id) : id \in Id} \cup {Info, Cleanup}
     \cup (IF p = p1 THEN {Publish(x, a) : a \in SlotArrays(p, x)}
           ELSE {Subscription(x, "forever")})]
===============================================================================
