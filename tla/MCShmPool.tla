------------------------------ MODULE MCShmPool ------------------------------
(***************************************************************************)
(* Small instances of ShmPool: who calls what, with which arrays.          *)
(***************************************************************************)
EXTENDS PoolStore, TLC
CONSTANTS p1, p2, p3, x, y

TwoProcs == {p1, p2}
ThreeProcs == {p1, p2, p3}

(* Two arrays that fit each other.                                         *)
Ints(d) == [typeID |-> 2, number |-> <<3, 2>>, data |-> d]
OneArray == {Ints("one")}
TwoArrays == {Ints("one"), Ints("two")}

Write(id, a) == [NoCall EXCEPT !.op = "write", !.id = id, !.arr = a]
Publish(id, a) == [Write(id, a) EXCEPT !.publish = TRUE]
Read(id) == [NoCall EXCEPT !.op = "read", !.id = id]
Subscription(id, how) == [Read(id) EXCEPT !.subscribe = how]
Free(id) == [NoCall EXCEPT !.op = "free", !.id = id]
Info == [NoCall EXCEPT !.op = "info"]
Cleanup == [NoCall EXCEPT !.op = "cleanup"]

(* Identifiers of segments and names are interchangeable, and so are the   *)
(* processes wherever all of them make the same calls.                     *)
SameSegments == Permutations(ShmId)
Symmetric == Permutations(Proc) \cup Permutations(ShmId) \cup Permutations(Id)

(* Everybody writes, reads, frees and lists.                               *)
Everything == {Write(id, a) : id \in Id, a \in Array}
              \cup {Read(id) : id \in Id} \cup {Free(id) : id \in Id} \cup {Info}
AllCallEverything == [p \in Proc |-> Everything]

(* One publishes a name, the other subscribes to it without giving up;     *)
(* both do everything else as well, and clean up.                          *)
WithCleanup ==
  [p \in Proc |-> IF p = p1
                  THEN Everything \cup {Cleanup} \cup {Publish(x, a) : a \in Array}
                  ELSE Everything \cup {Cleanup, Subscription(x, "forever")}]

(* A publisher who also frees; nobody else writes, the others subscribe    *)
(* without giving up.                                                      *)
OnlyPublisherWrites ==
  [p \in Proc |-> IF p = p1
                  THEN {Publish(x, a) : a \in Array} \cup {Free(x)}
                  ELSE {Subscription(x, "forever")}]

(* The same, but the subscribers may give up.                              *)
TimedSubscribers ==
  [p \in Proc |-> IF p = p1
                  THEN {Publish(x, a) : a \in Array} \cup {Free(x)}
                  ELSE {Subscription(x, "timed")}]

(* One process writes one name, frees it, lists and cleans up while the    *)
(* others write that name and another.                                     *)
OneCleans ==
  [p \in Proc |-> IF p = p1
                  THEN {Write(x, a) : a \in Array} \cup {Free(x), Info, Cleanup}
                  ELSE {Write(id, a) : id \in Id, a \in Array}]
==============================================================================
