------------------------------ MODULE MCSemPool ------------------------------
(***************************************************************************)
(* A small instance of SemPool: one process owns the pool, one takes with  *)
(* every kind of wait, one gives, takes and may remove the pool as well.   *)
(***************************************************************************)
EXTENDS SemPool, TLC
CONSTANTS owner, taker, giver

Own(op) == [NoCall EXCEPT !.op = op]
TakeCall(s, n, w) == [op |-> "take", id |-> s, count |-> n, wait |-> w]
GiveCall(s, n) == [op |-> "give", id |-> s, count |-> n, wait |-> Forever]

Calls ==
  [p \in Proc |->
     CASE p = owner -> {Own("init"), Own("reset"), Own("cleanup")}
       [] p = taker -> {TakeCall(0, 1, 0), TakeCall(0, 2, 2), TakeCall(0, 2, Forever)}
       [] p = giver -> {GiveCall(0, 1), GiveCall(0, 2), TakeCall(0, 1, 1),
                      Own("cleanup")}]
==============================================================================
