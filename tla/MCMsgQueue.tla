------------------------------ MODULE MCMsgQueue ------------------------------
(***************************************************************************)
(* Small instances of MsgQueue: a yorick process that owns the queue and   *)
(* asks, one that answers, and a python process that sends.                *)
(***************************************************************************)
EXTENDS MsgQueue, TLC
CONSTANTS asker, replier, snake

Matrix == [typeID |-> 2, number |-> <<2, 1>>, data |-> "matrix"]
Vector == [typeID |-> 0, number |-> <<3>>, data |-> "vector"]
Scalar == [typeID |-> 5, number |-> <<>>, data |-> "scalar"]
Large == [typeID |-> 5, number |-> <<4>>, data |-> "large"]
Complex == [typeID |-> 6, number |-> <<1>>, data |-> "complex"]

Arrays == {Matrix, Vector, Scalar, Large, Complex}
Languages == [p \in Proc |-> IF p = snake THEN "python" ELSE "yorick"]

Own(op) == [NoCall EXCEPT !.op = op]
Snd(t, a) == [op |-> "snd", mtype |-> t, arr |-> a, nowait |-> FALSE]
Rcv(t) == [op |-> "rcv", mtype |-> t, arr |-> NoArray, nowait |-> FALSE]
NoWaitFor(c) == [c EXCEPT !.nowait = TRUE]

(* Python sends no more than one dimension; only yorick receives.          *)
Vectors ==
  [p \in Proc |->
     CASE p = asker -> {Own("init"), Own("cleanup"), Snd(1, Matrix), Snd(1, Scalar), Rcv(2)}
       [] p = replier -> {Rcv(1), Rcv(-2), NoWaitFor(Rcv(0)), Snd(2, Matrix)}
       [] p = snake -> {Snd(2, Vector), Snd(1, Scalar), Snd(1, Large), Snd(2, Complex)}]
===============================================================================
