------------------------------ MODULE Semaphores ------------------------------
(***************************************************************************)
(* What a pool of semaphores promises to those who take and give: a take   *)
(* answers 0 exactly when it got all it asked for, at one instant; it      *)
(* answers -1 when the time it was given is up and not enough was there,   *)
(* when the pool it was made on is gone, or when a signal interrupted it   *)
(* while it had to wait.  How the waiting is done is left open.            *)
(***************************************************************************)
EXTENDS Integers

CONSTANTS
  Proc,     \* who takes and gives
  Sem,      \* the semaphores of a pool
  Pool,     \* identities of pools, one after the other under the same key
  NoPool,   \* no pool under the key
  SEMVMX,   \* the largest value of a semaphore
  MaxCount, \* the most one call asks for
  Signals   \* may a blocked take be interrupted?

VARIABLES
  pool,     \* the pool under the key
  val,      \* its values
  want,     \* the take or give each process is in
  status    \* what its last call answered

vars == <<pool, val, want, status>>

NoWant == [op |-> "none"]
Want == [op : {"take", "give"}, pool : Pool, id : Sem, count : 1 .. MaxCount,
         bounded : BOOLEAN]

Init ==
  /\ pool = NoPool
  /\ val = [s \in Sem |-> 0]
  /\ want = [p \in Proc |-> NoWant]
  /\ status = [p \in Proc |-> 0]

Answer(p, answer) ==
  /\ want' = [want EXCEPT ![p] = NoWant]
  /\ status' = [status EXCEPT ![p] = answer]

Ask(p) ==
  /\ want[p] = NoWant /\ pool # NoPool
  /\ \E w \in Want : w.pool = pool /\ want' = [want EXCEPT ![p] = w]
  /\ UNCHANGED <<pool, val, status>>

Enough(w) == w.op = "take" /\ val[w.id] >= w.count
Room(w) == w.op = "give" /\ val[w.id] + w.count <= SEMVMX

Taken(p) ==
  LET w == want[p] IN
  /\ w # NoWant /\ w.pool = pool /\ Enough(w)
  /\ val' = [val EXCEPT ![w.id] = @ - w.count]
  /\ Answer(p, 0)
  /\ UNCHANGED pool

Given(p) ==
  LET w == want[p] IN
  /\ w # NoWant /\ w.pool = pool /\ Room(w)
  /\ val' = [val EXCEPT ![w.id] = @ + w.count]
  /\ Answer(p, 0)
  /\ UNCHANGED pool

(* A take without a limit only fails to a signal; a give only on overflow. *)
Refused(p) ==
  LET w == want[p] IN
  /\ w # NoWant
  /\ \/ w.pool # pool
     \/ w.op = "take" /\ ~Enough(w) /\ (w.bounded \/ Signals)
     \/ w.op = "give" /\ ~Room(w)
  /\ Answer(p, -1)
  /\ UNCHANGED <<pool, val>>

(* A call on a key that has no pool, or already has one, asks nothing.     *)
Idle(p) ==
  /\ want[p] = NoWant
  /\ \E answer \in {0, -1} : status' = [status EXCEPT ![p] = answer]
  /\ UNCHANGED <<pool, val, want>>

Create ==
  /\ pool = NoPool
  /\ pool' \in Pool
  /\ val' = [s \in Sem |-> 0]
  /\ UNCHANGED <<want, status>>

(* Set one semaphore to zero: creation and reset do, one by one.           *)
Zero(s) ==
  /\ pool # NoPool
  /\ val' = [val EXCEPT ![s] = 0]
  /\ UNCHANGED <<pool, want, status>>

Remove(p) ==
  /\ pool # NoPool /\ want[p] = NoWant
  /\ pool' = NoPool
  /\ val' = [s \in Sem |-> 0]
  /\ Answer(p, 0)

Next ==
  \/ Create
  \/ \E s \in Sem : Zero(s)
  \/ \E p \in Proc : Ask(p) \/ Taken(p) \/ Given(p) \/ Refused(p)
                      \/ Remove(p) \/ Idle(p)

Spec == Init /\ [][Next]_vars
===============================================================================
