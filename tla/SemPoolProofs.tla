----------------------------- MODULE SemPoolProofs -----------------------------
(***************************************************************************)
(* Theorems about SemPool, for any number of processes, semaphores, pools  *)
(* and calls: types, and that the pool does what Semaphores promises,      *)
(* whether the kernel waits (semtimedop) or svipc_misc.c polls.            *)
(***************************************************************************)
EXTENDS SemPool, TLAPS

-----------------------------------------------------------------------------
(* The inductive invariant.                                                *)

(* Only a take waits.  The time left of a take without a limit is never    *)
(* counted down, and nobody sleeps without time left.                      *)
LocalOK(p) ==
  /\ pc[p] \in {"setval", "semop", "blocked", "usleep"} => found[p] \in Pool
  /\ pc[p] \in {"blocked", "usleep"} => call[p].op = "take"
  /\ pc[p] \in {"idle", "semget", "setval"} => ttl[p] = 0
  /\ pc[p] \in {"semop", "blocked", "usleep"} /\ call[p].op = "take" =>
       (ttl[p] = Forever <=> call[p].wait = Forever)
  /\ pc[p] = "usleep" => ttl[p] > 0

SemInv == TypeOK /\ \A p \in Proc : LocalOK(p)

(* Being in no call is a call record.                                      *)
LEMMA NoCallRecord == NoCall \in CallRecord
  BY SemAssumption DEF NoCall, CallRecord, Sem

(* The fields of a call record.                                            *)
LEMMA CallFields ==
  ASSUME TypeOK, NEW p \in Proc
  PROVE  /\ call[p] \in CallRecord
         /\ call[p].id \in Sem /\ call[p].count \in 1 .. MaxCount
         /\ call[p].wait \in {Forever} \cup 0 .. MaxWait
  BY DEF TypeOK, CallRecord

(* The invariant holds initially.                                          *)
LEMMA SemInit == Init => SemInv
  BY NoCallRecord, SemAssumption DEF Init, SemInv, TypeOK, LocalOK, Sem, Pool,
     NoPool, Forever

(* A call that answers leaves well-typed locals.                           *)
LEMMA ReturnKeeps ==
  ASSUME SemInv, NEW p \in Proc, NEW answer \in {0, -1}, Return(p, answer),
         native' = native, pool' \in {NoPool} \cup Pool, made' \in 0 .. MaxPools,
         val' \in [Sem -> 0 .. SEMVMX]
  PROVE  SemInv'
<1> USE SemAssumption DEF SemInv, Return, Goto
<1>1. TypeOK'
  <2>1. pc' \in [Proc -> {"idle", "semget", "setval", "semop", "blocked", "usleep"}]
    BY DEF TypeOK
  <2>2. call' \in [Proc -> CallRecord]
    BY NoCallRecord DEF TypeOK
  <2>3. found' \in [Proc -> {NoPool} \cup Pool] /\ next' \in [Proc -> 0 .. NumSems]
    BY DEF TypeOK
  <2>4. ttl' \in [Proc -> {Forever} \cup 0 .. MaxWait] /\ status' \in [Proc -> {0, -1}]
    BY DEF TypeOK
  <2>5. \A q \in Proc : ttl'[q] = Forever => call'[q].wait = Forever
    BY DEF TypeOK, Forever
  <2> QED BY <2>1, <2>2, <2>3, <2>4, <2>5 DEF TypeOK
<1>2. \A q \in Proc : LocalOK(q)'
  BY DEF TypeOK, LocalOK, Forever
<1> QED BY <1>1, <1>2

(* Every step preserves the invariant.                                     *)
LEMMA SemNext == SemInv /\ [Next]_vars => SemInv'
<1> SUFFICES ASSUME SemInv, [Next]_vars PROVE SemInv'
  OBVIOUS
<1> USE SemAssumption DEF SemInv
<1>1. ASSUME NEW p \in Proc, Begin(p) PROVE SemInv'
  <2>1. TypeOK'
    BY <1>1, CallFields DEF Begin, Goto, TypeOK, LocalOK, Pool, NoPool, Forever
  <2>2. \A q \in Proc : LocalOK(q)'
    BY <1>1, CallFields DEF Begin, Goto, TypeOK, LocalOK, Pool, NoPool, Forever
  <2> QED BY <2>1, <2>2
<1>2. ASSUME NEW p \in Proc, CreatePool(p) PROVE SemInv'
  <2>1. TypeOK'
    BY <1>2, CallFields DEF CreatePool, Goto, TypeOK, LocalOK, Pool, NoPool,
       Forever
  <2>2. \A q \in Proc : LocalOK(q)'
    BY <1>2, CallFields DEF CreatePool, Goto, TypeOK, LocalOK, Pool, NoPool,
       Forever
  <2> QED BY <2>1, <2>2
<1>3. ASSUME NEW p \in Proc, PoolExists(p) PROVE SemInv'
  BY <1>3, ReturnKeeps DEF PoolExists, TypeOK
<1>4. ASSUME NEW p \in Proc, SetVal(p) PROVE SemInv'
  <2>1. TypeOK'
    <3>1. next[p] \in Sem /\ next[p] + 1 \in 0 .. NumSems
      BY <1>4 DEF SetVal, TypeOK, Sem
    <3> QED BY <1>4, <3>1 DEF SetVal, TypeOK
  <2>2. \A q \in Proc : LocalOK(q)'
    BY <1>4 DEF SetVal, LocalOK
  <2> QED BY <2>1, <2>2
<1>5. ASSUME NEW p \in Proc, SetValFails(p) PROVE SemInv'
  BY <1>5, ReturnKeeps DEF SetValFails, TypeOK
<1>6. ASSUME NEW p \in Proc, SetValsDone(p) PROVE SemInv'
  BY <1>6, ReturnKeeps DEF SetValsDone, TypeOK
<1>7. ASSUME NEW p \in Proc, RemovePool(p) PROVE SemInv'
  BY <1>7, ReturnKeeps DEF RemovePool, TypeOK
<1>8. ASSUME NEW p \in Proc, FindPool(p) PROVE SemInv'
  <2>1. TypeOK'
    BY <1>8, CallFields DEF FindPool, Goto, TypeOK, LocalOK, Pool, NoPool,
       Forever
  <2>2. \A q \in Proc : LocalOK(q)'
    BY <1>8, CallFields DEF FindPool, Goto, TypeOK, LocalOK, Pool, NoPool,
       Forever
  <2> QED BY <2>1, <2>2
<1>9. ASSUME NEW p \in Proc, NoPoolFound(p) PROVE SemInv'
  BY <1>9, ReturnKeeps DEF NoPoolFound, TypeOK
<1>10. ASSUME NEW p \in Proc, PoolGone(p) PROVE SemInv'
  BY <1>10, ReturnKeeps DEF PoolGone, TypeOK
<1>11. ASSUME NEW p \in Proc, Give(p) PROVE SemInv'
  <2>1. val' \in [Sem -> 0 .. SEMVMX]
    BY <1>11, CallFields DEF Give, Enough, TypeOK
  <2> QED BY <1>11, <2>1, ReturnKeeps DEF Give, TypeOK
<1>12. ASSUME NEW p \in Proc, GiveTooMuch(p) PROVE SemInv'
  BY <1>12, ReturnKeeps DEF GiveTooMuch, TypeOK
<1>13. ASSUME NEW p \in Proc, Take(p) PROVE SemInv'
  <2>1. val' \in [Sem -> 0 .. SEMVMX]
    BY <1>13, CallFields DEF Take, Enough, TypeOK
  <2> QED BY <1>13, <2>1, ReturnKeeps DEF Take, TypeOK
<1>14. ASSUME NEW p \in Proc, Block(p) PROVE SemInv'
  <2>1. TypeOK'
    BY <1>14, CallFields DEF Block, Goto, TypeOK, LocalOK, Pool, NoPool, Forever
  <2>2. \A q \in Proc : LocalOK(q)'
    BY <1>14, CallFields DEF Block, Goto, TypeOK, LocalOK, Pool, NoPool, Forever
  <2> QED BY <2>1, <2>2
<1>15. ASSUME NEW p \in Proc, BlockFails(p) PROVE SemInv'
  BY <1>15, ReturnKeeps DEF BlockFails, TypeOK
<1>16. ASSUME NEW p \in Proc, Poll(p) PROVE SemInv'
  <2>1. TypeOK'
    BY <1>16, CallFields DEF Poll, Goto, TypeOK, LocalOK, Pool, NoPool, Forever
  <2>2. \A q \in Proc : LocalOK(q)'
    BY <1>16, CallFields DEF Poll, Goto, TypeOK, LocalOK, Pool, NoPool, Forever
  <2> QED BY <2>1, <2>2
<1>17. ASSUME NEW p \in Proc, Sleep(p) PROVE SemInv'
  <2>1. TypeOK'
    BY <1>17, CallFields DEF Sleep, Goto, TypeOK, LocalOK, Pool, NoPool, Forever
  <2>2. \A q \in Proc : LocalOK(q)'
    BY <1>17, CallFields DEF Sleep, Goto, TypeOK, LocalOK, Pool, NoPool, Forever
  <2> QED BY <2>1, <2>2
<1>18. ASSUME NEW p \in Proc, GiveUp(p) PROVE SemInv'
  BY <1>18, ReturnKeeps DEF GiveUp, TypeOK
<1>19. ASSUME UNCHANGED vars PROVE SemInv'
  BY <1>19 DEF vars, TypeOK, LocalOK
<1> QED BY <1>1, <1>2, <1>3, <1>4, <1>5, <1>6, <1>7, <1>8, <1>9, <1>10, <1>11,
   <1>12, <1>13, <1>14, <1>15, <1>16, <1>17, <1>18, <1>19 DEF Next, Step

-----------------------------------------------------------------------------
(* The refinement: every step of the code is a step of Semaphores, or one  *)
(* that its users do not see.                                              *)

(* What the other processes want is not changed by a step of p.            *)
LEMMA OthersWant ==
  ASSUME SemInv, NEW p \in Proc,
         \A q \in Proc \ {p} : /\ pc'[q] = pc[q] /\ call'[q] = call[q]
                              /\ found'[q] = found[q]
  PROVE  [q \in Proc |-> Wanted(q)]' = [[q \in Proc |-> Wanted(q)] EXCEPT ![p] = Wanted(p)']
<1>1. \A q \in Proc \ {p} : Wanted(q)' = Wanted(q)
  BY DEF Wanted, Asking
<1> QED BY <1>1

(* A call that answers wants nothing any more.                             *)
LEMMA ReturnWants ==
  ASSUME SemInv, NEW p \in Proc, NEW answer, Return(p, answer)
  PROVE  /\ [q \in Proc |-> Wanted(q)]'
              = [[q \in Proc |-> Wanted(q)] EXCEPT ![p] = Promised!NoWant]
         /\ status' = [status EXCEPT ![p] = answer]
<1>1. Wanted(p)' = Promised!NoWant
  BY DEF Return, Goto, Wanted, Asking, NoCall, SemInv, TypeOK, Promised!NoWant
<1> QED BY <1>1, OthersWant DEF Return, Goto, SemInv, TypeOK

(* So it does, if it wanted nothing before, without a change.              *)
LEMMA IdleReturn ==
  ASSUME SemInv, NEW p \in Proc, NEW answer \in {0, -1}, Return(p, answer), ~Asking(p),
         UNCHANGED <<pool, val>>
  PROVE  Promised!Idle(p)
<1> DEFINE want == [q \in Proc |-> Wanted(q)]
<1>1. want[p] = Promised!NoWant
  BY DEF Wanted, Promised!NoWant
<1>2. want' = want
  BY <1>1, ReturnWants
<1> QED BY <1>1, <1>2, ReturnWants DEF Promised!Idle

(* What an asking process wants.                                           *)
LEMMA AskingWants ==
  ASSUME SemInv, NEW p \in Proc, Asking(p)
  PROVE  /\ Wanted(p) \in Promised!Want /\ Wanted(p) # Promised!NoWant
         /\ Wanted(p).op = call[p].op /\ Wanted(p).pool = found[p]
         /\ Wanted(p).id = call[p].id /\ Wanted(p).count = call[p].count
         /\ Wanted(p).bounded = (call[p].wait # Forever)
  BY CallFields DEF Wanted, Asking, SemInv, LocalOK, Promised!Want,
     Promised!NoWant

(* Nobody wants anything at first.                                         *)
LEMMA RefineInit == Init => Promised!Init
  BY DEF Init, Promised!Init, Promised!NoWant, Wanted, Asking

(* A take or a give that answers refuses what could not be done.           *)
LEMMA RefusedReturn ==
  ASSUME SemInv, NEW p \in Proc, Return(p, -1), Asking(p), UNCHANGED <<pool, val>>,
         \/ found[p] # pool
         \/ call[p].op = "take" /\ ~Enough(p) /\ (call[p].wait # Forever \/ Signals)
         \/ call[p].op = "give" /\ val[call[p].id] + call[p].count > SEMVMX
  PROVE  Promised!Refused(p)
<1>1. val[call[p].id] \in Nat /\ call[p].count \in Nat /\ SEMVMX \in Nat
  BY CallFields, SemAssumption DEF SemInv, TypeOK
<1>2. \/ Wanted(p).pool # pool
      \/ /\ Wanted(p).op = "take" /\ ~Promised!Enough(Wanted(p))
         /\ Wanted(p).bounded \/ Signals
      \/ Wanted(p).op = "give" /\ ~Promised!Room(Wanted(p))
  <2>1. CASE found[p] # pool
    BY <2>1, AskingWants
  <2>2. CASE call[p].op = "take" /\ ~Enough(p) /\ (call[p].wait # Forever \/ Signals)
    BY <1>1, <2>2, AskingWants DEF Enough, Promised!Enough
  <2>3. CASE call[p].op = "give" /\ val[call[p].id] + call[p].count > SEMVMX
    BY <1>1, <2>3, AskingWants DEF Promised!Room
  <2> QED BY <2>1, <2>2, <2>3
<1> QED BY <1>2, AskingWants, ReturnWants DEF Promised!Refused, Promised!Answer

(* A process that goes on without having asked or answered wants the same. *)
LEMMA SameWants ==
  ASSUME SemInv, NEW p \in Proc, Wanted(p)' = Wanted(p),
         \A q \in Proc \ {p} : /\ pc'[q] = pc[q] /\ call'[q] = call[q]
                              /\ found'[q] = found[q]
  PROVE  [q \in Proc |-> Wanted(q)]' = [q \in Proc |-> Wanted(q)]
<1>1. \A q \in Proc : Wanted(q)' = Wanted(q)
  BY DEF Wanted, Asking
<1> QED BY <1>1

(* Every step of the code is a step of the promise or is not seen.         *)
LEMMA RefineNext == SemInv /\ [Next]_vars => [Promised!Next]_(Promised!vars)
<1> SUFFICES ASSUME SemInv, [Next]_vars PROVE [Promised!Next]_(Promised!vars)
  OBVIOUS
<1> USE DEF Goto
<1>1. ASSUME NEW p \in Proc, Begin(p) PROVE [Promised!Next]_(Promised!vars)
  <2>1. ~Asking(p) /\ ~Asking(p)'
    BY <1>1 DEF Begin, Asking, SemInv, TypeOK
  <2>2. [q \in Proc |-> Wanted(q)]' = [q \in Proc |-> Wanted(q)]
    BY <1>1, <2>1, SameWants DEF Begin, Wanted, SemInv, TypeOK
  <2>3. Promised!Idle(p)
    BY <1>1, <2>1, <2>2 DEF Begin, Promised!Idle, Wanted, Promised!NoWant
  <2> QED BY <2>3 DEF Promised!Next
<1>2. ASSUME NEW p \in Proc, CreatePool(p) PROVE [Promised!Next]_(Promised!vars)
  <2>1. ~Asking(p) /\ ~Asking(p)'
    BY <1>2 DEF CreatePool, Asking, SemInv, TypeOK
  <2>2. [q \in Proc |-> Wanted(q)]' = [q \in Proc |-> Wanted(q)]
    BY <1>2, <2>1, SameWants DEF CreatePool, Wanted, SemInv, TypeOK
  <2>3. made + 1 \in Pool
    BY <1>2, SemAssumption DEF CreatePool, SemInv, TypeOK, Pool
  <2>4. Promised!Create
    BY <1>2, <2>2, <2>3 DEF CreatePool, Promised!Create
  <2> QED BY <2>4 DEF Promised!Next
<1>3. ASSUME NEW p \in Proc, PoolExists(p) PROVE [Promised!Next]_(Promised!vars)
  <2>1. ~Asking(p)
    BY <1>3 DEF PoolExists, Asking
  <2> QED BY <1>3, <2>1, IdleReturn DEF PoolExists, Promised!Next
<1>4. ASSUME NEW p \in Proc, SetVal(p) PROVE [Promised!Next]_(Promised!vars)
  <2>1. Wanted(p)' = Wanted(p)
    BY <1>4 DEF SetVal, Wanted, Asking
  <2>2. [q \in Proc |-> Wanted(q)]' = [q \in Proc |-> Wanted(q)]
    BY <1>4, <2>1, SameWants DEF SetVal
  <2>3. next[p] \in Sem /\ pool # NoPool
    BY <1>4, SemAssumption DEF SetVal, SemInv, TypeOK, LocalOK, Sem, Pool,
       NoPool
  <2>4. Promised!Zero(next[p])
    BY <1>4, <2>2, <2>3 DEF SetVal, Promised!Zero
  <2> QED BY <2>3, <2>4 DEF Promised!Next
<1>5. ASSUME NEW p \in Proc, SetValFails(p) PROVE [Promised!Next]_(Promised!vars)
  <2>1. ~Asking(p)
    BY <1>5 DEF SetValFails, Asking
  <2> QED BY <1>5, <2>1, IdleReturn DEF SetValFails, Promised!Next
<1>6. ASSUME NEW p \in Proc, SetValsDone(p) PROVE [Promised!Next]_(Promised!vars)
  <2>1. ~Asking(p)
    BY <1>6 DEF SetValsDone, Asking
  <2> QED BY <1>6, <2>1, IdleReturn DEF SetValsDone, Promised!Next
<1>7. ASSUME NEW p \in Proc, RemovePool(p) PROVE [Promised!Next]_(Promised!vars)
  <2>1. ~Asking(p) /\ pool # NoPool
    BY <1>7 DEF RemovePool, Asking, SemInv, LocalOK, Pool, NoPool
  <2>2. Promised!Remove(p)
    BY <1>7, <2>1, ReturnWants DEF RemovePool, Promised!Remove, Promised!Answer,
       Promised!NoWant, Wanted
  <2> QED BY <2>2 DEF Promised!Next
<1>8. ASSUME NEW p \in Proc, FindPool(p) PROVE [Promised!Next]_(Promised!vars)
  <2>1. ~Asking(p)
    BY <1>8 DEF FindPool, Asking
  <2>2. CASE Asking(p)'
    <3>1. SemInv'
      BY SemNext
    <3>2. call'[p] = call[p] /\ found'[p] = pool /\ call[p].op \in {"take", "give"}
      BY <1>8, <2>2 DEF FindPool, Asking, SemInv, TypeOK
    <3>3. /\ Wanted(p)' = [op |-> call[p].op, pool |-> pool, id |-> call[p].id,
                           count |-> call[p].count, bounded |-> call[p].wait # Forever]
          /\ Wanted(p)' \in Promised!Want
      BY <1>8, <2>2, <3>2, CallFields DEF FindPool, Wanted, SemInv, TypeOK,
         Promised!Want
    <3>4. [q \in Proc |-> Wanted(q)]' = [[q \in Proc |-> Wanted(q)] EXCEPT ![p] = Wanted(p)']
      BY <1>8, OthersWant DEF FindPool, SemInv, TypeOK
    <3>5. Promised!Ask(p)
      BY <1>8, <2>1, <3>3, <3>4 DEF FindPool, Wanted, Promised!Ask,
         Promised!NoWant
    <3> QED BY <3>5 DEF Promised!Next
  <2>3. CASE ~Asking(p)'
    <3>1. Wanted(p)' = Wanted(p)
      BY <2>1, <2>3 DEF Wanted
    <3> QED BY <1>8, <3>1, SameWants DEF FindPool, SemInv, TypeOK, Promised!vars
  <2> QED BY <2>2, <2>3
<1>9. ASSUME NEW p \in Proc, NoPoolFound(p) PROVE [Promised!Next]_(Promised!vars)
  <2>1. ~Asking(p)
    BY <1>9 DEF NoPoolFound, Asking
  <2> QED BY <1>9, <2>1, IdleReturn DEF NoPoolFound, Promised!Next
<1>10. ASSUME NEW p \in Proc, PoolGone(p) PROVE [Promised!Next]_(Promised!vars)
  <2>1. CASE Asking(p)
    BY <1>10, <2>1, RefusedReturn DEF PoolGone, Promised!Next
  <2>2. CASE ~Asking(p)
    BY <1>10, <2>2, IdleReturn DEF PoolGone, Promised!Next
  <2> QED BY <2>1, <2>2
<1>11. ASSUME NEW p \in Proc, Give(p) PROVE [Promised!Next]_(Promised!vars)
  <2>1. Asking(p)
    BY <1>11 DEF Give, Asking
  <2>2. Wanted(p).pool = pool /\ Promised!Room(Wanted(p))
    BY <1>11, <2>1, AskingWants DEF Give, Enough, Promised!Room
  <2>3. Promised!Given(p)
    BY <1>11, <2>1, <2>2, AskingWants, ReturnWants DEF Give, Promised!Given,
       Promised!Answer
  <2> QED BY <2>3 DEF Promised!Next
<1>12. ASSUME NEW p \in Proc, GiveTooMuch(p) PROVE [Promised!Next]_(Promised!vars)
  <2>1. Asking(p)
    BY <1>12 DEF GiveTooMuch, Asking, SemInv, LocalOK
  <2> QED BY <1>12, <2>1, RefusedReturn DEF GiveTooMuch, Promised!Next
<1>13. ASSUME NEW p \in Proc, Take(p) PROVE [Promised!Next]_(Promised!vars)
  <2>1. Asking(p)
    BY <1>13 DEF Take, Asking
  <2>2. Wanted(p).pool = pool /\ Promised!Enough(Wanted(p))
    BY <1>13, <2>1, AskingWants DEF Take, Enough, Promised!Enough
  <2>3. Promised!Taken(p)
    BY <1>13, <2>1, <2>2, AskingWants, ReturnWants DEF Take, Promised!Taken,
       Promised!Answer
  <2> QED BY <2>3 DEF Promised!Next
<1>14. ASSUME NEW p \in Proc, Block(p) PROVE [Promised!Next]_(Promised!vars)
  <2>1. Wanted(p)' = Wanted(p)
    BY <1>14 DEF Block, Wanted, Asking, SemInv, TypeOK, LocalOK
  <2> QED BY <1>14, <2>1, SameWants DEF Block, SemInv, TypeOK, Promised!vars
<1>15. ASSUME NEW p \in Proc, BlockFails(p) PROVE [Promised!Next]_(Promised!vars)
  <2>1. Asking(p)
    BY <1>15 DEF BlockFails, Asking, SemInv, LocalOK
  <2>2. Promised!Refused(p)
    <3>1. call[p].op = "take" /\ ~Enough(p) /\ (call[p].wait # Forever \/ Signals)
      BY <1>15 DEF BlockFails, SemInv, LocalOK
    <3>2. Return(p, -1) /\ UNCHANGED <<pool, val>>
      BY <1>15 DEF BlockFails
    <3> QED BY <2>1, <3>1, <3>2, RefusedReturn
  <2> QED BY <2>2 DEF Promised!Next
<1>16. ASSUME NEW p \in Proc, Poll(p) PROVE [Promised!Next]_(Promised!vars)
  <2>1. Wanted(p)' = Wanted(p)
    BY <1>16 DEF Poll, Wanted, Asking, SemInv, TypeOK, LocalOK
  <2> QED BY <1>16, <2>1, SameWants DEF Poll, SemInv, TypeOK, Promised!vars
<1>17. ASSUME NEW p \in Proc, Sleep(p) PROVE [Promised!Next]_(Promised!vars)
  <2>1. Wanted(p)' = Wanted(p)
    BY <1>17 DEF Sleep, Wanted, Asking, SemInv, TypeOK, LocalOK
  <2> QED BY <1>17, <2>1, SameWants DEF Sleep, SemInv, TypeOK, Promised!vars
<1>18. ASSUME NEW p \in Proc, GiveUp(p) PROVE [Promised!Next]_(Promised!vars)
  <2>1. Asking(p) /\ call[p].wait # Forever
    BY <1>18 DEF GiveUp, Asking, SemInv, LocalOK, Forever
  <2> QED BY <1>18, <2>1, RefusedReturn DEF GiveUp, Promised!Next
<1>19. ASSUME UNCHANGED vars PROVE UNCHANGED Promised!vars
  BY <1>19 DEF vars, Promised!vars, Wanted, Asking
<1> QED BY <1>1, <1>2, <1>3, <1>4, <1>5, <1>6, <1>7, <1>8, <1>9, <1>10, <1>11,
   <1>12, <1>13, <1>14, <1>15, <1>16, <1>17, <1>18, <1>19 DEF Next, Step

-----------------------------------------------------------------------------
(* The theorems.                                                           *)

(* No semaphore leaves 0 .. SEMVMX however many give at once, and the time *)
(* left of a take never falls below zero unless it has no limit.           *)
THEOREM SemTypes == Spec => []TypeOK
<1>1. SemInv => TypeOK
  BY DEF SemInv
<1> QED BY SemInit, SemNext, <1>1, PTL DEF Spec

(* Polling or with semtimedop, a take answers 0 exactly when it took all   *)
(* it asked for at one instant, and -1 only when the promise allows it.    *)
THEOREM SemaphoresImplemented == Spec => ImplementsSemaphores
<1> QED BY SemInit, SemNext, RefineInit, RefineNext, PTL
        DEF Spec, ImplementsSemaphores, Promised!Spec
================================================================================
