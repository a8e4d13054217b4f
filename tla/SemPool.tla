-------------------------------- MODULE SemPool --------------------------------
(***************************************************************************)
(* The semaphore pool of svipc (src/common/svipc_sem.c), on a system with  *)
(* semtimedop and on one without, where src/common/svipc_misc.c polls.     *)
(*                                                                         *)
(* A call looks the pool up by its key and then works on what it found,    *)
(* which others may have removed and replaced meanwhile.  Values are given *)
(* or taken several at a time; times are counted in the quanta of the      *)
(* polling loop.                                                           *)
(***************************************************************************)
EXTENDS Integers, FiniteSets

CONSTANTS
  Proc,      \* the processes that use the pool
  NumSems,   \* the semaphores of a pool (numslots)
  SEMVMX,    \* the largest value the kernel gives a semaphore
  MaxCount,  \* bound: the largest count of a call
  MaxWait,   \* bound: the longest wait, in polling quanta
  MaxPools,  \* bound: the pools made under the key, one after the other
  Call,      \* the calls each process may make
  Signals    \* may a blocked semop be interrupted?

Sem == 0 .. NumSems - 1
Pool == 1 .. MaxPools
NoPool == 0
Forever == -1

NoCall == [op |-> "none", id |-> 0, count |-> 1, wait |-> Forever]
CallRecord == [op : {"init", "reset", "cleanup", "take", "give", "none"},
               id : Sem, count : 1 .. MaxCount, wait : {Forever} \cup 0 .. MaxWait]

ASSUME SemAssumption ==
  /\ IsFiniteSet(Proc)
  /\ NumSems \in Nat \ {0} /\ SEMVMX \in Nat \ {0}
  /\ MaxCount \in Nat \ {0} /\ MaxWait \in Nat /\ MaxPools \in Nat
  /\ Signals \in BOOLEAN
  /\ Call \in [Proc -> SUBSET CallRecord]
  /\ \A p \in Proc : NoCall \notin Call[p]

VARIABLES
  native,  \* the system has semtimedop
  pool,    \* the pool found under the key
  made,    \* how many pools have been made
  val,     \* the values of its semaphores
  pc,      \* where each process is
  call,    \* the call it is in
  found,   \* local: sempoolid
  next,    \* local: i, the next semaphore to set
  ttl,     \* local: time_to_live of the polling loop, in quanta
  status   \* what the last call answered, 0 during a call

vars == <<native, pool, made, val, pc, call, found, next, ttl, status>>

Goto(p, l) == pc' = [pc EXCEPT ![p] = l]

(* The call answers; its locals are gone.                                  *)
Return(p, answer) ==
  /\ Goto(p, "idle")
  /\ call' = [call EXCEPT ![p] = NoCall]
  /\ found' = [found EXCEPT ![p] = NoPool]
  /\ next' = [next EXCEPT ![p] = 0]
  /\ ttl' = [ttl EXCEPT ![p] = 0]
  /\ status' = [status EXCEPT ![p] = answer]

Init ==
  /\ native \in BOOLEAN
  /\ pool = NoPool
  /\ made = 0
  /\ val = [s \in Sem |-> 0]
  /\ pc = [p \in Proc |-> "idle"]
  /\ call = [p \in Proc |-> NoCall]
  /\ found = [p \in Proc |-> NoPool]
  /\ next = [p \in Proc |-> 0]
  /\ ttl = [p \in Proc |-> 0]
  /\ status = [p \in Proc |-> 0]

Begin(p) ==
  /\ pc[p] = "idle"
  /\ \E c \in Call[p] : call' = [call EXCEPT ![p] = c]
  /\ status' = [status EXCEPT ![p] = 0]
  /\ Goto(p, "semget")
  /\ UNCHANGED <<native, pool, made, val, found, next, ttl>>

-----------------------------------------------------------------------------
(* svipc_sem_init and svipc_sem_cleanup.                                   *)

(* semget(IPC_CREAT | IPC_EXCL): the kernel makes the values zero.         *)
CreatePool(p) ==
  /\ pc[p] = "semget" /\ call[p].op = "init"
  /\ pool = NoPool /\ made < MaxPools
  /\ made' = made + 1
  /\ pool' = made + 1
  /\ val' = [s \in Sem |-> 0]
  /\ found' = [found EXCEPT ![p] = made + 1]
  /\ Goto(p, "setval")
  /\ UNCHANGED <<native, call, next, ttl, status>>

(* There is one already (EEXIST), or the kernel has none left (ENOSPC).    *)
PoolExists(p) ==
  /\ pc[p] = "semget" /\ call[p].op = "init"
  /\ pool # NoPool \/ made = MaxPools
  /\ Return(p, -1)
  /\ UNCHANGED <<native, pool, made, val>>

(* semctl(SETVAL, 0), semaphore after semaphore: at creation and for the   *)
(* reset of numslots = 0.                                                  *)
SetVal(p) ==
  /\ pc[p] = "setval"
  /\ found[p] = pool /\ next[p] < NumSems
  /\ val' = [val EXCEPT ![next[p]] = 0]
  /\ next' = [next EXCEPT ![p] = @ + 1]
  /\ UNCHANGED <<native, pool, made, pc, call, found, ttl, status>>

(* The pool is gone.  The reset goes on to the end and answers for its     *)
(* last semctl only; either way nothing more is set.                       *)
SetValFails(p) ==
  /\ pc[p] = "setval"
  /\ found[p] # pool /\ next[p] < NumSems
  /\ Return(p, -1)
  /\ UNCHANGED <<native, pool, made, val>>

SetValsDone(p) ==
  /\ pc[p] = "setval"
  /\ next[p] = NumSems
  /\ Return(p, 0)
  /\ UNCHANGED <<native, pool, made, val>>

RemovePool(p) ==
  /\ pc[p] = "semop" /\ call[p].op = "cleanup"
  /\ found[p] = pool
  /\ pool' = NoPool
  /\ val' = [s \in Sem |-> 0]
  /\ Return(p, 0)
  /\ UNCHANGED <<native, made>>

-----------------------------------------------------------------------------
(* svipc_semtake and svipc_semgive.                                        *)

FindPool(p) ==
  /\ pc[p] = "semget" /\ call[p].op # "init"
  /\ pool # NoPool
  /\ found' = [found EXCEPT ![p] = pool]
  /\ ttl' = [ttl EXCEPT ![p] = IF call[p].op = "take" THEN call[p].wait ELSE 0]
  /\ Goto(p, IF call[p].op = "reset" THEN "setval" ELSE "semop")
  /\ UNCHANGED <<native, pool, made, val, call, next, status>>

NoPoolFound(p) ==
  /\ pc[p] = "semget" /\ call[p].op # "init"
  /\ pool = NoPool
  /\ Return(p, -1)
  /\ UNCHANGED <<native, pool, made, val>>

Enough(p) == val[call[p].id] >= call[p].count

(* Mutant: every failure of semop is taken for EAGAIN.                     *)
PoolGone_Retried(p) ==
  /\ pc[p] \in {"semop", "blocked"}
  /\ found[p] # pool
  /\ Goto(p, "semop")
  /\ UNCHANGED <<native, pool, made, val, call, found, next, ttl, status>>

(* semop on an identifier that was removed: EINVAL, or EIDRM if blocked.   *)
PoolGone(p) ==
  /\ pc[p] \in {"semop", "blocked"}
  /\ found[p] # pool
  /\ Return(p, -1)
  /\ UNCHANGED <<native, pool, made, val>>

Give(p) ==
  /\ pc[p] = "semop" /\ call[p].op = "give"
  /\ found[p] = pool
  /\ val[call[p].id] + call[p].count <= SEMVMX
  /\ val' = [val EXCEPT ![call[p].id] = @ + call[p].count]
  /\ Return(p, 0)
  /\ UNCHANGED <<native, pool, made>>

GiveTooMuch(p) ==
  /\ pc[p] = "semop" /\ call[p].op = "give"
  /\ found[p] = pool
  /\ val[call[p].id] + call[p].count > SEMVMX
  /\ Return(p, -1)
  /\ UNCHANGED <<native, pool, made, val>>

Take(p) ==
  /\ pc[p] \in {"semop", "blocked"} /\ call[p].op = "take"
  /\ found[p] = pool /\ Enough(p)
  /\ val' = [val EXCEPT ![call[p].id] = @ - call[p].count]
  /\ Return(p, 0)
  /\ UNCHANGED <<native, pool, made>>

(* The kernel's semop waits: without a timeout wherever it runs, with one  *)
(* only where there is semtimedop.                                         *)
Block(p) ==
  /\ pc[p] = "semop" /\ call[p].op = "take"
  /\ found[p] = pool /\ ~Enough(p)
  /\ call[p].wait = Forever \/ (native /\ call[p].wait > 0)
  /\ Goto(p, "blocked")
  /\ UNCHANGED <<native, pool, made, val, call, found, next, ttl, status>>

(* The time is up while blocked, or a signal arrives.                      *)
BlockFails(p) ==
  /\ pc[p] = "blocked"
  /\ found[p] = pool /\ ~Enough(p)
  /\ call[p].wait # Forever \/ Signals
  /\ Return(p, -1)
  /\ UNCHANGED <<native, pool, made, val>>

(* Mutant: one more try once the time is up.                               *)
Poll_AtZero(p) ==
  /\ pc[p] = "semop" /\ call[p].op = "take"
  /\ found[p] = pool /\ ~Enough(p)
  /\ ~native /\ ttl[p] >= 0
  /\ Goto(p, "usleep")
  /\ UNCHANGED <<native, pool, made, val, call, found, next, ttl, status>>

(* The polling loop: semop(IPC_NOWAIT) failed with EAGAIN, and there is    *)
(* time left to sleep and try again.                                       *)
Poll(p) ==
  /\ pc[p] = "semop" /\ call[p].op = "take"
  /\ found[p] = pool /\ ~Enough(p)
  /\ ~native /\ ttl[p] > 0
  /\ Goto(p, "usleep")
  /\ UNCHANGED <<native, pool, made, val, call, found, next, ttl, status>>

(* Mutant: the time left is not counted down.                              *)
Sleep_Forever(p) ==
  /\ pc[p] = "usleep"
  /\ Goto(p, "semop")
  /\ UNCHANGED <<native, pool, made, val, call, found, next, ttl, status>>

(* Mutant: the loop stops when the time is up, before its last try.        *)
Sleep_GivesUp(p) ==
  /\ pc[p] = "usleep"
  /\ ttl' = [ttl EXCEPT ![p] = @ - 1]
  /\ IF ttl[p] = 1
     THEN /\ Goto(p, "idle")
          /\ call' = [call EXCEPT ![p] = NoCall]
          /\ found' = [found EXCEPT ![p] = NoPool]
          /\ status' = [status EXCEPT ![p] = -1]
     ELSE Goto(p, "semop") /\ UNCHANGED <<call, found, status>>
  /\ UNCHANGED <<native, pool, made, val, next>>

Sleep(p) ==
  /\ pc[p] = "usleep"
  /\ ttl' = [ttl EXCEPT ![p] = @ - 1]
  /\ Goto(p, "semop")
  /\ UNCHANGED <<native, pool, made, val, call, found, next, status>>

(* The last try failed, or the only one of wait = 0.                       *)
GiveUp(p) ==
  /\ pc[p] = "semop" /\ call[p].op = "take"
  /\ found[p] = pool /\ ~Enough(p)
  /\ ttl[p] = 0
  /\ Return(p, -1)
  /\ UNCHANGED <<native, pool, made, val>>

-----------------------------------------------------------------------------
Step(p) ==
  \/ CreatePool(p) \/ PoolExists(p) \/ SetVal(p) \/ SetValFails(p) \/ SetValsDone(p)
  \/ RemovePool(p) \/ FindPool(p) \/ NoPoolFound(p) \/ PoolGone(p)
  \/ Give(p) \/ GiveTooMuch(p)
  \/ Take(p) \/ Block(p) \/ BlockFails(p) \/ Poll(p) \/ Sleep(p) \/ GiveUp(p)

Next == \E p \in Proc : Begin(p) \/ Step(p)

Spec == Init /\ [][Next]_vars

(* A process that can go on goes on; time passes.                          *)
FairSpec == Spec /\ \A p \in Proc : WF_vars(Step(p))

-----------------------------------------------------------------------------
(* Every variable stays in its type: values within 0..SEMVMX however many  *)
(* give, the time left never below zero but for a wait without limit.      *)
TypeOK ==
  /\ native \in BOOLEAN
  /\ pool \in {NoPool} \cup Pool
  /\ made \in 0 .. MaxPools
  /\ val \in [Sem -> 0 .. SEMVMX]
  /\ pc \in [Proc -> {"idle", "semget", "setval", "semop", "blocked", "usleep"}]
  /\ call \in [Proc -> CallRecord]
  /\ found \in [Proc -> {NoPool} \cup Pool]
  /\ next \in [Proc -> 0 .. NumSems]
  /\ ttl \in [Proc -> {Forever} \cup 0 .. MaxWait]
  /\ \A p \in Proc : ttl[p] = Forever => call[p].wait = Forever
  /\ status \in [Proc -> {0, -1}]

(* The pool as its users see it, polling or not: a process asks once it    *)
(* has found the pool and until its call answers.                          *)
Asking(p) == pc[p] \in {"semop", "blocked", "usleep"} /\ call[p].op \in {"take", "give"}
Wanted(p) ==
  IF Asking(p)
  THEN [op |-> call[p].op, pool |-> found[p], id |-> call[p].id,
        count |-> call[p].count, bounded |-> call[p].wait # Forever]
  ELSE [op |-> "none"]
Promised == INSTANCE Semaphores WITH want <- [p \in Proc |-> Wanted(p)]

(* sem_take answers 0 exactly when it took all of count, at one instant,   *)
(* and -1 for a timeout only when not enough was there at the last try:    *)
(* svipc_misc.c:101-121, polling, is as good as the kernel's semtimedop    *)
(* ("we want to semop at least once, even when timeout=0").                *)
ImplementsSemaphores == Promised!Spec

(* A take with a time limit answers, whatever the others do.               *)
TimedTakeReturns ==
  \A p \in Proc : pc[p] = "semget" /\ call[p].op = "take" /\ call[p].wait # Forever
                  ~> pc[p] = "idle"

(* Nobody waits for ever on a pool that is gone, nor on a semaphore that   *)
(* holds what was asked for.                                               *)
NobodyStuck ==
  \A p \in Proc :
    []<>~(Asking(p) /\ call[p].op = "take" /\ (found[p] # pool \/ Enough(p)))
===============================================================================
