----------------------------- MODULE ShmLifecycle -----------------------------
(***************************************************************************)
(* How a pool of shared memory comes and goes (svipc_shm_init and          *)
(* svipc_shm_cleanup of src/common/svipc_shm.c), and what the other calls  *)
(* meet that come too early or too late.                                   *)
(*                                                                         *)
(* A pool is two kernel objects under one key: a semaphore set, and the    *)
(* master segment that holds the table and the identifier of the set.      *)
(* Both can be found as soon as they exist, and svipc_shm_init takes no    *)
(* lock. Until it has stored the identifiers the master holds zeros, and   *)
(* a call that comes so early takes 0 for the identifier of the semaphores *)
(* (the race of the fixme at svipc_shm.c:919). 0 is an identifier like any *)
(* other: the kernel gives it to the first set that is made.               *)
(*                                                                         *)
(* Inside the table ShmPool has the details; here a call takes the master  *)
(* lock, looks or enters one slot, and leaves.                             *)
(***************************************************************************)
EXTENDS Integers, FiniteSets

CONSTANTS
  Proc,      \* the processes that hold the key
  NumSlots,  \* the argument of shm_init
  Call,      \* the calls each may make: "init", "cleanup", "look", "write"
  MaxPools,  \* bound: the pools made under the key, one after the other
  ZeroSet,   \* the set with the identifier 0, see below
  NoMemory   \* may semget, shmget and shmat run out of resources?

(* Each init gives its number to the set and the master it makes. Other is *)
(* the set of another pool, None no set at all.                            *)
Pool == 1 .. MaxPools
First == 1
None == 0
Other == -1
Slot == 0 .. NumSlots - 1
SemNum == 0 .. 2 * NumSlots
MasterSem == 0

(* The kernel gives the identifier 0 to the first set of all and, for any  *)
(* practical time, never again: it may be the first set under this key,    *)
(* belong to another pool, or be gone.                                     *)
ASSUME LifecycleAssumption ==
  /\ NumSlots \in Nat /\ MaxPools \in Nat
  /\ IsFiniteSet(Proc)
  /\ NoMemory \in BOOLEAN
  /\ Call \in [Proc -> SUBSET {"init", "cleanup", "look", "write"}]
  /\ ZeroSet \in {First, Other, None}

VARIABLES
  made,    \* how many sets have been made
  other,   \* is the set of the other pool still there?
  setKey,  \* the set found under the key
  shmKey,  \* the master found under the key
  sem,     \* the values of each set
  master,  \* the content of each master
  mapped,  \* the processes that have each master attached
  broken,  \* the pools whose init has failed half way
  pc,      \* where each process is
  op,      \* the call it is in
  pool,    \* local: the pool it makes or has found
  semid,   \* local: the identifier semop was called with
  i        \* local: loop counter

kernel == <<made, other, setKey, shmKey, mapped, broken>>
vars == <<kernel, sem, master, pc, op, pool, semid, i>>

Blank ==
  [master_shmid |-> 0, master_semid |-> 0, numslots |-> 0, used |-> [s \in Slot |-> FALSE]]

(* An attachment whose process forgot it.                                  *)
Lost == "lost"

Init ==
  /\ broken = {}
  /\ made = 0 /\ setKey = None /\ shmKey = None
  /\ other = TRUE
  /\ sem = [g \in Pool \cup {Other} |->
             [n \in SemNum |-> IF g = Other /\ n = MasterSem THEN 1 ELSE 0]]
  /\ master = [g \in Pool |-> Blank]
  /\ mapped = [g \in Pool |-> {}]
  /\ pc = [p \in Proc |-> "idle"]
  /\ op = [p \in Proc |-> "none"]
  /\ pool = [p \in Proc |-> None]
  /\ semid = [p \in Proc |-> 0]
  /\ i = [p \in Proc |-> 0]

Goto(p, l) == pc' = [pc EXCEPT ![p] = l]
Forget(p) ==
  /\ op' = [op EXCEPT ![p] = "none"]
  /\ pool' = [pool EXCEPT ![p] = None]
  /\ semid' = [semid EXCEPT ![p] = 0]
  /\ i' = [i EXCEPT ![p] = 0]
Return(p) == Goto(p, "idle") /\ Forget(p)

Attach(p) == mapped' = [mapped EXCEPT ![pool[p]] = @ \cup {p}]
Detach(p) == mapped' = [mapped EXCEPT ![pool[p]] = @ \ {p}]
Forsake(p) == mapped' = [mapped EXCEPT ![pool[p]] = (@ \ {p}) \cup {Lost}]
Exists(g) == shmKey = g \/ mapped[g] # {}

(* The set an identifier stands for, 0 included, and whether it is there;  *)
(* semop and semctl fail if not. A master may be read while init fills it. *)
SetOf(id) == IF id = 0 THEN ZeroSet ELSE id
Alive(s) == s # None /\ (s = setKey \/ (s = Other /\ other))
Semid(p) == master[pool[p]].master_semid
Reached(p) == Alive(SetOf(Semid(p)))

Begin(p) ==
  /\ pc[p] = "idle"
  /\ \E o \in Call[p] :
       /\ o = "init" => made + Cardinality({q \in Proc : op[q] = "init"}) < MaxPools
       /\ op' = [op EXCEPT ![p] = o]
       /\ Goto(p, IF o = "init" THEN "semget" ELSE "attach_master")
  /\ UNCHANGED <<kernel, sem, master, pool, semid, i>>

-----------------------------------------------------------------------------
(* svipc_shm_init.                                                         *)

SemGet(p) ==
  /\ pc[p] = "semget" /\ setKey = None
  /\ made' = made + 1
  /\ setKey' = made'
  /\ pool' = [pool EXCEPT ![p] = made']
  /\ Goto(p, "setval")
  /\ UNCHANGED <<other, shmKey, mapped, broken, sem, master, op, semid, i>>

(* IPC_EXCL: there is a set under the key.                                 *)
SemGetFails(p) ==
  /\ pc[p] = "semget" /\ (setKey # None \/ NoMemory)
  /\ Return(p)
  /\ UNCHANGED <<kernel, sem, master>>

(* Mutant: the loop over the locks is one short.                           *)
SetVal_OneShort(p) ==
  /\ pc[p] = "setval" /\ i[p] \in SemNum
  /\ sem' = [sem EXCEPT ![pool[p]][i[p]] = IF i[p] < NumSlots THEN 1 ELSE 0]
  /\ i' = [i EXCEPT ![p] = @ + 1]
  /\ Goto(p, IF i[p] = 2 * NumSlots THEN "shmget" ELSE "setval")
  /\ UNCHANGED <<kernel, master, op, pool, semid>>

(* The master and slot locks are free, the handshakes empty.               *)
SetVal(p) ==
  /\ pc[p] = "setval" /\ i[p] \in SemNum
  /\ sem' = [sem EXCEPT ![pool[p]][i[p]] = IF i[p] <= NumSlots THEN 1 ELSE 0]
  /\ i' = [i EXCEPT ![p] = @ + 1]
  /\ Goto(p, IF i[p] = 2 * NumSlots THEN "shmget" ELSE "setval")
  /\ UNCHANGED <<kernel, master, op, pool, semid>>

ShmGet(p) ==
  /\ pc[p] = "shmget" /\ shmKey = None
  /\ shmKey' = pool[p]
  /\ Goto(p, "shmat_new")
  /\ UNCHANGED <<made, other, setKey, mapped, broken, sem, master, op, pool, semid, i>>

(* The answer of shmget is not looked at; shmat then fails, and the set    *)
(* stays.                                                                  *)
ShmGetFails(p) ==
  /\ pc[p] = "shmget" /\ (shmKey # None \/ NoMemory)
  /\ Return(p)
  /\ broken' = broken \cup {pool[p]}
  /\ UNCHANGED <<made, other, setKey, shmKey, mapped, sem, master>>

ShmAt(p) ==
  /\ pc[p] = "shmat_new" /\ Exists(pool[p])
  /\ Attach(p)
  /\ master' = [master EXCEPT ![pool[p]] = Blank]
  /\ Goto(p, "store_shmid")
  /\ UNCHANGED <<made, other, setKey, shmKey, broken, sem, op, pool, semid, i>>

(* The set and a master full of zeros stay, unless a cleanup was faster.   *)
ShmAtFails(p) ==
  /\ pc[p] = "shmat_new" /\ (~Exists(pool[p]) \/ NoMemory)
  /\ Return(p)
  /\ broken' = broken \cup {pool[p]}
  /\ UNCHANGED <<made, other, setKey, shmKey, mapped, sem, master>>

StoreShmid(p) ==
  /\ pc[p] = "store_shmid"
  /\ master' = [master EXCEPT ![pool[p]].master_shmid = pool[p]]
  /\ Goto(p, "store_semid")
  /\ UNCHANGED <<kernel, sem, op, pool, semid, i>>

(* If the set is the one with the identifier 0, this changes nothing: 0    *)
(* and its number are the same set (SetOf).                                *)
StoreSemid(p) ==
  /\ pc[p] = "store_semid"
  /\ master' = [master EXCEPT ![pool[p]].master_semid = pool[p]]
  /\ Goto(p, "store_numslots")
  /\ UNCHANGED <<kernel, sem, op, pool, semid, i>>

StoreNumSlots(p) ==
  /\ pc[p] = "store_numslots"
  /\ master' = [master EXCEPT ![pool[p]].numslots = NumSlots]
  /\ i' = [i EXCEPT ![p] = 0]
  /\ Goto(p, "clear_entry")
  /\ UNCHANGED <<kernel, sem, op, pool, semid>>

ClearEntry(p) ==
  /\ pc[p] = "clear_entry" /\ i[p] < NumSlots
  /\ master' = [master EXCEPT ![pool[p]].used[i[p]] = FALSE]
  /\ i' = [i EXCEPT ![p] = @ + 1]
  /\ UNCHANGED <<kernel, sem, pc, op, pool, semid>>

(* Mutant: init ends with unlock_master, which it has not locked.          *)
InitDone_Unlocks(p) ==
  /\ pc[p] = "clear_entry" /\ i[p] = NumSlots
  /\ sem' = IF Reached(p) THEN [sem EXCEPT ![SetOf(Semid(p))][MasterSem] = @ + 1] ELSE sem
  /\ Detach(p) /\ Return(p)
  /\ UNCHANGED <<made, other, setKey, shmKey, broken, master>>

(* Mutant: the master lock is set once more when everything is in place.   *)
InitDone_SetsMaster(p) ==
  /\ pc[p] = "clear_entry" /\ i[p] = NumSlots
  /\ sem' = [sem EXCEPT ![pool[p]][MasterSem] = 1]
  /\ Detach(p) /\ Return(p)
  /\ UNCHANGED <<made, other, setKey, shmKey, broken, master>>

InitDone(p) ==
  /\ pc[p] = "clear_entry" /\ i[p] = NumSlots
  /\ Detach(p) /\ Return(p)
  /\ UNCHANGED <<made, other, setKey, shmKey, broken, sem, master>>

-----------------------------------------------------------------------------
(* acquire_master, in every other call.                                    *)

FindMaster(p) ==
  /\ pc[p] = "attach_master"
  /\ \/ shmKey = None /\ Return(p)
     \/ /\ shmKey # None
        /\ pool' = [pool EXCEPT ![p] = shmKey]
        /\ Goto(p, "shmat_master")
        /\ UNCHANGED <<op, semid, i>>
  /\ UNCHANGED <<kernel, sem, master>>

AttachMaster(p) ==
  /\ pc[p] = "shmat_master" /\ Exists(pool[p])
  /\ Attach(p)
  /\ Goto(p, "lock_master")
  /\ UNCHANGED <<made, other, setKey, shmKey, broken, sem, master, op, pool, semid, i>>

(* shmat answers (void * ) -1, which is dereferenced.                      *)
AttachMasterFault(p) ==
  /\ pc[p] = "shmat_master" /\ (~Exists(pool[p]) \/ NoMemory)
  /\ Goto(p, "fault") /\ Forget(p)
  /\ UNCHANGED <<kernel, sem, master>>

(* semop is called with the identifier the master holds now, and waits on  *)
(* that set whatever is stored meanwhile.                                  *)
CallSemop(p) ==
  /\ pc[p] = "lock_master"
  /\ semid' = [semid EXCEPT ![p] = Semid(p)]
  /\ Goto(p, "semop")
  /\ UNCHANGED <<kernel, sem, master, op, pool, i>>

LockMaster(p) ==
  /\ pc[p] = "semop"
  /\ LET s == SetOf(semid[p]) IN
     /\ Alive(s) /\ sem[s][MasterSem] > 0
     /\ sem' = [sem EXCEPT ![s][MasterSem] = @ - 1]
  /\ Goto(p, "table")
  /\ UNCHANGED <<kernel, master, op, pool, semid, i>>

(* Mutant: acquire_master tries again as long as the set does not answer.  *)
LockMasterFails_Retries(p) ==
  /\ pc[p] = "semop" /\ ~Alive(SetOf(semid[p]))
  /\ UNCHANGED vars

(* Mutant: the answer of lock_master is not looked at.                     *)
LockMasterFails_Ignored(p) ==
  /\ pc[p] = "semop" /\ ~Alive(SetOf(semid[p]))
  /\ Goto(p, "table")
  /\ UNCHANGED <<kernel, sem, master, op, pool, semid, i>>

(* The set has been removed, or the identifier is the 0 of a master that   *)
(* is not filled yet, and no set has it.                                   *)
LockMasterFails(p) ==
  /\ pc[p] = "semop" /\ ~Alive(SetOf(semid[p]))
  /\ Detach(p) /\ Return(p)
  /\ UNCHANGED <<made, other, setKey, shmKey, broken, sem, master>>

-----------------------------------------------------------------------------
(* The table, of as many slots as numslots says by now.                    *)

FreeEntries(g) == {s \in Slot : s < master[g].numslots /\ ~master[g].used[s]}

(* shm_write of a new name; without a slot left it fails.                  *)
EnterSlot(p) ==
  /\ pc[p] = "table" /\ op[p] = "write"
  /\ LET F == FreeEntries(pool[p]) IN
     \/ F = {} /\ UNCHANGED master
     \/ \E s \in F : /\ \A t \in F : s <= t
                     /\ master' = [master EXCEPT ![pool[p]].used[s] = TRUE]
  /\ Goto(p, "unlock_master")
  /\ UNCHANGED <<kernel, sem, op, pool, semid, i>>

Look(p) ==
  /\ pc[p] = "table" /\ op[p] = "look"
  /\ Goto(p, "unlock_master")
  /\ UNCHANGED <<kernel, sem, master, op, pool, semid, i>>

(* The identifier is read again: it need not be the one LockMaster used.   *)
UnlockMaster(p) ==
  /\ pc[p] = "unlock_master"
  /\ sem' = IF Reached(p) THEN [sem EXCEPT ![SetOf(Semid(p))][MasterSem] = @ + 1] ELSE sem
  /\ Detach(p) /\ Return(p)
  /\ UNCHANGED <<made, other, setKey, shmKey, broken, master>>

(* svipc_shm_cleanup: the slots, the set, the master.                      *)
FreeSlot(p) ==
  /\ pc[p] = "table" /\ op[p] = "cleanup" /\ i[p] < master[pool[p]].numslots
  /\ master' = [master EXCEPT ![pool[p]].used[i[p]] = FALSE]
  /\ i' = [i EXCEPT ![p] = @ + 1]
  /\ UNCHANGED <<kernel, sem, pc, op, pool, semid>>

(* Whatever set the master names; if it names none, cleanup returns as it  *)
(* is, without detaching.                                                  *)
RemoveSet(p) ==
  /\ pc[p] = "table" /\ op[p] = "cleanup" /\ i[p] >= master[pool[p]].numslots
  /\ setKey' = IF setKey = SetOf(Semid(p)) THEN None ELSE setKey
  /\ other' = (other /\ SetOf(Semid(p)) # Other)
  /\ IF Reached(p)
     THEN Goto(p, "rm_master") /\ UNCHANGED <<mapped, op, pool, semid, i>>
     ELSE Return(p) /\ Forsake(p)
  /\ UNCHANGED <<made, shmKey, broken, sem, master>>

(* In a master that is not filled yet the identifier is 0 again: of this   *)
(* master, of another segment, or of none.                                 *)
RemoveMaster(p) ==
  /\ pc[p] = "rm_master"
  /\ \E g \in IF master[pool[p]].master_shmid = 0 THEN {pool[p], Other}
                ELSE {master[pool[p]].master_shmid} :
       shmKey' = IF shmKey = g THEN None ELSE shmKey
  /\ Detach(p) /\ Return(p)
  /\ UNCHANGED <<made, other, setKey, broken, sem, master>>

RemoveMasterFails(p) ==
  /\ pc[p] = "rm_master" /\ master[pool[p]].master_shmid = 0
  /\ Forsake(p) /\ Return(p)
  /\ UNCHANGED <<made, other, setKey, shmKey, broken, sem, master>>

-----------------------------------------------------------------------------
Step(p) ==
  \/ SemGet(p) \/ SemGetFails(p) \/ SetVal(p)
  \/ ShmGet(p) \/ ShmGetFails(p) \/ ShmAt(p) \/ ShmAtFails(p)
  \/ StoreShmid(p) \/ StoreSemid(p) \/ StoreNumSlots(p) \/ ClearEntry(p) \/ InitDone(p)
  \/ FindMaster(p) \/ AttachMaster(p) \/ AttachMasterFault(p)
  \/ CallSemop(p) \/ LockMaster(p) \/ LockMasterFails(p)
  \/ EnterSlot(p) \/ Look(p) \/ UnlockMaster(p)
  \/ FreeSlot(p) \/ RemoveSet(p) \/ RemoveMaster(p) \/ RemoveMasterFails(p)

Next == \E p \in Proc : Begin(p) \/ Step(p)

Spec == Init /\ [][Next]_vars

(* As in ShmPool: whoever can go on again and again does.                  *)
FairSpec == Spec /\ \A p \in Proc : SF_vars(Step(p))

-----------------------------------------------------------------------------
(* Properties.                                                             *)

Label == {"idle", "semget", "setval", "shmget", "shmat_new", "store_shmid", "store_semid",
          "store_numslots", "clear_entry", "attach_master", "shmat_master",
          "lock_master", "semop", "table", "unlock_master", "rm_master", "fault"}

(* Every variable keeps its type, and the semaphores of the pool are locks *)
(* and handshakes that never go above 1.                                   *)
TypeOK ==
  /\ made \in 0 .. MaxPools
  /\ other \in BOOLEAN
  /\ setKey \in Pool \cup {None} /\ shmKey \in Pool \cup {None}
  /\ sem \in [Pool \cup {Other} -> [SemNum -> {0, 1}]]
  /\ master \in [Pool -> [master_shmid : Pool \cup {0}, master_semid : Pool \cup {0},
                         numslots : {0, NumSlots}, used : [Slot -> BOOLEAN]]]
  /\ mapped \in [Pool -> SUBSET (Proc \cup {Lost})]
  /\ broken \subseteq Pool
  /\ pc \in [Proc -> Label]
  /\ op \in [Proc -> {"init", "cleanup", "look", "write", "none"}]
  /\ pool \in [Proc -> Pool \cup {None}]
  /\ semid \in [Proc -> Pool \cup {0}]
  /\ i \in [Proc -> 0 .. 2 * NumSlots + 1]

InTable(p) == pc[p] \in {"table", "unlock_master"}

(* Two processes are never in the table of one pool at once, however early *)
(* they come while init still fills it: the locks are set before the       *)
(* master can be found, init does not touch them after that, and who locks *)
(* the set with the identifier 0 also unlocks it. That holds as long as    *)
(* this set is not another pool's: whoever locks that one may unlock the   *)
(* pool's own.                                                             *)
OneInTable ==
  \A p, q \in Proc : InTable(p) /\ InTable(q) /\ pool[p] = pool[q] => p = q

(* Nobody is making or removing a pool, and no init has failed half way.   *)
Quiet == (\A p \in Proc : op[p] \notin {"init", "cleanup"}) /\ broken = {}

(* The pool under the key is whole: set and master belong together, the    *)
(* locks add up with those who hold them, every slot is free.              *)
Whole ==
  /\ master[shmKey].master_semid = setKey
  /\ master[shmKey].numslots = NumSlots
  /\ sem[setKey][MasterSem] + Cardinality({p \in Proc : InTable(p)}) = 1
  /\ \A s \in Slot : sem[setKey][1 + s] = 1 /\ sem[setKey][1 + NumSlots + s] = 0

(* A quiet key has a whole pool or nothing at all, so that the next init   *)
(* or cleanup succeeds: the set and the master come and go together. The   *)
(* one exception is the pool whose set has the identifier 0, which an      *)
(* early cleanup may leave as a master without a set.                      *)
WholePool ==
  Quiet =>
    \/ setKey = None /\ shmKey \in {None, ZeroSet}
    \/ setKey # None /\ setKey = shmKey /\ Whole

(* Whoever is in the table, or removes it, has the semaphores of that very *)
(* pool; and what an init that failed half way leaves behind is entered    *)
(* only if its set has the identifier 0, and then has no slots to write.   *)
(* (A pool still in the making is entered once its identifier is stored,   *)
(* whatever its numslots are by then.)                                     *)
OwnSemaphores ==
  \A p \in Proc : InTable(p) \/ pc[p] = "rm_master" =>
    /\ SetOf(Semid(p)) = pool[p]
    /\ pool[p] \in broken => pool[p] = ZeroSet /\ master[pool[p]].numslots = 0

(* Every call returns, or its process died of shmat's answer: nobody is    *)
(* left waiting by a pool that is not there yet or no longer.              *)
CallsReturn == \A p \in Proc : pc[p] # "idle" ~> pc[p] \in {"idle", "fault"}
===============================================================================
