-------------------------- MODULE ShmLifecycleProofs --------------------------
(***************************************************************************)
(* Theorems about ShmLifecycle, for any number of processes, slots, calls  *)
(* and pools: however svipc_shm_init, svipc_shm_cleanup and the other      *)
(* calls interleave, whoever is in the table has the semaphores of that    *)
(* pool and is alone, and a quiet key has a whole pool or none. They hold  *)
(* as long as the identifier 0, which a call reads in a master that is not *)
(* filled yet, is not the identifier of another pool's set: nobody's, or   *)
(* that of the first set made under the key. None of the properties is     *)
(* inductive; PoolInv below is.                                            *)
(***************************************************************************)
EXTENDS ShmLifecycle, FiniteSetTheorems, TLAPS

-----------------------------------------------------------------------------
(* The inductive invariant, in named parts.                                *)

(* Where an init is: before its pool has an identifier in the master, and  *)
(* after. Unset: before the pool has a master at all.                      *)
UnsetLabel == {"setval", "shmget"}
EarlyLabel == {"setval", "shmget", "shmat_new", "store_shmid", "store_semid"}
LateLabel  == {"store_numslots", "clear_entry"}
Unset(p) == pc[p] \in UnsetLabel
Early(p) == pc[p] \in EarlyLabel
Late(p)  == pc[p] \in LateLabel
Making(p) == Early(p) \/ Late(p)

(* Who has taken the master lock of its pool and not given it back.        *)
Holds(p) == pc[p] \in {"table", "unlock_master", "rm_master"}

(* The value init gives to semaphore n.                                    *)
Fresh(n) == IF n <= NumSlots THEN 1 ELSE 0

(* What a process remembers: of which call it is, a pool where it needs    *)
(* one, the identifier it has read there, and a loop counter within the    *)
(* loop it is in.                                                          *)
LocalOK(p) ==
  /\ (op[p] = "init") <=> (pc[p] = "semget" \/ Making(p))
  /\ pc[p] = "rm_master" => op[p] = "cleanup"
  /\ (pool[p] = None) <=> (pc[p] \in {"idle", "semget", "attach_master", "fault"})
  /\ semid[p] \in {0, pool[p]}
  /\ pc[p] \in {"idle", "semget", "fault"} => i[p] = 0
  /\ pc[p] = "setval" => i[p] <= 2 * NumSlots
  /\ ~Early(p) /\ pc[p] # "store_numslots" => i[p] <= NumSlots

MasterType ==
  [master_shmid : Pool \cup {0}, master_semid : Pool \cup {0},
   numslots : {0, NumSlots}, used : [Slot -> BOOLEAN]]

KernelTypes ==
  /\ made \in 0 .. MaxPools
  /\ other \in BOOLEAN
  /\ setKey \in Pool \cup {None} /\ shmKey \in Pool \cup {None}
  /\ sem \in [Pool \cup {Other} -> [SemNum -> {0, 1}]]
  /\ master \in [Pool -> MasterType]
  /\ mapped \in [Pool -> SUBSET (Proc \cup {Lost})]
  /\ broken \subseteq Pool

LocalTypes ==
  /\ pc \in [Proc -> Label]
  /\ op \in [Proc -> {"init", "cleanup", "look", "write", "none"}]
  /\ pool \in [Proc -> Pool \cup {None}]
  /\ semid \in [Proc -> Pool \cup {0}]
  /\ i \in [Proc -> 0 .. 2 * NumSlots + 1]
  /\ \A p \in Proc : LocalOK(p)

Types == KernelTypes /\ LocalTypes

(* Pools are numbered in the order they are made, and there are never more *)
(* than MaxPools; only the set of the last one can still be there.         *)
Queued == {p \in Proc : pc[p] = "semget"}

Numbered ==
  /\ made + Cardinality(Queued) <= MaxPools
  /\ setKey \in {None, made} /\ shmKey <= made
  /\ \A p \in Proc : pool[p] <= made
  /\ \A g \in broken : g <= made
  /\ \A g \in Pool : g > made => master[g].master_semid = 0

(* A pool is made by one process. While it has no master nobody else knows *)
(* it; while its set is there, and its master not filled, so is its        *)
(* master.                                                                 *)
Makers ==
  /\ \A p, q \in Proc : Making(p) /\ Making(q) /\ pool[p] = pool[q] => p = q
  /\ \A p \in Proc : Unset(p) =>
       /\ setKey = pool[p] /\ shmKey # pool[p]
       /\ \A q \in Proc : pool[q] = pool[p] => q = p
  /\ \A p \in Proc : Early(p) =>
       /\ Semid(p) = 0 /\ pool[p] \notin broken
       /\ ~Unset(p) /\ setKey = pool[p] => shmKey = pool[p]
  /\ \A p \in Proc : pc[p] = "store_semid" => master[pool[p]].master_shmid = pool[p]
  /\ \A p \in Proc : Late(p) => Semid(p) = pool[p]

(* A master without the identifier of its set has no slots, one with it    *)
(* has its own as well. A set under the key is being made, has been left   *)
(* half made, or belongs to the master under the key; a master under the   *)
(* key without its set is about to be removed, or its set was the one with *)
(* the identifier 0.                                                       *)
Keys ==
  /\ \A g \in Pool :
       /\ master[g].master_semid \in {0, g} /\ master[g].master_shmid \in {0, g}
       /\ master[g].master_semid = 0 => master[g].numslots = 0
       /\ master[g].master_semid = g => master[g].master_shmid = g
  /\ \A g \in broken : master[g].master_semid = 0
  /\ setKey # None =>
       \/ \E p \in Proc : Early(p) /\ pool[p] = setKey
       \/ setKey \in broken
       \/ master[setKey].master_semid = setKey /\ shmKey = setKey
  /\ shmKey # None =>
       \/ setKey = shmKey
       \/ \E p \in Proc : pc[p] = "rm_master" /\ pool[p] = shmKey
       \/ shmKey = ZeroSet

(* The master lock of a pool has at most one holder, and it is free if it  *)
(* has none; a holder has the set of its own pool, until it removes it.    *)
Locks ==
  /\ \A p \in Proc : semid[p] # 0 => Semid(p) = pool[p]
  /\ \A p \in Proc : Holds(p) =>
       /\ SetOf(Semid(p)) = pool[p]
       /\ sem[pool[p]][MasterSem] = 0
       /\ (setKey = pool[p]) <=> (pc[p] # "rm_master")
  /\ \A p, q \in Proc : Holds(p) /\ Holds(q) /\ pool[p] = pool[q] => p = q
  /\ setKey # None =>
       \/ sem[setKey][MasterSem] = 1
       \/ \E p \in Proc : (Holds(p) \/ pc[p] = "setval") /\ pool[p] = setKey

(* What init has set stays set: the semaphores, but for the master lock,   *)
(* and numslots.                                                           *)
Values ==
  /\ \A p \in Proc : pc[p] = "setval" =>
       \A n \in SemNum : n < i[p] => sem[pool[p]][n] = Fresh(n)
  /\ \A g \in Pool : g <= made =>
       \/ \E p \in Proc : pc[p] = "setval" /\ pool[p] = g
       \/ \A n \in SemNum \ {MasterSem} : sem[g][n] = Fresh(n)
  /\ \A g \in Pool : master[g].master_semid = g =>
       \/ master[g].numslots = NumSlots
       \/ \E p \in Proc : pc[p] = "store_numslots" /\ pool[p] = g

PoolInv == Types /\ Numbered /\ Makers /\ Keys /\ Locks /\ Values
-----------------------------------------------------------------------------
(* Lemmas about the operators of the model.                                *)

(* A master full of zeros is a master.                                     *)
LEMMA BlankMaster ==
  /\ Blank \in MasterType
  /\ Blank.master_shmid = 0 /\ Blank.master_semid = 0 /\ Blank.numslots = 0
  BY DEF Blank, MasterType

(* So is a master with one field stored.                                   *)
LEMMA MasterStored ==
  ASSUME KernelTypes, NEW g \in Pool
  PROVE  /\ [master EXCEPT ![g].master_shmid = g] \in [Pool -> MasterType]
         /\ [master EXCEPT ![g].master_semid = g] \in [Pool -> MasterType]
         /\ \A v \in {0, NumSlots} :
              [master EXCEPT ![g].numslots = v] \in [Pool -> MasterType]
         /\ \A s \in Slot, v \in BOOLEAN :
              [master EXCEPT ![g].used[s] = v] \in [Pool -> MasterType]
  BY DEF KernelTypes, MasterType

(* A process past its search has a pool.                                   *)
LEMMA HasPool ==
  ASSUME Types, NEW p \in Proc, pc[p] \notin {"idle", "semget", "attach_master", "fault"}
  PROVE  pool[p] \in Pool /\ pool[p] # None
  BY DEF Types, LocalTypes, LocalOK

(* A call that returns forgets all it knew.                                *)
LEMMA ReturnTypes ==
  ASSUME LocalTypes, NEW p \in Proc, NEW l \in {"idle", "fault"}, Goto(p, l), Forget(p)
  PROVE  LocalTypes'
<1> USE LifecycleAssumption
<1>1. pc' \in [Proc -> Label]
  BY DEF LocalTypes, Goto, Label
<1>2. op' \in [Proc -> {"init", "cleanup", "look", "write", "none"}]
  BY DEF LocalTypes, Forget
<1>3. pool' \in [Proc -> Pool \cup {None}]
  BY DEF LocalTypes, Forget
<1>4. i' \in [Proc -> 0 .. 2 * NumSlots + 1] /\ semid' \in [Proc -> Pool \cup {0}]
  BY DEF LocalTypes, Forget
<1>5. ASSUME NEW q \in Proc PROVE LocalOK(q)'
  <2>1. CASE q = p
    BY <2>1 DEF LocalTypes, Goto, Forget, LocalOK, Early, Late, Making,
       EarlyLabel, LateLabel
  <2>2. CASE q # p
    BY <2>2 DEF LocalTypes, Goto, Forget, LocalOK, Early, Late, Making,
       EarlyLabel, LateLabel
  <2> QED BY <2>1, <2>2
<1> QED BY <1>1, <1>2, <1>3, <1>4, <1>5 DEF LocalTypes

(* A step that only moves a process on, outside the ends of its call.      *)
LEMMA GotoTypes ==
  ASSUME LocalTypes, NEW p \in Proc, NEW l \in Label, Goto(p, l), UNCHANGED <<op, pool, semid>>,
         i' \in [Proc -> 0 .. 2 * NumSlots + 1], \A q \in Proc \ {p} : i'[q] = i[q],
         pc[p] \in EarlyLabel \cup LateLabel <=> l \in EarlyLabel \cup LateLabel,
         l = "rm_master" => op[p] = "cleanup",
         pc[p] \notin {"idle", "semget", "attach_master", "fault"},
         l \notin {"idle", "semget", "attach_master", "fault"},
         l = "setval" => i'[p] <= 2 * NumSlots,
         l \in EarlyLabel \/ l = "store_numslots" \/ i'[p] <= NumSlots
  PROVE  LocalTypes'
<1>1. pc' \in [Proc -> Label] /\ \A q \in Proc : pc'[q] = IF q = p THEN l ELSE pc[q]
  BY DEF LocalTypes, Goto
<1>2. ASSUME NEW q \in Proc PROVE LocalOK(q)'
  <2>1. CASE q = p
    BY <1>1, <2>1 DEF LocalTypes, LocalOK, Early, Late, Making
  <2>2. CASE q # p
    BY <1>1, <2>2 DEF LocalTypes, LocalOK, Early, Late, Making
  <2> QED BY <2>1, <2>2
<1> QED BY <1>1, <1>2 DEF LocalTypes

(* Who waits for semget is counted.                                        *)
LEMMA QueuedFinite == IsFiniteSet(Queued) /\ Cardinality(Queued) \in Nat
  BY LifecycleAssumption, FS_Subset, FS_CardinalityType DEF Queued

(* There is room for the pool of an init that is about to make its set.    *)
LEMMA RoomForPool ==
  ASSUME Types, Numbered, NEW p \in Proc, pc[p] = "semget"
  PROVE  made < MaxPools
<1>1. Cardinality(Queued) \in Nat /\ Cardinality(Queued) # 0
  <2>1. p \in Queued
    BY DEF Queued
  <2> QED BY <2>1, QueuedFinite, FS_EmptySet
<1>2. made \in Nat /\ MaxPools \in Nat
  BY LifecycleAssumption DEF Types, KernelTypes
<1> QED BY <1>1, <1>2 DEF Numbered

(* Nobody new waits after a step that goes elsewhere.                      *)
LEMMA QueuedShrinks ==
  ASSUME Types, NEW p \in Proc, NEW l \in Label \ {"semget"}, Goto(p, l)
  PROVE  Cardinality(Queued)' <= Cardinality(Queued) /\ Cardinality(Queued)' \in Nat
<1>1. Queued' = Queued \ {p}
  BY DEF Queued, Goto, Types, LocalTypes
<1>2. /\ Cardinality(Queued \ {p}) <= Cardinality(Queued)
      /\ Cardinality(Queued \ {p}) \in Nat
  BY QueuedFinite, FS_Subset, FS_CardinalityType
<1> QED BY <1>1, <1>2

(* Writing in the table leaves the rest of a master alone.                 *)
LEMMA TableOnly ==
  ASSUME Types, NEW p \in Proc, EnterSlot(p) \/ FreeSlot(p) \/ ClearEntry(p)
  PROVE  \A g \in Pool : /\ master'[g].master_semid = master[g].master_semid
                         /\ master'[g].master_shmid = master[g].master_shmid
                         /\ master'[g].numslots = master[g].numslots
<1>1. ASSUME NEW h \in Pool, NEW s, NEW v, master' = [master EXCEPT ![h].used[s] = v]
      PROVE  \A g \in Pool : /\ master'[g].master_semid = master[g].master_semid
                             /\ master'[g].master_shmid = master[g].master_shmid
                             /\ master'[g].numslots = master[g].numslots
  BY <1>1 DEF Types, KernelTypes, MasterType
<1>2. pool[p] \in Pool
  BY HasPool DEF EnterSlot, FreeSlot, ClearEntry
<1>3. CASE EnterSlot(p)
  BY <1>1, <1>2, <1>3 DEF EnterSlot
<1>4. CASE FreeSlot(p)
  BY <1>1, <1>2, <1>4 DEF FreeSlot
<1>5. CASE ClearEntry(p)
  BY <1>1, <1>2, <1>5 DEF ClearEntry
<1> QED BY <1>3, <1>4, <1>5

(* Who gets the master lock gets it on the set of the pool it has found,   *)
(* also when it has read 0: the set with the identifier 0 is the first of  *)
(* all, and as long as it is there no other pool has been made.            *)
LEMMA LocksOwnSet ==
  ASSUME ZeroSet # Other, Types, Numbered, Keys, Locks,
         NEW p \in Proc, pc[p] = "semop", Alive(SetOf(semid[p]))
  PROVE  /\ SetOf(semid[p]) = pool[p] /\ setKey = pool[p]
         /\ SetOf(Semid(p)) = pool[p]
<1> USE LifecycleAssumption
<1>1. pool[p] \in Pool /\ pool[p] # None
  BY HasPool
<1>2. CASE semid[p] = pool[p]
  BY <1>1, <1>2 DEF Alive, SetOf, Locks, Pool, Other, None
<1>3. CASE semid[p] = 0
  <2>1. setKey = First /\ ZeroSet = First
    BY <1>3 DEF Alive, SetOf, None
  <2>2. made = 1
    BY <2>1 DEF Numbered, First, None
  <2>3. pool[p] = 1
    BY <1>1, <2>2 DEF Numbered, Pool
  <2> QED BY <1>1, <1>3, <2>1, <2>3 DEF SetOf, Keys, Semid, First
<1> QED BY <1>2, <1>3 DEF Types, LocalTypes, LocalOK

(* Who is in the table reaches the set of its pool.                        *)
LEMMA ReachesOwnSet ==
  ASSUME Types, Locks, NEW p \in Proc, pc[p] \in {"table", "unlock_master"}
  PROVE  /\ pool[p] \in Pool /\ pool[p] # None
         /\ Reached(p) /\ SetOf(Semid(p)) = pool[p] /\ setKey = pool[p]
         /\ sem[pool[p]][MasterSem] = 0
  BY HasPool DEF Locks, Holds, Reached, Alive

(* Cleanup removes the set of its own pool and nothing else.               *)
LEMMA RemovesOwnSet ==
  ASSUME Types, Locks, NEW p \in Proc, RemoveSet(p)
  PROVE  /\ pool[p] \in Pool /\ pool[p] # None /\ setKey = pool[p] /\ setKey' = None
         /\ pc[p] = "table" /\ pc' = [pc EXCEPT ![p] = "rm_master"]
         /\ UNCHANGED <<made, other, shmKey, mapped, broken, sem, master>>
         /\ UNCHANGED <<op, pool, semid, i>>
<1>1. pc[p] = "table"
  BY DEF RemoveSet
<1>2. /\ pool[p] \in Pool /\ pool[p] # None /\ Reached(p)
      /\ SetOf(Semid(p)) = pool[p] /\ setKey = pool[p]
  BY <1>1, ReachesOwnSet
<1>3. SetOf(Semid(p)) # Other /\ other \in BOOLEAN
  BY <1>2 DEF Pool, Other, Types, KernelTypes
<1>4. other' = other
  BY <1>3 DEF RemoveSet
<1> QED BY <1>1, <1>2, <1>4 DEF RemoveSet, Goto

(* The values stay what init has made them as long as only master locks    *)
(* change, and no init sets its semaphores or stores its numslots.         *)
LEMMA ValuesKept ==
  ASSUME Values, UNCHANGED made,
         \A q \in Proc : (pc'[q] = "setval") <=> (pc[q] = "setval"),
         \A q \in Proc : pc[q] = "setval" =>
             pool'[q] = pool[q] /\ i'[q] = i[q] /\ sem'[pool[q]] = sem[pool[q]],
         \A g \in Pool, n \in SemNum \ {MasterSem} : sem'[g][n] = sem[g][n],
         \A g \in Pool : master'[g].master_semid = g =>
             \/ master'[g].numslots = NumSlots
             \/ \E q \in Proc : pc'[q] = "store_numslots" /\ pool'[q] = g
  PROVE  Values'
<1>1. ASSUME NEW q \in Proc, pc'[q] = "setval", NEW n \in SemNum, n < i'[q]
      PROVE  sem'[pool'[q]][n] = Fresh(n)
  BY <1>1 DEF Values
<1>2. ASSUME NEW g \in Pool, g <= made'
      PROVE  \/ \E q \in Proc : pc'[q] = "setval" /\ pool'[q] = g
             \/ \A n \in SemNum \ {MasterSem} : sem'[g][n] = Fresh(n)
  BY <1>2 DEF Values
<1> QED BY <1>1, <1>2 DEF Values, Fresh

(* Every step keeps the types.                                             *)
LEMMA TypesNext ==
  ASSUME ZeroSet # Other
  PROVE  Types /\ Numbered /\ Keys /\ Locks /\ [Next]_vars => Types'
<1> SUFFICES ASSUME Types, Numbered, Keys, Locks, [Next]_vars PROVE Types'
  OBVIOUS
<1> USE LifecycleAssumption DEF Types
<1>1. ASSUME NEW p \in Proc, Begin(p) PROVE Types'
  <2>1. KernelTypes'
    BY <1>1, HasPool DEF Begin, KernelTypes, LocalTypes, LocalOK, Pool, None,
       SemNum, Slot, MasterSem, Semid, Reached, Locks, Holds, Attach, Detach,
       kernel, Making, Early, Late, EarlyLabel, LateLabel
  <2>2. LocalTypes'
    BY <1>1, ReturnTypes DEF Begin, Goto, Return, LocalTypes, LocalOK, Label,
       Making, Early, Late, EarlyLabel, LateLabel, KernelTypes
  <2> QED BY <2>1, <2>2
<1>2. ASSUME NEW p \in Proc, SemGet(p) PROVE Types'
  <2>1. KernelTypes'
    BY <1>2, HasPool, RoomForPool DEF SemGet, KernelTypes, LocalTypes,
       LocalOK, Pool, None, SemNum, Slot, MasterSem, Semid, Reached, Locks,
       Holds, Attach, Detach, kernel, Making, Early, Late, EarlyLabel, LateLabel
  <2>2. LocalTypes'
    <3>1. made' \in Pool
      BY <1>2, RoomForPool DEF SemGet, Pool, KernelTypes
    <3>2. ASSUME NEW q \in Proc PROVE LocalOK(q)'
      BY <1>2, <3>1 DEF SemGet, Goto, LocalTypes, LocalOK, Making, Early, Late,
         EarlyLabel, LateLabel, Pool, None
    <3> QED BY <1>2, <3>1, <3>2 DEF SemGet, Goto, LocalTypes, Label
  <2> QED BY <2>1, <2>2
<1>3. ASSUME NEW p \in Proc, SemGetFails(p) PROVE Types'
  <2>1. KernelTypes'
    BY <1>3, HasPool DEF SemGetFails, KernelTypes, LocalTypes, LocalOK, Pool,
       None, SemNum, Slot, MasterSem, Semid, Reached, Locks, Holds, Attach,
       Detach, kernel, Making, Early, Late, EarlyLabel, LateLabel
  <2>2. LocalTypes'
    BY <1>3, ReturnTypes DEF SemGetFails, Return
  <2> QED BY <2>1, <2>2
<1>4. ASSUME NEW p \in Proc, SetVal(p) PROVE Types'
  <2>1. KernelTypes'
    BY <1>4, HasPool DEF SetVal, KernelTypes, LocalTypes, LocalOK, Pool,
       None, SemNum, Slot, MasterSem, Semid, Reached, Locks, Holds, Attach,
       Detach, kernel, Making, Early, Late, EarlyLabel, LateLabel
  <2>2. LocalTypes'
    <3>1. i[p] \in 0 .. 2 * NumSlots /\ op[p] = "init" /\ pc[p] = "setval"
      BY <1>4 DEF SetVal, LocalTypes, LocalOK, Making, Early, EarlyLabel
    <3>2. i' \in [Proc -> 0 .. 2 * NumSlots + 1] /\ i'[p] = i[p] + 1
      BY <1>4, <3>1 DEF SetVal, LocalTypes
    <3>3. CASE i[p] = 2 * NumSlots
      BY <1>4, <3>1, <3>2, <3>3, GotoTypes DEF SetVal, Label, EarlyLabel,
         LateLabel, LocalTypes
    <3>4. CASE i[p] # 2 * NumSlots
      BY <1>4, <3>1, <3>2, <3>4, GotoTypes DEF SetVal, Label, EarlyLabel,
         LateLabel, LocalTypes
    <3> QED BY <3>3, <3>4
  <2> QED BY <2>1, <2>2
<1>5. ASSUME NEW p \in Proc, ShmGet(p) PROVE Types'
  <2>1. KernelTypes'
    BY <1>5, HasPool DEF ShmGet, KernelTypes, LocalTypes, LocalOK, Pool,
       None, SemNum, Slot, MasterSem, Semid, Reached, Locks, Holds, Attach,
       Detach, kernel, Making, Early, Late, EarlyLabel, LateLabel
  <2>2. LocalTypes'
    BY <1>5, GotoTypes DEF ShmGet, LocalTypes, LocalOK, Label, Making, Early,
       Late, EarlyLabel, LateLabel, KernelTypes, Goto
  <2> QED BY <2>1, <2>2
<1>6. ASSUME NEW p \in Proc, ShmGetFails(p) PROVE Types'
  <2>1. KernelTypes'
    BY <1>6, HasPool DEF ShmGetFails, KernelTypes, LocalTypes, LocalOK, Pool,
       None, SemNum, Slot, MasterSem, Semid, Reached, Locks, Holds, Attach,
       Detach, kernel, Making, Early, Late, EarlyLabel, LateLabel
  <2>2. LocalTypes'
    BY <1>6, ReturnTypes DEF ShmGetFails, Return
  <2> QED BY <2>1, <2>2
<1>7. ASSUME NEW p \in Proc, ShmAt(p) PROVE Types'
  <2>1. KernelTypes'
    BY <1>7, HasPool, BlankMaster DEF ShmAt, KernelTypes, LocalTypes,
       LocalOK, Pool, None, SemNum, Slot, MasterSem, Semid, Reached, Locks,
       Holds, Attach, Detach, kernel, Making, Early, Late, EarlyLabel, LateLabel
  <2>2. LocalTypes'
    BY <1>7, GotoTypes DEF ShmAt, LocalTypes, LocalOK, Label, Making, Early,
       Late, EarlyLabel, LateLabel, KernelTypes, Goto
  <2> QED BY <2>1, <2>2
<1>8. ASSUME NEW p \in Proc, ShmAtFails(p) PROVE Types'
  <2>1. KernelTypes'
    BY <1>8, HasPool DEF ShmAtFails, KernelTypes, LocalTypes, LocalOK, Pool,
       None, SemNum, Slot, MasterSem, Semid, Reached, Locks, Holds, Attach,
       Detach, kernel, Making, Early, Late, EarlyLabel, LateLabel
  <2>2. LocalTypes'
    BY <1>8, ReturnTypes DEF ShmAtFails, Return
  <2> QED BY <2>1, <2>2
<1>9. ASSUME NEW p \in Proc, StoreShmid(p) PROVE Types'
  <2>1. KernelTypes'
    BY <1>9, HasPool, MasterStored DEF StoreShmid, KernelTypes, kernel
  <2>2. LocalTypes'
    BY <1>9, GotoTypes DEF StoreShmid, LocalTypes, LocalOK, Label, Making,
       Early, Late, EarlyLabel, LateLabel, KernelTypes, Goto
  <2> QED BY <2>1, <2>2
<1>10. ASSUME NEW p \in Proc, StoreSemid(p) PROVE Types'
  <2>1. KernelTypes'
    BY <1>10, HasPool, MasterStored DEF StoreSemid, KernelTypes, kernel
  <2>2. LocalTypes'
    BY <1>10, GotoTypes DEF StoreSemid, LocalTypes, LocalOK, Label, Making,
       Early, Late, EarlyLabel, LateLabel, KernelTypes, Goto
  <2> QED BY <2>1, <2>2
<1>11. ASSUME NEW p \in Proc, StoreNumSlots(p) PROVE Types'
  <2>1. KernelTypes'
    BY <1>11, HasPool, MasterStored DEF StoreNumSlots, KernelTypes, kernel
  <2>2. LocalTypes'
    BY <1>11, GotoTypes DEF StoreNumSlots, Label, EarlyLabel, LateLabel,
       LocalTypes
  <2> QED BY <2>1, <2>2
<1>12. ASSUME NEW p \in Proc, ClearEntry(p) PROVE Types'
  <2>1. KernelTypes'
    <3>1. i[p] \in Slot
      BY <1>12 DEF ClearEntry, LocalTypes, Slot
    <3> QED BY <1>12, <3>1, HasPool, MasterStored DEF ClearEntry, KernelTypes,
       kernel
  <2>2. LocalTypes'
    BY <1>12, GotoTypes DEF ClearEntry, LocalTypes, LocalOK, Label, Making,
       Early, Late, EarlyLabel, LateLabel, KernelTypes, Goto
  <2> QED BY <2>1, <2>2
<1>13. ASSUME NEW p \in Proc, InitDone(p) PROVE Types'
  <2>1. KernelTypes'
    BY <1>13, HasPool DEF InitDone, KernelTypes, LocalTypes, LocalOK, Pool,
       None, SemNum, Slot, MasterSem, Semid, Reached, Locks, Holds, Attach,
       Detach, kernel, Making, Early, Late, EarlyLabel, LateLabel
  <2>2. LocalTypes'
    BY <1>13, ReturnTypes DEF InitDone, Return
  <2> QED BY <2>1, <2>2
<1>14. ASSUME NEW p \in Proc, FindMaster(p) PROVE Types'
  <2>1. KernelTypes'
    BY <1>14, HasPool DEF FindMaster, KernelTypes, LocalTypes, LocalOK, Pool,
       None, SemNum, Slot, MasterSem, Semid, Reached, Locks, Holds, Attach,
       Detach, kernel, Making, Early, Late, EarlyLabel, LateLabel
  <2>2. LocalTypes'
    <3>1. CASE shmKey = None
      BY <1>14, <3>1, ReturnTypes DEF FindMaster, Return
    <3>2. CASE shmKey # None
      <4>1. pc' = [pc EXCEPT ![p] = "shmat_master"] /\ pool' = [pool EXCEPT ![p] = shmKey]
        BY <1>14, <3>2 DEF FindMaster, Goto, Return
      <4>2. pc[p] = "attach_master" /\ UNCHANGED <<op, semid, i>> /\ shmKey \in Pool
        BY <1>14, <3>2 DEF FindMaster, KernelTypes
      <4>3. LocalOK(p)'
        BY <3>2, <4>1, <4>2 DEF LocalTypes, LocalOK, Making, Early, Late,
           EarlyLabel, LateLabel, None
      <4>4. ASSUME NEW q \in Proc \ {p} PROVE LocalOK(q)'
        BY <4>1, <4>2 DEF LocalTypes, LocalOK, Making, Early, Late
      <4> QED BY <4>1, <4>2, <4>3, <4>4 DEF LocalTypes, Label
    <3> QED BY <3>1, <3>2
  <2> QED BY <2>1, <2>2
<1>15. ASSUME NEW p \in Proc, AttachMaster(p) PROVE Types'
  <2>1. KernelTypes'
    BY <1>15, HasPool DEF AttachMaster, KernelTypes, LocalTypes, LocalOK,
       Pool, None, SemNum, Slot, MasterSem, Semid, Reached, Locks, Holds,
       Attach, Detach, kernel, Making, Early, Late, EarlyLabel, LateLabel
  <2>2. LocalTypes'
    BY <1>15, GotoTypes DEF AttachMaster, LocalTypes, LocalOK, Label, Making,
       Early, Late, EarlyLabel, LateLabel, KernelTypes, Goto
  <2> QED BY <2>1, <2>2
<1>16. ASSUME NEW p \in Proc, AttachMasterFault(p) PROVE Types'
  <2>1. KernelTypes'
    BY <1>16, HasPool DEF AttachMasterFault, KernelTypes, LocalTypes,
       LocalOK, Pool, None, SemNum, Slot, MasterSem, Semid, Reached, Locks,
       Holds, Attach, Detach, kernel, Making, Early, Late, EarlyLabel, LateLabel
  <2>2. LocalTypes'
    BY <1>16, ReturnTypes DEF AttachMasterFault, Return
  <2> QED BY <2>1, <2>2
<1>17. ASSUME NEW p \in Proc, CallSemop(p) PROVE Types'
  <2>1. pool[p] \in Pool /\ Semid(p) \in {0, pool[p]}
    BY <1>17, HasPool DEF CallSemop, Keys, Semid
  <2>2. semid' \in [Proc -> Pool \cup {0}] /\ semid'[p] \in {0, pool[p]}
    BY <1>17, <2>1 DEF CallSemop, LocalTypes
  <2>3. KernelTypes'
    BY <1>17 DEF CallSemop, KernelTypes, kernel
  <2>4. ASSUME NEW q \in Proc PROVE LocalOK(q)'
    BY <1>17, <2>2 DEF CallSemop, Goto, LocalTypes, LocalOK, Making, Early, Late,
       EarlyLabel, LateLabel
  <2> QED BY <1>17, <2>2, <2>3, <2>4 DEF CallSemop, Goto, LocalTypes, Label
<1>18. ASSUME NEW p \in Proc, LockMaster(p) PROVE Types'
  <2>1. KernelTypes'
    <3>1. SetOf(semid[p]) = pool[p] /\ pool[p] \in Pool
      BY <1>18, LocksOwnSet, HasPool DEF LockMaster
    <3> QED BY <1>18, <3>1 DEF LockMaster, KernelTypes, kernel, MasterSem, SemNum
  <2>2. LocalTypes'
    BY <1>18, GotoTypes DEF LockMaster, LocalTypes, LocalOK, Label, Making,
       Early, Late, EarlyLabel, LateLabel, KernelTypes, Goto
  <2> QED BY <2>1, <2>2
<1>19. ASSUME NEW p \in Proc, LockMasterFails(p) PROVE Types'
  <2>1. KernelTypes'
    BY <1>19, HasPool DEF LockMasterFails, KernelTypes, LocalTypes, LocalOK,
       Pool, None, SemNum, Slot, MasterSem, Semid, Reached, Locks, Holds,
       Attach, Detach, kernel, Making, Early, Late, EarlyLabel, LateLabel
  <2>2. LocalTypes'
    BY <1>19, ReturnTypes DEF LockMasterFails, Return
  <2> QED BY <2>1, <2>2
<1>20. ASSUME NEW p \in Proc, EnterSlot(p) PROVE Types'
  <2>1. KernelTypes'
    <3>1. \A s \in FreeEntries(pool[p]) : s \in Slot
      BY DEF FreeEntries
    <3>2. CASE UNCHANGED master
      BY <1>20, <3>2 DEF EnterSlot, KernelTypes, kernel
    <3>3. ASSUME NEW s \in Slot, master' = [master EXCEPT ![pool[p]].used[s] = TRUE]
          PROVE  KernelTypes'
      BY <1>20, <3>3, HasPool, MasterStored DEF EnterSlot, KernelTypes, kernel
    <3> QED BY <1>20, <3>1, <3>2, <3>3 DEF EnterSlot
  <2>2. LocalTypes'
    BY <1>20, GotoTypes DEF EnterSlot, LocalTypes, LocalOK, Label, Making,
       Early, Late, EarlyLabel, LateLabel, KernelTypes, Goto
  <2> QED BY <2>1, <2>2
<1>21. ASSUME NEW p \in Proc, Look(p) PROVE Types'
  <2>1. KernelTypes'
    BY <1>21, HasPool DEF Look, KernelTypes, LocalTypes, LocalOK, Pool, None,
       SemNum, Slot, MasterSem, Semid, Reached, Locks, Holds, Attach, Detach,
       kernel, Making, Early, Late, EarlyLabel, LateLabel
  <2>2. LocalTypes'
    BY <1>21, GotoTypes DEF Look, LocalTypes, LocalOK, Label, Making, Early,
       Late, EarlyLabel, LateLabel, KernelTypes, Goto
  <2> QED BY <2>1, <2>2
<1>22. ASSUME NEW p \in Proc, UnlockMaster(p) PROVE Types'
  <2>1. KernelTypes'
    BY <1>22, ReachesOwnSet DEF UnlockMaster, KernelTypes, Detach, SemNum, MasterSem
  <2>2. LocalTypes'
    BY <1>22, ReturnTypes DEF UnlockMaster, Return
  <2> QED BY <2>1, <2>2
<1>23. ASSUME NEW p \in Proc, FreeSlot(p) PROVE Types'
  <2>1. KernelTypes'
    <3>1. i[p] \in Slot
      <4>1. master[pool[p]].numslots \in {0, NumSlots}
        BY <1>23, HasPool DEF FreeSlot, KernelTypes, MasterType
      <4>2. i[p] \in Nat /\ i[p] < master[pool[p]].numslots
        BY <1>23 DEF FreeSlot, LocalTypes
      <4> QED BY <4>1, <4>2 DEF Slot
    <3> QED BY <1>23, <3>1, HasPool, MasterStored DEF FreeSlot, KernelTypes,
       kernel
  <2>2. LocalTypes'
    <3>1. master[pool[p]].numslots \in {0, NumSlots} /\ i[p] \in Nat
      BY <1>23, HasPool DEF FreeSlot, KernelTypes, MasterType, LocalTypes
    <3>2. i[p] < NumSlots
      BY <1>23, <3>1 DEF FreeSlot
    <3>3. i' \in [Proc -> 0 .. 2 * NumSlots + 1] /\ i'[p] <= NumSlots
      BY <1>23, <3>1, <3>2 DEF FreeSlot, LocalTypes
    <3>4. Goto(p, "table")
      BY <1>23 DEF FreeSlot, Goto, LocalTypes
    <3> QED BY <1>23, <3>3, <3>4, GotoTypes DEF FreeSlot, Label, LocalTypes,
       EarlyLabel, LateLabel
  <2> QED BY <2>1, <2>2
<1>24. ASSUME NEW p \in Proc, RemoveSet(p) PROVE Types'
  <2>1. KernelTypes'
    BY <1>24, ReachesOwnSet DEF RemoveSet, KernelTypes, None
  <2>2. LocalTypes'
    BY <1>24, GotoTypes, ReachesOwnSet DEF RemoveSet, LocalTypes, LocalOK, Label,
       Making, Early, Late, EarlyLabel, LateLabel, KernelTypes, Goto
  <2> QED BY <2>1, <2>2
<1>25. ASSUME NEW p \in Proc, RemoveMaster(p) PROVE Types'
  <2>1. KernelTypes'
    BY <1>25, HasPool DEF RemoveMaster, KernelTypes, LocalTypes, LocalOK,
       Pool, None, SemNum, Slot, MasterSem, Semid, Reached, Locks, Holds,
       Attach, Detach, kernel, Making, Early, Late, EarlyLabel, LateLabel
  <2>2. LocalTypes'
    BY <1>25, ReturnTypes DEF RemoveMaster, Return
  <2> QED BY <2>1, <2>2
<1>26. ASSUME NEW p \in Proc, RemoveMasterFails(p) PROVE Types'
  <2>1. KernelTypes'
    BY <1>26, HasPool DEF RemoveMasterFails, KernelTypes, Forsake
  <2>2. LocalTypes'
    BY <1>26, ReturnTypes DEF RemoveMasterFails, Return
  <2> QED BY <2>1, <2>2
<1>27. ASSUME UNCHANGED vars PROVE Types'
  BY <1>27 DEF vars, kernel, KernelTypes, LocalTypes, LocalOK, Making, Early,
     Late, EarlyLabel, LateLabel
<1> QED BY <1>1, <1>2, <1>3, <1>4, <1>5, <1>6, <1>7, <1>8, <1>9, <1>10,
   <1>11, <1>12, <1>13, <1>14, <1>15, <1>16, <1>17, <1>18, <1>19, <1>20,
   <1>21, <1>22, <1>23, <1>24, <1>25, <1>26, <1>27 DEF Next, Step

(* Every step keeps the numbers.                                           *)
LEMMA NumberedNext == Types /\ Numbered /\ Makers /\ Locks /\ [Next]_vars => Numbered'
<1> SUFFICES ASSUME Types, Numbered, Makers, Locks, [Next]_vars PROVE Numbered'
  OBVIOUS
<1> USE LifecycleAssumption DEF kernel
<1>1. ASSUME NEW p \in Proc, Begin(p) PROVE Numbered'
  <2>1. CASE UNCHANGED Queued
    BY <1>1, <2>1 DEF Begin, Numbered
  <2>2. CASE op' = [op EXCEPT ![p] = "init"] /\ Goto(p, "semget")
    <3> DEFINE I == {q \in Proc : op[q] = "init"}
    <3>1. IsFiniteSet(I) /\ Cardinality(I) \in Nat
      BY FS_Subset, FS_CardinalityType
    <3> HIDE DEF I
    <3>2. IsFiniteSet(I \cup {p}) /\ Cardinality(I \cup {p}) <= Cardinality(I) + 1
      <4>1. /\ IsFiniteSet(I \cup {p})
            /\ Cardinality(I \cup {p}) =
                 IF p \in I THEN Cardinality(I) ELSE Cardinality(I) + 1
        BY <3>1, FS_AddElement, Zenon
      <4> QED BY <3>1, <4>1
    <3>3. Queued' \subseteq I \cup {p}
      BY <2>2 DEF Queued, Goto, Types, LocalTypes, LocalOK, I
    <3>4. Cardinality(Queued') <= Cardinality(I) + 1 /\ Cardinality(Queued') \in Nat
      BY <3>1, <3>2, <3>3, FS_Subset, FS_CardinalityType
    <3>5. made + Cardinality(I) < MaxPools
      BY <1>1, <2>2 DEF Begin, Types, LocalTypes, I
    <3>6. made + Cardinality(Queued') <= MaxPools
      BY <3>1, <3>4, <3>5 DEF Types, KernelTypes
    <3> QED BY <1>1, <3>6 DEF Begin, Numbered
  <2>3. ASSUME NEW o \in Call[p], o # "init", Goto(p, "attach_master") PROVE UNCHANGED Queued
    BY <1>1, <2>3 DEF Begin, Goto, Queued, Types, LocalTypes
  <2> QED BY <1>1, <2>1, <2>2, <2>3 DEF Begin
<1>2. ASSUME NEW p \in Proc, SemGet(p) PROVE Numbered'
  <2>1. Queued' = Queued \ {p} /\ p \in Queued
    BY <1>2 DEF SemGet, Goto, Queued, Types, LocalTypes
  <2>2. Cardinality(Queued') = Cardinality(Queued) - 1 /\ Cardinality(Queued) \in Nat
    BY <2>1, QueuedFinite, FS_RemoveElement
  <2>3. made' = made + 1 /\ made \in Nat
    BY <1>2 DEF SemGet, Types, KernelTypes
  <2>4. made' + Cardinality(Queued)' <= MaxPools
    BY <2>2, <2>3 DEF Numbered
  <2>5. \A q \in Proc : pool'[q] <= made'
    BY <1>2, <2>3 DEF SemGet, Numbered, Types, LocalTypes, Pool, None
  <2>6. setKey' = made' /\ shmKey' <= made' /\ \A g \in broken' : g <= made'
    BY <1>2, <2>3 DEF SemGet, Numbered, Types, KernelTypes, Pool, None
  <2>7. \A g \in Pool : g > made' => master'[g].master_semid = 0
    BY <1>2, <2>3 DEF SemGet, Numbered, Pool
  <2> QED BY <2>4, <2>5, <2>6, <2>7 DEF Numbered
<1>3. ASSUME NEW p \in Proc, SemGetFails(p) PROVE Numbered'
  <2>1. Cardinality(Queued)' <= Cardinality(Queued) /\ Cardinality(Queued)' \in Nat
    BY <1>3, QueuedShrinks, QueuedFinite DEF SemGetFails, Return, Goto,
       Label, Queued, Types, LocalTypes
  <2> QED BY <1>3, <2>1, QueuedFinite DEF SemGetFails, Return, Forget, Numbered,
     Types, KernelTypes, LocalTypes, Label, Pool, None, Semid
<1>4. ASSUME NEW p \in Proc, SetVal(p) PROVE Numbered'
  <2>1. Cardinality(Queued)' <= Cardinality(Queued) /\ Cardinality(Queued)' \in Nat
    BY <1>4, QueuedShrinks DEF SetVal, Return, Label
  <2> QED BY <1>4, <2>1, QueuedFinite DEF SetVal, Return, Forget, Numbered,
     Types,
     KernelTypes, LocalTypes, Label, Pool, None, Semid
<1>5. ASSUME NEW p \in Proc, ShmGet(p) PROVE Numbered'
  <2>1. Cardinality(Queued)' <= Cardinality(Queued) /\ Cardinality(Queued)' \in Nat
    BY <1>5, QueuedShrinks DEF ShmGet, Return, Label
  <2> QED BY <1>5, <2>1, QueuedFinite DEF ShmGet, Return, Forget, Numbered,
     Types,
     KernelTypes, LocalTypes, Label, Pool, None, Semid
<1>6. ASSUME NEW p \in Proc, ShmGetFails(p) PROVE Numbered'
  <2>1. Cardinality(Queued)' <= Cardinality(Queued) /\ Cardinality(Queued)' \in Nat
    BY <1>6, QueuedShrinks, QueuedFinite DEF ShmGetFails, Return, Goto,
       Label, Queued, Types, LocalTypes
  <2> QED BY <1>6, <2>1, QueuedFinite DEF ShmGetFails, Return, Forget, Numbered,
     Types, KernelTypes, LocalTypes, Label, Pool, None, Semid
<1>7. ASSUME NEW p \in Proc, ShmAt(p) PROVE Numbered'
  <2>1. Cardinality(Queued)' <= Cardinality(Queued) /\ Cardinality(Queued)' \in Nat
    BY <1>7, QueuedShrinks DEF ShmAt, Return, Label
  <2> QED BY <1>7, <2>1, QueuedFinite DEF ShmAt, Return, Forget, Numbered,
     Types,
     KernelTypes, LocalTypes, Label, Pool, None, Semid
<1>8. ASSUME NEW p \in Proc, ShmAtFails(p) PROVE Numbered'
  <2>1. Cardinality(Queued)' <= Cardinality(Queued) /\ Cardinality(Queued)' \in Nat
    BY <1>8, QueuedShrinks DEF ShmAtFails, Return, Label
  <2> QED BY <1>8, <2>1, QueuedFinite DEF ShmAtFails, Return, Forget, Numbered,
     Types, KernelTypes, LocalTypes, Label, Pool, None, Semid
<1>9. ASSUME NEW p \in Proc, StoreShmid(p) PROVE Numbered'
  <2>1. Cardinality(Queued)' <= Cardinality(Queued) /\ Cardinality(Queued)' \in Nat
    BY <1>9, QueuedShrinks DEF StoreShmid, Return, Label
  <2>2. pool[p] \in Pool
    BY <1>9, HasPool DEF StoreShmid
  <2>3. \A g \in Pool : master'[g].master_semid = master[g].master_semid
    BY <1>9, <2>2 DEF StoreShmid, Types, KernelTypes, MasterType
  <2>4. made + Cardinality(Queued)' <= MaxPools
    BY <2>1, QueuedFinite DEF Numbered, Types, KernelTypes
  <2> QED BY <1>9, <2>3, <2>4 DEF StoreShmid, Numbered
<1>10. ASSUME NEW p \in Proc, StoreSemid(p) PROVE Numbered'
  <2>1. Cardinality(Queued)' <= Cardinality(Queued) /\ Cardinality(Queued)' \in Nat
    BY <1>10, QueuedShrinks DEF StoreSemid, Return, Label
  <2>2. pool[p] \in Pool /\ pool[p] <= made
    BY <1>10, HasPool DEF StoreSemid, Numbered
  <2>3. \A g \in Pool : g > made => master'[g].master_semid = 0
    BY <1>10, <2>2 DEF StoreSemid, Numbered, Pool, Types, KernelTypes, MasterType
  <2>4. made + Cardinality(Queued)' <= MaxPools
    BY <2>1, QueuedFinite DEF Numbered, Types, KernelTypes
  <2> QED BY <1>10, <2>3, <2>4 DEF StoreSemid, Numbered
<1>11. ASSUME NEW p \in Proc, StoreNumSlots(p) PROVE Numbered'
  <2>1. Cardinality(Queued)' <= Cardinality(Queued) /\ Cardinality(Queued)' \in Nat
    BY <1>11, QueuedShrinks, QueuedFinite DEF StoreNumSlots, Return, Goto,
       Label, Queued, Types, LocalTypes
  <2> QED BY <1>11, <2>1, QueuedFinite DEF StoreNumSlots, Return, Forget,
     Numbered,
     Types, KernelTypes, LocalTypes, Label, Pool, None, Semid
<1>12. ASSUME NEW p \in Proc, ClearEntry(p) PROVE Numbered'
  <2>1. Cardinality(Queued)' <= Cardinality(Queued) /\ Cardinality(Queued)' \in Nat
    BY <1>12, QueuedFinite DEF ClearEntry, Queued
  <2> QED BY <1>12, <2>1, QueuedFinite DEF ClearEntry, Return, Forget, Numbered,
     Types, KernelTypes, LocalTypes, Label, Pool, None, Semid
<1>13. ASSUME NEW p \in Proc, InitDone(p) PROVE Numbered'
  <2>1. Cardinality(Queued)' <= Cardinality(Queued) /\ Cardinality(Queued)' \in Nat
    BY <1>13, QueuedShrinks DEF InitDone, Return, Label
  <2> QED BY <1>13, <2>1, QueuedFinite DEF InitDone, Return, Forget, Numbered,
     Types,
     KernelTypes, LocalTypes, Label, Pool, None, Semid
<1>14. ASSUME NEW p \in Proc, FindMaster(p) PROVE Numbered'
  <2>1. Cardinality(Queued)' <= Cardinality(Queued) /\ Cardinality(Queued)' \in Nat
    BY <1>14, QueuedShrinks, QueuedFinite DEF FindMaster, Return, Goto,
       Label, Queued, Types, LocalTypes
  <2>2. \A q \in Proc : pool'[q] <= made
    BY <1>14 DEF FindMaster, Return, Forget, Numbered, Types, LocalTypes,
       KernelTypes, Pool, None
  <2>3. made + Cardinality(Queued)' <= MaxPools
    BY <2>1, QueuedFinite DEF Numbered, Types, KernelTypes
  <2> QED BY <1>14, <2>2, <2>3 DEF FindMaster, Numbered
<1>15. ASSUME NEW p \in Proc, AttachMaster(p) PROVE Numbered'
  <2>1. Cardinality(Queued)' <= Cardinality(Queued) /\ Cardinality(Queued)' \in Nat
    BY <1>15, QueuedShrinks, QueuedFinite DEF AttachMaster, Return, Goto,
       Label, Queued, Types, LocalTypes
  <2> QED BY <1>15, <2>1, QueuedFinite DEF AttachMaster, Return, Forget,
     Numbered,
     Types, KernelTypes, LocalTypes, Label, Pool, None, Semid
<1>16. ASSUME NEW p \in Proc, AttachMasterFault(p) PROVE Numbered'
  <2>1. Cardinality(Queued)' <= Cardinality(Queued) /\ Cardinality(Queued)' \in Nat
    BY <1>16, QueuedShrinks, QueuedFinite DEF AttachMasterFault, Return,
       Goto, Label, Queued, Types, LocalTypes
  <2> QED BY <1>16, <2>1, QueuedFinite DEF AttachMasterFault, Return, Forget,
     Numbered, Types, KernelTypes, LocalTypes, Label, Pool, None, Semid
<1>17. ASSUME NEW p \in Proc, CallSemop(p) PROVE Numbered'
  <2>1. Cardinality(Queued)' <= Cardinality(Queued) /\ Cardinality(Queued)' \in Nat
    BY <1>17, QueuedShrinks, QueuedFinite DEF CallSemop, Return, Goto,
       Label, Queued, Types, LocalTypes
  <2> QED BY <1>17, <2>1, QueuedFinite DEF CallSemop, Return, Forget, Numbered,
     Types, KernelTypes, LocalTypes, Label, Pool, None, Semid
<1>18. ASSUME NEW p \in Proc, LockMaster(p) PROVE Numbered'
  <2>1. Cardinality(Queued)' <= Cardinality(Queued) /\ Cardinality(Queued)' \in Nat
    BY <1>18, QueuedShrinks, QueuedFinite DEF LockMaster, Return, Goto,
       Label, Queued, Types, LocalTypes
  <2> QED BY <1>18, <2>1, QueuedFinite DEF LockMaster, Return, Forget, Numbered,
     Types, KernelTypes, LocalTypes, Label, Pool, None, Semid
<1>19. ASSUME NEW p \in Proc, LockMasterFails(p) PROVE Numbered'
  <2>1. Cardinality(Queued)' <= Cardinality(Queued) /\ Cardinality(Queued)' \in Nat
    BY <1>19, QueuedShrinks, QueuedFinite DEF LockMasterFails, Return, Goto,
       Label, Queued, Types, LocalTypes
  <2> QED BY <1>19, <2>1, QueuedFinite DEF LockMasterFails, Return, Forget,
     Numbered,
     Types, KernelTypes, LocalTypes, Label, Pool, None, Semid
<1>20. ASSUME NEW p \in Proc, EnterSlot(p) PROVE Numbered'
  <2>1. Cardinality(Queued)' <= Cardinality(Queued) /\ Cardinality(Queued)' \in Nat
    BY <1>20, QueuedShrinks DEF EnterSlot, Return, Label
  <2>2. \A g \in Pool : master'[g].master_semid = master[g].master_semid
    BY <1>20, TableOnly
  <2>3. made + Cardinality(Queued)' <= MaxPools
    BY <2>1, QueuedFinite DEF Numbered, Types, KernelTypes
  <2> QED BY <1>20, <2>2, <2>3 DEF EnterSlot, Numbered
<1>21. ASSUME NEW p \in Proc, Look(p) PROVE Numbered'
  <2>1. Cardinality(Queued)' <= Cardinality(Queued) /\ Cardinality(Queued)' \in Nat
    BY <1>21, QueuedShrinks DEF Look, Return, Label
  <2> QED BY <1>21, <2>1, QueuedFinite DEF Look, Return, Forget, Numbered,
     Types,
     KernelTypes, LocalTypes, Label, Pool, None, Semid
<1>22. ASSUME NEW p \in Proc, UnlockMaster(p) PROVE Numbered'
  <2>1. Cardinality(Queued)' <= Cardinality(Queued) /\ Cardinality(Queued)' \in Nat
    BY <1>22, QueuedShrinks, QueuedFinite DEF UnlockMaster, Return, Goto,
       Label, Queued, Types, LocalTypes
  <2> QED BY <1>22, <2>1, QueuedFinite DEF UnlockMaster, Return, Forget,
     Numbered,
     Types, KernelTypes, LocalTypes, Label, Pool, None, Semid
<1>23. ASSUME NEW p \in Proc, FreeSlot(p) PROVE Numbered'
  <2>1. Cardinality(Queued)' <= Cardinality(Queued) /\ Cardinality(Queued)' \in Nat
    BY <1>23, QueuedFinite DEF FreeSlot, Queued
  <2> QED BY <1>23, <2>1, QueuedFinite DEF FreeSlot, Return, Forget, Numbered,
     Types,
     KernelTypes, LocalTypes, Label, Pool, None, Semid
<1>24. ASSUME NEW p \in Proc, RemoveSet(p) PROVE Numbered'
  <2>1. Cardinality(Queued)' <= Cardinality(Queued) /\ Cardinality(Queued)' \in Nat
    <3>1. Goto(p, "rm_master") /\ "rm_master" \in Label \ {"semget"}
      BY <1>24, RemovesOwnSet DEF Goto, Label
    <3> QED BY <3>1, QueuedShrinks
  <2>2. UNCHANGED <<made, shmKey, broken, master, pool>> /\ setKey' = None
    BY <1>24, RemovesOwnSet
  <2> QED BY <2>1, <2>2, QueuedFinite DEF Numbered, Types, KernelTypes
<1>25. ASSUME NEW p \in Proc, RemoveMaster(p) PROVE Numbered'
  <2>1. Cardinality(Queued)' <= Cardinality(Queued) /\ Cardinality(Queued)' \in Nat
    BY <1>25, QueuedShrinks, QueuedFinite DEF RemoveMaster, Return, Goto,
       Label, Queued, Types, LocalTypes
  <2> QED BY <1>25, <2>1, QueuedFinite DEF RemoveMaster, Return, Forget,
     Numbered,
     Types, KernelTypes, LocalTypes, Label, Pool, None, Semid
<1>26. ASSUME NEW p \in Proc, RemoveMasterFails(p) PROVE Numbered'
  <2>1. Cardinality(Queued)' <= Cardinality(Queued) /\ Cardinality(Queued)' \in Nat
    BY <1>26, QueuedShrinks, QueuedFinite DEF RemoveMasterFails, Return, Goto,
       Label, Queued, Types, LocalTypes
  <2> QED BY <1>26, <2>1, QueuedFinite DEF RemoveMasterFails, Return, Forget,
     Numbered,
     Types, KernelTypes, LocalTypes, Label, Pool, None, Semid
<1>27. ASSUME UNCHANGED vars PROVE Numbered'
  BY <1>27 DEF vars, Numbered, Queued
<1> QED BY <1>1, <1>2, <1>3, <1>4, <1>5, <1>6, <1>7, <1>8, <1>9, <1>10,
   <1>11, <1>12, <1>13, <1>14, <1>15, <1>16, <1>17, <1>18, <1>19, <1>20,
   <1>21, <1>22, <1>23, <1>24, <1>25, <1>26, <1>27 DEF Next, Step

(* A step away from where init and the holder of the lock do their work    *)
(* disturbs none of the invariants about them.                             *)
LEMMA Aside ==
  ASSUME Types, Makers, Keys, Locks, Values,
         UNCHANGED <<made, setKey, shmKey, broken, sem>>,
         \A g \in Pool : /\ master'[g].master_semid = master[g].master_semid
                        /\ master'[g].master_shmid = master[g].master_shmid
                        /\ master'[g].numslots = master[g].numslots,
         \A q \in Proc : Making(q)' \/ Early(q) \/ pc[q] = "store_numslots" =>
             pc'[q] = pc[q] /\ pool'[q] = pool[q],
         \A q \in Proc : pool'[q] \in {None, pool[q], shmKey},
         \A q \in Proc : pc'[q] = "setval" => i'[q] = i[q],
         \A q \in Proc : semid'[q] # 0 =>
             /\ pool'[q] = pool[q] /\ pool[q] \in Pool
             /\ semid[q] # 0 \/ Semid(q) # 0,
         \A q \in Proc : Holds(q)' \/ Holds(q) =>
             /\ Holds(q)' /\ Holds(q) /\ pool'[q] = pool[q]
             /\ pc'[q] = "rm_master" <=> pc[q] = "rm_master"
  PROVE  Makers' /\ Keys' /\ Locks' /\ Values'
<1> USE DEF Making, Early, Late, Unset, EarlyLabel, LateLabel, UnsetLabel, Holds
<1>1. \A q \in Proc : Making(q) \/ Holds(q) => pool[q] \in Pool /\ pool[q] # None
  BY HasPool
<1>2. \A q \in Proc : Making(q)' => Making(q) /\ pc'[q] = pc[q] /\ pool'[q] = pool[q]
  OBVIOUS
<1>3. \A q \in Proc : Making(q)' \/ Holds(q)' =>
        /\ Semid(q)' = Semid(q)
        /\ master'[pool'[q]].master_shmid = master[pool[q]].master_shmid
  BY <1>1, <1>2 DEF Semid
<1>4. Makers'
  <2>1. \A q, r \in Proc : Unset(q)' /\ pool'[r] = pool'[q] => r = q
    BY <1>1, <1>2 DEF Makers
  <2>2. (\A q \in Proc : Early(q) =>
           /\ Semid(q) = 0 /\ pool[q] \notin broken
           /\ ~Unset(q) /\ setKey = pool[q] => shmKey = pool[q])'
    BY <1>1, <1>2, <1>3 DEF Makers
  <2> QED BY <1>1, <1>2, <1>3, <2>1, <2>2 DEF Makers
<1>5. Keys'
  BY <1>1, <1>2 DEF Keys, Types, KernelTypes, Pool, None
<1>6. Locks'
  <2>1. (\A q \in Proc : semid[q] # 0 => Semid(q) = pool[q])'
    BY DEF Locks, Keys, Semid
  <2>2. (\A q \in Proc : Holds(q) =>
           /\ SetOf(Semid(q)) = pool[q]
           /\ sem[pool[q]][MasterSem] = 0
           /\ (setKey = pool[q]) <=> (pc[q] # "rm_master"))'
    BY <1>1, <1>3 DEF Locks, SetOf
  <2>3. (\A q, r \in Proc : Holds(q) /\ Holds(r) /\ pool[q] = pool[r] => q = r)'
    BY DEF Locks
  <2>4. (setKey # None =>
           \/ sem[setKey][MasterSem] = 1
           \/ \E q \in Proc : (Holds(q) \/ pc[q] = "setval") /\ pool[q] = setKey)'
    BY DEF Locks, Types, KernelTypes
  <2> QED BY <2>1, <2>2, <2>3, <2>4 DEF Locks
<1>7. Values'
  <2>1. (\A q \in Proc : pc[q] = "setval" =>
           \A n \in SemNum : n < i[q] => sem[pool[q]][n] = Fresh(n))'
    BY <1>2 DEF Values, Fresh
  <2>2. ASSUME NEW g \in Pool, g <= made
        PROVE  \/ \E q \in Proc : pc'[q] = "setval" /\ pool'[q] = g
               \/ \A n \in SemNum \ {MasterSem} : sem'[g][n] = Fresh(n)
    BY <2>2 DEF Values
  <2>3. ASSUME NEW g \in Pool, master'[g].master_semid = g
        PROVE  \/ master'[g].numslots = NumSlots
               \/ \E q \in Proc : pc'[q] = "store_numslots" /\ pool'[q] = g
    BY <2>3 DEF Values
  <2> QED BY <2>1, <2>2, <2>3 DEF Values, Fresh
<1> QED BY <1>4, <1>5, <1>6, <1>7

(* Every step keeps the rest of the invariant.                             *)
LEMMA SharedNext ==
  ASSUME ZeroSet # Other
  PROVE  PoolInv /\ [Next]_vars => Makers' /\ Keys' /\ Locks' /\ Values'
<1> SUFFICES ASSUME PoolInv, [Next]_vars PROVE Makers' /\ Keys' /\ Locks' /\ Values'
  OBVIOUS
<1> USE LifecycleAssumption DEF PoolInv, Types, Goto, Return, Forget, kernel
<1>1. ASSUME NEW p \in Proc, Begin(p) PROVE Makers' /\ Keys' /\ Locks' /\ Values'
  BY <1>1, Aside DEF Begin, Types, LocalTypes, LocalOK, Making, Early, Late,
     EarlyLabel, LateLabel, Holds
<1>2. ASSUME NEW p \in Proc, SemGet(p) PROVE Makers' /\ Keys' /\ Locks' /\ Values'
  <2>1. made' \in Pool /\ made' = made + 1 /\ made \in Nat
    BY <1>2, RoomForPool DEF SemGet, Pool, KernelTypes
  <2>2. (\A q \in Proc : pool[q] # made') /\ made' \notin broken /\ shmKey # made'
    BY <2>1 DEF KernelTypes, LocalTypes, Pool, None, Numbered
  <2>3. master[made'].master_semid = 0
    BY <2>1 DEF Pool, Numbered
  <2>4. /\ pc[p] = "semget" /\ pc' = [pc EXCEPT ![p] = "setval"]
        /\ pool' = [pool EXCEPT ![p] = made']
        /\ setKey = None /\ setKey' = made' /\ i[p] = 0
        /\ UNCHANGED <<shmKey, mapped, broken, sem, master, op, semid, i>>
    BY <1>2 DEF SemGet, LocalTypes, LocalOK
  <2>5. \A q \in Proc \ {p} : pc'[q] = pc[q] /\ pool'[q] = pool[q] /\ pool[q] # made'
    BY <2>2, <2>4 DEF LocalTypes
  <2>6. pc'[p] = "setval" /\ pool'[p] = made'
    BY <2>4 DEF LocalTypes
  <2>7. Makers'
    <3>1. \A q \in Proc : Making(q) => setKey # pool[q] /\ ~Unset(q)
      BY <2>4, HasPool DEF Makers, Making, Unset, Early, Late, EarlyLabel,
         LateLabel, UnsetLabel
    <3>2. \A q \in Proc \ {p} : (Making(q)' <=> Making(q)) /\ Semid(q)' = Semid(q)
      BY <2>4, <2>5 DEF Making, Early, Late, EarlyLabel, LateLabel, Semid
    <3>3. Semid(p)' = 0
      BY <2>3, <2>4, <2>6 DEF Semid
    <3> QED BY <2>2, <2>3, <2>4, <2>5, <2>6, <3>1, <3>2, <3>3 DEF Makers, Making, Unset,
         Early, Late, EarlyLabel, LateLabel, UnsetLabel
  <2>8. Keys'
    BY <2>1, <2>2, <2>3, <2>4, <2>5, <2>6 DEF Keys, Early, EarlyLabel
  <2>9. Locks'
    <3>1. \A q \in Proc : semid[q] # 0 => q # p
      BY <2>4 DEF LocalTypes, LocalOK, None
    <3>2. \A q \in Proc : Holds(q)' => /\ Holds(q) /\ q # p /\ pc[q] = "rm_master"
                                      /\ pool[q] # None
      BY <2>4, <2>5, <2>6, HasPool DEF Locks, Holds
    <3> QED BY <2>2, <2>4, <2>5, <2>6, <3>1, <3>2 DEF Locks, Semid, Holds
  <2>10. Values'
    <3>1. ASSUME NEW q \in Proc, pc'[q] = "setval", NEW n \in SemNum, n < i'[q]
          PROVE  sem'[pool'[q]][n] = Fresh(n)
      BY <2>4, <2>5, <3>1 DEF Values, SemNum
    <3>2. ASSUME NEW g \in Pool, g <= made'
          PROVE  \/ \E q \in Proc : pc'[q] = "setval" /\ pool'[q] = g
                 \/ \A n \in SemNum \ {MasterSem} : sem'[g][n] = Fresh(n)
      <4>1. g = made' \/ g <= made
        BY <2>1, <3>2 DEF Pool
      <4> QED BY <2>4, <2>5, <2>6, <4>1 DEF Values
    <3>3. ASSUME NEW g \in Pool, master'[g].master_semid = g
          PROVE  \/ master'[g].numslots = NumSlots
                 \/ \E q \in Proc : pc'[q] = "store_numslots" /\ pool'[q] = g
      BY <2>4, <2>5, <3>3 DEF Values
    <3> QED BY <3>1, <3>2, <3>3 DEF Values, Fresh
  <2> QED BY <2>7, <2>8, <2>9, <2>10
<1>3. ASSUME NEW p \in Proc, SemGetFails(p) PROVE Makers' /\ Keys' /\ Locks' /\ Values'
  BY <1>3, Aside DEF SemGetFails, Types, LocalTypes, LocalOK, Making, Early,
     Late, EarlyLabel, LateLabel, Holds
<1>4. ASSUME NEW p \in Proc, SetVal(p) PROVE Makers' /\ Keys' /\ Locks' /\ Values'
  <2>1. pool[p] \in Pool /\ pool[p] # None
    BY <1>4, HasPool DEF SetVal
  <2>2. Makers'
    BY <1>4, <2>1 DEF SetVal, KernelTypes, LocalTypes, LocalOK, MasterType,
       Pool, None, Semid, SetOf, Making, Early, Late, Unset, EarlyLabel,
       LateLabel, UnsetLabel, Holds, Makers, Keys, Locks, Numbered
  <2>3. Keys'
    BY <1>4, <2>1 DEF SetVal, KernelTypes, LocalTypes, LocalOK, MasterType,
       Pool, None, Semid, SetOf, Making, Early, Late, Unset, EarlyLabel,
       LateLabel, UnsetLabel, Holds, Makers, Keys, Locks
  <2>4. Locks'
    <3>1. setKey = pool[p] /\ \A q \in Proc : pool[q] = pool[p] => q = p
      BY <1>4 DEF SetVal, Makers, Unset, UnsetLabel
    <3>2. sem'[pool[p]][MasterSem] = 1
      <4>1. sem[pool[p]] \in [SemNum -> {0, 1}] /\ MasterSem \in SemNum
        BY <2>1 DEF KernelTypes, SemNum, MasterSem
      <4>2. i[p] # MasterSem => sem[pool[p]][MasterSem] = Fresh(MasterSem)
        <5>1. \A n \in SemNum : n < i[p] => sem[pool[p]][n] = Fresh(n)
          BY <1>4 DEF SetVal, Values
        <5>2. i[p] # MasterSem => MasterSem < i[p]
          BY <1>4 DEF SetVal, SemNum, MasterSem
        <5> QED BY <4>1, <5>1, <5>2
      <4> QED BY <1>4, <2>1, <4>1, <4>2 DEF SetVal, KernelTypes, Fresh, MasterSem
    <3>3. \A q \in Proc : Holds(q)' => Holds(q) /\ q # p /\ pc'[q] = pc[q]
      BY <1>4 DEF SetVal, Holds, LocalTypes
    <3>4. \A q \in Proc : Holds(q) => sem'[pool[q]] = sem[pool[q]]
      BY <1>4, <3>1 DEF SetVal, Holds, KernelTypes
    <3> QED BY <1>4, <3>1, <3>2, <3>3, <3>4 DEF SetVal, Locks, Semid
  <2>5. Values'
    <3>1. sem'[pool[p]] = [sem[pool[p]] EXCEPT ![i[p]] = Fresh(i[p])]
      BY <1>4, <2>1 DEF SetVal, Fresh, KernelTypes
    <3>2. sem[pool[p]] \in [SemNum -> {0, 1}] /\ i[p] \in SemNum /\ i'[p] = i[p] + 1
      BY <1>4, <2>1 DEF SetVal, KernelTypes, LocalTypes
    <3>3. \A n \in SemNum : n < i'[p] => sem'[pool[p]][n] = Fresh(n)
      <4>1. \A n \in SemNum : n < i[p] => sem[pool[p]][n] = Fresh(n)
        BY <1>4 DEF SetVal, Values
      <4>2. \A n \in SemNum : n < i'[p] => n < i[p] \/ n = i[p]
        BY <3>2 DEF SemNum
      <4> QED BY <3>1, <3>2, <4>1, <4>2
    <3>4. \A g \in Pool \ {pool[p]} : sem'[g] = sem[g]
      BY <1>4 DEF SetVal, KernelTypes
    <3>5. \A q \in Proc \ {p} : pc'[q] = pc[q] /\ i'[q] = i[q]
      BY <1>4 DEF SetVal, LocalTypes
    <3>6. \A q \in Proc : pool[q] = pool[p] => q = p
      BY <1>4 DEF SetVal, Makers, Unset, UnsetLabel
    <3>7. ASSUME NEW q \in Proc, pc'[q] = "setval", NEW n \in SemNum, n < i'[q]
          PROVE  sem'[pool'[q]][n] = Fresh(n)
      <4>1. CASE q = p
        BY <1>4, <3>3, <3>7, <4>1 DEF SetVal
      <4>2. CASE q # p
        <5>1. pc[q] = "setval" /\ i'[q] = i[q] /\ pool'[q] = pool[q] /\ pool[q] # pool[p]
          BY <1>4, <3>5, <3>6, <3>7, <4>2 DEF SetVal
        <5>2. pool[q] \in Pool
          BY <5>1, HasPool
        <5> QED BY <3>4, <3>7, <5>1, <5>2 DEF Values
      <4> QED BY <4>1, <4>2
    <3>8. ASSUME NEW g \in Pool, g <= made'
          PROVE  \/ \E q \in Proc : pc'[q] = "setval" /\ pool'[q] = g
                 \/ \A n \in SemNum \ {MasterSem} : sem'[g][n] = Fresh(n)
      <4>1. CASE g = pool[p]
        <5>1. pc'[p] = "setval" \/ i'[p] = 2 * NumSlots + 1
          BY <1>4 DEF SetVal, LocalTypes
        <5>2. \A n \in SemNum : n < 2 * NumSlots + 1
          BY DEF SemNum
        <5> QED BY <1>4, <3>3, <4>1, <5>1, <5>2 DEF SetVal
      <4>2. CASE g # pool[p]
        BY <1>4, <3>4, <3>5, <3>8, <4>2 DEF SetVal, Values
      <4> QED BY <4>1, <4>2
    <3>9. ASSUME NEW g \in Pool, master'[g].master_semid = g
          PROVE  \/ master'[g].numslots = NumSlots
                 \/ \E q \in Proc : pc'[q] = "store_numslots" /\ pool'[q] = g
      <4>1. g # pool[p]
        BY <1>4, <2>1, <3>9 DEF SetVal, Makers, Early, EarlyLabel, Semid, None
      <4> QED BY <1>4, <3>5, <3>9, <4>1 DEF SetVal, Values
    <3> QED BY <3>7, <3>8, <3>9 DEF Values, Fresh
  <2> QED BY <2>2, <2>3, <2>4, <2>5
<1>5. ASSUME NEW p \in Proc, ShmGet(p) PROVE Makers' /\ Keys' /\ Locks' /\ Values'
  <2>1. pool[p] \in Pool /\ pool[p] # None
    BY <1>5, HasPool DEF ShmGet
  <2>2. Makers'
    BY <1>5, <2>1 DEF ShmGet, KernelTypes, LocalTypes, LocalOK, MasterType,
       Pool, None, Semid, SetOf, Making, Early, Late, Unset, EarlyLabel,
       LateLabel, UnsetLabel, Holds, Makers, Keys, Locks, Numbered
  <2>3. Keys'
    BY <1>5, <2>1 DEF ShmGet, KernelTypes, LocalTypes, LocalOK, MasterType,
       Pool, None, Semid, SetOf, Making, Early, Late, Unset, EarlyLabel,
       LateLabel, UnsetLabel, Holds, Makers, Keys, Locks
  <2>4. Locks'
    BY <1>5, <2>1 DEF ShmGet, KernelTypes, LocalTypes, LocalOK, MasterType,
       Pool, None, Semid, SetOf, Making, Early, Late, Unset, EarlyLabel,
       LateLabel, UnsetLabel, Holds, Makers, Keys, Locks, Values, MasterSem,
       SemNum, Fresh
  <2>5. Values'
    <3>1. \A q \in Proc : (pc'[q] = "setval") <=> (pc[q] = "setval")
      BY <1>5, <2>1 DEF ShmGet, LocalTypes
    <3>2. \A q \in Proc : pc[q] = "setval" =>
            pool'[q] = pool[q] /\ i'[q] = i[q] /\ sem'[pool[q]] = sem[pool[q]]
      BY <1>5, <2>1 DEF ShmGet, KernelTypes, LocalTypes, Makers, Unset, UnsetLabel
    <3>3. \A g \in Pool, n \in SemNum \ {MasterSem} : sem'[g][n] = sem[g][n]
      BY <1>5, <2>1 DEF ShmGet, KernelTypes, MasterSem, SemNum
    <3>4. \A g \in Pool : master'[g].master_semid = g =>
            \/ master'[g].numslots = NumSlots
            \/ \E q \in Proc : pc'[q] = "store_numslots" /\ pool'[q] = g
      BY <1>5, <2>1 DEF ShmGet, KernelTypes, LocalTypes, MasterType, Values
    <3> QED BY <1>5, <3>1, <3>2, <3>3, <3>4, ValuesKept DEF ShmGet
  <2> QED BY <2>2, <2>3, <2>4, <2>5
<1>6. ASSUME NEW p \in Proc, ShmGetFails(p) PROVE Makers' /\ Keys' /\ Locks' /\ Values'
  <2>1. pool[p] \in Pool /\ pool[p] # None
    BY <1>6, HasPool DEF ShmGetFails
  <2>2. Makers'
    BY <1>6, <2>1 DEF ShmGetFails, KernelTypes, LocalTypes, LocalOK,
       MasterType, Pool, None, Semid, SetOf, Making, Early, Late, Unset,
       EarlyLabel, LateLabel, UnsetLabel, Holds, Makers, Keys, Locks,
       Numbered
  <2>3. Keys'
    BY <1>6, <2>1 DEF ShmGetFails, KernelTypes, LocalTypes, LocalOK,
       MasterType, Pool, None, Semid, SetOf, Making, Early, Late, Unset,
       EarlyLabel, LateLabel, UnsetLabel, Holds, Makers, Keys, Locks
  <2>4. Locks'
    BY <1>6, <2>1 DEF ShmGetFails, KernelTypes, LocalTypes, LocalOK,
       MasterType, Pool, None, Semid, SetOf, Making, Early, Late, Unset,
       EarlyLabel, LateLabel, UnsetLabel, Holds, Makers, Keys, Locks, Values,
       MasterSem, SemNum, Fresh
  <2>5. Values'
    <3>1. \A q \in Proc : (pc'[q] = "setval") <=> (pc[q] = "setval")
      BY <1>6, <2>1 DEF ShmGetFails, LocalTypes
    <3>2. \A q \in Proc : pc[q] = "setval" =>
            pool'[q] = pool[q] /\ i'[q] = i[q] /\ sem'[pool[q]] = sem[pool[q]]
      BY <1>6, <2>1 DEF ShmGetFails, KernelTypes, LocalTypes, Makers, Unset, UnsetLabel
    <3>3. \A g \in Pool, n \in SemNum \ {MasterSem} : sem'[g][n] = sem[g][n]
      BY <1>6, <2>1 DEF ShmGetFails, KernelTypes, MasterSem, SemNum
    <3>4. \A g \in Pool : master'[g].master_semid = g =>
            \/ master'[g].numslots = NumSlots
            \/ \E q \in Proc : pc'[q] = "store_numslots" /\ pool'[q] = g
      BY <1>6, <2>1 DEF ShmGetFails, KernelTypes, LocalTypes, MasterType, Values
    <3> QED BY <1>6, <3>1, <3>2, <3>3, <3>4, ValuesKept DEF ShmGetFails
  <2> QED BY <2>2, <2>3, <2>4, <2>5
<1>7. ASSUME NEW p \in Proc, ShmAt(p) PROVE Makers' /\ Keys' /\ Locks' /\ Values'
  <2>1. pool[p] \in Pool /\ pool[p] # None
    BY <1>7, HasPool DEF ShmAt
  <2>2. Makers'
    BY <1>7, <2>1, BlankMaster DEF ShmAt, KernelTypes, LocalTypes, LocalOK,
       MasterType, Pool, None, Semid, SetOf, Making, Early, Late, Unset,
       EarlyLabel, LateLabel, UnsetLabel, Holds, Makers, Keys, Locks,
       Numbered
  <2>3. Keys'
    BY <1>7, <2>1, BlankMaster DEF ShmAt, KernelTypes, LocalTypes, LocalOK,
       MasterType, Pool, None, Semid, SetOf, Making, Early, Late, Unset,
       EarlyLabel, LateLabel, UnsetLabel, Holds, Makers, Keys, Locks
  <2>4. Locks'
    BY <1>7, <2>1, BlankMaster DEF ShmAt, KernelTypes, LocalTypes, LocalOK,
       MasterType, Pool, None, Semid, SetOf, Making, Early, Late, Unset,
       EarlyLabel, LateLabel, UnsetLabel, Holds, Makers, Keys, Locks, Values,
       MasterSem, SemNum, Fresh
  <2>5. Values'
    <3>1. \A q \in Proc : (pc'[q] = "setval") <=> (pc[q] = "setval")
      BY <1>7, <2>1 DEF ShmAt, LocalTypes
    <3>2. \A q \in Proc : pc[q] = "setval" =>
            pool'[q] = pool[q] /\ i'[q] = i[q] /\ sem'[pool[q]] = sem[pool[q]]
      BY <1>7, <2>1 DEF ShmAt, KernelTypes, LocalTypes, Makers, Unset, UnsetLabel
    <3>3. \A g \in Pool, n \in SemNum \ {MasterSem} : sem'[g][n] = sem[g][n]
      BY <1>7, <2>1 DEF ShmAt, KernelTypes, MasterSem, SemNum
    <3>4. \A g \in Pool : master'[g].master_semid = g =>
            \/ master'[g].numslots = NumSlots
            \/ \E q \in Proc : pc'[q] = "store_numslots" /\ pool'[q] = g
      BY <1>7, <2>1, BlankMaster DEF ShmAt, KernelTypes, LocalTypes, MasterType,
         Values, Pool
    <3> QED BY <1>7, <3>1, <3>2, <3>3, <3>4, ValuesKept DEF ShmAt
  <2> QED BY <2>2, <2>3, <2>4, <2>5
<1>8. ASSUME NEW p \in Proc, ShmAtFails(p) PROVE Makers' /\ Keys' /\ Locks' /\ Values'
  <2>1. pool[p] \in Pool /\ pool[p] # None
    BY <1>8, HasPool DEF ShmAtFails
  <2>2. Makers'
    BY <1>8, <2>1 DEF ShmAtFails, KernelTypes, LocalTypes, LocalOK,
       MasterType, Pool, None, Semid, SetOf, Making, Early, Late, Unset,
       EarlyLabel, LateLabel, UnsetLabel, Holds, Makers, Keys, Locks,
       Numbered
  <2>3. Keys'
    BY <1>8, <2>1 DEF ShmAtFails, KernelTypes, LocalTypes, LocalOK,
       MasterType, Pool, None, Semid, SetOf, Making, Early, Late, Unset,
       EarlyLabel, LateLabel, UnsetLabel, Holds, Makers, Keys, Locks
  <2>4. Locks'
    BY <1>8, <2>1 DEF ShmAtFails, KernelTypes, LocalTypes, LocalOK,
       MasterType, Pool, None, Semid, SetOf, Making, Early, Late, Unset,
       EarlyLabel, LateLabel, UnsetLabel, Holds, Makers, Keys, Locks, Values,
       MasterSem, SemNum, Fresh
  <2>5. Values'
    <3>1. \A q \in Proc : (pc'[q] = "setval") <=> (pc[q] = "setval")
      BY <1>8, <2>1 DEF ShmAtFails, LocalTypes
    <3>2. \A q \in Proc : pc[q] = "setval" =>
            pool'[q] = pool[q] /\ i'[q] = i[q] /\ sem'[pool[q]] = sem[pool[q]]
      BY <1>8, <2>1 DEF ShmAtFails, KernelTypes, LocalTypes, Makers, Unset, UnsetLabel
    <3>3. \A g \in Pool, n \in SemNum \ {MasterSem} : sem'[g][n] = sem[g][n]
      BY <1>8, <2>1 DEF ShmAtFails, KernelTypes, MasterSem, SemNum
    <3>4. \A g \in Pool : master'[g].master_semid = g =>
            \/ master'[g].numslots = NumSlots
            \/ \E q \in Proc : pc'[q] = "store_numslots" /\ pool'[q] = g
      BY <1>8, <2>1 DEF ShmAtFails, KernelTypes, LocalTypes, MasterType, Values
    <3> QED BY <1>8, <3>1, <3>2, <3>3, <3>4, ValuesKept DEF ShmAtFails
  <2> QED BY <2>2, <2>3, <2>4, <2>5
<1>9. ASSUME NEW p \in Proc, StoreShmid(p) PROVE Makers' /\ Keys' /\ Locks' /\ Values'
  <2>1. pool[p] \in Pool /\ pool[p] # None
    BY <1>9, HasPool DEF StoreShmid
  <2>2. Makers'
    BY <1>9, <2>1 DEF StoreShmid, KernelTypes, LocalTypes, LocalOK,
       MasterType, Pool, None, Semid, SetOf, Making, Early, Late, Unset,
       EarlyLabel, LateLabel, UnsetLabel, Holds, Makers, Keys, Locks,
       Numbered
  <2>3. Keys'
    BY <1>9, <2>1 DEF StoreShmid, KernelTypes, LocalTypes, LocalOK,
       MasterType, Pool, None, Semid, SetOf, Making, Early, Late, Unset,
       EarlyLabel, LateLabel, UnsetLabel, Holds, Makers, Keys, Locks
  <2>4. Locks'
    BY <1>9, <2>1 DEF StoreShmid, KernelTypes, LocalTypes, LocalOK,
       MasterType, Pool, None, Semid, SetOf, Making, Early, Late, Unset,
       EarlyLabel, LateLabel, UnsetLabel, Holds, Makers, Keys, Locks, Values,
       MasterSem, SemNum, Fresh
  <2>5. Values'
    <3>1. \A q \in Proc : (pc'[q] = "setval") <=> (pc[q] = "setval")
      BY <1>9, <2>1 DEF StoreShmid, LocalTypes
    <3>2. \A q \in Proc : pc[q] = "setval" =>
            pool'[q] = pool[q] /\ i'[q] = i[q] /\ sem'[pool[q]] = sem[pool[q]]
      BY <1>9, <2>1 DEF StoreShmid, KernelTypes, LocalTypes, Makers, Unset, UnsetLabel
    <3>3. \A g \in Pool, n \in SemNum \ {MasterSem} : sem'[g][n] = sem[g][n]
      BY <1>9, <2>1 DEF StoreShmid, KernelTypes, MasterSem, SemNum
    <3>4. \A g \in Pool : master'[g].master_semid = g =>
            \/ master'[g].numslots = NumSlots
            \/ \E q \in Proc : pc'[q] = "store_numslots" /\ pool'[q] = g
      BY <1>9, <2>1 DEF StoreShmid, KernelTypes, LocalTypes, MasterType, Values
    <3> QED BY <1>9, <3>1, <3>2, <3>3, <3>4, ValuesKept DEF StoreShmid
  <2> QED BY <2>2, <2>3, <2>4, <2>5
<1>10. ASSUME NEW p \in Proc, StoreSemid(p) PROVE Makers' /\ Keys' /\ Locks' /\ Values'
  <2>1. pool[p] \in Pool /\ pool[p] # None
    BY <1>10, HasPool DEF StoreSemid
  <2>2. Makers'
    BY <1>10, <2>1 DEF StoreSemid, KernelTypes, LocalTypes, LocalOK,
       MasterType, Pool, None, Semid, SetOf, Making, Early, Late, Unset,
       EarlyLabel, LateLabel, UnsetLabel, Holds, Makers, Keys, Locks,
       Numbered
  <2>3. Keys'
    BY <1>10, <2>1 DEF StoreSemid, KernelTypes, LocalTypes, LocalOK,
       MasterType, Pool, None, Semid, SetOf, Making, Early, Late, Unset,
       EarlyLabel, LateLabel, UnsetLabel, Holds, Makers, Keys, Locks
  <2>4. Locks'
    BY <1>10, <2>1 DEF StoreSemid, KernelTypes, LocalTypes, LocalOK,
       MasterType, Pool, None, Semid, SetOf, Making, Early, Late, Unset,
       EarlyLabel, LateLabel, UnsetLabel, Holds, Makers, Keys, Locks, Values,
       MasterSem, SemNum, Fresh
  <2>5. Values'
    <3>1. \A q \in Proc : (pc'[q] = "setval") <=> (pc[q] = "setval")
      BY <1>10, <2>1 DEF StoreSemid, LocalTypes
    <3>2. \A q \in Proc : pc[q] = "setval" =>
            pool'[q] = pool[q] /\ i'[q] = i[q] /\ sem'[pool[q]] = sem[pool[q]]
      BY <1>10, <2>1 DEF StoreSemid, KernelTypes, LocalTypes, Makers, Unset, UnsetLabel
    <3>3. \A g \in Pool, n \in SemNum \ {MasterSem} : sem'[g][n] = sem[g][n]
      BY <1>10, <2>1 DEF StoreSemid, KernelTypes, MasterSem, SemNum
    <3>4. \A g \in Pool : master'[g].master_semid = g =>
            \/ master'[g].numslots = NumSlots
            \/ \E q \in Proc : pc'[q] = "store_numslots" /\ pool'[q] = g
      BY <1>10, <2>1 DEF StoreSemid, KernelTypes, LocalTypes, MasterType, Values
    <3> QED BY <1>10, <3>1, <3>2, <3>3, <3>4, ValuesKept DEF StoreSemid
  <2> QED BY <2>2, <2>3, <2>4, <2>5
<1>11. ASSUME NEW p \in Proc, StoreNumSlots(p) PROVE Makers' /\ Keys' /\ Locks' /\ Values'
  <2>1. pool[p] \in Pool /\ pool[p] # None
    BY <1>11, HasPool DEF StoreNumSlots
  <2>2. Makers'
    BY <1>11, <2>1 DEF StoreNumSlots, KernelTypes, LocalTypes, LocalOK,
       MasterType, Pool, None, Semid, SetOf, Making, Early, Late, Unset,
       EarlyLabel, LateLabel, UnsetLabel, Holds, Makers, Keys, Locks,
       Numbered
  <2>3. Keys'
    BY <1>11, <2>1 DEF StoreNumSlots, KernelTypes, LocalTypes, LocalOK,
       MasterType, Pool, None, Semid, SetOf, Making, Early, Late, Unset,
       EarlyLabel, LateLabel, UnsetLabel, Holds, Makers, Keys, Locks
  <2>4. Locks'
    BY <1>11, <2>1 DEF StoreNumSlots, KernelTypes, LocalTypes, LocalOK,
       MasterType, Pool, None, Semid, SetOf, Making, Early, Late, Unset,
       EarlyLabel, LateLabel, UnsetLabel, Holds, Makers, Keys, Locks, Values,
       MasterSem, SemNum, Fresh
  <2>5. Values'
    <3>1. \A q \in Proc : (pc'[q] = "setval") <=> (pc[q] = "setval")
      BY <1>11, <2>1 DEF StoreNumSlots, LocalTypes
    <3>2. \A q \in Proc : pc[q] = "setval" =>
            pool'[q] = pool[q] /\ i'[q] = i[q] /\ sem'[pool[q]] = sem[pool[q]]
      BY <1>11, <2>1 DEF StoreNumSlots, KernelTypes, LocalTypes, Makers, Unset, UnsetLabel
    <3>3. \A g \in Pool, n \in SemNum \ {MasterSem} : sem'[g][n] = sem[g][n]
      BY <1>11, <2>1 DEF StoreNumSlots, KernelTypes, MasterSem, SemNum
    <3>4. \A g \in Pool : master'[g].master_semid = g =>
            \/ master'[g].numslots = NumSlots
            \/ \E q \in Proc : pc'[q] = "store_numslots" /\ pool'[q] = g
      BY <1>11, <2>1 DEF StoreNumSlots, KernelTypes, LocalTypes, MasterType, Values
    <3> QED BY <1>11, <3>1, <3>2, <3>3, <3>4, ValuesKept DEF StoreNumSlots
  <2> QED BY <2>2, <2>3, <2>4, <2>5
<1>12. ASSUME NEW p \in Proc, ClearEntry(p) PROVE Makers' /\ Keys' /\ Locks' /\ Values'
  <2>1. \A g \in Pool : /\ master'[g].master_semid = master[g].master_semid
                        /\ master'[g].master_shmid = master[g].master_shmid
                        /\ master'[g].numslots = master[g].numslots
    BY <1>12, TableOnly
  <2> QED BY <1>12, <2>1, Aside DEF ClearEntry, Types, LocalTypes, LocalOK, Making,
     Early, Late, EarlyLabel, LateLabel, Holds
<1>13. ASSUME NEW p \in Proc, InitDone(p) PROVE Makers' /\ Keys' /\ Locks' /\ Values'
  BY <1>13, Aside DEF InitDone, Types, LocalTypes, LocalOK, Making, Early,
     Late, EarlyLabel, LateLabel, Holds
<1>14. ASSUME NEW p \in Proc, FindMaster(p) PROVE Makers' /\ Keys' /\ Locks' /\ Values'
  <2>1. CASE shmKey = None
    BY <1>14, <2>1, Aside DEF FindMaster, Types, LocalTypes, LocalOK, Making, Early,
     Late, EarlyLabel, LateLabel, Holds, None
  <2>2. CASE shmKey # None
    <3>1. /\ pc[p] = "attach_master" /\ pc' = [pc EXCEPT ![p] = "shmat_master"]
          /\ pool' = [pool EXCEPT ![p] = shmKey] /\ semid[p] = 0
          /\ UNCHANGED <<kernel, sem, master, op, semid, i>>
      BY <1>14, <2>2 DEF FindMaster, LocalTypes, LocalOK, None
    <3>2. \A q \in Proc : semid'[q] # 0 =>
            /\ pool'[q] = pool[q] /\ pool[q] \in Pool
            /\ semid[q] # 0 \/ Semid(q) # 0
      BY <3>1 DEF LocalTypes, LocalOK, None
    <3> QED BY <3>1, <3>2, Aside DEF Types, LocalTypes, Making, Early, Late,
         EarlyLabel, LateLabel, Holds
  <2> QED BY <2>1, <2>2
<1>15. ASSUME NEW p \in Proc, AttachMaster(p) PROVE Makers' /\ Keys' /\ Locks' /\ Values'
  BY <1>15, Aside DEF AttachMaster, Types, LocalTypes, LocalOK, Making, Early,
     Late, EarlyLabel, LateLabel, Holds
<1>16. ASSUME NEW p \in Proc, AttachMasterFault(p) PROVE Makers' /\ Keys' /\ Locks' /\ Values'
  BY <1>16, Aside DEF AttachMasterFault, Types, LocalTypes, LocalOK, Making,
     Early, Late, EarlyLabel, LateLabel, Holds
<1>17. ASSUME NEW p \in Proc, CallSemop(p) PROVE Makers' /\ Keys' /\ Locks' /\ Values'
  <2>1. pool[p] \in Pool
    BY <1>17, HasPool DEF CallSemop
  <2>2. \A q \in Proc : semid'[q] # 0 =>
          /\ pool'[q] = pool[q] /\ pool[q] \in Pool
          /\ semid[q] # 0 \/ Semid(q) # 0
    BY <1>17, <2>1 DEF CallSemop, LocalTypes, LocalOK
  <2> QED BY <1>17, <2>2, Aside DEF CallSemop, Types, LocalTypes, LocalOK, Making,
     Early, Late, EarlyLabel, LateLabel, Holds
<1>18. ASSUME NEW p \in Proc, LockMaster(p) PROVE Makers' /\ Keys' /\ Locks' /\ Values'
  <2>1. pool[p] \in Pool /\ pool[p] # None
    BY <1>18, HasPool DEF LockMaster
  <2>2. Makers'
    BY <1>18, <2>1, LocksOwnSet DEF LockMaster, KernelTypes, LocalTypes,
       LocalOK, MasterType, Pool, None, Semid, SetOf, Making, Early, Late,
       Unset, EarlyLabel, LateLabel, UnsetLabel, Holds, Makers, Keys, Locks,
       Numbered
  <2>3. Keys'
    BY <1>18, <2>1, LocksOwnSet DEF LockMaster, KernelTypes, LocalTypes,
       LocalOK, MasterType, Pool, None, Semid, SetOf, Making, Early, Late,
       Unset, EarlyLabel, LateLabel, UnsetLabel, Holds, Makers, Keys, Locks
  <2>4. Locks'
    BY <1>18, <2>1, LocksOwnSet DEF LockMaster, KernelTypes, LocalTypes,
       LocalOK, MasterType, Pool, None, Semid, SetOf, Making, Early, Late,
       Unset, EarlyLabel, LateLabel, UnsetLabel, Holds, Makers, Keys, Locks,
       Values, MasterSem, SemNum, Fresh
  <2>5. Values'
    <3>1. \A q \in Proc : (pc'[q] = "setval") <=> (pc[q] = "setval")
      BY <1>18, <2>1, LocksOwnSet DEF LockMaster, LocalTypes
    <3>2. \A q \in Proc : pc[q] = "setval" =>
            pool'[q] = pool[q] /\ i'[q] = i[q] /\ sem'[pool[q]] = sem[pool[q]]
      BY <1>18, <2>1, LocksOwnSet DEF LockMaster, KernelTypes, LocalTypes, Makers, Unset, UnsetLabel
    <3>3. \A g \in Pool, n \in SemNum \ {MasterSem} : sem'[g][n] = sem[g][n]
      BY <1>18, <2>1, LocksOwnSet DEF LockMaster, KernelTypes, MasterSem, SemNum
    <3>4. \A g \in Pool : master'[g].master_semid = g =>
            \/ master'[g].numslots = NumSlots
            \/ \E q \in Proc : pc'[q] = "store_numslots" /\ pool'[q] = g
      BY <1>18, <2>1 DEF LockMaster, KernelTypes, LocalTypes, MasterType, Values
    <3> QED BY <1>18, <3>1, <3>2, <3>3, <3>4, ValuesKept DEF LockMaster
  <2> QED BY <2>2, <2>3, <2>4, <2>5
<1>19. ASSUME NEW p \in Proc, LockMasterFails(p) PROVE Makers' /\ Keys' /\ Locks' /\ Values'
  BY <1>19, Aside DEF LockMasterFails, Types, LocalTypes, LocalOK, Making,
     Early, Late, EarlyLabel, LateLabel, Holds
<1>20. ASSUME NEW p \in Proc, EnterSlot(p) PROVE Makers' /\ Keys' /\ Locks' /\ Values'
  <2>1. \A g \in Pool : /\ master'[g].master_semid = master[g].master_semid
                        /\ master'[g].master_shmid = master[g].master_shmid
                        /\ master'[g].numslots = master[g].numslots
    BY <1>20, TableOnly
  <2> QED BY <1>20, <2>1, Aside DEF EnterSlot, Types, LocalTypes, LocalOK, Making,
     Early, Late, EarlyLabel, LateLabel, Holds
<1>21. ASSUME NEW p \in Proc, Look(p) PROVE Makers' /\ Keys' /\ Locks' /\ Values'
  BY <1>21, Aside DEF Look, Types, LocalTypes, LocalOK, Making, Early, Late,
     EarlyLabel, LateLabel, Holds
<1>22. ASSUME NEW p \in Proc, UnlockMaster(p) PROVE Makers' /\ Keys' /\ Locks' /\ Values'
  <2>1. pool[p] \in Pool /\ pool[p] # None
    BY <1>22, HasPool DEF UnlockMaster
  <2>2. Makers'
    BY <1>22, <2>1, ReachesOwnSet DEF UnlockMaster, KernelTypes, LocalTypes,
       LocalOK, MasterType, Pool, None, Semid, SetOf, Making, Early, Late,
       Unset, EarlyLabel, LateLabel, UnsetLabel, Holds, Makers, Keys, Locks,
       Numbered
  <2>3. Keys'
    BY <1>22, <2>1, ReachesOwnSet DEF UnlockMaster, KernelTypes, LocalTypes,
       LocalOK, MasterType, Pool, None, Semid, SetOf, Making, Early, Late,
       Unset, EarlyLabel, LateLabel, UnsetLabel, Holds, Makers, Keys, Locks
  <2>4. Locks'
    BY <1>22, <2>1, ReachesOwnSet DEF UnlockMaster, KernelTypes, LocalTypes,
       LocalOK, MasterType, Pool, None, Semid, SetOf, Making, Early, Late,
       Unset, EarlyLabel, LateLabel, UnsetLabel, Holds, Makers, Keys, Locks,
       Values, MasterSem, SemNum, Fresh
  <2>5. Values'
    <3>1. \A q \in Proc : (pc'[q] = "setval") <=> (pc[q] = "setval")
      BY <1>22, <2>1, ReachesOwnSet DEF UnlockMaster, LocalTypes
    <3>2. \A q \in Proc : pc[q] = "setval" =>
            pool'[q] = pool[q] /\ i'[q] = i[q] /\ sem'[pool[q]] = sem[pool[q]]
      BY <1>22, <2>1, ReachesOwnSet DEF UnlockMaster, KernelTypes, LocalTypes, Makers, Unset, UnsetLabel
    <3>3. \A g \in Pool, n \in SemNum \ {MasterSem} : sem'[g][n] = sem[g][n]
      BY <1>22, <2>1, ReachesOwnSet DEF UnlockMaster, KernelTypes, MasterSem, SemNum
    <3>4. \A g \in Pool : master'[g].master_semid = g =>
            \/ master'[g].numslots = NumSlots
            \/ \E q \in Proc : pc'[q] = "store_numslots" /\ pool'[q] = g
      BY <1>22, <2>1 DEF UnlockMaster, KernelTypes, LocalTypes, MasterType, Values
    <3> QED BY <1>22, <3>1, <3>2, <3>3, <3>4, ValuesKept DEF UnlockMaster
  <2> QED BY <2>2, <2>3, <2>4, <2>5
<1>23. ASSUME NEW p \in Proc, FreeSlot(p) PROVE Makers' /\ Keys' /\ Locks' /\ Values'
  <2>1. \A g \in Pool : /\ master'[g].master_semid = master[g].master_semid
                        /\ master'[g].master_shmid = master[g].master_shmid
                        /\ master'[g].numslots = master[g].numslots
    BY <1>23, TableOnly
  <2> QED BY <1>23, <2>1, Aside DEF FreeSlot, Types, LocalTypes, LocalOK, Making,
     Early, Late, EarlyLabel, LateLabel, Holds
<1>24. ASSUME NEW p \in Proc, RemoveSet(p) PROVE Makers' /\ Keys' /\ Locks' /\ Values'
  <2>1. /\ pool[p] \in Pool /\ pool[p] # None /\ setKey = pool[p] /\ setKey' = None
        /\ pc[p] = "table" /\ pc' = [pc EXCEPT ![p] = "rm_master"]
        /\ UNCHANGED <<made, shmKey, broken, sem, master, pool, semid, i>>
    BY <1>24, RemovesOwnSet
  <2>2. Makers'
    <3>1. \A q \in Proc : (Making(q)' <=> Making(q)) /\ Semid(q)' = Semid(q)
      BY <2>1 DEF LocalTypes, Making, Early, Late, EarlyLabel, LateLabel, Semid
    <3>2. \A q \in Proc : ~Unset(q)' /\ (Making(q) => pool[q] # None)
      BY <2>1, HasPool DEF LocalTypes, Makers, Unset, Making, Early, Late,
         EarlyLabel, LateLabel, UnsetLabel
    <3> QED BY <2>1, <3>1, <3>2 DEF LocalTypes, Makers, Making, Early, Late, EarlyLabel,
         LateLabel
  <2>3. Keys'
    BY <2>1 DEF LocalTypes, Keys
  <2>4. Locks'
    <3>1. \A q \in Proc : Holds(q)' <=> Holds(q)
      BY <2>1 DEF LocalTypes, Holds
    <3>2. \A q \in Proc : Holds(q) /\ pc[q] # "rm_master" => q = p
      BY <2>1 DEF Locks, Holds
    <3>3. \A q \in Proc : Holds(q) => pool[q] # None /\ pc'[q] = "rm_master"
      BY <2>1, <3>2, HasPool DEF LocalTypes, Holds
    <3> QED BY <2>1, <3>1, <3>3 DEF Locks, Semid
  <2>5. Values'
    <3>1. \A q \in Proc : (pc'[q] = "setval") <=> (pc[q] = "setval")
      BY <2>1 DEF LocalTypes
    <3>2. \A q \in Proc : pc[q] = "setval" =>
            pool'[q] = pool[q] /\ i'[q] = i[q] /\ sem'[pool[q]] = sem[pool[q]]
      BY <1>24, <2>1 DEF RemoveSet, KernelTypes, LocalTypes, Makers, Unset, UnsetLabel
    <3>3. \A g \in Pool, n \in SemNum \ {MasterSem} : sem'[g][n] = sem[g][n]
      BY <1>24, <2>1 DEF RemoveSet, KernelTypes, MasterSem, SemNum
    <3>4. \A g \in Pool : master'[g].master_semid = g =>
            \/ master'[g].numslots = NumSlots
            \/ \E q \in Proc : pc'[q] = "store_numslots" /\ pool'[q] = g
      BY <1>24, <2>1 DEF RemoveSet, KernelTypes, LocalTypes, MasterType, Values
    <3> QED BY <1>24, <3>1, <3>2, <3>3, <3>4, ValuesKept DEF RemoveSet
  <2> QED BY <2>2, <2>3, <2>4, <2>5
<1>25. ASSUME NEW p \in Proc, RemoveMaster(p) PROVE Makers' /\ Keys' /\ Locks' /\ Values'
  <2>1. pool[p] \in Pool /\ pool[p] # None
    BY <1>25, HasPool DEF RemoveMaster
  <2>2. setKey # pool[p] /\ SetOf(Semid(p)) = pool[p]
    BY <1>25 DEF RemoveMaster, Locks, Holds
  <2>3. /\ master[pool[p]].master_shmid \in {0, pool[p]}
        /\ master[pool[p]].master_shmid = 0 => pool[p] = ZeroSet
    BY <2>1, <2>2 DEF Keys, SetOf, Semid, None
  <2>4. \/ shmKey = pool[p] /\ shmKey' = None
        \/ shmKey' = shmKey /\ (shmKey = pool[p] => shmKey = ZeroSet)
    BY <1>25, <2>1, <2>3 DEF RemoveMaster, KernelTypes, Pool, None, Other
  <2>5. /\ pc[p] = "rm_master" /\ pc' = [pc EXCEPT ![p] = "idle"]
        /\ pool' = [pool EXCEPT ![p] = None] /\ semid' = [semid EXCEPT ![p] = 0]
        /\ i' = [i EXCEPT ![p] = 0]
        /\ UNCHANGED <<made, setKey, broken, sem, master>>
    BY <1>25 DEF RemoveMaster
  <2>6. \A q \in Proc \ {p} : /\ pc'[q] = pc[q] /\ pool'[q] = pool[q]
                            /\ semid'[q] = semid[q] /\ i'[q] = i[q]
    BY <2>5 DEF LocalTypes
  <2>7. pc'[p] = "idle" /\ semid'[p] = 0
    BY <2>5 DEF LocalTypes
  <2>8. Makers'
    <3>1. \A q \in Proc : Making(q)' \/ Making(q) => q # p
      BY <2>5, <2>7 DEF Making, Early, Late, EarlyLabel, LateLabel
    <3>2. \A q \in Proc \ {p} : (Making(q)' <=> Making(q)) /\ Semid(q)' = Semid(q)
      BY <2>5, <2>6 DEF Making, Early, Late, EarlyLabel, LateLabel, Semid
    <3>3. \A q \in Proc : Unset(q) => pool[q] # None /\ pool'[p] # pool[q]
      BY <2>5, HasPool DEF Unset, UnsetLabel, LocalTypes
    <3> QED BY <2>1, <2>2, <2>4, <2>5, <2>6, <2>7, <3>1, <3>2, <3>3 DEF Makers, Making,
         Early, Late, Unset, EarlyLabel, LateLabel, UnsetLabel
  <2>9. Keys'
    BY <2>2, <2>4, <2>5, <2>6 DEF Keys, Early, EarlyLabel
  <2>10. Locks'
    BY <2>5, <2>6, <2>7 DEF Locks, Holds, Semid
  <2>11. Values'
    <3>1. \A g \in Pool : master'[g].master_semid = g =>
            \/ master'[g].numslots = NumSlots
            \/ \E q \in Proc : pc'[q] = "store_numslots" /\ pool'[q] = g
      BY <2>5, <2>6 DEF Values
    <3> QED BY <2>5, <2>6, <2>7, <3>1, ValuesKept
  <2> QED BY <2>8, <2>9, <2>10, <2>11
<1>26. ASSUME NEW p \in Proc, RemoveMasterFails(p) PROVE Makers' /\ Keys' /\ Locks' /\ Values'
  <2>1. pool[p] \in Pool /\ pool[p] # None
    BY <1>26, HasPool DEF RemoveMasterFails
  <2>2. setKey # pool[p] /\ SetOf(Semid(p)) = pool[p]
    BY <1>26 DEF RemoveMasterFails, Locks, Holds
  <2>3. /\ master[pool[p]].master_shmid \in {0, pool[p]}
        /\ master[pool[p]].master_shmid = 0 => pool[p] = ZeroSet
    BY <2>1, <2>2 DEF Keys, SetOf, Semid, None
  <2>4. \/ shmKey = pool[p] /\ shmKey' = None
        \/ shmKey' = shmKey /\ (shmKey = pool[p] => shmKey = ZeroSet)
    BY <1>26, <2>1, <2>3 DEF RemoveMasterFails, KernelTypes, Pool, None, Other
  <2>5. /\ pc[p] = "rm_master" /\ pc' = [pc EXCEPT ![p] = "idle"]
        /\ pool' = [pool EXCEPT ![p] = None] /\ semid' = [semid EXCEPT ![p] = 0]
        /\ i' = [i EXCEPT ![p] = 0]
        /\ UNCHANGED <<made, setKey, broken, sem, master>>
    BY <1>26 DEF RemoveMasterFails
  <2>6. \A q \in Proc \ {p} : /\ pc'[q] = pc[q] /\ pool'[q] = pool[q]
                            /\ semid'[q] = semid[q] /\ i'[q] = i[q]
    BY <2>5 DEF LocalTypes
  <2>7. pc'[p] = "idle" /\ semid'[p] = 0
    BY <2>5 DEF LocalTypes
  <2>8. Makers'
    <3>1. \A q \in Proc : Making(q)' \/ Making(q) => q # p
      BY <2>5, <2>7 DEF Making, Early, Late, EarlyLabel, LateLabel
    <3>2. \A q \in Proc \ {p} : (Making(q)' <=> Making(q)) /\ Semid(q)' = Semid(q)
      BY <2>5, <2>6 DEF Making, Early, Late, EarlyLabel, LateLabel, Semid
    <3>3. \A q \in Proc : Unset(q) => pool[q] # None /\ pool'[p] # pool[q]
      BY <2>5, HasPool DEF Unset, UnsetLabel, LocalTypes
    <3> QED BY <2>1, <2>2, <2>4, <2>5, <2>6, <2>7, <3>1, <3>2, <3>3 DEF Makers, Making,
         Early, Late, Unset, EarlyLabel, LateLabel, UnsetLabel
  <2>9. Keys'
    BY <2>2, <2>4, <2>5, <2>6 DEF Keys, Early, EarlyLabel
  <2>10. Locks'
    BY <2>5, <2>6, <2>7 DEF Locks, Holds, Semid
  <2>11. Values'
    <3>1. \A g \in Pool : master'[g].master_semid = g =>
            \/ master'[g].numslots = NumSlots
            \/ \E q \in Proc : pc'[q] = "store_numslots" /\ pool'[q] = g
      BY <2>5, <2>6 DEF Values
    <3> QED BY <2>5, <2>6, <2>7, <3>1, ValuesKept
  <2> QED BY <2>8, <2>9, <2>10, <2>11
<1>27. ASSUME UNCHANGED vars PROVE Makers' /\ Keys' /\ Locks' /\ Values'
  BY <1>27, Aside DEF vars, Types, LocalTypes, LocalOK, Making, Early, Late,
     EarlyLabel, LateLabel, Holds
<1> QED BY <1>1, <1>2, <1>3, <1>4, <1>5, <1>6, <1>7, <1>8, <1>9, <1>10,
   <1>11, <1>12, <1>13, <1>14, <1>15, <1>16, <1>17, <1>18, <1>19, <1>20,
   <1>21, <1>22, <1>23, <1>24, <1>25, <1>26, <1>27 DEF Next, Step

-----------------------------------------------------------------------------
(* The theorems.                                                           *)

(* The invariant holds initially.                                          *)
LEMMA PoolInit == Init => PoolInv
<1> SUFFICES ASSUME Init PROVE PoolInv
  OBVIOUS
<1> USE LifecycleAssumption DEF Init
<1>1. Types
  BY BlankMaster DEF Types, KernelTypes, LocalTypes, LocalOK, Early, Late,
     Making,
     EarlyLabel, LateLabel, Label, Pool, None, SemNum
<1>2. Numbered
  <2>1. Queued = {}
    BY DEF Queued
  <2> QED BY <2>1, FS_EmptySet, BlankMaster DEF Numbered, Pool, None
<1>3. Makers /\ Keys /\ Locks
  BY BlankMaster DEF Makers, Keys, Locks, Early, Late, Unset, Making, EarlyLabel,
     LateLabel, UnsetLabel, Holds, Pool
<1>4. Values
  BY BlankMaster DEF Values, Pool, None
<1> QED BY <1>1, <1>2, <1>3, <1>4 DEF PoolInv

(* It is inductive.                                                        *)
LEMMA PoolNext == ASSUME ZeroSet # Other PROVE PoolInv /\ [Next]_vars => PoolInv'
  BY TypesNext, NumberedNext, SharedNext DEF PoolInv

(* It implies the properties: the types,                                   *)
LEMMA InvariantTypes == PoolInv => TypeOK
  BY DEF PoolInv, Types, KernelTypes, LocalTypes, MasterType, TypeOK

(* exclusion from the table,                                               *)
LEMMA InvariantOneInTable == PoolInv => OneInTable
  BY DEF PoolInv, Locks, Holds, OneInTable, InTable

(* that a master is used with the semaphores of its pool,                  *)
LEMMA InvariantOwnSemaphores == PoolInv => OwnSemaphores
<1> SUFFICES ASSUME PoolInv, NEW p \in Proc, Holds(p)
             PROVE  /\ SetOf(Semid(p)) = pool[p]
                    /\ pool[p] \in broken =>
                         pool[p] = ZeroSet /\ master[pool[p]].numslots = 0
  BY DEF OwnSemaphores, InTable, Holds
<1>1. pool[p] \in Pool /\ pool[p] # None
  BY HasPool DEF PoolInv, Holds
<1>2. SetOf(Semid(p)) = pool[p]
  BY DEF PoolInv, Locks
<1>3. pool[p] \in broken => Semid(p) = 0 /\ master[pool[p]].numslots = 0
  BY <1>1 DEF PoolInv, Keys, Semid
<1> QED BY <1>2, <1>3 DEF SetOf

(* and that a quiet pool is whole: the holder of the lock is in the table  *)
(* of the pool under the key.                                              *)
LEMMA InvariantWholePool == PoolInv => WholePool
<1> SUFFICES ASSUME PoolInv, Quiet
             PROVE  \/ setKey = None /\ shmKey \in {None, ZeroSet}
                    \/ setKey # None /\ setKey = shmKey /\ Whole
  BY DEF WholePool
<1> USE LifecycleAssumption DEF PoolInv
<1>1. \A p \in Proc : ~Making(p) /\ pc[p] # "rm_master"
  BY DEF Quiet, Types, LocalTypes, LocalOK
<1>2. \A p \in Proc : Holds(p) <=> InTable(p)
  BY <1>1 DEF Holds, InTable
<1>3. CASE setKey = None
  BY <1>1, <1>3 DEF Keys
<1>4. CASE setKey # None
  <2>1. setKey \in Pool /\ master[setKey].master_semid = setKey /\ shmKey = setKey
    BY <1>1, <1>4 DEF Keys, Making, Quiet, Types, KernelTypes
  <2>2. master[setKey].numslots = NumSlots
    BY <1>1, <2>1 DEF Values, Making, Late, LateLabel
  <2>3. \A s \in Slot : /\ 1 + s \in SemNum \ {MasterSem} /\ 1 + s <= NumSlots
                       /\ 1 + NumSlots + s \in SemNum \ {MasterSem}
                       /\ ~(1 + NumSlots + s <= NumSlots)
    BY DEF Slot, SemNum, MasterSem
  <2>4. \A n \in SemNum \ {MasterSem} : sem[setKey][n] = Fresh(n)
    <3>1. setKey <= made
      BY <1>4, <2>1 DEF Numbered, Types, KernelTypes
    <3> QED BY <1>1, <2>1, <3>1 DEF Values, Making, Early, EarlyLabel
  <2>5. \A s \in Slot : sem[setKey][1 + s] = 1 /\ sem[setKey][1 + NumSlots + s] = 0
    BY <2>3, <2>4 DEF Fresh
  <2>6. \A p \in Proc : InTable(p) => pool[p] = setKey
    BY <1>1, <1>2 DEF Locks
  <2>7. sem[setKey][MasterSem] + Cardinality({p \in Proc : InTable(p)}) = 1
    <3>1. CASE \E p \in Proc : InTable(p)
      <4>1. PICK p \in Proc : InTable(p)
        BY <3>1
      <4>2. \A q \in Proc : InTable(q) => q = p
        BY <1>2, <2>6, <4>1 DEF Locks
      <4>3. {q \in Proc : InTable(q)} = {p}
        BY <4>1, <4>2
      <4>4. sem[setKey][MasterSem] = 0
        BY <1>2, <2>6, <4>1 DEF Locks
      <4>5. Cardinality({p}) = 1
        BY FS_Singleton
      <4> QED BY <4>3, <4>4, <4>5
    <3>2. CASE ~\E p \in Proc : InTable(p)
      <4>1. {q \in Proc : InTable(q)} = {}
        BY <3>2
      <4>2. sem[setKey][MasterSem] = 1
        BY <1>1, <1>2, <1>4, <3>2 DEF Locks, Making, Early, EarlyLabel
      <4> QED BY <4>1, <4>2, FS_EmptySet
    <3> QED BY <3>1, <3>2
  <2> QED BY <1>4, <2>1, <2>2, <2>5, <2>7 DEF Whole
<1> QED BY <1>3, <1>4

(* Every variable keeps its type, and no semaphore of a pool ever goes     *)
(* above 1, whatever calls come too early or too late.                     *)
THEOREM LifecycleTypes == ASSUME ZeroSet # Other PROVE Spec => []TypeOK
<1> QED BY PoolInit, PoolNext, InvariantTypes, PTL DEF Spec

(* Two processes are never in the table of one pool, although init takes   *)
(* no lock, the master can be found before init has filled it, and who     *)
(* finds it then takes the set with the identifier 0 for its semaphores:   *)
(* unless that set belongs to another pool.                                *)
THEOREM OneProcessInTable == ASSUME ZeroSet # Other PROVE Spec => []OneInTable
<1> QED BY PoolInit, PoolNext, InvariantOneInTable, PTL DEF Spec

(* Whoever uses a master has the semaphores of that very pool; what an     *)
(* init that failed has left is entered only if its set has the identifier *)
(* 0, and then has no slots.                                               *)
THEOREM TablesHaveTheirSemaphores == ASSUME ZeroSet # Other PROVE Spec => []OwnSemaphores
<1> QED BY PoolInit, PoolNext, InvariantOwnSemaphores, PTL DEF Spec

(* When nobody makes or removes a pool and no init has failed, the key has *)
(* a whole pool or none; only of the pool whose set has the identifier 0   *)
(* may a master be left over.                                              *)
THEOREM WholePools == ASSUME ZeroSet # Other PROVE Spec => []WholePool
<1> QED BY PoolInit, PoolNext, InvariantWholePool, PTL DEF Spec
====
