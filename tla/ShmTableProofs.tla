---------------------------- MODULE ShmTableProofs ----------------------------
(***************************************************************************)
(* Theorems about what the locks of ShmPool are for, on top of             *)
(* ShmPoolProofs: the slot table and the kernel's segments agree, names    *)
(* are unique, shm_cleanup leaves nothing behind; where no signal          *)
(* interrupts a semop, a segment is not taken away while a call is in it,  *)
(* and a read returns one array that was written; and, with one publisher  *)
(* and subscribers that wait without limit, a publication leaves nothing   *)
(* behind.                                                                 *)
(***************************************************************************)
EXTENDS ShmPoolProofs, WellFoundedInduction

-----------------------------------------------------------------------------
(* THE TABLE.  Its invariant speaks of the states in the middle of a       *)
(* change, which only the holder of the master lock sees.                  *)

(* A call that has not looked its name up yet.                             *)
Starting(p) ==
  pc[p] \in {"idle", "attach_master", "shmat_master", "lock_master", "lkup_slot"}

(* The slot of a new name is free, and nobody else has that name.          *)
Creating(p) ==
  /\ create[p] /\ call[p].op = "write"
  /\ entry[slot[p]].slot_shmid = NoShm
  /\ \A t \in Slot : entry[t].desc # call[p].id

(* The slot found has the name that was looked up.                         *)
Found(p) == entry[slot[p]].desc = call[p].id /\ entry[slot[p]].slot_shmid # NoShm

(* What the holder of the master lock knows of the table.                  *)
TableLocal(p) ==
  /\ pc[p] # "idle" => call[p] \in Call[p]
  /\ Starting(p) => slot[p] = 0 /\ ~create[p]
  /\ pc[p] = "lkup_slot" => call[p].op \in {"write", "read", "free"}
  /\ pc[p] = "lock_slot" => IF create[p] THEN Creating(p) ELSE Found(p)
  /\ pc[p] \in {"shmget_slot", "set_entry"} => Creating(p)
  /\ pc[p] = "set_entry" =>
       shm[p] \in ShmId /\ segKeyed[shm[p]] /\ segSlot[shm[p]] = slot[p]
  /\ pc[p] = "snap_slot" =>
       Found(p) /\ (create[p] => entry[slot[p]].slot_shmid = shm[p])
  /\ pc[p] \in {"lock_used", "info_read", "rmid", "clear"} =>
       entry[slot[p]].slot_shmid # NoShm
  /\ pc[p] = "info_read" => call[p].op = "info"
  /\ pc[p] = "clear" => ~segKeyed[entry[slot[p]].slot_shmid]
  /\ pc[p] \in {"scan", "lock_used", "info_read", "rmid", "clear"}
       /\ call[p].op = "cleanup" =>
         \A t \in Slot : t < slot[p] => entry[t].slot_shmid = NoShm
  /\ pc[p] = "rm_master" => ~semAlive

(* An entry in use has a name of its own and a segment made for its slot,  *)
(* which is keyed unless the entry is about to be cleared; a keyed segment *)
(* is in the table unless it is about to be entered.                       *)
Entries ==
  /\ \A s \in Slot : entry[s].slot_shmid = NoShm <=> entry[s].desc = NoDesc
  /\ UniqueNames
  /\ \A s \in Slot : entry[s].slot_shmid # NoShm =>
       /\ segSlot[entry[s].slot_shmid] = s
       /\ \/ segKeyed[entry[s].slot_shmid]
          \/ \E p \in Proc : pc[p] = "clear" /\ slot[p] = s
  /\ \A i \in ShmId : segKeyed[i] =>
       /\ segSlot[i] \in Slot
       /\ \/ entry[segSlot[i]].slot_shmid = i
          \/ \E p \in Proc : pc[p] = "set_entry" /\ shm[p] = i /\ slot[p] = segSlot[i]
  /\ ~semAlive => \A i \in ShmId : ~segKeyed[i]
  /\ ~keyed => ~semAlive

TableInv == Entries /\ \A p \in Proc : TableLocal(p)

-----------------------------------------------------------------------------
(* THE SEGMENTS.                                                           *)

(* Where a call knows a segment that was in the table.                     *)
SnapLabel == {"shmat_slot", "header", "memcpy", "memcpy_rest", "release"}
Snapped(p) == pc[p] \in {"subscribe", "sub_wait", "lock_snapshot"} \cup SnapLabel

(* A snapshot is of a segment of the slot; one taken without a subscription *)
(* stays in the table, because the slot stays locked.                       *)
SegLocal(p) ==
  /\ create[p] => call[p].op = "write"
  /\ pc[p] \in {"subscribe", "sub_wait", "lock_snapshot"} => call[p].subscribe # "no"
  /\ Snapped(p) => shm[p] \in ShmId /\ segSlot[shm[p]] = slot[p]
  /\ pc[p] \in SnapLabel /\ call[p].subscribe = "no" =>
       /\ entry[slot[p]] = [slot_shmid |-> shm[p], desc |-> call[p].id]
       /\ segKeyed[shm[p]]

SegInv == \A p \in Proc : SegLocal(p)

-----------------------------------------------------------------------------
(* THE CONTENTS.                                                           *)

(* One array, header and payload.                                          *)
Whole(m) == \E a \in Array : Fits(a, m) /\ m.lo = a.data /\ m.hi = a.data

(* Who is changing a segment: from its creation, or between the two halves *)
(* of a payload.                                                           *)
Writer(p) ==
  /\ call[p].op = "write"
  /\ \/ create[p] /\ pc[p] \in {"set_entry", "snap_slot", "shmat_slot", "header"}
     \/ pc[p] \in {"memcpy", "memcpy_rest"}

(* A segment somebody may come to read.                                    *)
Used(i) ==
  \/ \E s \in Slot : entry[s].slot_shmid = i
  \/ \E p \in Proc : Snapped(p) /\ shm[p] = i

(* How far the copy has come.                                              *)
CopyLocal(p) ==
  LET m == mem[shm[p]] IN
  /\ call[p].op = "write" =>
       /\ pc[p] = "header" /\ create[p] => m.typeID = NewSegment
       /\ pc[p] \in {"memcpy", "memcpy_rest"} => Fits(call[p].arr, m)
       /\ pc[p] = "memcpy_rest" => m.lo = call[p].arr.data
  /\ call[p].op = "read" =>
       /\ pc[p] \in {"memcpy", "memcpy_rest"} =>
            buf[p].typeID = m.typeID /\ buf[p].number = m.number
       /\ pc[p] = "memcpy_rest" => buf[p].lo = m.lo
       /\ pc[p] = "release" => Whole(buf[p])

ContentInv ==
  /\ \A i \in ShmId : Used(i) => Whole(mem[i]) \/ \E p \in Proc : Writer(p) /\ shm[p] = i
  /\ \A p \in Proc : CopyLocal(p)

(* A step of p leaves the other processes where they were, but for those   *)
(* that a publication wakes.                                               *)
Others(p) ==
  \A q \in Proc \ {p} :
    /\ call'[q] = call[q] /\ slot'[q] = slot[q] /\ create'[q] = create[q]
    /\ shm'[q] = shm[q] /\ buf'[q] = buf[q]
    /\ pc'[q] = pc[q] \/ (pc[q] = "sub_wait" /\ pc'[q] = "lock_snapshot")

(* A call that returns leaves the others where they were.                  *)
LEMMA ReturnOthers ==
  ASSUME TypeInv, NEW p \in Proc, Return(p)
  PROVE  Others(p) /\ pc'[p] = "idle" /\ slot'[p] = 0 /\ ~create'[p] /\ call'[p] = NoCall
  BY DEF TypeInv, LocalsOK, LocalsTypeOK, Return, Goto, Others

(* So does a step that moves a process on.                                 *)
LEMMA GotoOthers ==
  ASSUME TypeInv, NEW p \in Proc, NEW l, Goto(p, l),
         \A q \in Proc \ {p} : /\ call'[q] = call[q] /\ slot'[q] = slot[q]
                              /\ create'[q] = create[q] /\ shm'[q] = shm[q]
                              /\ buf'[q] = buf[q]
  PROVE  Others(p) /\ pc'[p] = l
  BY DEF TypeInv, LocalsOK, LocalsTypeOK, Goto, Others


(* Every step of p leaves the others where they were.                       *)
LEMMA StepOthers ==
  ASSUME TypeInv, NEW p \in Proc, Begin(p) \/ Step(p)
  PROVE  Others(p)
<1>1. CASE Begin(p)
  BY <1>1, GotoOthers DEF Begin, TypeInv, LocalsOK, LocalsTypeOK
<1>2. CASE FindMaster(p)
  BY <1>2, ReturnOthers, GotoOthers DEF FindMaster, locals
<1>3. CASE AttachMaster(p)
  BY <1>3, GotoOthers DEF AttachMaster, locals, TypeInv, LocalsOK,
     LocalsTypeOK
<1>4. CASE AttachMasterFault(p)
  BY <1>4 DEF AttachMasterFault, Goto, Die, kernelSem, locals, TypeInv,
     LocalsOK, LocalsTypeOK, Others
<1>5. CASE LockMaster(p)
  BY <1>5, GotoOthers DEF LockMaster, locals, TypeInv, LocalsOK, LocalsTypeOK
<1>6. CASE LockMasterFails(p)
  BY <1>6, ReturnOthers DEF LockMasterFails
<1>7. CASE FindSlot(p)
  BY <1>7, GotoOthers DEF FindSlot, TypeInv, LocalsOK, LocalsTypeOK
<1>8. CASE PickFreeSlot(p)
  BY <1>8, GotoOthers DEF PickFreeSlot, TypeInv, LocalsOK, LocalsTypeOK
<1>9. CASE NoSuchSlot(p)
  BY <1>9, ReturnOthers DEF NoSuchSlot
<1>10. CASE LockSlot(p)
  BY <1>10, GotoOthers DEF LockSlot, locals, TypeInv, LocalsOK, LocalsTypeOK
<1>11. CASE LockSlotFails(p)
  BY <1>11, ReturnOthers DEF LockSlotFails
<1>12. CASE CreateSegment(p)
  BY <1>12, GotoOthers DEF CreateSegment, TypeInv, LocalsOK, LocalsTypeOK
<1>13. CASE CreateSegmentFails(p)
  BY <1>13, ReturnOthers DEF CreateSegmentFails
<1>14. CASE SetEntry(p)
  BY <1>14, GotoOthers DEF SetEntry, locals, TypeInv, LocalsOK, LocalsTypeOK
<1>15. CASE SnapSlot(p)
  BY <1>15, GotoOthers DEF SnapSlot, TypeInv, LocalsOK, LocalsTypeOK
<1>16. CASE AttachSegment(p)
  BY <1>16, GotoOthers DEF AttachSegment, locals, TypeInv, LocalsOK,
     LocalsTypeOK
<1>17. CASE AttachSegmentFails(p)
  BY <1>17, ReturnOthers DEF AttachSegmentFails
<1>18. CASE FillHeader(p)
  BY <1>18, GotoOthers DEF FillHeader, locals, TypeInv, LocalsOK,
     LocalsTypeOK
<1>19. CASE CheckHeader(p)
  BY <1>19, GotoOthers DEF CheckHeader, locals, TypeInv, LocalsOK,
     LocalsTypeOK
<1>20. CASE RefuseMisfit(p)
  BY <1>20, ReturnOthers DEF RefuseMisfit
<1>21. CASE ReadHeader(p)
  BY <1>21, GotoOthers DEF ReadHeader, TypeInv, LocalsOK, LocalsTypeOK
<1>22. CASE CopyFirstHalf(p)
  BY <1>22, GotoOthers DEF CopyFirstHalf, TypeInv, LocalsOK, LocalsTypeOK
<1>23. CASE CopySecondHalf(p)
  BY <1>23, GotoOthers DEF CopySecondHalf, TypeInv, LocalsOK, LocalsTypeOK
<1>24. CASE ReleaseSnapshot(p)
  BY <1>24, ReturnOthers, GotoOthers DEF ReleaseSnapshot, locals
<1>25. CASE CountSubscribers(p)
  BY <1>25, GotoOthers DEF CountSubscribers, TypeInv, LocalsOK, LocalsTypeOK
<1>26. CASE PublishToSubscribers(p)
  BY <1>26 DEF PublishToSubscribers, Others, Waiting, locals, TypeInv,
     LocalsOK, LocalsTypeOK
<1>27. CASE PublishToNobody(p)
  BY <1>27, GotoOthers DEF PublishToNobody, locals, TypeInv, LocalsOK,
     LocalsTypeOK
<1>28. CASE PublishFails(p)
  BY <1>28, ReturnOthers DEF PublishFails
<1>29. CASE Acknowledged(p)
  BY <1>29, ReturnOthers DEF Acknowledged
<1>30. CASE SnapSubscription(p)
  BY <1>30, GotoOthers DEF SnapSubscription, TypeInv, LocalsOK, LocalsTypeOK
<1>31. CASE Subscribe(p)
  BY <1>31, GotoOthers DEF Subscribe, locals, TypeInv, LocalsOK, LocalsTypeOK
<1>32. CASE SubscribeFails(p)
  BY <1>32, ReturnOthers DEF SubscribeFails
<1>33. CASE LockSnapshot(p)
  BY <1>33, GotoOthers DEF LockSnapshot, locals, TypeInv, LocalsOK,
     LocalsTypeOK
<1>34. CASE LockSnapshotFails(p)
  BY <1>34, ReturnOthers DEF LockSnapshotFails
<1>35. CASE FindSlotToFree(p)
  BY <1>35, GotoOthers DEF FindSlotToFree, TypeInv, LocalsOK, LocalsTypeOK
<1>36. CASE ScanUsed(p)
  BY <1>36, GotoOthers DEF ScanUsed, locals, TypeInv, LocalsOK, LocalsTypeOK
<1>37. CASE ScanFree(p)
  BY <1>37 DEF ScanFree, kernelSem, master, segs, TypeInv, LocalsOK,
     LocalsTypeOK, Others
<1>38. CASE LockUsed(p)
  BY <1>38, GotoOthers DEF LockUsed, locals, TypeInv, LocalsOK, LocalsTypeOK
<1>39. CASE LockUsedIgnored(p)
  BY <1>39, GotoOthers DEF LockUsedIgnored, locals, TypeInv, LocalsOK,
     LocalsTypeOK
<1>40. CASE InfoRead(p)
  BY <1>40, GotoOthers DEF InfoRead, TypeInv, LocalsOK, LocalsTypeOK
<1>41. CASE InfoFault(p)
  BY <1>41 DEF InfoFault, Goto, Die, kernelSem, locals, TypeInv, LocalsOK,
     LocalsTypeOK, Others
<1>42. CASE RemoveSegment(p)
  BY <1>42, GotoOthers DEF RemoveSegment, locals, TypeInv, LocalsOK,
     LocalsTypeOK
<1>43. CASE ClearEntry(p)
  BY <1>43, ReturnOthers DEF ClearEntry, Goto, Others, TypeInv, LocalsOK,
     LocalsTypeOK
<1>44. CASE InfoReturns(p)
  BY <1>44, ReturnOthers DEF InfoReturns
<1>45. CASE RemoveSemaphores(p)
  BY <1>45, GotoOthers DEF RemoveSemaphores, locals, TypeInv, LocalsOK,
     LocalsTypeOK
<1>46. CASE RemoveMaster(p)
  BY <1>46, ReturnOthers DEF RemoveMaster
<1> QED BY <1>1, <1>2, <1>3, <1>4, <1>5, <1>6, <1>7, <1>8, <1>9, <1>10, <1>11,
   <1>12,
   <1>13, <1>14, <1>15, <1>16, <1>17, <1>18, <1>19, <1>20, <1>21, <1>22,
   <1>23, <1>24, <1>25, <1>26, <1>27, <1>28, <1>29, <1>30, <1>31, <1>32,
   <1>33, <1>34, <1>35, <1>36, <1>37, <1>38, <1>39, <1>40, <1>41, <1>42,
   <1>43, <1>44, <1>45, <1>46 DEF Step

(* What may be called.                                                     *)
LEMMA CallFields ==
  ASSUME NEW p \in Proc, call[p] \in Call[p]
  PROVE  /\ call[p].op \in Op \ {"none"}
         /\ call[p].op = "write" => call[p].arr \in Array
         /\ call[p].op \in {"write", "read", "free"} => call[p].id \in Id /\ call[p].id # NoDesc
         /\ call[p].op # "read" => call[p].subscribe = "no"
         /\ call[p].op # "write" => ~call[p].publish
<1>1. call[p] \in CallRecord
  BY PoolAssumption
<1> QED BY <1>1, PoolAssumption DEF CallRecord

(* A name that is looked up has a segment where it is found.               *)
LEMMA FoundSlot ==
  ASSUME TypeInv, TableInv, NEW p \in Proc, pc[p] = "lkup_slot",
         NEW s \in lkup_slot(call[p].id)
  PROVE  /\ s \in Slot /\ entry[s].desc = call[p].id /\ entry[s].slot_shmid # NoShm
         /\ entry[s].slot_shmid \in ShmId
<1>1. s \in Slot /\ entry[s].desc = call[p].id
  BY DEF lkup_slot, FirstOf
<1>2. call[p].id # NoDesc
  BY CallFields DEF TableInv, TableLocal
<1>3. entry[s].slot_shmid \in ShmId \cup {NoShm}
  BY <1>1 DEF TypeInv, SharedTypeOK
<1> QED BY <1>1, <1>2, <1>3 DEF TableInv, Entries

(* A free slot has no segment.                                             *)
LEMMA FreeSlot ==
  ASSUME NEW s \in getfree_slot
  PROVE  s \in Slot /\ entry[s].slot_shmid = NoShm
  BY DEF getfree_slot, FirstOf

(* A set of numbers that is not empty has a first element.                 *)
LEMMA FirstExists ==
  ASSUME NEW S \in SUBSET Nat, S # {}
  PROVE  FirstOf(S) # {}
<1> DEFINE T == {0 .. s : s \in S}
           R == StrictSubsetOrdering(Nat)
<1>1. T \subseteq FiniteSubsetsOf(Nat) /\ T # {}
  <2>1. \A s \in S : IsFiniteSet(0 .. s) /\ 0 .. s \in SUBSET Nat
    BY FS_Interval
  <2> QED BY <2>1 DEF FiniteSubsetsOf
<1>2. PICK x \in T : \A y \in T : <<y, x>> \notin R
  <2>1. IsWellFoundedOn(R, FiniteSubsetsOf(Nat))
    BY FS_StrictSubsetOrderingWellFounded
  <2> HIDE DEF T, R
  <2> QED BY <1>1, <2>1, WFMin
<1>3. PICK s \in S : x = 0 .. s
  OBVIOUS
<1>4. ASSUME NEW t \in S PROVE s <= t
  <2> SUFFICES ASSUME t < s PROVE FALSE
    OBVIOUS
  <2>1. 0 .. t \in SUBSET Nat /\ 0 .. s \in SUBSET Nat /\ 0 .. t \subseteq 0 .. s
    OBVIOUS
  <2>2. s \in 0 .. s /\ s \notin 0 .. t
    OBVIOUS
  <2>3. <<0 .. t, 0 .. s>> \in R
    BY <2>1, <2>2 DEF StrictSubsetOrdering
  <2>4. 0 .. t \in T
    OBVIOUS
  <2> HIDE DEF T, R
  <2> QED BY <1>2, <1>3, <2>3, <2>4
<1> QED BY <1>4 DEF FirstOf

(* A name that is not found is nobody's.                                   *)
LEMMA NobodysName ==
  ASSUME NEW id, lkup_slot(id) = {}
  PROVE  \A t \in Slot : entry[t].desc # id
<1> SUFFICES ASSUME NEW t \in Slot, entry[t].desc = id PROVE FALSE
  OBVIOUS
<1>1. {s \in Slot : entry[s].desc = id} \in SUBSET Nat
  BY DEF Slot
<1> QED BY <1>1, FirstExists DEF lkup_slot

(* The others have nothing to do with the table while p is in it.          *)
LEMMA OthersOut ==
  ASSUME TypeInv, MasterInv, TableInv, NEW p \in Proc, HoldsMaster(p), Others(p),
         NEW q \in Proc \ {p}
  PROVE  /\ TableLocal(q)'
         /\ pc[q] \notin {"set_entry", "clear"} /\ pc'[q] \notin {"set_entry", "clear"}
<1>1. ~HoldsMaster(q)
  BY DEF MasterInv, MasterExclusive
<1> QED BY <1>1 DEF HoldsMaster, Others, TableInv, TableLocal, Starting

(* A step that changes neither the table nor the segments, nor a process   *)
(* in the middle of such a change.                                         *)
LEMMA TableAside ==
  ASSUME TypeInv, TableInv, NEW p \in Proc, Others(p), TableLocal(p)',
         UNCHANGED <<entry, segSlot, segKeyed, keyed, semAlive>>,
         {pc[p], pc'[p]} \cap {"set_entry", "clear"} = {}
  PROVE  TableInv'
<1>1. Entries'
  <2>1. \A q \in Proc : pc[q] \in {"clear", "set_entry"} =>
          pc'[q] = pc[q] /\ slot'[q] = slot[q] /\ shm'[q] = shm[q]
    BY DEF Others
  <2>2. \A s \in Slot : entry[s].slot_shmid # NoShm =>
          /\ segSlot'[entry[s].slot_shmid] = s
          /\ \/ segKeyed'[entry[s].slot_shmid]
             \/ \E q \in Proc : pc'[q] = "clear" /\ slot'[q] = s
    BY <2>1 DEF TableInv, Entries
  <2>3. \A i \in ShmId : segKeyed[i] =>
          /\ segSlot'[i] \in Slot
          /\ \/ entry[segSlot[i]].slot_shmid = i
             \/ \E q \in Proc : pc'[q] = "set_entry" /\ shm'[q] = i /\ slot'[q] = segSlot[i]
    BY <2>1 DEF TableInv, Entries
  <2> QED BY <2>2, <2>3 DEF TableInv, Entries, UniqueNames
<1>2. ASSUME NEW q \in Proc \ {p} PROVE TableLocal(q)'
  BY DEF TableInv, TableLocal, Starting, Creating, Found, Others
<1> QED BY <1>1, <1>2 DEF TableInv


(* Every step of a process preserves the invariant of the table.           *)
LEMMA TableStep ==
  ASSUME TypeInv, MasterInv, TableInv, NEW p \in Proc, Begin(p) \/ Step(p)
  PROVE  TableInv'
<1> USE PoolAssumption
<1>0. Others(p)
  BY StepOthers
<1>1. CASE Begin(p)
  <2>1. TableLocal(p)'
    BY <1>1 DEF Begin, Goto, kernelSem, master, segs, TypeInv, LocalsOK,
       LocalsTypeOK, TableInv, TableLocal, Starting
  <2> QED BY <1>1, <1>0, <2>1, TableAside DEF Begin, Goto, kernelSem, master,
     segs,
     TypeInv, LocalsOK, LocalsTypeOK
<1>2. CASE FindMaster(p)
  <2>1. TableLocal(p)'
    BY <1>2, ReturnOthers DEF FindMaster, Goto, kernelSem, master, segs,
       locals, TypeInv, LocalsOK, LocalsTypeOK, TableInv, TableLocal,
       Starting
  <2> QED BY <1>2, <1>0, <2>1, TableAside, ReturnOthers DEF FindMaster, Goto,
     kernelSem, master, segs, locals, TypeInv, LocalsOK, LocalsTypeOK
<1>3. CASE AttachMaster(p)
  <2>1. TableLocal(p)'
    BY <1>3 DEF AttachMaster, Goto, kernelSem, segs, locals, TypeInv,
       LocalsOK, LocalsTypeOK, TableInv, TableLocal, Starting
  <2> QED BY <1>3, <1>0, <2>1, TableAside DEF AttachMaster, Goto, kernelSem,
     segs,
     locals, TypeInv, LocalsOK, LocalsTypeOK
<1>4. CASE AttachMasterFault(p)
  <2>1. TableLocal(p)'
    BY <1>4 DEF AttachMasterFault, Goto, Die, kernelSem, locals, TypeInv,
       LocalsOK, LocalsTypeOK, TableInv, TableLocal, Starting
  <2> QED BY <1>4, <1>0, <2>1, TableAside DEF AttachMasterFault, Goto, Die,
     kernelSem, locals, TypeInv, LocalsOK, LocalsTypeOK
<1>5. CASE LockMaster(p)
  <2>1. TableLocal(p)'
    <3>1. call[p] \in Call[p] /\ slot[p] = 0 /\ ~create[p]
      BY <1>5 DEF LockMaster, TableInv, TableLocal, Starting
    <3>2. call[p].op \in {"info", "cleanup", "write", "read", "free"}
      BY <3>1, CallFields DEF Op
    <3>3. \A t \in Slot : ~(t < 0)
      BY PoolAssumption DEF Slot
    <3> QED BY <1>5, <3>1, <3>2, <3>3 DEF LockMaster, Goto, TableLocal,
       Starting, locals, TypeInv,
            LocalsOK, LocalsTypeOK
  <2> QED BY <1>5, <1>0, <2>1, TableAside DEF LockMaster, Goto, master, segs,
     locals,
     TypeInv, LocalsOK, LocalsTypeOK
<1>6. CASE LockMasterFails(p)
  <2>1. TableLocal(p)'
    BY <1>6, ReturnOthers DEF LockMasterFails, Goto, Detach, kernelSem, segs,
       TypeInv, LocalsOK, LocalsTypeOK, TableInv, TableLocal, Starting
  <2> QED BY <1>6, <1>0, <2>1, TableAside, ReturnOthers DEF LockMasterFails,
     Goto,
     Detach, kernelSem, segs, TypeInv, LocalsOK, LocalsTypeOK
<1>7. CASE FindSlot(p)
  <2>1. TableLocal(p)'
    <3>1. PICK s \in lkup_slot(call[p].id) : slot' = [slot EXCEPT ![p] = s]
      BY <1>7 DEF FindSlot
    <3>2. pc[p] = "lkup_slot" /\ call[p] \in Call[p] /\ ~create[p]
      BY <1>7 DEF FindSlot, TableInv, TableLocal, Starting
    <3>3. entry[s].desc = call[p].id /\ entry[s].slot_shmid # NoShm
      BY <3>1, <3>2, FoundSlot
    <3> QED BY <1>7, <3>1, <3>2, <3>3 DEF FindSlot, Goto, TableLocal, Starting,
       Found, TypeInv,
            LocalsOK, LocalsTypeOK
  <2> QED BY <1>7, <1>0, <2>1, TableAside DEF FindSlot, Goto, kernelSem, master,
     segs, TypeInv, LocalsOK, LocalsTypeOK
<1>8. CASE PickFreeSlot(p)
  <2>1. TableLocal(p)'
    <3>1. PICK s \in getfree_slot : slot' = [slot EXCEPT ![p] = s]
      BY <1>8 DEF PickFreeSlot
    <3>2. call[p] \in Call[p] /\ call[p].op = "write"
      BY <1>8 DEF PickFreeSlot, TableInv, TableLocal
    <3>3. entry[s].slot_shmid = NoShm /\ \A t \in Slot : entry[t].desc # call[p].id
      BY <1>8, FreeSlot, NobodysName DEF PickFreeSlot
    <3> QED BY <1>8, <3>1, <3>2, <3>3 DEF PickFreeSlot, Goto, TableLocal,
       Starting, Creating, TypeInv,
            LocalsOK, LocalsTypeOK
  <2> QED BY <1>8, <1>0, <2>1, TableAside DEF PickFreeSlot, Goto, kernelSem,
     master,
     segs, TypeInv, LocalsOK, LocalsTypeOK
<1>9. CASE NoSuchSlot(p)
  <2>1. TableLocal(p)'
    BY <1>9, ReturnOthers DEF NoSuchSlot, Goto, Detach, segs, TypeInv,
       LocalsOK, LocalsTypeOK, TableInv, TableLocal, Starting
  <2> QED BY <1>9, <1>0, <2>1, TableAside, ReturnOthers DEF NoSuchSlot, Goto,
     Detach,
     segs, TypeInv, LocalsOK, LocalsTypeOK
<1>10. CASE LockSlot(p)
  <2>1. TableLocal(p)'
    BY <1>10 DEF LockSlot, Goto, master, segs, locals, TypeInv, LocalsOK,
       LocalsTypeOK, TableInv, TableLocal, Starting, Creating, Found
  <2> QED BY <1>10, <1>0, <2>1, TableAside DEF LockSlot, Goto, master, segs,
     locals,
     TypeInv, LocalsOK, LocalsTypeOK
<1>11. CASE LockSlotFails(p)
  <2>1. TableLocal(p)'
    BY <1>11, ReturnOthers DEF LockSlotFails, Goto, Detach, segs, TypeInv,
       LocalsOK, LocalsTypeOK, TableInv, TableLocal, Starting
  <2> QED BY <1>11, <1>0, <2>1, TableAside, ReturnOthers DEF LockSlotFails,
     Goto,
     Detach, segs, TypeInv, LocalsOK, LocalsTypeOK
<1>12. CASE CreateSegment(p)
  <2>1. Others(p) /\ pc'[p] = "set_entry"
    BY <1>0, <1>12 DEF CreateSegment, Goto, TypeInv, LocalsOK, LocalsTypeOK
  <2>2. /\ HoldsMaster(p) /\ semAlive /\ slot[p] \in Slot /\ Creating(p)
        /\ call[p] \in Call[p] /\ pc[p] = "shmget_slot"
    BY <1>12 DEF CreateSegment, HoldsMaster, AtTable, MasterInv, TypeInv,
       LocalsOK,
       LocalOK, SlotLabel, TableInv, TableLocal
  <2>3. PICK i \in ShmId : /\ Fresh(i) /\ shm' = [shm EXCEPT ![p] = i]
                            /\ segSlot' = [segSlot EXCEPT ![i] = slot[p]]
                            /\ segKeyed' = [segKeyed EXCEPT ![i] = TRUE]
    BY <1>12 DEF CreateSegment
  <2>4. /\ UNCHANGED <<entry, semAlive, keyed, call, slot, create>>
        /\ shm'[p] = i /\ segSlot'[i] = slot[p] /\ segKeyed'[i]
        /\ \A j \in ShmId \ {i} : segSlot'[j] = segSlot[j] /\ segKeyed'[j] = segKeyed[j]
    BY <1>12, <2>3 DEF CreateSegment, kernelSem, master, TypeInv, LocalsOK,
       LocalsTypeOK,
       SegsTypeOK
  <2>5. \A q \in Proc : pc[q] \notin {"set_entry", "clear"}
    BY <2>1, <2>2, OthersOut
  <2>6. \A s \in Slot : entry[s].slot_shmid # NoShm =>
          /\ entry[s].slot_shmid \in ShmId \ {i}
          /\ segSlot[entry[s].slot_shmid] = s /\ segKeyed[entry[s].slot_shmid]
    BY <2>3, <2>5 DEF TableInv, Entries, Fresh, TypeInv, SharedTypeOK
  <2>7. \A j \in ShmId \ {i} : segKeyed[j] =>
          segSlot[j] \in Slot /\ entry[segSlot[j]].slot_shmid = j
    BY <2>5 DEF TableInv, Entries
  <2>8. Entries'
    BY <2>1, <2>2, <2>4, <2>6, <2>7 DEF TableInv, Entries, UniqueNames
  <2>9. TableLocal(p)'
    BY <2>1, <2>2, <2>4, <2>3 DEF TableLocal, Starting, Creating
  <2> QED BY <2>1, <2>2, <2>8, <2>9, OthersOut DEF TableInv
<1>13. CASE CreateSegmentFails(p)
  <2>1. TableLocal(p)'
    BY <1>13, ReturnOthers DEF CreateSegmentFails, Goto, Detach, segs,
       TypeInv, LocalsOK, LocalsTypeOK, TableInv, TableLocal, Starting
  <2> QED BY <1>13, <1>0, <2>1, TableAside, ReturnOthers DEF CreateSegmentFails,
     Goto, Detach, segs, TypeInv, LocalsOK, LocalsTypeOK
<1>14. CASE SetEntry(p)
  <2>1. Others(p) /\ pc'[p] = "snap_slot"
    BY <1>0, <1>14 DEF SetEntry, Goto, TypeInv, LocalsOK, LocalsTypeOK, locals
  <2>2. /\ HoldsMaster(p) /\ semAlive /\ slot[p] \in Slot /\ Creating(p)
        /\ call[p] \in Call[p] /\ shm[p] \in ShmId
        /\ segKeyed[shm[p]] /\ segSlot[shm[p]] = slot[p]
    BY <1>14 DEF SetEntry, HoldsMaster, AtTable, MasterInv, TypeInv, LocalsOK,
       LocalOK, SlotLabel, TableInv, TableLocal
  <2>3. call[p].id # NoDesc /\ shm[p] # NoShm
    BY <2>2, CallFields, PoolAssumption DEF Creating
  <2>4. /\ UNCHANGED <<segSlot, segKeyed, semAlive, keyed, call, slot, create, shm>>
        /\ entry'[slot[p]].slot_shmid = shm[p] /\ entry'[slot[p]].desc = call[p].id
        /\ \A s \in Slot \ {slot[p]} : entry'[s] = entry[s]
    BY <1>14, <2>2 DEF SetEntry, kernelSem, master, segs, locals, TypeInv,
       SharedTypeOK
  <2>5. \A q \in Proc \ {p} : pc[q] \notin {"set_entry", "clear"}
    BY <2>1, <2>2, OthersOut
  <2>6. \A s \in Slot : entry[s].slot_shmid # NoShm =>
          segSlot[entry[s].slot_shmid] = s /\ segKeyed[entry[s].slot_shmid]
    BY <1>14, <2>5 DEF TableInv, Entries, SetEntry
  <2>7. \A j \in ShmId \ {shm[p]} : segKeyed[j] =>
          /\ segSlot[j] \in Slot \ {slot[p]}
          /\ entry[segSlot[j]].slot_shmid = j
    BY <2>2, <2>5, PoolAssumption DEF TableInv, Entries, Creating
  <2>8. Entries'
    <3>1. (\A s \in Slot : entry[s].slot_shmid = NoShm <=> entry[s].desc = NoDesc)'
      BY <2>3, <2>4 DEF TableInv, Entries
    <3>2. UniqueNames'
      BY <2>2, <2>4 DEF TableInv, Entries, UniqueNames, Creating
    <3>3. (\A s \in Slot : entry[s].slot_shmid # NoShm =>
             segSlot[entry[s].slot_shmid] = s /\ segKeyed[entry[s].slot_shmid])'
      BY <2>2, <2>4, <2>6
    <3>4. (\A j \in ShmId : segKeyed[j] =>
             segSlot[j] \in Slot /\ entry[segSlot[j]].slot_shmid = j)'
      BY <2>2, <2>4, <2>7
    <3> QED BY <2>2, <2>4, <3>1, <3>2, <3>3, <3>4 DEF TableInv, Entries
  <2>9. TableLocal(p)'
    BY <2>1, <2>2, <2>3, <2>4 DEF TableLocal, Starting, Found
  <2> QED BY <2>1, <2>2, <2>8, <2>9, OthersOut DEF TableInv
<1>15. CASE SnapSlot(p)
  <2>1. TableLocal(p)'
    BY <1>15 DEF SnapSlot, Goto, Detach, segs, TypeInv, LocalsOK,
       LocalsTypeOK, TableInv, TableLocal, Starting
  <2> QED BY <1>15, <1>0, <2>1, TableAside DEF SnapSlot, Goto, Detach, segs,
     TypeInv,
     LocalsOK, LocalsTypeOK
<1>16. CASE AttachSegment(p)
  <2>1. TableLocal(p)'
    BY <1>16 DEF AttachSegment, Goto, kernelSem, master, locals, TypeInv,
       LocalsOK, LocalsTypeOK, TableInv, TableLocal, Starting
  <2> QED BY <1>16, <1>0, <2>1, TableAside DEF AttachSegment, Goto, kernelSem,
     master, locals, TypeInv, LocalsOK, LocalsTypeOK
<1>17. CASE AttachSegmentFails(p)
  <2>1. TableLocal(p)'
    BY <1>17, ReturnOthers DEF AttachSegmentFails, Goto, master, segs,
       TypeInv, LocalsOK, LocalsTypeOK, TableInv, TableLocal, Starting
  <2> QED BY <1>17, <1>0, <2>1, TableAside, ReturnOthers DEF AttachSegmentFails,
     Goto, master, segs, TypeInv, LocalsOK, LocalsTypeOK
<1>18. CASE FillHeader(p)
  <2>1. TableLocal(p)'
    BY <1>18 DEF FillHeader, Goto, kernelSem, master, locals, TypeInv,
       LocalsOK, LocalsTypeOK, TableInv, TableLocal, Starting
  <2> QED BY <1>18, <1>0, <2>1, TableAside DEF FillHeader, Goto, kernelSem,
     master,
     locals, TypeInv, LocalsOK, LocalsTypeOK
<1>19. CASE CheckHeader(p)
  <2>1. TableLocal(p)'
    BY <1>19 DEF CheckHeader, Goto, kernelSem, master, segs, locals, TypeInv,
       LocalsOK, LocalsTypeOK, TableInv, TableLocal, Starting
  <2> QED BY <1>19, <1>0, <2>1, TableAside DEF CheckHeader, Goto, kernelSem,
     master,
     segs, locals, TypeInv, LocalsOK, LocalsTypeOK
<1>20. CASE RefuseMisfit(p)
  <2>1. TableLocal(p)'
    BY <1>20, ReturnOthers DEF RefuseMisfit, Goto, master, TypeInv, LocalsOK,
       LocalsTypeOK, TableInv, TableLocal, Starting
  <2> QED BY <1>20, <1>0, <2>1, TableAside, ReturnOthers DEF RefuseMisfit, Goto,
     master, TypeInv, LocalsOK, LocalsTypeOK
<1>21. CASE ReadHeader(p)
  <2>1. TableLocal(p)'
    BY <1>21 DEF ReadHeader, Goto, kernelSem, master, segs, TypeInv,
       LocalsOK, LocalsTypeOK, TableInv, TableLocal, Starting
  <2> QED BY <1>21, <1>0, <2>1, TableAside DEF ReadHeader, Goto, kernelSem,
     master,
     segs, TypeInv, LocalsOK, LocalsTypeOK
<1>22. CASE CopyFirstHalf(p)
  <2>1. TableLocal(p)'
    BY <1>22 DEF CopyFirstHalf, Goto, kernelSem, master, TypeInv, LocalsOK,
       LocalsTypeOK, TableInv, TableLocal, Starting
  <2> QED BY <1>22, <1>0, <2>1, TableAside DEF CopyFirstHalf, Goto, kernelSem,
     master, TypeInv, LocalsOK, LocalsTypeOK
<1>23. CASE CopySecondHalf(p)
  <2>1. TableLocal(p)'
    BY <1>23 DEF CopySecondHalf, Goto, kernelSem, master, TypeInv, LocalsOK,
       LocalsTypeOK, TableInv, TableLocal, Starting
  <2> QED BY <1>23, <1>0, <2>1, TableAside DEF CopySecondHalf, Goto, kernelSem,
     master, TypeInv, LocalsOK, LocalsTypeOK
<1>24. CASE ReleaseSnapshot(p)
  <2>1. TableLocal(p)'
    BY <1>24, ReturnOthers DEF ReleaseSnapshot, Goto, master, locals,
       TypeInv, LocalsOK, LocalsTypeOK, TableInv, TableLocal, Starting
  <2> QED BY <1>24, <1>0, <2>1, TableAside, ReturnOthers DEF ReleaseSnapshot,
     Goto,
     master, locals, TypeInv, LocalsOK, LocalsTypeOK
<1>25. CASE CountSubscribers(p)
  <2>1. TableLocal(p)'
    BY <1>25 DEF CountSubscribers, Goto, kernelSem, master, segs, TypeInv,
       LocalsOK, LocalsTypeOK, TableInv, TableLocal, Starting
  <2> QED BY <1>25, <1>0, <2>1, TableAside DEF CountSubscribers, Goto,
     kernelSem,
     master, segs, TypeInv, LocalsOK, LocalsTypeOK
<1>26. CASE PublishToSubscribers(p)
  <2>1. TableLocal(p)'
    BY <1>26 DEF PublishToSubscribers, master, segs, locals, TypeInv,
       LocalsOK, LocalsTypeOK, TableInv, TableLocal, Starting
  <2> QED BY <1>26, <1>0, <2>1, TableAside DEF PublishToSubscribers, master,
     segs,
     locals, TypeInv, LocalsOK, LocalsTypeOK
<1>27. CASE PublishToNobody(p)
  <2>1. TableLocal(p)'
    BY <1>27 DEF PublishToNobody, Goto, kernelSem, master, segs, locals,
       TypeInv, LocalsOK, LocalsTypeOK, TableInv, TableLocal, Starting
  <2> QED BY <1>27, <1>0, <2>1, TableAside DEF PublishToNobody, Goto, kernelSem,
     master, segs, locals, TypeInv, LocalsOK, LocalsTypeOK
<1>28. CASE PublishFails(p)
  <2>1. TableLocal(p)'
    BY <1>28, ReturnOthers DEF PublishFails, Goto, kernelSem, master, segs,
       TypeInv, LocalsOK, LocalsTypeOK, TableInv, TableLocal, Starting
  <2> QED BY <1>28, <1>0, <2>1, TableAside, ReturnOthers DEF PublishFails, Goto,
     kernelSem, master, segs, TypeInv, LocalsOK, LocalsTypeOK
<1>29. CASE Acknowledged(p)
  <2>1. TableLocal(p)'
    BY <1>29, ReturnOthers DEF Acknowledged, Goto, kernelSem, master, segs,
       TypeInv, LocalsOK, LocalsTypeOK, TableInv, TableLocal, Starting
  <2> QED BY <1>29, <1>0, <2>1, TableAside, ReturnOthers DEF Acknowledged, Goto,
     kernelSem, master, segs, TypeInv, LocalsOK, LocalsTypeOK
<1>30. CASE SnapSubscription(p)
  <2>1. TableLocal(p)'
    BY <1>30 DEF SnapSubscription, Goto, Detach, segs, TypeInv, LocalsOK,
       LocalsTypeOK, TableInv, TableLocal, Starting
  <2> QED BY <1>30, <1>0, <2>1, TableAside DEF SnapSubscription, Goto, Detach,
     segs,
     TypeInv, LocalsOK, LocalsTypeOK
<1>31. CASE Subscribe(p)
  <2>1. TableLocal(p)'
    BY <1>31 DEF Subscribe, Goto, master, segs, locals, TypeInv, LocalsOK,
       LocalsTypeOK, TableInv, TableLocal, Starting
  <2> QED BY <1>31, <1>0, <2>1, TableAside DEF Subscribe, Goto, master, segs,
     locals,
     TypeInv, LocalsOK, LocalsTypeOK
<1>32. CASE SubscribeFails(p)
  <2>1. TableLocal(p)'
    BY <1>32, ReturnOthers DEF SubscribeFails, Goto, kernelSem, master, segs,
       TypeInv, LocalsOK, LocalsTypeOK, TableInv, TableLocal, Starting
  <2> QED BY <1>32, <1>0, <2>1, TableAside, ReturnOthers DEF SubscribeFails,
     Goto,
     kernelSem, master, segs, TypeInv, LocalsOK, LocalsTypeOK
<1>33. CASE LockSnapshot(p)
  <2>1. TableLocal(p)'
    BY <1>33 DEF LockSnapshot, Goto, master, segs, locals, TypeInv, LocalsOK,
       LocalsTypeOK, TableInv, TableLocal, Starting
  <2> QED BY <1>33, <1>0, <2>1, TableAside DEF LockSnapshot, Goto, master, segs,
     locals, TypeInv, LocalsOK, LocalsTypeOK
<1>34. CASE LockSnapshotFails(p)
  <2>1. TableLocal(p)'
    BY <1>34, ReturnOthers DEF LockSnapshotFails, Goto, kernelSem, master,
       segs, TypeInv, LocalsOK, LocalsTypeOK, TableInv, TableLocal, Starting
  <2> QED BY <1>34, <1>0, <2>1, TableAside, ReturnOthers DEF LockSnapshotFails,
     Goto,
     kernelSem, master, segs, TypeInv, LocalsOK, LocalsTypeOK
<1>35. CASE FindSlotToFree(p)
  <2>1. TableLocal(p)'
    <3>1. PICK s \in lkup_slot(call[p].id) : slot' = [slot EXCEPT ![p] = s]
      BY <1>35 DEF FindSlotToFree
    <3>2. pc[p] = "lkup_slot" /\ call[p] \in Call[p] /\ ~create[p]
      BY <1>35 DEF FindSlotToFree, TableInv, TableLocal, Starting
    <3>3. entry[s].desc = call[p].id /\ entry[s].slot_shmid # NoShm
      BY <3>1, <3>2, FoundSlot
    <3> QED BY <1>35, <3>1, <3>2, <3>3 DEF FindSlotToFree, Goto, TableLocal,
       Starting, TypeInv,
            LocalsOK, LocalsTypeOK
  <2> QED BY <1>35, <1>0, <2>1, TableAside DEF FindSlotToFree, Goto, kernelSem,
     master, segs, TypeInv, LocalsOK, LocalsTypeOK
<1>36. CASE ScanUsed(p)
  <2>1. TableLocal(p)'
    BY <1>36 DEF ScanUsed, Goto, kernelSem, master, segs, locals, TypeInv,
       LocalsOK, LocalsTypeOK, TableInv, TableLocal, Starting
  <2> QED BY <1>36, <1>0, <2>1, TableAside DEF ScanUsed, Goto, kernelSem,
     master,
     segs, locals, TypeInv, LocalsOK, LocalsTypeOK
<1>37. CASE ScanFree(p)
  <2>1. TableLocal(p)'
    <3>1. /\ pc'[p] = "scan" /\ slot'[p] = slot[p] + 1 /\ call' = call /\ entry' = entry
          /\ pc[p] = "scan" /\ slot[p] \in Nat /\ entry[slot[p]].slot_shmid = NoShm
      BY <1>37 DEF ScanFree, TypeInv, LocalsOK, LocalsTypeOK
    <3>2. \A t \in Slot : t < slot[p] + 1 => t < slot[p] \/ t = slot[p]
      BY <3>1 DEF Slot
    <3> QED BY <3>1, <3>2 DEF TableInv, TableLocal, Starting
  <2> QED BY <1>37, <1>0, <2>1, TableAside DEF ScanFree, kernelSem, master,
     segs,
     TypeInv, LocalsOK, LocalsTypeOK
<1>38. CASE LockUsed(p)
  <2>1. TableLocal(p)'
    BY <1>38 DEF LockUsed, Goto, master, segs, locals, TypeInv, LocalsOK,
       LocalsTypeOK, TableInv, TableLocal, Starting
  <2> QED BY <1>38, <1>0, <2>1, TableAside DEF LockUsed, Goto, master, segs,
     locals,
     TypeInv, LocalsOK, LocalsTypeOK
<1>39. CASE LockUsedIgnored(p)
  <2>1. TableLocal(p)'
    BY <1>39 DEF LockUsedIgnored, Goto, kernelSem, master, segs, locals,
       TypeInv, LocalsOK, LocalsTypeOK, TableInv, TableLocal, Starting
  <2> QED BY <1>39, <1>0, <2>1, TableAside DEF LockUsedIgnored, Goto, kernelSem,
     master, segs, locals, TypeInv, LocalsOK, LocalsTypeOK
<1>40. CASE InfoRead(p)
  <2>1. TableLocal(p)'
    <3>1. call[p].op = "info" /\ call[p] \in Call[p]
      BY <1>40 DEF InfoRead, TableInv, TableLocal
    <3> QED BY <1>40, <3>1 DEF InfoRead, Goto, TableLocal, Starting, TypeInv,
       LocalsOK, LocalsTypeOK
  <2> QED BY <1>40, <1>0, <2>1, TableAside DEF InfoRead, Goto, master, segs,
     TypeInv,
     LocalsOK, LocalsTypeOK
<1>41. CASE InfoFault(p)
  <2>1. TableLocal(p)'
    BY <1>41 DEF InfoFault, Goto, Die, kernelSem, locals, TypeInv, LocalsOK,
       LocalsTypeOK, TableInv, TableLocal, Starting
  <2> QED BY <1>41, <1>0, <2>1, TableAside DEF InfoFault, Goto, Die, kernelSem,
     locals, TypeInv, LocalsOK, LocalsTypeOK
<1>42. CASE RemoveSegment(p)
  <2> DEFINE i == entry[slot[p]].slot_shmid
  <2>1. Others(p) /\ pc'[p] = "clear"
    BY <1>0, <1>42 DEF RemoveSegment, Goto, TypeInv, LocalsOK, LocalsTypeOK,
       locals
  <2>2. /\ HoldsMaster(p) /\ semAlive /\ slot[p] \in Slot /\ call[p] \in Call[p]
        /\ i # NoShm
        /\ call[p].op = "cleanup" => \A t \in Slot : t < slot[p] => entry[t].slot_shmid = NoShm
    BY <1>42 DEF RemoveSegment, HoldsMaster, AtTable, MasterInv, TypeInv,
       LocalsOK,
       LocalOK, SlotLabel, TableInv, TableLocal
  <2>3. i \in ShmId /\ segSlot[i] = slot[p]
    BY <2>2 DEF TypeInv, SharedTypeOK, TableInv, Entries
  <2>4. /\ UNCHANGED <<entry, segSlot, semAlive, keyed, call, slot, create, shm>>
        /\ ~segKeyed'[i] /\ \A j \in ShmId \ {i} : segKeyed'[j] = segKeyed[j]
    BY <1>42, <2>3 DEF RemoveSegment, kernelSem, master, locals, TypeInv,
       SegsTypeOK
  <2>5. \A q \in Proc \ {p} : pc[q] \notin {"set_entry", "clear"}
    BY <2>1, <2>2, OthersOut
  <2>6. \A s \in Slot \ {slot[p]} : entry[s].slot_shmid # NoShm =>
          /\ entry[s].slot_shmid \in ShmId \ {i}
          /\ segSlot[entry[s].slot_shmid] = s /\ segKeyed[entry[s].slot_shmid]
    BY <1>42, <2>3, <2>5 DEF TableInv, Entries, TypeInv, SharedTypeOK,
       RemoveSegment
  <2>7. \A j \in ShmId \ {i} : segKeyed[j] =>
          segSlot[j] \in Slot /\ entry[segSlot[j]].slot_shmid = j
    BY <1>42, <2>5 DEF TableInv, Entries, RemoveSegment
  <2>8. Entries'
    <3>1. (\A s \in Slot : entry[s].slot_shmid # NoShm =>
             /\ segSlot[entry[s].slot_shmid] = s
             /\ \/ segKeyed[entry[s].slot_shmid]
                \/ \E q \in Proc : pc[q] = "clear" /\ slot[q] = s)'
      BY <2>1, <2>3, <2>4, <2>6
    <3>2. (\A j \in ShmId : segKeyed[j] =>
             segSlot[j] \in Slot /\ entry[segSlot[j]].slot_shmid = j)'
      BY <2>4, <2>7
    <3> HIDE DEF i
    <3> QED BY <2>2, <2>4, <3>1, <3>2 DEF TableInv, Entries, UniqueNames
  <2>9. TableLocal(p)'
    BY <2>1, <2>2, <2>4 DEF TableLocal, Starting
  <2> QED BY <2>1, <2>2, <2>8, <2>9, OthersOut DEF TableInv
<1>43. CASE ClearEntry(p)
  <2>2. /\ HoldsMaster(p) /\ semAlive /\ slot[p] \in Slot /\ call[p] \in Call[p]
        /\ ~segKeyed[entry[slot[p]].slot_shmid] /\ pc[p] = "clear"
        /\ call[p].op = "cleanup" => \A t \in Slot : t < slot[p] => entry[t].slot_shmid = NoShm
    BY <1>43 DEF ClearEntry, HoldsMaster, AtTable, MasterInv, TypeInv, LocalsOK,
       LocalOK, SlotLabel, TableInv, TableLocal
  <2>3. pc'[p] \notin {"set_entry", "clear"}
    BY <1>43, ReturnOthers DEF ClearEntry, Goto, TypeInv, LocalsOK, LocalsTypeOK
  <2>4. /\ UNCHANGED <<segSlot, segKeyed, semAlive>> /\ keyed' = keyed
        /\ entry'[slot[p]].slot_shmid = NoShm /\ entry'[slot[p]].desc = NoDesc
        /\ \A s \in Slot \ {slot[p]} : entry'[s] = entry[s]
    BY <1>43, <2>2 DEF ClearEntry, master, segs, Detach, TypeInv, SharedTypeOK
  <2>5. \A q \in Proc \ {p} : pc[q] \notin {"set_entry", "clear"}
    BY <1>0, <2>2, OthersOut
  <2>6. \A s \in Slot \ {slot[p]} : entry[s].slot_shmid # NoShm =>
          segSlot[entry[s].slot_shmid] = s /\ segKeyed[entry[s].slot_shmid]
    BY <2>5 DEF TableInv, Entries
  <2>7. \A j \in ShmId : segKeyed[j] =>
          segSlot[j] \in Slot \ {slot[p]} /\ entry[segSlot[j]].slot_shmid = j
    BY <2>2, <2>5 DEF TableInv, Entries
  <2>8. Entries'
    <3>1. (\A s \in Slot : entry[s].slot_shmid = NoShm <=> entry[s].desc = NoDesc)'
      BY <2>4 DEF TableInv, Entries
    <3>2. UniqueNames'
      BY <2>4 DEF TableInv, Entries, UniqueNames
    <3>3. (\A s \in Slot : entry[s].slot_shmid # NoShm =>
             segSlot[entry[s].slot_shmid] = s /\ segKeyed[entry[s].slot_shmid])'
      BY <2>4, <2>6
    <3>4. (\A j \in ShmId : segKeyed[j] =>
             segSlot[j] \in Slot /\ entry[segSlot[j]].slot_shmid = j)'
      BY <2>4, <2>7
    <3> QED BY <2>2, <2>4, <3>1, <3>2, <3>3, <3>4 DEF TableInv, Entries
  <2>9. TableLocal(p)'
    <3>1. CASE call[p].op = "free"
      BY <1>43, <3>1, ReturnOthers DEF ClearEntry, TableLocal, Starting
    <3>2. CASE call[p].op # "free"
      <4>1. pc'[p] = "scan" /\ slot'[p] = slot[p] + 1 /\ call' = call
        BY <1>43, <3>2 DEF ClearEntry, Goto, TypeInv, LocalsOK, LocalsTypeOK
      <4>2. \A t \in Slot : t < slot[p] + 1 => t < slot[p] \/ t = slot[p]
        BY <2>2 DEF Slot
      <4> QED BY <2>2, <2>4, <4>1, <4>2 DEF TableLocal, Starting
    <3> QED BY <3>1, <3>2
  <2> QED BY <1>0, <2>2, <2>8, <2>9, OthersOut DEF TableInv
<1>44. CASE InfoReturns(p)
  <2>1. TableLocal(p)'
    BY <1>44, ReturnOthers DEF InfoReturns, Goto, Detach, segs, TypeInv,
       LocalsOK, LocalsTypeOK, TableInv, TableLocal, Starting
  <2> QED BY <1>44, <1>0, <2>1, TableAside, ReturnOthers DEF InfoReturns, Goto,
     Detach, segs, TypeInv, LocalsOK, LocalsTypeOK
<1>45. CASE RemoveSemaphores(p)
  <2>1. Others(p) /\ pc'[p] = "rm_master"
    BY <1>0, <1>45 DEF RemoveSemaphores, Goto, TypeInv, LocalsOK, LocalsTypeOK,
       locals
  <2>2. HoldsMaster(p) /\ call[p] \in Call[p] /\ call[p].op = "cleanup" /\ slot[p] = NumSlots
    BY <1>45 DEF RemoveSemaphores, HoldsMaster, TableInv, TableLocal
  <2>3. UNCHANGED <<entry, segSlot, segKeyed, keyed, call, slot, create, shm>> /\ ~semAlive'
    BY <1>45 DEF RemoveSemaphores, master, segs, locals
  <2>4. \A q \in Proc : pc[q] \notin {"set_entry", "clear"}
    BY <1>45, <2>1, <2>2, OthersOut DEF RemoveSemaphores
  <2>5. \A s \in Slot : entry[s].slot_shmid = NoShm
    <3>1. \A t \in Slot : t < NumSlots
      BY PoolAssumption DEF Slot
    <3> QED BY <1>45, <2>2, <3>1 DEF RemoveSemaphores, TableInv, TableLocal
  <2>6. \A i \in ShmId : ~segKeyed[i]
    BY <2>4, <2>5, PoolAssumption DEF TableInv, Entries
  <2>7. Entries'
    BY <2>3, <2>5, <2>6 DEF TableInv, Entries, UniqueNames
  <2>8. TableLocal(p)'
    BY <2>1, <2>2, <2>3 DEF TableLocal, Starting
  <2> QED BY <2>1, <2>2, <2>7, <2>8, OthersOut DEF TableInv
<1>46. CASE RemoveMaster(p)
  <2>1. Others(p) /\ pc'[p] = "idle" /\ slot'[p] = 0 /\ ~create'[p]
    BY <1>0, <1>46, ReturnOthers DEF RemoveMaster
  <2>2. HoldsMaster(p) /\ ~semAlive /\ pc[p] = "rm_master"
    BY <1>46 DEF RemoveMaster, HoldsMaster, TableInv, TableLocal
  <2>3. UNCHANGED <<entry, segSlot, segKeyed, semAlive>> /\ ~keyed'
    BY <1>46 DEF RemoveMaster, kernelSem, segs
  <2>4. \A q \in Proc : pc[q] \notin {"set_entry", "clear"}
    BY <2>1, <2>2, OthersOut
  <2>5. Entries'
    BY <2>2, <2>3, <2>4 DEF TableInv, Entries, UniqueNames
  <2>6. TableLocal(p)'
    BY <2>1 DEF TableLocal, Starting
  <2> QED BY <2>1, <2>2, <2>5, <2>6, OthersOut DEF TableInv
<1> QED BY <1>1, <1>2, <1>3, <1>4, <1>5, <1>6, <1>7, <1>8, <1>9, <1>10, <1>11,
   <1>12,
   <1>13, <1>14, <1>15, <1>16, <1>17, <1>18, <1>19, <1>20, <1>21, <1>22,
   <1>23, <1>24, <1>25, <1>26, <1>27, <1>28, <1>29, <1>30, <1>31, <1>32,
   <1>33, <1>34, <1>35, <1>36, <1>37, <1>38, <1>39, <1>40, <1>41, <1>42,
   <1>43, <1>44, <1>45, <1>46 DEF Step

(* So does every step of the specification.                                *)
LEMMA TableNext == TypeInv /\ MasterInv /\ TableInv /\ [Next]_vars => TableInv'
<1>1. CASE UNCHANGED vars
  BY <1>1 DEF vars, TableInv, Entries, UniqueNames, TableLocal, Starting,
     Creating,
     Found, kernelSem, master, segs, locals
<1> QED BY <1>1, TableStep DEF Next

(* The invariants of the table hold initially.                             *)
LEMMA TableInit == Init => MasterInv /\ TableInv
<1> SUFFICES ASSUME Init PROVE MasterInv /\ TableInv
  OBVIOUS
<1>1. MasterInv
  BY PoolAssumption DEF Init, MasterInv, MasterExclusive, AtTable,
     HoldsMaster, MasterSem, SemNum
<1>2. Entries
  BY DEF Init, Entries, UniqueNames
<1>3. \A p \in Proc : TableLocal(p)
  BY DEF Init, TableLocal, Starting
<1> QED BY <1>1, <1>2, <1>3 DEF TableInv

(* Whenever nobody is between lock_master and unlock_master, the table and *)
(* the kernel agree: no entry names a segment that was removed, and no     *)
(* segment is lost, whatever calls failed, were interrupted or died.       *)
THEOREM CoherentTable == Spec => []TableCoherent
<1>1. TableInv => TableCoherent
  BY PoolAssumption DEF TableInv, Entries, TableCoherent, HoldsMaster
<1> QED
  BY TypeInit, TypeNext, MasterNext, TableInit, TableNext, <1>1, PTL DEF Spec

(* lkup_slot and the entry made on its answer are one critical section: no *)
(* two slots ever carry one name.                                          *)
THEOREM NamesUnique == Spec => []UniqueNames
<1>1. TableInv => UniqueNames
  BY DEF TableInv, Entries
<1> QED
  BY TypeInit, TypeNext, MasterNext, TableInit, TableNext, <1>1, PTL DEF Spec

(* Once the key of the pool is gone, so are the semaphore set and the key  *)
(* of every segment: a shm_cleanup leaves nothing behind, though others    *)
(* were creating and removing slots until it had the master lock.          *)
THEOREM CleanupCompletes == Spec => []CleanupComplete
<1>1. TableInv => CleanupComplete
  BY DEF TableInv, Entries, CleanupComplete
<1> QED
  BY TypeInit, TypeNext, MasterNext, TableInit, TableNext, <1>1, PTL DEF Spec

-----------------------------------------------------------------------------
(* The segments, where no signal arrives: then who is in a slot has it for *)
(* himself (SlotExclusion).                                                *)

(* Nobody else is in the slot p holds.                                     *)
LEMMA OtherSlot ==
  ASSUME TypeInv, SlotInv, NEW p \in Proc, HoldsSlot(p, slot[p]), slot[p] \in Slot,
         NEW q \in Proc \ {p}, pc[q] \in SnapLabel
  PROVE  slot[q] \in Slot /\ slot[q] # slot[p]
<1>1. slot[q] \in Slot \/ pc[q] = "shmat_slot"
  BY DEF TypeInv, LocalsOK, LocalOK, SnapLabel, SlotLabel
<1>2. slot[q] # slot[p]
  BY DEF SlotInv, LockInv, HoldsSlot, SnapLabel
<1> QED BY <1>1, <1>2 DEF TypeInv, LocalsOK, LocalOK, SlotLabel

(* A step that leaves the table and the segments as they are.              *)
LEMMA SegAside ==
  ASSUME TypeInv, SegInv, NEW p \in Proc, Others(p), SegLocal(p)',
         UNCHANGED <<entry, segSlot, segKeyed>>
  PROVE  SegInv'
<1>1. ASSUME NEW q \in Proc \ {p} PROVE SegLocal(q)'
  BY DEF SegInv, SegLocal, Snapped, SnapLabel, Others
<1> QED BY <1>1 DEF SegInv

(* A step of the holder of a slot that only changes the entry of that slot *)
(* and marks its segment, or makes a segment nobody knows.                 *)
LEMMA SegElsewhere ==
  ASSUME TypeInv, TableInv, SegInv, NEW p \in Proc, Others(p), SegLocal(p)',
         \A q \in Proc \ {p} : pc[q] \in SnapLabel =>
           /\ entry'[slot[q]] = entry[slot[q]]
           /\ segKeyed[shm[q]] /\ entry[slot[q]].slot_shmid = shm[q] => segKeyed'[shm[q]],
         \A q \in Proc \ {p} : shm[q] \in ShmId => segSlot'[shm[q]] = segSlot[shm[q]]
  PROVE  SegInv'
<1>1. ASSUME NEW q \in Proc \ {p} PROVE SegLocal(q)'
  BY DEF SegInv, SegLocal, Snapped, SnapLabel, Others
<1> QED BY <1>1 DEF SegInv

(* Every step of a process preserves the invariant of the segments.        *)
LEMMA SegStep ==
  ASSUME Signals = FALSE, TypeInv, MasterInv, SlotInv, TableInv, SegInv,
         NEW p \in Proc, Begin(p) \/ Step(p)
  PROVE  SegInv'
<1> USE PoolAssumption
<1>0. Others(p)
  BY StepOthers
<1>1. CASE Begin(p)
  <2>1. SegLocal(p)'
    BY <1>1 DEF Begin, Goto, TypeInv, LocalsOK, LocalsTypeOK, TableInv,
       TableLocal,
       Starting, SegLocal, Snapped, SnapLabel
  <2> QED BY <1>1, <1>0, <2>1, SegAside DEF Begin, segs
<1>2. CASE FindMaster(p)
  <2>1. SegLocal(p)'
    BY <1>2, ReturnOthers DEF FindMaster, Goto, kernelSem, master, segs,
       locals, TypeInv, LocalsOK, LocalsTypeOK, SegInv, SegLocal, Snapped,
       SnapLabel
  <2> QED BY <1>2, <1>0, <2>1, SegAside DEF FindMaster, segs
<1>3. CASE AttachMaster(p)
  <2>1. SegLocal(p)'
    BY <1>3 DEF AttachMaster, Goto, kernelSem, segs, locals, TypeInv,
       LocalsOK, LocalsTypeOK, SegInv, SegLocal, Snapped, SnapLabel
  <2> QED BY <1>3, <1>0, <2>1, SegAside DEF AttachMaster, segs
<1>4. CASE AttachMasterFault(p)
  <2>1. SegLocal(p)'
    BY <1>4 DEF AttachMasterFault, Goto, Die, kernelSem, locals, TypeInv,
       LocalsOK, LocalsTypeOK, SegInv, SegLocal, Snapped, SnapLabel
  <2> QED BY <1>4, <1>0, <2>1, SegAside DEF AttachMasterFault, Die
<1>5. CASE LockMaster(p)
  <2>1. SegLocal(p)'
    BY <1>5 DEF LockMaster, Goto, master, segs, locals, TypeInv, LocalsOK,
       LocalsTypeOK, SegInv, SegLocal, Snapped, SnapLabel
  <2> QED BY <1>5, <1>0, <2>1, SegAside DEF LockMaster, segs
<1>6. CASE LockMasterFails(p)
  <2>1. SegLocal(p)'
    BY <1>6, ReturnOthers DEF LockMasterFails, Goto, Detach, kernelSem, segs,
       TypeInv, LocalsOK, LocalsTypeOK, SegInv, SegLocal, Snapped, SnapLabel
  <2> QED BY <1>6, <1>0, <2>1, SegAside DEF LockMasterFails, segs
<1>7. CASE FindSlot(p)
  <2>1. SegLocal(p)'
    BY <1>7 DEF FindSlot, Goto, kernelSem, master, segs, TypeInv, LocalsOK,
       LocalsTypeOK, SegInv, SegLocal, Snapped, SnapLabel
  <2> QED BY <1>7, <1>0, <2>1, SegAside DEF FindSlot, segs
<1>8. CASE PickFreeSlot(p)
  <2>1. SegLocal(p)'
    BY <1>8 DEF PickFreeSlot, Goto, kernelSem, master, segs, TypeInv,
       LocalsOK, LocalsTypeOK, SegInv, SegLocal, Snapped, SnapLabel
  <2> QED BY <1>8, <1>0, <2>1, SegAside DEF PickFreeSlot, segs
<1>9. CASE NoSuchSlot(p)
  <2>1. SegLocal(p)'
    BY <1>9, ReturnOthers DEF NoSuchSlot, Goto, Detach, segs, TypeInv,
       LocalsOK, LocalsTypeOK, SegInv, SegLocal, Snapped, SnapLabel
  <2> QED BY <1>9, <1>0, <2>1, SegAside DEF NoSuchSlot, segs
<1>10. CASE LockSlot(p)
  <2>1. SegLocal(p)'
    BY <1>10 DEF LockSlot, Goto, master, segs, locals, TypeInv, LocalsOK,
       LocalsTypeOK, SegInv, SegLocal, Snapped, SnapLabel
  <2> QED BY <1>10, <1>0, <2>1, SegAside DEF LockSlot, segs
<1>11. CASE LockSlotFails(p)
  <2>1. SegLocal(p)'
    BY <1>11, ReturnOthers DEF LockSlotFails, Goto, Detach, segs, TypeInv,
       LocalsOK, LocalsTypeOK, SegInv, SegLocal, Snapped, SnapLabel
  <2> QED BY <1>11, <1>0, <2>1, SegAside DEF LockSlotFails, segs
<1>12. CASE CreateSegment(p)
  <2>1. SegLocal(p)'
    BY <1>12 DEF CreateSegment, Goto, SegInv, SegLocal, Snapped, SnapLabel,
       TypeInv,
       LocalsOK, LocalsTypeOK
  <2>2. PICK i \in ShmId : /\ Fresh(i)
                            /\ segSlot' = [segSlot EXCEPT ![i] = slot[p]]
                            /\ segKeyed' = [segKeyed EXCEPT ![i] = TRUE]
    BY <1>12 DEF CreateSegment
  <2>3. \A q \in Proc : shm[q] \in ShmId =>
          segSlot'[shm[q]] = segSlot[shm[q]] /\ segKeyed'[shm[q]] = segKeyed[shm[q]]
    BY <2>2 DEF Fresh, TypeInv, SegsTypeOK
  <2>4. \A q \in Proc : pc[q] \in SnapLabel => shm[q] \in ShmId
    BY DEF SegInv, SegLocal, Snapped
  <2>5. entry' = entry
    BY <1>12 DEF CreateSegment
  <2> QED BY <1>0, <2>1, <2>3, <2>4, <2>5, SegElsewhere
<1>13. CASE CreateSegmentFails(p)
  <2>1. SegLocal(p)'
    BY <1>13, ReturnOthers DEF CreateSegmentFails, Goto, Detach, segs,
       TypeInv, LocalsOK, LocalsTypeOK, SegInv, SegLocal, Snapped, SnapLabel
  <2> QED BY <1>13, <1>0, <2>1, SegAside DEF CreateSegmentFails, segs
<1>14. CASE SetEntry(p)
  <2>1. SegLocal(p)'
    BY <1>14 DEF SetEntry, Goto, SegInv, SegLocal, Snapped, SnapLabel, locals,
       TypeInv,
       LocalsOK, LocalsTypeOK
  <2>2. HoldsSlot(p, slot[p]) /\ slot[p] \in Slot
    BY <1>14 DEF SetEntry, HoldsSlot, TypeInv, LocalsOK, LocalOK, SlotLabel
  <2>3. UNCHANGED <<segSlot, segKeyed>> /\ \A s \in Slot \ {slot[p]} : entry'[s] = entry[s]
    BY <1>14 DEF SetEntry, segs, TypeInv, SharedTypeOK
  <2>4. \A q \in Proc \ {p} : pc[q] \in SnapLabel => entry'[slot[q]] = entry[slot[q]]
    BY <2>2, <2>3, OtherSlot
  <2> QED BY <1>0, <2>1, <2>3, <2>4, SegElsewhere
<1>15. CASE SnapSlot(p)
  <2>1. SegLocal(p)'
    <3>1. /\ slot[p] \in Slot /\ entry[slot[p]].desc = call[p].id
          /\ entry[slot[p]].slot_shmid # NoShm
      BY <1>15 DEF SnapSlot, TableInv, TableLocal, Found, TypeInv, LocalsOK,
         LocalOK, SlotLabel
    <3>2. entry[slot[p]] \in [slot_shmid : ShmId \cup {NoShm}, desc : Id \cup {NoDesc}]
      BY <3>1 DEF TypeInv, SharedTypeOK
    <3>3. entry[slot[p]].slot_shmid \in ShmId
          /\ entry[slot[p]] = [slot_shmid |-> entry[slot[p]].slot_shmid, desc |-> call[p].id]
      BY <3>1, <3>2
    <3>4. \A q \in Proc : pc[q] # "clear"
      BY <1>15 DEF SnapSlot, MasterInv, MasterExclusive, HoldsMaster
    <3>5. segSlot[entry[slot[p]].slot_shmid] = slot[p] /\ segKeyed[entry[slot[p]].slot_shmid]
      BY <3>1, <3>4 DEF TableInv, Entries
    <3>6. /\ pc'[p] = "shmat_slot" /\ shm'[p] = entry[slot[p]].slot_shmid
          /\ UNCHANGED <<entry, segSlot, segKeyed, call, slot, create>>
      BY <1>15 DEF SnapSlot, Goto, segs, TypeInv, LocalsOK, LocalsTypeOK
    <3> QED BY <3>3, <3>5, <3>6 DEF SegInv, SegLocal, Snapped, SnapLabel
  <2> QED BY <1>15, <1>0, <2>1, SegAside DEF SnapSlot, segs
<1>16. CASE AttachSegment(p)
  <2>1. SegLocal(p)'
    BY <1>16 DEF AttachSegment, Goto, kernelSem, master, locals, TypeInv,
       LocalsOK, LocalsTypeOK, SegInv, SegLocal, Snapped, SnapLabel
  <2> QED BY <1>16, <1>0, <2>1, SegAside DEF AttachSegment
<1>17. CASE AttachSegmentFails(p)
  <2>1. SegLocal(p)'
    BY <1>17, ReturnOthers DEF AttachSegmentFails, Goto, master, segs,
       TypeInv, LocalsOK, LocalsTypeOK, SegInv, SegLocal, Snapped, SnapLabel
  <2> QED BY <1>17, <1>0, <2>1, SegAside DEF AttachSegmentFails, segs
<1>18. CASE FillHeader(p)
  <2>1. SegLocal(p)'
    BY <1>18 DEF FillHeader, Goto, kernelSem, master, locals, TypeInv,
       LocalsOK, LocalsTypeOK, SegInv, SegLocal, Snapped, SnapLabel
  <2> QED BY <1>18, <1>0, <2>1, SegAside DEF FillHeader
<1>19. CASE CheckHeader(p)
  <2>1. SegLocal(p)'
    BY <1>19 DEF CheckHeader, Goto, kernelSem, master, segs, locals, TypeInv,
       LocalsOK, LocalsTypeOK, SegInv, SegLocal, Snapped, SnapLabel
  <2> QED BY <1>19, <1>0, <2>1, SegAside DEF CheckHeader, segs
<1>20. CASE RefuseMisfit(p)
  <2>1. SegLocal(p)'
    BY <1>20, ReturnOthers DEF RefuseMisfit, Goto, master, TypeInv, LocalsOK,
       LocalsTypeOK, SegInv, SegLocal, Snapped, SnapLabel
  <2> QED BY <1>20, <1>0, <2>1, SegAside DEF RefuseMisfit
<1>21. CASE ReadHeader(p)
  <2>1. SegLocal(p)'
    BY <1>21 DEF ReadHeader, Goto, kernelSem, master, segs, TypeInv,
       LocalsOK, LocalsTypeOK, SegInv, SegLocal, Snapped, SnapLabel
  <2> QED BY <1>21, <1>0, <2>1, SegAside DEF ReadHeader, segs
<1>22. CASE CopyFirstHalf(p)
  <2>1. SegLocal(p)'
    BY <1>22 DEF CopyFirstHalf, Goto, kernelSem, master, TypeInv, LocalsOK,
       LocalsTypeOK, SegInv, SegLocal, Snapped, SnapLabel
  <2> QED BY <1>22, <1>0, <2>1, SegAside DEF CopyFirstHalf
<1>23. CASE CopySecondHalf(p)
  <2>1. SegLocal(p)'
    BY <1>23 DEF CopySecondHalf, Goto, kernelSem, master, TypeInv, LocalsOK,
       LocalsTypeOK, SegInv, SegLocal, Snapped, SnapLabel
  <2> QED BY <1>23, <1>0, <2>1, SegAside DEF CopySecondHalf
<1>24. CASE ReleaseSnapshot(p)
  <2>1. SegLocal(p)'
    BY <1>24, ReturnOthers DEF ReleaseSnapshot, Goto, master, locals,
       TypeInv, LocalsOK, LocalsTypeOK, SegInv, SegLocal, Snapped, SnapLabel
  <2> QED BY <1>24, <1>0, <2>1, SegAside DEF ReleaseSnapshot
<1>25. CASE CountSubscribers(p)
  <2>1. SegLocal(p)'
    BY <1>25 DEF CountSubscribers, Goto, kernelSem, master, segs, TypeInv,
       LocalsOK, LocalsTypeOK, SegInv, SegLocal, Snapped, SnapLabel
  <2> QED BY <1>25, <1>0, <2>1, SegAside DEF CountSubscribers, segs
<1>26. CASE PublishToSubscribers(p)
  <2>1. SegLocal(p)'
    BY <1>26 DEF PublishToSubscribers, master, segs, locals, TypeInv,
       LocalsOK, LocalsTypeOK, SegInv, SegLocal, Snapped, SnapLabel
  <2> QED BY <1>26, <1>0, <2>1, SegAside DEF PublishToSubscribers, segs
<1>27. CASE PublishToNobody(p)
  <2>1. SegLocal(p)'
    BY <1>27 DEF PublishToNobody, Goto, kernelSem, master, segs, locals,
       TypeInv, LocalsOK, LocalsTypeOK, SegInv, SegLocal, Snapped, SnapLabel
  <2> QED BY <1>27, <1>0, <2>1, SegAside DEF PublishToNobody, segs
<1>28. CASE PublishFails(p)
  <2>1. SegLocal(p)'
    BY <1>28, ReturnOthers DEF PublishFails, Goto, kernelSem, master, segs,
       TypeInv, LocalsOK, LocalsTypeOK, SegInv, SegLocal, Snapped, SnapLabel
  <2> QED BY <1>28, <1>0, <2>1, SegAside DEF PublishFails, segs
<1>29. CASE Acknowledged(p)
  <2>1. SegLocal(p)'
    BY <1>29, ReturnOthers DEF Acknowledged, Goto, kernelSem, master, segs,
       TypeInv, LocalsOK, LocalsTypeOK, SegInv, SegLocal, Snapped, SnapLabel
  <2> QED BY <1>29, <1>0, <2>1, SegAside DEF Acknowledged, segs
<1>30. CASE SnapSubscription(p)
  <2>1. SegLocal(p)'
    <3>1. PICK s \in lkup_slot(call[p].id) :
            slot' = [slot EXCEPT ![p] = s] /\ shm' = [shm EXCEPT ![p] = entry[s].slot_shmid]
      BY <1>30 DEF SnapSubscription
    <3>2. pc[p] = "lkup_slot" /\ call[p].subscribe # "no"
      BY <1>30 DEF SnapSubscription
    <3>3. s \in Slot /\ entry[s].slot_shmid \in ShmId
      BY <3>1, <3>2, FoundSlot
    <3>4. segSlot[entry[s].slot_shmid] = s
      BY <3>3 DEF TableInv, Entries
    <3>5. /\ pc'[p] = "subscribe" /\ shm'[p] = entry[s].slot_shmid /\ slot'[p] = s
          /\ UNCHANGED <<entry, segSlot, segKeyed, call, create>>
      BY <1>30, <3>1 DEF SnapSubscription, Goto, segs, TypeInv, LocalsOK,
         LocalsTypeOK
    <3> QED BY <3>2, <3>3, <3>4, <3>5 DEF SegInv, SegLocal, Snapped, SnapLabel
  <2> QED BY <1>30, <1>0, <2>1, SegAside DEF SnapSubscription, segs
<1>31. CASE Subscribe(p)
  <2>1. SegLocal(p)'
    BY <1>31 DEF Subscribe, Goto, master, segs, locals, TypeInv, LocalsOK,
       LocalsTypeOK, SegInv, SegLocal, Snapped, SnapLabel
  <2> QED BY <1>31, <1>0, <2>1, SegAside DEF Subscribe, segs
<1>32. CASE SubscribeFails(p)
  <2>1. SegLocal(p)'
    BY <1>32, ReturnOthers DEF SubscribeFails, Goto, kernelSem, master, segs,
       TypeInv, LocalsOK, LocalsTypeOK, SegInv, SegLocal, Snapped, SnapLabel
  <2> QED BY <1>32, <1>0, <2>1, SegAside DEF SubscribeFails, segs
<1>33. CASE LockSnapshot(p)
  <2>1. SegLocal(p)'
    BY <1>33 DEF LockSnapshot, Goto, master, segs, locals, TypeInv, LocalsOK,
       LocalsTypeOK, SegInv, SegLocal, Snapped, SnapLabel
  <2> QED BY <1>33, <1>0, <2>1, SegAside DEF LockSnapshot, segs
<1>34. CASE LockSnapshotFails(p)
  <2>1. SegLocal(p)'
    BY <1>34, ReturnOthers DEF LockSnapshotFails, Goto, kernelSem, master,
       segs, TypeInv, LocalsOK, LocalsTypeOK, SegInv, SegLocal, Snapped,
       SnapLabel
  <2> QED BY <1>34, <1>0, <2>1, SegAside DEF LockSnapshotFails, segs
<1>35. CASE FindSlotToFree(p)
  <2>1. SegLocal(p)'
    BY <1>35 DEF FindSlotToFree, Goto, kernelSem, master, segs, TypeInv,
       LocalsOK, LocalsTypeOK, SegInv, SegLocal, Snapped, SnapLabel
  <2> QED BY <1>35, <1>0, <2>1, SegAside DEF FindSlotToFree, segs
<1>36. CASE ScanUsed(p)
  <2>1. SegLocal(p)'
    BY <1>36 DEF ScanUsed, Goto, kernelSem, master, segs, locals, TypeInv,
       LocalsOK, LocalsTypeOK, SegInv, SegLocal, Snapped, SnapLabel
  <2> QED BY <1>36, <1>0, <2>1, SegAside DEF ScanUsed, segs
<1>37. CASE ScanFree(p)
  <2>1. SegLocal(p)'
    BY <1>37 DEF ScanFree, kernelSem, master, segs, TypeInv, LocalsOK,
       LocalsTypeOK, SegInv, SegLocal, Snapped, SnapLabel
  <2> QED BY <1>37, <1>0, <2>1, SegAside DEF ScanFree, segs
<1>38. CASE LockUsed(p)
  <2>1. SegLocal(p)'
    BY <1>38 DEF LockUsed, Goto, master, segs, locals, TypeInv, LocalsOK,
       LocalsTypeOK, SegInv, SegLocal, Snapped, SnapLabel
  <2> QED BY <1>38, <1>0, <2>1, SegAside DEF LockUsed, segs
<1>39. CASE LockUsedIgnored(p)
  <2>1. SegLocal(p)'
    BY <1>39 DEF LockUsedIgnored, Goto, kernelSem, master, segs, locals,
       TypeInv, LocalsOK, LocalsTypeOK, SegInv, SegLocal, Snapped, SnapLabel
  <2> QED BY <1>39, <1>0, <2>1, SegAside DEF LockUsedIgnored, segs
<1>40. CASE InfoRead(p)
  <2>1. SegLocal(p)'
    BY <1>40 DEF InfoRead, Goto, master, segs, TypeInv, LocalsOK,
       LocalsTypeOK, SegInv, SegLocal, Snapped, SnapLabel
  <2> QED BY <1>40, <1>0, <2>1, SegAside DEF InfoRead, segs
<1>41. CASE InfoFault(p)
  <2>1. SegLocal(p)'
    BY <1>41 DEF InfoFault, Goto, Die, kernelSem, locals, TypeInv, LocalsOK,
       LocalsTypeOK, SegInv, SegLocal, Snapped, SnapLabel
  <2> QED BY <1>41, <1>0, <2>1, SegAside DEF InfoFault, Die
<1>42. CASE RemoveSegment(p)
  <2>1. SegLocal(p)'
    BY <1>42 DEF RemoveSegment, Goto, SegInv, SegLocal, Snapped, SnapLabel,
       locals, TypeInv,
       LocalsOK, LocalsTypeOK
  <2>2. /\ HoldsSlot(p, slot[p]) /\ slot[p] \in Slot
        /\ entry[slot[p]].slot_shmid # NoShm
    BY <1>42 DEF RemoveSegment, HoldsSlot, TypeInv, LocalsOK, LocalOK,
       SlotLabel,
       TableInv, TableLocal
  <2>3. UNCHANGED <<segSlot, entry>>
        /\ \A i \in ShmId \ {entry[slot[p]].slot_shmid} : segKeyed'[i] = segKeyed[i]
    BY <1>42 DEF RemoveSegment, TypeInv, SegsTypeOK
  <2>4. ASSUME NEW q \in Proc \ {p}, pc[q] \in SnapLabel, segKeyed[shm[q]],
               entry[slot[q]].slot_shmid = shm[q]
        PROVE  segKeyed'[shm[q]]
    <3>1. slot[q] \in Slot /\ slot[q] # slot[p]
      BY <2>2, <2>4, OtherSlot
    <3>2. shm[q] \in ShmId
      BY <2>4 DEF SegInv, SegLocal, Snapped
    <3>3. shm[q] # entry[slot[p]].slot_shmid
      BY <2>2, <2>4, <3>1, <3>2 DEF TableInv, Entries
    <3> QED BY <2>3, <2>4, <3>2, <3>3
  <2> QED BY <1>0, <2>1, <2>3, <2>4, SegElsewhere
<1>43. CASE ClearEntry(p)
  <2>1. SegLocal(p)'
    BY <1>43, ReturnOthers DEF ClearEntry, Goto, SegInv, SegLocal, Snapped,
       SnapLabel, TypeInv,
       LocalsOK, LocalsTypeOK
  <2>2. HoldsSlot(p, slot[p]) /\ slot[p] \in Slot
    BY <1>43 DEF ClearEntry, HoldsSlot, TypeInv, LocalsOK, LocalOK, SlotLabel
  <2>3. UNCHANGED <<segSlot, segKeyed>> /\ \A s \in Slot \ {slot[p]} : entry'[s] = entry[s]
    BY <1>43 DEF ClearEntry, segs, TypeInv, SharedTypeOK
  <2>4. \A q \in Proc \ {p} : pc[q] \in SnapLabel => entry'[slot[q]] = entry[slot[q]]
    BY <2>2, <2>3, OtherSlot
  <2> QED BY <1>0, <2>1, <2>3, <2>4, SegElsewhere
<1>44. CASE InfoReturns(p)
  <2>1. SegLocal(p)'
    BY <1>44, ReturnOthers DEF InfoReturns, Goto, Detach, segs, TypeInv,
       LocalsOK, LocalsTypeOK, SegInv, SegLocal, Snapped, SnapLabel
  <2> QED BY <1>44, <1>0, <2>1, SegAside DEF InfoReturns, segs
<1>45. CASE RemoveSemaphores(p)
  <2>1. SegLocal(p)'
    BY <1>45 DEF RemoveSemaphores, Goto, master, segs, locals, TypeInv,
       LocalsOK, LocalsTypeOK, SegInv, SegLocal, Snapped, SnapLabel
  <2> QED BY <1>45, <1>0, <2>1, SegAside DEF RemoveSemaphores, segs
<1>46. CASE RemoveMaster(p)
  <2>1. SegLocal(p)'
    BY <1>46, ReturnOthers DEF RemoveMaster, Goto, kernelSem, segs, TypeInv,
       LocalsOK, LocalsTypeOK, SegInv, SegLocal, Snapped, SnapLabel
  <2> QED BY <1>46, <1>0, <2>1, SegAside DEF RemoveMaster, segs
<1> QED BY <1>1, <1>2, <1>3, <1>4, <1>5, <1>6, <1>7, <1>8, <1>9, <1>10, <1>11,
   <1>12,
   <1>13, <1>14, <1>15, <1>16, <1>17, <1>18, <1>19, <1>20, <1>21, <1>22,
   <1>23, <1>24, <1>25, <1>26, <1>27, <1>28, <1>29, <1>30, <1>31, <1>32,
   <1>33, <1>34, <1>35, <1>36, <1>37, <1>38, <1>39, <1>40, <1>41, <1>42,
   <1>43, <1>44, <1>45, <1>46 DEF Step

(* So does every step of the specification.                                *)
LEMMA SegNext ==
  ASSUME Signals = FALSE
  PROVE  TypeInv /\ MasterInv /\ SlotInv /\ TableInv /\ SegInv /\ [Next]_vars => SegInv'
<1>1. ASSUME SegInv, UNCHANGED vars PROVE SegInv'
  BY <1>1 DEF vars, SegInv, SegLocal, Snapped, kernelSem, master, segs, locals
<1> QED BY <1>1, SegStep DEF Next

(* The invariants of the slots and the segments hold initially.            *)
LEMMA SegInit == Init => SlotInv /\ SegInv
<1> SUFFICES ASSUME Init PROVE SlotInv /\ SegInv
  OBVIOUS
<1>1. SlotInv
  BY PoolAssumption DEF Init, SlotInv, LockInv, HoldsSlot, LockSem, SemNum, Slot
<1>2. SegInv
  BY DEF Init, SegInv, SegLocal, Snapped, SnapLabel
<1> QED BY <1>1, <1>2

(* Where no signal interrupts semop, a call that does not subscribe works  *)
(* on a segment that stays in the table under its name and is not marked   *)
(* for removal: neither shm_free nor shm_cleanup takes it away under a     *)
(* copy, and the slot is not given to another name meanwhile.              *)
THEOREM SegmentsStay == ASSUME Signals = FALSE PROVE Spec => []NoUseAfterFree
<1>1. SegInv => NoUseAfterFree
  BY DEF SegInv, SegLocal, SnapLabel, NoUseAfterFree, InSegment
<1> QED
  BY TypeInit, TypeNext, MasterNext, SlotNext, TableInit, TableNext, SegInit,
     SegNext,
     <1>1, PTL DEF Spec


-----------------------------------------------------------------------------
(* The contents, where no signal arrives and segments can be attached.     *)

(* Where a writer or a copy is, its slot is held, and is that of its       *)
(* segment.                                                                *)
LEMMA CopyHolds ==
  ASSUME TypeInv, MasterInv, TableInv, SegInv, NEW q \in Proc,
         Writer(q) \/ pc[q] \in SnapLabel
  PROVE  /\ HoldsSlot(q, slot[q]) /\ slot[q] \in Slot
         /\ shm[q] \in ShmId /\ segSlot[shm[q]] = slot[q]
<1>1. pc[q] \in {"set_entry", "snap_slot"} \cup SnapLabel
  BY DEF Writer, SnapLabel
<1>2. CASE pc[q] = "set_entry"
  BY <1>2 DEF TableInv, TableLocal, TypeInv, LocalsOK, LocalOK, SlotLabel,
     HoldsSlot
<1>3. CASE pc[q] = "snap_slot"
  <2>1. create[q]
    BY <1>3 DEF Writer, SnapLabel
  <2>2. slot[q] \in Slot /\ entry[slot[q]].slot_shmid = shm[q] /\ shm[q] # NoShm
    BY <1>3, <2>1 DEF TableInv, TableLocal, Found, TypeInv, LocalsOK, LocalOK,
       SlotLabel
  <2>3. shm[q] \in ShmId
    BY <2>2 DEF TypeInv, LocalsOK, LocalsTypeOK
  <2> QED BY <1>3, <2>2, <2>3 DEF TableInv, Entries, HoldsSlot
<1>4. CASE pc[q] \in SnapLabel
  BY <1>4 DEF SegInv, SegLocal, Snapped, SnapLabel, TypeInv, LocalsOK, LocalOK,
     SlotLabel, HoldsSlot
<1> QED BY <1>1, <1>2, <1>3, <1>4

(* Two such processes are never on one segment.                            *)
LEMMA CopyAlone ==
  ASSUME TypeInv, MasterInv, SlotInv, TableInv, SegInv, NEW p \in Proc, NEW q \in Proc,
         Writer(p) \/ pc[p] \in SnapLabel, Writer(q) \/ pc[q] \in SnapLabel,
         shm[p] = shm[q]
  PROVE  p = q
  BY CopyHolds DEF SlotInv, LockInv

(* What comes into use by a step is what the process takes up itself.      *)
LEMMA UsedAside ==
  ASSUME TypeInv, NEW p \in Proc, Others(p),
         \A s \in Slot : entry'[s] = entry[s] \/ entry'[s].slot_shmid = NoShm,
         Snapped(p)' => Used(shm'[p]), NEW i \in ShmId, Used(i)'
  PROVE  Used(i)
  BY PoolAssumption DEF Used, Snapped, Others

(* A step that stores nothing.                                             *)
LEMMA ContentAside ==
  ASSUME TypeInv, ContentInv, NEW p \in Proc, Others(p), mem' = mem, CopyLocal(p)',
         \A s \in Slot : entry'[s] = entry[s] \/ entry'[s].slot_shmid = NoShm,
         Snapped(p)' => Used(shm'[p]),
         Writer(p) => Writer(p)' /\ shm'[p] = shm[p]
  PROVE  ContentInv'
<1>1. ASSUME NEW q \in Proc \ {p} PROVE CopyLocal(q)' /\ (Writer(q) => Writer(q)' /\ shm'[q] = shm[q])
  BY DEF ContentInv, CopyLocal, Others, Writer
<1>2. \A q \in Proc : Writer(q) => Writer(q)' /\ shm'[q] = shm[q]
  BY <1>1
<1>3. \A i \in ShmId : Used(i)' => Whole(mem'[i]) \/ \E q \in Proc : Writer(q)' /\ shm'[q] = i
  BY <1>2, UsedAside DEF ContentInv
<1> QED BY <1>1, <1>3 DEF ContentInv

(* A step that stores into the segment the process is copying to.          *)
LEMMA ContentStored ==
  ASSUME TypeInv, MasterInv, SlotInv, TableInv, SegInv, ContentInv, NEW p \in Proc,
         Others(p), pc[p] \in SnapLabel, CopyLocal(p)', entry' = entry, shm' = shm,
         Snapped(p)',
         \A i \in ShmId : i # shm[p] => mem'[i] = mem[i],
         Whole(mem'[shm[p]]) \/ Writer(p)'
  PROVE  ContentInv'
<1>1. shm[p] \in ShmId
  BY CopyHolds
<1>2. ASSUME NEW q \in Proc \ {p}, pc[q] \in SnapLabel PROVE shm[q] \in ShmId /\ shm[q] # shm[p]
  BY <1>2, CopyAlone, CopyHolds
<1>3. ASSUME NEW q \in Proc \ {p} PROVE CopyLocal(q)'
  <2>1. pc[q] \in SnapLabel => mem'[shm[q]] = mem[shm[q]]
    BY <1>2
  <2> QED BY <2>1 DEF ContentInv, CopyLocal, Others, SnapLabel
<1>4. ASSUME NEW q \in Proc \ {p}, Writer(q) PROVE Writer(q)'
  BY <1>4 DEF Writer, Others
<1>5. ASSUME NEW i \in ShmId, i # shm[p], Used(i)'
      PROVE  Whole(mem'[i]) \/ \E q \in Proc : Writer(q)' /\ shm'[q] = i
  <2>1. Used(shm[p])
    BY DEF Used, Snapped
  <2>2. Used(i)
    BY <1>5, <2>1, UsedAside
  <2>3. CASE Whole(mem[i])
    BY <1>5, <2>3
  <2>4. CASE \E q \in Proc : Writer(q) /\ shm[q] = i
    BY <1>4, <1>5, <2>4
  <2> QED BY <2>2, <2>3, <2>4 DEF ContentInv
<1>6. \A i \in ShmId : Used(i)' => Whole(mem'[i]) \/ \E q \in Proc : Writer(q)' /\ shm'[q] = i
  BY <1>5
<1> QED BY <1>3, <1>6 DEF ContentInv

(* Every step of a process preserves the invariant of the contents.        *)
LEMMA ContentStep ==
  ASSUME Signals = FALSE, NoMemory = FALSE, TypeInv, MasterInv, SlotInv, TableInv, SegInv,
         ContentInv, NEW p \in Proc, Begin(p) \/ Step(p)
  PROVE  ContentInv'
<1> USE PoolAssumption
<1>0. Others(p)
  BY StepOthers
<1>1. CASE Begin(p)
  <2>1. mem' = mem /\ entry' = entry /\ ~Writer(p) /\ CopyLocal(p)'
    BY <1>1 DEF Begin, Goto, segs, TypeInv, LocalsOK, LocalsTypeOK, Writer,
       CopyLocal
  <2>2. Snapped(p)' => Used(shm'[p])
    BY <1>1 DEF Begin, Goto, TypeInv, LocalsOK, LocalsTypeOK, Snapped,
       SnapLabel
  <2> QED BY <1>0, <2>1, <2>2, ContentAside
<1>2. CASE FindMaster(p)
  <2>1. mem' = mem /\ entry' = entry /\ ~Writer(p) /\ CopyLocal(p)'
    BY <1>2, ReturnOthers DEF FindMaster, Goto, segs, locals, TypeInv,
       LocalsOK, LocalsTypeOK, Writer, CopyLocal
  <2>2. Snapped(p)' => Used(shm'[p])
    BY <1>2, ReturnOthers DEF FindMaster, Goto, locals, TypeInv, LocalsOK,
       LocalsTypeOK, Snapped, SnapLabel
  <2> QED BY <1>0, <2>1, <2>2, ContentAside
<1>3. CASE AttachMaster(p)
  <2>1. mem' = mem /\ entry' = entry /\ ~Writer(p) /\ CopyLocal(p)'
    BY <1>3 DEF AttachMaster, Goto, segs, locals, TypeInv, LocalsOK,
       LocalsTypeOK, Writer, CopyLocal
  <2>2. Snapped(p)' => Used(shm'[p])
    BY <1>3 DEF AttachMaster, Goto, locals, TypeInv, LocalsOK, LocalsTypeOK,
       Snapped, SnapLabel
  <2> QED BY <1>0, <2>1, <2>2, ContentAside
<1>4. CASE AttachMasterFault(p)
  <2>1. mem' = mem /\ entry' = entry /\ ~Writer(p) /\ CopyLocal(p)'
    BY <1>4 DEF AttachMasterFault, Goto, Die, locals, TypeInv, LocalsOK,
       LocalsTypeOK, Writer, CopyLocal
  <2>2. Snapped(p)' => Used(shm'[p])
    BY <1>4 DEF AttachMasterFault, Goto, Die, locals, TypeInv, LocalsOK,
       LocalsTypeOK, Snapped, SnapLabel
  <2> QED BY <1>0, <2>1, <2>2, ContentAside
<1>5. CASE LockMaster(p)
  <2>1. mem' = mem /\ entry' = entry /\ ~Writer(p) /\ CopyLocal(p)'
    BY <1>5 DEF LockMaster, Goto, segs, locals, TypeInv, LocalsOK,
       LocalsTypeOK, Writer, CopyLocal
  <2>2. Snapped(p)' => Used(shm'[p])
    BY <1>5 DEF LockMaster, Goto, locals, TypeInv, LocalsOK, LocalsTypeOK,
       Snapped, SnapLabel
  <2> QED BY <1>0, <2>1, <2>2, ContentAside
<1>6. CASE LockMasterFails(p)
  <2>1. mem' = mem /\ entry' = entry /\ ~Writer(p) /\ CopyLocal(p)'
    BY <1>6, ReturnOthers DEF LockMasterFails, Goto, Detach, segs, TypeInv,
       LocalsOK, LocalsTypeOK, Writer, CopyLocal
  <2>2. Snapped(p)' => Used(shm'[p])
    BY <1>6, ReturnOthers DEF LockMasterFails, Goto, TypeInv, LocalsOK,
       LocalsTypeOK, Snapped, SnapLabel
  <2> QED BY <1>0, <2>1, <2>2, ContentAside
<1>7. CASE FindSlot(p)
  <2>1. mem' = mem /\ entry' = entry /\ ~Writer(p) /\ CopyLocal(p)'
    BY <1>7 DEF FindSlot, Goto, segs, TypeInv, LocalsOK, LocalsTypeOK,
       Writer, CopyLocal
  <2>2. Snapped(p)' => Used(shm'[p])
    BY <1>7 DEF FindSlot, Goto, TypeInv, LocalsOK, LocalsTypeOK, Snapped,
       SnapLabel
  <2> QED BY <1>0, <2>1, <2>2, ContentAside
<1>8. CASE PickFreeSlot(p)
  <2>1. mem' = mem /\ entry' = entry /\ ~Writer(p) /\ CopyLocal(p)'
    BY <1>8 DEF PickFreeSlot, Goto, segs, TypeInv, LocalsOK, LocalsTypeOK,
       Writer, CopyLocal
  <2>2. Snapped(p)' => Used(shm'[p])
    BY <1>8 DEF PickFreeSlot, Goto, TypeInv, LocalsOK, LocalsTypeOK, Snapped,
       SnapLabel
  <2> QED BY <1>0, <2>1, <2>2, ContentAside
<1>9. CASE NoSuchSlot(p)
  <2>1. mem' = mem /\ entry' = entry /\ ~Writer(p) /\ CopyLocal(p)'
    BY <1>9, ReturnOthers DEF NoSuchSlot, Goto, Detach, segs, TypeInv,
       LocalsOK, LocalsTypeOK, Writer, CopyLocal
  <2>2. Snapped(p)' => Used(shm'[p])
    BY <1>9, ReturnOthers DEF NoSuchSlot, Goto, TypeInv, LocalsOK,
       LocalsTypeOK, Snapped, SnapLabel
  <2> QED BY <1>0, <2>1, <2>2, ContentAside
<1>10. CASE LockSlot(p)
  <2>1. mem' = mem /\ entry' = entry /\ ~Writer(p) /\ CopyLocal(p)'
    BY <1>10 DEF LockSlot, Goto, segs, locals, TypeInv, LocalsOK,
       LocalsTypeOK, Writer, CopyLocal
  <2>2. Snapped(p)' => Used(shm'[p])
    BY <1>10 DEF LockSlot, Goto, locals, TypeInv, LocalsOK, LocalsTypeOK,
       Snapped, SnapLabel
  <2> QED BY <1>0, <2>1, <2>2, ContentAside
<1>11. CASE LockSlotFails(p)
  <2>1. mem' = mem /\ entry' = entry /\ ~Writer(p) /\ CopyLocal(p)'
    BY <1>11, ReturnOthers DEF LockSlotFails, Goto, Detach, segs, TypeInv,
       LocalsOK, LocalsTypeOK, Writer, CopyLocal
  <2>2. Snapped(p)' => Used(shm'[p])
    BY <1>11, ReturnOthers DEF LockSlotFails, Goto, TypeInv, LocalsOK,
       LocalsTypeOK, Snapped, SnapLabel
  <2> QED BY <1>0, <2>1, <2>2, ContentAside
<1>12. CASE CreateSegment(p)
  <2>1. PICK i \in ShmId : /\ Fresh(i) /\ shm' = [shm EXCEPT ![p] = i]
                            /\ mem' = [mem EXCEPT ![i] = Zeroed(NoData)]
    BY <1>12 DEF CreateSegment
  <2>2. /\ pc[p] = "shmget_slot" /\ pc'[p] = "set_entry" /\ entry' = entry
        /\ call' = call /\ create' = create /\ shm'[p] = i
        /\ \A j \in ShmId \ {i} : mem'[j] = mem[j]
    BY <1>12, <2>1 DEF CreateSegment, Goto, TypeInv, LocalsOK, LocalsTypeOK,
       SegsTypeOK
  <2>3. \A q \in Proc : shm[q] # i
    BY <2>1 DEF Fresh
  <2>4. \A s \in Slot : entry[s].slot_shmid # i
    BY <2>1 DEF Fresh
  <2>5. ~Snapped(p)' /\ ~Writer(p)
    BY <2>2 DEF Snapped, SnapLabel, Writer
  <2>6. ASSUME NEW q \in Proc \ {p} PROVE CopyLocal(q)'
    <3>1. pc[q] \in SnapLabel => shm[q] \in ShmId
      BY DEF SegInv, SegLocal, Snapped
    <3>2. pc[q] \in SnapLabel => mem'[shm[q]] = mem[shm[q]]
      BY <2>2, <2>3, <3>1
    <3> QED BY <1>0, <3>2 DEF ContentInv, CopyLocal, Others, SnapLabel
  <2>7. CopyLocal(p)'
    BY <2>2 DEF CopyLocal
  <2>8. ASSUME NEW j \in ShmId, Used(j)'
        PROVE  Whole(mem'[j]) \/ \E q \in Proc : Writer(q)' /\ shm'[q] = j
    <3>1. j # i
      BY <1>0, <2>2, <2>3, <2>4, <2>5, <2>8 DEF Used, Snapped, Others
    <3>2. Used(j)
      BY <1>0, <2>2, <2>5, <2>8, UsedAside
    <3>3. CASE Whole(mem[j])
      BY <2>2, <3>1, <3>3
    <3>4. CASE \E q \in Proc : Writer(q) /\ shm[q] = j
      BY <1>0, <2>5, <3>4 DEF Writer, Others
    <3> QED BY <3>2, <3>3, <3>4 DEF ContentInv
  <2> QED BY <2>6, <2>7, <2>8 DEF ContentInv
<1>13. CASE CreateSegmentFails(p)
  <2>1. mem' = mem /\ entry' = entry /\ ~Writer(p) /\ CopyLocal(p)'
    BY <1>13, ReturnOthers DEF CreateSegmentFails, Goto, Detach, segs,
       TypeInv, LocalsOK, LocalsTypeOK, Writer, CopyLocal
  <2>2. Snapped(p)' => Used(shm'[p])
    BY <1>13, ReturnOthers DEF CreateSegmentFails, Goto, TypeInv, LocalsOK,
       LocalsTypeOK, Snapped, SnapLabel
  <2> QED BY <1>0, <2>1, <2>2, ContentAside
<1>14. CASE SetEntry(p)
  <2>1. /\ pc[p] = "set_entry" /\ pc'[p] = "snap_slot" /\ mem' = mem
        /\ UNCHANGED <<call, slot, create, shm, buf>>
        /\ \A s \in Slot \ {slot[p]} : entry'[s] = entry[s]
        /\ slot[p] \in Slot => entry'[slot[p]].slot_shmid = shm[p]
    BY <1>14 DEF SetEntry, Goto, segs, locals, TypeInv, LocalsOK, LocalsTypeOK,
       SharedTypeOK
  <2>2. Writer(p) /\ Writer(p)' /\ slot[p] \in Slot
    BY <2>1 DEF TableInv, TableLocal, Creating, Writer, TypeInv, LocalsOK,
       LocalOK, SlotLabel
  <2>3. ASSUME NEW q \in Proc PROVE CopyLocal(q)' /\ (Writer(q) => Writer(q)')
    BY <1>0, <2>1, <2>2 DEF ContentInv, CopyLocal, Others, Writer
  <2>4. ASSUME NEW i \in ShmId, Used(i)', i # shm[p] PROVE Used(i)
    <3>1. \A q \in Proc : Snapped(q)' => Snapped(q)
      BY <1>0, <2>1 DEF Snapped, SnapLabel, Others
    <3>2. CASE \E s \in Slot : entry'[s].slot_shmid = i
      BY <2>1, <2>4, <3>2 DEF Used
    <3>3. CASE \E q \in Proc : Snapped(q)' /\ shm'[q] = i
      BY <2>1, <3>1, <3>3 DEF Used
    <3> QED BY <2>4, <3>2, <3>3 DEF Used
  <2>5. \A i \in ShmId : Used(i)' =>
          Whole(mem'[i]) \/ \E q \in Proc : Writer(q)' /\ shm'[q] = i
    BY <2>1, <2>2, <2>3, <2>4 DEF ContentInv
  <2> QED BY <2>3, <2>5 DEF ContentInv
<1>15. CASE SnapSlot(p)
  <2>1. /\ pc[p] = "snap_slot" /\ pc'[p] = "shmat_slot" /\ mem' = mem
        /\ UNCHANGED <<entry, call, slot, create, buf>>
        /\ shm'[p] = entry[slot[p]].slot_shmid /\ slot[p] \in Slot
    BY <1>15 DEF SnapSlot, Goto, segs, TypeInv, LocalsOK, LocalsTypeOK, LocalOK,
       SlotLabel
  <2>2. Used(shm'[p])
    BY <2>1 DEF Used
  <2>3. Writer(p) => Writer(p)' /\ shm'[p] = shm[p]
    BY <2>1 DEF Writer, TableInv, TableLocal
  <2>4. CopyLocal(p)'
    BY <2>1 DEF CopyLocal
  <2> QED BY <1>0, <2>1, <2>2, <2>3, <2>4, ContentAside
<1>16. CASE AttachSegment(p)
  <2>1. /\ pc[p] = "shmat_slot" /\ pc'[p] = "header" /\ shm[p] \in ShmId
        /\ UNCHANGED <<entry, call, slot, create, shm, buf>>
    BY <1>16 DEF AttachSegment, Goto, locals, TypeInv, LocalsOK, LocalsTypeOK
  <2>2. Snapped(p) /\ Snapped(p)' /\ pc[p] \in SnapLabel
    BY <2>1 DEF Snapped, SnapLabel
  <2>3. Writer(p) => Writer(p)'
    BY <2>1 DEF Writer
  <2>4. CASE create[p]
    <3>1. /\ mem'[shm[p]].typeID = NewSegment
          /\ \A i \in ShmId : i # shm[p] => mem'[i] = mem[i]
      BY <1>16, <2>1, <2>4 DEF AttachSegment, TypeInv, SegsTypeOK, Content
    <3>2. Writer(p)'
      BY <2>1, <2>4 DEF Writer, SegInv, SegLocal
    <3>3. CopyLocal(p)'
      BY <2>1, <3>1 DEF CopyLocal
    <3> QED BY <1>0, <2>1, <2>2, <3>1, <3>2, <3>3, ContentStored
  <2>5. CASE ~create[p]
    <3>1. mem' = mem
      BY <1>16, <2>5 DEF AttachSegment
    <3>2. CopyLocal(p)'
      BY <2>1, <2>5 DEF CopyLocal
    <3>3. Used(shm'[p])
      BY <2>1, <2>2 DEF Used
    <3> QED BY <1>0, <2>1, <2>3, <3>1, <3>2, <3>3, ContentAside
  <2> QED BY <2>4, <2>5
<1>17. CASE AttachSegmentFails(p)
  <2>1. pc'[p] = "idle" /\ mem' = mem /\ entry' = entry
    BY <1>17, ReturnOthers DEF AttachSegmentFails, segs
  <2>2. ~Writer(p)
    <3> SUFFICES ASSUME Writer(p) PROVE FALSE
      OBVIOUS
    <3>1. pc[p] = "shmat_slot" /\ (shm[p] \notin ShmId \/ ~Exists(shm[p]))
      BY <1>17 DEF AttachSegmentFails
    <3>2. call[p].subscribe = "no"
      BY <3>1, CallFields DEF Writer, TableInv, TableLocal
    <3> QED BY <3>1, <3>2 DEF SegInv, SegLocal, Snapped, SnapLabel, Exists
  <2>3. ~Snapped(p)' /\ CopyLocal(p)'
    BY <2>1 DEF Snapped, SnapLabel, CopyLocal
  <2> QED BY <1>0, <2>1, <2>2, <2>3, ContentAside
<1>18. CASE FillHeader(p)
  <2>1. /\ pc[p] = "header" /\ pc'[p] = "memcpy" /\ shm[p] \in ShmId
        /\ UNCHANGED <<entry, call, slot, create, shm, buf>> /\ call[p].op = "write"
        /\ mem'[shm[p]].typeID = call[p].arr.typeID
        /\ mem'[shm[p]].number = call[p].arr.number
        /\ \A i \in ShmId : i # shm[p] => mem'[i] = mem[i]
    BY <1>18 DEF FillHeader, Goto, locals, TypeInv, LocalsOK, LocalsTypeOK,
       LocalOK,
       InSegment, SegsTypeOK, Content
  <2>2. Snapped(p)' /\ pc[p] \in SnapLabel /\ Writer(p)'
    BY <2>1 DEF Snapped, SnapLabel, Writer
  <2>3. CopyLocal(p)'
    BY <2>1 DEF CopyLocal, Fits
  <2> QED BY <1>0, <2>1, <2>2, <2>3, ContentStored
<1>19. CASE CheckHeader(p)
  <2>1. /\ pc[p] = "header" /\ pc'[p] = "memcpy" /\ mem' = mem /\ call[p].op = "write"
        /\ UNCHANGED <<entry, call, slot, create, shm>> /\ Fits(call[p].arr, mem[shm[p]])
    BY <1>19 DEF CheckHeader, Goto, segs, locals, TypeInv, LocalsOK,
       LocalsTypeOK
  <2>2. CopyLocal(p)' /\ Writer(p)'
    BY <2>1 DEF CopyLocal, Writer
  <2>3. Used(shm'[p])
    BY <2>1 DEF Used, Snapped, SnapLabel
  <2> QED BY <1>0, <2>1, <2>2, <2>3, ContentAside
<1>20. CASE RefuseMisfit(p)
  <2>1. pc'[p] = "idle" /\ mem' = mem /\ entry' = entry
    BY <1>20, ReturnOthers DEF RefuseMisfit
  <2>2. ~Writer(p)
    BY <1>20 DEF RefuseMisfit, Writer, ContentInv, CopyLocal
  <2>3. ~Snapped(p)' /\ CopyLocal(p)'
    BY <2>1 DEF Snapped, SnapLabel, CopyLocal
  <2> QED BY <1>0, <2>1, <2>2, <2>3, ContentAside
<1>21. CASE ReadHeader(p)
  <2>1. /\ pc[p] = "header" /\ pc'[p] = "memcpy" /\ mem' = mem /\ call[p].op = "read"
        /\ UNCHANGED <<entry, call, slot, create, shm>>
    BY <1>21 DEF ReadHeader, Goto, segs, TypeInv, LocalsOK, LocalsTypeOK
  <2>2. buf'[p].typeID = mem[shm[p]].typeID /\ buf'[p].number = mem[shm[p]].number
    BY <1>21 DEF ReadHeader, TypeInv, LocalsOK, LocalsTypeOK, Content
  <2>3. CopyLocal(p)' /\ ~Writer(p)
    BY <2>1, <2>2 DEF CopyLocal, Writer
  <2>4. Used(shm'[p])
    BY <2>1 DEF Used, Snapped, SnapLabel
  <2> QED BY <1>0, <2>1, <2>3, <2>4, ContentAside
<1>22. CASE CopyFirstHalf(p)
  <2>1. /\ pc[p] = "memcpy" /\ pc'[p] = "memcpy_rest" /\ shm[p] \in ShmId
        /\ UNCHANGED <<entry, call, slot, create, shm>>
    BY <1>22 DEF CopyFirstHalf, Goto, TypeInv, LocalsOK, LocalsTypeOK, LocalOK,
       InSegment
  <2>2. Snapped(p) /\ Snapped(p)' /\ pc[p] \in SnapLabel /\ (Writer(p) => Writer(p)')
    BY <2>1 DEF Snapped, SnapLabel, Writer
  <2>3. CASE call[p].op = "write"
    <3>1. /\ mem'[shm[p]] = [mem[shm[p]] EXCEPT !.lo = call[p].arr.data]
          /\ \A i \in ShmId : i # shm[p] => mem'[i] = mem[i]
      BY <1>22, <2>1, <2>3 DEF CopyFirstHalf, TypeInv, SegsTypeOK
    <3>2. Fits(call[p].arr, mem[shm[p]]) /\ mem[shm[p]] \in Content
      BY <2>1, <2>3 DEF ContentInv, CopyLocal, TypeInv, SegsTypeOK
    <3>3. CopyLocal(p)'
      BY <2>1, <2>3, <3>1, <3>2 DEF CopyLocal, Fits, Content
    <3>4. Writer(p)'
      BY <2>1, <2>3 DEF Writer
    <3> QED BY <1>0, <2>1, <2>2, <3>1, <3>3, <3>4, ContentStored
  <2>4. CASE call[p].op # "write"
    <3>1. mem' = mem /\ buf' = [buf EXCEPT ![p].lo = mem[shm[p]].lo]
      BY <1>22, <2>4 DEF CopyFirstHalf
    <3>2. buf[p] \in Content /\ buf'[p] = [buf[p] EXCEPT !.lo = mem[shm[p]].lo]
      BY <3>1 DEF TypeInv, LocalsOK, LocalsTypeOK
    <3>3. CopyLocal(p)'
      BY <2>1, <2>4, <3>1, <3>2 DEF ContentInv, CopyLocal, Content
    <3>4. Used(shm'[p])
      BY <2>1, <2>2 DEF Used
    <3> QED BY <1>0, <2>1, <2>2, <3>1, <3>3, <3>4, ContentAside
  <2> QED BY <2>3, <2>4
<1>23. CASE CopySecondHalf(p)
  <2>1. /\ pc[p] = "memcpy_rest" /\ pc'[p] = "release" /\ shm[p] \in ShmId
        /\ UNCHANGED <<entry, call, slot, create, shm>>
    BY <1>23 DEF CopySecondHalf, Goto, TypeInv, LocalsOK, LocalsTypeOK, LocalOK,
       InSegment
  <2>2. Snapped(p) /\ Snapped(p)' /\ pc[p] \in SnapLabel
    BY <2>1 DEF Snapped, SnapLabel
  <2>3. CASE call[p].op = "write"
    <3>1. /\ mem'[shm[p]] = [mem[shm[p]] EXCEPT !.hi = call[p].arr.data]
          /\ \A i \in ShmId : i # shm[p] => mem'[i] = mem[i]
      BY <1>23, <2>1, <2>3 DEF CopySecondHalf, TypeInv, SegsTypeOK
    <3>2. /\ Fits(call[p].arr, mem[shm[p]]) /\ mem[shm[p]].lo = call[p].arr.data
          /\ mem[shm[p]] \in Content /\ call[p].arr \in Array
      BY <2>1, <2>3, WrittenArray DEF ContentInv, CopyLocal, TypeInv, SegsTypeOK
    <3>3. Whole(mem'[shm[p]])
      BY <3>1, <3>2 DEF Whole, Fits, Content
    <3>4. CopyLocal(p)'
      BY <2>1, <2>3 DEF CopyLocal
    <3> QED BY <1>0, <2>1, <2>2, <3>1, <3>3, <3>4, ContentStored
  <2>4. CASE call[p].op # "write"
    <3>1. mem' = mem /\ buf' = [buf EXCEPT ![p].hi = mem[shm[p]].hi] /\ ~Writer(p)
      BY <1>23, <2>4 DEF CopySecondHalf, Writer
    <3>2. buf[p] \in Content /\ buf'[p] = [buf[p] EXCEPT !.hi = mem[shm[p]].hi]
      BY <3>1 DEF TypeInv, LocalsOK, LocalsTypeOK
    <3>3. ASSUME call[p].op = "read" PROVE Whole(buf'[p])
      <4>1. \A q \in Proc : ~(Writer(q) /\ shm[q] = shm[p])
        BY <2>2, <3>1, CopyAlone
      <4>2. Whole(mem[shm[p]])
        BY <2>1, <2>2, <4>1 DEF ContentInv, Used
      <4>3. /\ buf[p].typeID = mem[shm[p]].typeID /\ buf[p].number = mem[shm[p]].number
            /\ buf[p].lo = mem[shm[p]].lo
        BY <2>1, <3>3 DEF ContentInv, CopyLocal
      <4>4. /\ buf'[p].typeID = mem[shm[p]].typeID /\ buf'[p].number = mem[shm[p]].number
            /\ buf'[p].lo = mem[shm[p]].lo /\ buf'[p].hi = mem[shm[p]].hi
        BY <3>2, <4>3 DEF Content
      <4> QED BY <4>2, <4>4 DEF Whole, Fits
    <3>4. CopyLocal(p)'
      BY <2>1, <2>4, <3>3 DEF CopyLocal
    <3>5. Used(shm'[p])
      BY <2>1, <2>2 DEF Used
    <3> QED BY <1>0, <2>1, <3>1, <3>4, <3>5, ContentAside
  <2> QED BY <2>3, <2>4
<1>24. CASE ReleaseSnapshot(p)
  <2>1. mem' = mem /\ entry' = entry /\ ~Writer(p) /\ CopyLocal(p)'
    BY <1>24, ReturnOthers DEF ReleaseSnapshot, Goto, locals, TypeInv,
       LocalsOK, LocalsTypeOK, Writer, CopyLocal
  <2>2. Snapped(p)' => Used(shm'[p])
    BY <1>24, ReturnOthers DEF ReleaseSnapshot, Goto, locals, TypeInv,
       LocalsOK, LocalsTypeOK, Snapped, SnapLabel
  <2> QED BY <1>0, <2>1, <2>2, ContentAside
<1>25. CASE CountSubscribers(p)
  <2>1. mem' = mem /\ entry' = entry /\ ~Writer(p) /\ CopyLocal(p)'
    BY <1>25 DEF CountSubscribers, Goto, segs, TypeInv, LocalsOK,
       LocalsTypeOK, Writer, CopyLocal
  <2>2. Snapped(p)' => Used(shm'[p])
    BY <1>25 DEF CountSubscribers, Goto, TypeInv, LocalsOK, LocalsTypeOK,
       Snapped, SnapLabel
  <2> QED BY <1>0, <2>1, <2>2, ContentAside
<1>26. CASE PublishToSubscribers(p)
  <2>1. mem' = mem /\ entry' = entry /\ ~Writer(p) /\ CopyLocal(p)'
    BY <1>26 DEF PublishToSubscribers, segs, locals, TypeInv, LocalsOK,
       LocalsTypeOK, Writer, CopyLocal
  <2>2. Snapped(p)' => Used(shm'[p])
    BY <1>26 DEF PublishToSubscribers, locals, TypeInv, LocalsOK,
       LocalsTypeOK, Snapped, SnapLabel
  <2> QED BY <1>0, <2>1, <2>2, ContentAside
<1>27. CASE PublishToNobody(p)
  <2>1. mem' = mem /\ entry' = entry /\ ~Writer(p) /\ CopyLocal(p)'
    BY <1>27 DEF PublishToNobody, Goto, segs, locals, TypeInv, LocalsOK,
       LocalsTypeOK, Writer, CopyLocal
  <2>2. Snapped(p)' => Used(shm'[p])
    BY <1>27 DEF PublishToNobody, Goto, locals, TypeInv, LocalsOK,
       LocalsTypeOK, Snapped, SnapLabel
  <2> QED BY <1>0, <2>1, <2>2, ContentAside
<1>28. CASE PublishFails(p)
  <2>1. mem' = mem /\ entry' = entry /\ ~Writer(p) /\ CopyLocal(p)'
    BY <1>28, ReturnOthers DEF PublishFails, Goto, segs, TypeInv, LocalsOK,
       LocalsTypeOK, Writer, CopyLocal
  <2>2. Snapped(p)' => Used(shm'[p])
    BY <1>28, ReturnOthers DEF PublishFails, Goto, TypeInv, LocalsOK,
       LocalsTypeOK, Snapped, SnapLabel
  <2> QED BY <1>0, <2>1, <2>2, ContentAside
<1>29. CASE Acknowledged(p)
  <2>1. mem' = mem /\ entry' = entry /\ ~Writer(p) /\ CopyLocal(p)'
    BY <1>29, ReturnOthers DEF Acknowledged, Goto, segs, TypeInv, LocalsOK,
       LocalsTypeOK, Writer, CopyLocal
  <2>2. Snapped(p)' => Used(shm'[p])
    BY <1>29, ReturnOthers DEF Acknowledged, Goto, TypeInv, LocalsOK,
       LocalsTypeOK, Snapped, SnapLabel
  <2> QED BY <1>0, <2>1, <2>2, ContentAside
<1>30. CASE SnapSubscription(p)
  <2>1. PICK s \in lkup_slot(call[p].id) : shm' = [shm EXCEPT ![p] = entry[s].slot_shmid]
    BY <1>30 DEF SnapSubscription
  <2>2. /\ pc[p] = "lkup_slot" /\ pc'[p] = "subscribe" /\ mem' = mem
        /\ entry' = entry /\ shm'[p] = entry[s].slot_shmid
    BY <1>30, <2>1 DEF SnapSubscription, Goto, segs, TypeInv, LocalsOK,
       LocalsTypeOK
  <2>3. Used(shm'[p])
    BY <2>2, FoundSlot DEF Used
  <2>4. ~Writer(p) /\ CopyLocal(p)'
    BY <2>2 DEF Writer, CopyLocal
  <2> QED BY <1>0, <2>2, <2>3, <2>4, ContentAside
<1>31. CASE Subscribe(p)
  <2>1. mem' = mem /\ entry' = entry /\ ~Writer(p) /\ CopyLocal(p)'
    BY <1>31 DEF Subscribe, Goto, segs, locals, TypeInv, LocalsOK,
       LocalsTypeOK, Writer, CopyLocal
  <2>2. Snapped(p)' => Used(shm'[p])
    BY <1>31 DEF Subscribe, Goto, locals, TypeInv, LocalsOK, LocalsTypeOK,
       Snapped, SnapLabel, Used
  <2> QED BY <1>0, <2>1, <2>2, ContentAside
<1>32. CASE SubscribeFails(p)
  <2>1. mem' = mem /\ entry' = entry /\ ~Writer(p) /\ CopyLocal(p)'
    BY <1>32, ReturnOthers DEF SubscribeFails, Goto, segs, TypeInv, LocalsOK,
       LocalsTypeOK, Writer, CopyLocal
  <2>2. Snapped(p)' => Used(shm'[p])
    BY <1>32, ReturnOthers DEF SubscribeFails, Goto, TypeInv, LocalsOK,
       LocalsTypeOK, Snapped, SnapLabel
  <2> QED BY <1>0, <2>1, <2>2, ContentAside
<1>33. CASE LockSnapshot(p)
  <2>1. mem' = mem /\ entry' = entry /\ ~Writer(p) /\ CopyLocal(p)'
    BY <1>33 DEF LockSnapshot, Goto, segs, locals, TypeInv, LocalsOK,
       LocalsTypeOK, Writer, CopyLocal
  <2>2. Snapped(p)' => Used(shm'[p])
    BY <1>33 DEF LockSnapshot, Goto, locals, TypeInv, LocalsOK, LocalsTypeOK,
       Snapped, SnapLabel, Used
  <2> QED BY <1>0, <2>1, <2>2, ContentAside
<1>34. CASE LockSnapshotFails(p)
  <2>1. mem' = mem /\ entry' = entry /\ ~Writer(p) /\ CopyLocal(p)'
    BY <1>34, ReturnOthers DEF LockSnapshotFails, Goto, segs, TypeInv,
       LocalsOK, LocalsTypeOK, Writer, CopyLocal
  <2>2. Snapped(p)' => Used(shm'[p])
    BY <1>34, ReturnOthers DEF LockSnapshotFails, Goto, TypeInv, LocalsOK,
       LocalsTypeOK, Snapped, SnapLabel
  <2> QED BY <1>0, <2>1, <2>2, ContentAside
<1>35. CASE FindSlotToFree(p)
  <2>1. mem' = mem /\ entry' = entry /\ ~Writer(p) /\ CopyLocal(p)'
    BY <1>35 DEF FindSlotToFree, Goto, segs, TypeInv, LocalsOK, LocalsTypeOK,
       Writer, CopyLocal
  <2>2. Snapped(p)' => Used(shm'[p])
    BY <1>35 DEF FindSlotToFree, Goto, TypeInv, LocalsOK, LocalsTypeOK,
       Snapped, SnapLabel
  <2> QED BY <1>0, <2>1, <2>2, ContentAside
<1>36. CASE ScanUsed(p)
  <2>1. mem' = mem /\ entry' = entry /\ ~Writer(p) /\ CopyLocal(p)'
    BY <1>36 DEF ScanUsed, Goto, segs, locals, TypeInv, LocalsOK,
       LocalsTypeOK, Writer, CopyLocal
  <2>2. Snapped(p)' => Used(shm'[p])
    BY <1>36 DEF ScanUsed, Goto, locals, TypeInv, LocalsOK, LocalsTypeOK,
       Snapped, SnapLabel
  <2> QED BY <1>0, <2>1, <2>2, ContentAside
<1>37. CASE ScanFree(p)
  <2>1. mem' = mem /\ entry' = entry /\ ~Writer(p) /\ CopyLocal(p)'
    BY <1>37 DEF ScanFree, segs, TypeInv, LocalsOK, LocalsTypeOK, Writer,
       CopyLocal
  <2>2. Snapped(p)' => Used(shm'[p])
    BY <1>37 DEF ScanFree, TypeInv, LocalsOK, LocalsTypeOK, Snapped,
       SnapLabel
  <2> QED BY <1>0, <2>1, <2>2, ContentAside
<1>38. CASE LockUsed(p)
  <2>1. mem' = mem /\ entry' = entry /\ ~Writer(p) /\ CopyLocal(p)'
    BY <1>38 DEF LockUsed, Goto, segs, locals, TypeInv, LocalsOK,
       LocalsTypeOK, Writer, CopyLocal
  <2>2. Snapped(p)' => Used(shm'[p])
    BY <1>38 DEF LockUsed, Goto, locals, TypeInv, LocalsOK, LocalsTypeOK,
       Snapped, SnapLabel
  <2> QED BY <1>0, <2>1, <2>2, ContentAside
<1>39. CASE LockUsedIgnored(p)
  <2>1. mem' = mem /\ entry' = entry /\ ~Writer(p) /\ CopyLocal(p)'
    BY <1>39 DEF LockUsedIgnored, Goto, segs, locals, TypeInv, LocalsOK,
       LocalsTypeOK, Writer, CopyLocal
  <2>2. Snapped(p)' => Used(shm'[p])
    BY <1>39 DEF LockUsedIgnored, Goto, locals, TypeInv, LocalsOK,
       LocalsTypeOK, Snapped, SnapLabel
  <2> QED BY <1>0, <2>1, <2>2, ContentAside
<1>40. CASE InfoRead(p)
  <2>1. mem' = mem /\ entry' = entry /\ ~Writer(p) /\ CopyLocal(p)'
    BY <1>40 DEF InfoRead, Goto, segs, TypeInv, LocalsOK, LocalsTypeOK,
       Writer, CopyLocal
  <2>2. Snapped(p)' => Used(shm'[p])
    BY <1>40 DEF InfoRead, Goto, TypeInv, LocalsOK, LocalsTypeOK, Snapped,
       SnapLabel
  <2> QED BY <1>0, <2>1, <2>2, ContentAside
<1>41. CASE InfoFault(p)
  <2>1. mem' = mem /\ entry' = entry /\ ~Writer(p) /\ CopyLocal(p)'
    BY <1>41 DEF InfoFault, Goto, Die, locals, TypeInv, LocalsOK,
       LocalsTypeOK, Writer, CopyLocal
  <2>2. Snapped(p)' => Used(shm'[p])
    BY <1>41 DEF InfoFault, Goto, Die, locals, TypeInv, LocalsOK,
       LocalsTypeOK, Snapped, SnapLabel
  <2> QED BY <1>0, <2>1, <2>2, ContentAside
<1>42. CASE RemoveSegment(p)
  <2>1. mem' = mem /\ entry' = entry /\ ~Writer(p) /\ CopyLocal(p)'
    BY <1>42 DEF RemoveSegment, Goto, locals, TypeInv, LocalsOK,
       LocalsTypeOK, Writer, CopyLocal
  <2>2. Snapped(p)' => Used(shm'[p])
    BY <1>42 DEF RemoveSegment, Goto, locals, TypeInv, LocalsOK,
       LocalsTypeOK, Snapped, SnapLabel
  <2> QED BY <1>0, <2>1, <2>2, ContentAside
<1>43. CASE ClearEntry(p)
  <2>1. /\ pc[p] = "clear" /\ pc'[p] \in {"idle", "scan"} /\ mem' = mem
        /\ \A s \in Slot : entry'[s] = entry[s] \/ entry'[s].slot_shmid = NoShm
    BY <1>43, ReturnOthers DEF ClearEntry, Goto, segs, TypeInv, SharedTypeOK,
       LocalsOK,
       LocalsTypeOK
  <2>2. ~Writer(p) /\ ~Snapped(p)' /\ CopyLocal(p)'
    BY <2>1 DEF Writer, Snapped, SnapLabel, CopyLocal
  <2> QED BY <1>0, <2>1, <2>2, ContentAside
<1>44. CASE InfoReturns(p)
  <2>1. mem' = mem /\ entry' = entry /\ ~Writer(p) /\ CopyLocal(p)'
    BY <1>44, ReturnOthers DEF InfoReturns, Goto, Detach, segs, TypeInv,
       LocalsOK, LocalsTypeOK, Writer, CopyLocal
  <2>2. Snapped(p)' => Used(shm'[p])
    BY <1>44, ReturnOthers DEF InfoReturns, Goto, TypeInv, LocalsOK,
       LocalsTypeOK, Snapped, SnapLabel
  <2> QED BY <1>0, <2>1, <2>2, ContentAside
<1>45. CASE RemoveSemaphores(p)
  <2>1. mem' = mem /\ entry' = entry /\ ~Writer(p) /\ CopyLocal(p)'
    BY <1>45 DEF RemoveSemaphores, Goto, segs, locals, TypeInv, LocalsOK,
       LocalsTypeOK, Writer, CopyLocal
  <2>2. Snapped(p)' => Used(shm'[p])
    BY <1>45 DEF RemoveSemaphores, Goto, locals, TypeInv, LocalsOK,
       LocalsTypeOK, Snapped, SnapLabel
  <2> QED BY <1>0, <2>1, <2>2, ContentAside
<1>46. CASE RemoveMaster(p)
  <2>1. mem' = mem /\ entry' = entry /\ ~Writer(p) /\ CopyLocal(p)'
    BY <1>46, ReturnOthers DEF RemoveMaster, Goto, segs, TypeInv, LocalsOK,
       LocalsTypeOK, Writer, CopyLocal
  <2>2. Snapped(p)' => Used(shm'[p])
    BY <1>46, ReturnOthers DEF RemoveMaster, Goto, TypeInv, LocalsOK,
       LocalsTypeOK, Snapped, SnapLabel
  <2> QED BY <1>0, <2>1, <2>2, ContentAside
<1> QED BY <1>1, <1>2, <1>3, <1>4, <1>5, <1>6, <1>7, <1>8, <1>9, <1>10, <1>11,
   <1>12,
   <1>13, <1>14, <1>15, <1>16, <1>17, <1>18, <1>19, <1>20, <1>21, <1>22,
   <1>23, <1>24, <1>25, <1>26, <1>27, <1>28, <1>29, <1>30, <1>31, <1>32,
   <1>33, <1>34, <1>35, <1>36, <1>37, <1>38, <1>39, <1>40, <1>41, <1>42,
   <1>43, <1>44, <1>45, <1>46 DEF Step

(* So does every step of the specification.                                *)
LEMMA ContentNext ==
  ASSUME Signals = FALSE, NoMemory = FALSE
  PROVE  TypeInv /\ MasterInv /\ SlotInv /\ TableInv /\ SegInv /\ ContentInv /\ [Next]_vars
           => ContentInv'
<1>1. ASSUME ContentInv, UNCHANGED vars PROVE ContentInv'
  BY <1>1 DEF vars, ContentInv, Used, Writer, CopyLocal, Snapped, kernelSem,
     master,
     segs, locals
<1> QED BY <1>1, ContentStep DEF Next

(* The invariant of the contents holds initially.                          *)
LEMMA ContentInit == Init => ContentInv
  BY PoolAssumption DEF Init, ContentInv, Used, Snapped, SnapLabel, CopyLocal

(* Where no signal interrupts semop and shmat finds the memory it needs, a *)
(* read returns one array that was written: type, dimensions and both      *)
(* halves of the payload are of one write, whoever writes, frees, lists or *)
(* removes the slot meanwhile, and the reader may have been a subscriber.  *)
THEOREM ReadsWhole == ASSUME Signals = FALSE, NoMemory = FALSE PROVE Spec => []ReadWhole
<1>1. ContentInv => ReadWhole
  BY DEF ContentInv, CopyLocal, Whole, ReadWhole
<1> QED
  BY TypeInit, TypeNext, MasterNext, SlotNext, TableInit, TableNext, SegInit,
     SegNext,
     ContentInit, ContentNext, <1>1, PTL DEF Spec


-----------------------------------------------------------------------------
(* THE HANDSHAKE, where no signal arrives, subscribers wait without limit  *)
(* and one process publishes.  Only then is the number counted still right *)
(* when the semaphore is raised: no subscriber has gone meanwhile.         *)

OnePublisher ==
  \A p, q \in Proc : \A c \in Call[p] : \A d \in Call[q] : c.publish /\ d.publish => p = q
PatientSubscribers == \A p \in Proc : \A c \in Call[p] : c.subscribe # "timed"

(* What publish_snapshot relies on.                                        *)
Publishing(p) ==
  /\ pc[p] \in {"getncnt", "publish", "ack"} => call[p].publish
  /\ pc[p] = "publish" /\ semAlive => numb[p] <= Cardinality(Waiting(slot[p]))

HandInv ==
  /\ semAlive => \A s \in Slot : sem[HandSem(s)] = 0
  /\ \A p \in Proc : Publishing(p)

(* What the handshake semaphore of a slot is not touched by.               *)
LEMMA HandSems ==
  ASSUME TypeInv, NEW s \in Slot
  PROVE  /\ HandSem(s) \in SemNum /\ HandSem(s) # MasterSem
         /\ \A t \in Nat : t < NumSlots => HandSem(s) # LockSem(t)
         /\ \A t \in Slot : t # s => HandSem(t) # HandSem(s)
  BY PoolAssumption DEF Slot, SemNum, HandSem, MasterSem, LockSem

(* Raising or taking a lock leaves the handshake semaphores alone.         *)
LEMMA HandKept ==
  ASSUME TypeInv, NEW s \in Slot
  PROVE  /\ \A ks : HandSem(s) \notin ks => Raised(ks)[HandSem(s)] = sem[HandSem(s)]
         /\ \A k : HandSem(s) # k => Taken(k)[HandSem(s)] = sem[HandSem(s)]
  BY HandSems DEF Raised, Taken, TypeInv, SharedTypeOK

(* The subscribers waiting are finitely many.                              *)
LEMMA WaitingFinite ==
  ASSUME NEW s PROVE IsFiniteSet(Waiting(s)) /\ Cardinality(Waiting(s)) \in Nat
<1>1. Waiting(s) \in SUBSET Proc
  BY DEF Waiting
<1> QED BY <1>1, FS_Subset, FS_CardinalityType, PoolAssumption

(* A step that neither wakes a subscriber nor touches a handshake.         *)
LEMMA HandAside ==
  ASSUME TypeInv, HandInv, NEW p \in Proc, Others(p), semAlive' => semAlive,
         semAlive' => \A s \in Slot : sem'[HandSem(s)] = sem[HandSem(s)],
         \A q \in Proc \ {p} : numb'[q] = numb[q] /\ pc'[q] = pc[q],
         pc[p] = "sub_wait" => ~semAlive', pc'[p] # "publish",
         pc'[p] \in {"getncnt", "ack"} => call'[p].publish
  PROVE  HandInv'
<1>1. semAlive' => \A s \in Slot : sem'[HandSem(s)] = 0
  BY DEF HandInv
<1>2. ASSUME NEW q \in Proc \ {p}, pc'[q] = "publish", semAlive'
      PROVE  (numb[q] <= Cardinality(Waiting(slot[q])))'
  <2>1. numb[q] \in Int /\ numb[q] <= Cardinality(Waiting(slot[q]))
    BY <1>2 DEF HandInv, Publishing, TypeInv, LocalsOK, LocalsTypeOK
  <2>2. numb'[q] = numb[q] /\ slot'[q] = slot[q]
    BY DEF Others
  <2>3. Waiting(slot[q]) \subseteq Waiting(slot[q])' /\ Waiting(slot[q])' \in SUBSET Proc
    BY <1>2, <2>2 DEF Waiting, Others
  <2>4. /\ IsFiniteSet(Waiting(slot[q])')
        /\ Cardinality(Waiting(slot[q])) <= Cardinality(Waiting(slot[q])')
    BY <2>3, FS_Subset, PoolAssumption
  <2>5. Cardinality(Waiting(slot[q])') \in Nat /\ Cardinality(Waiting(slot[q])) \in Nat
    BY <2>4, WaitingFinite, FS_CardinalityType
  <2> QED BY <2>1, <2>2, <2>4, <2>5
<1>3. ASSUME NEW q \in Proc \ {p} PROVE Publishing(q)'
  BY <1>2 DEF HandInv, Publishing, Others
<1>4. Publishing(p)'
  BY DEF Publishing
<1> QED BY <1>1, <1>3, <1>4 DEF HandInv

(* Every step of a process preserves the invariant of the handshake.       *)
LEMMA HandStep ==
  ASSUME Signals = FALSE, OnePublisher, PatientSubscribers, TypeInv, TableInv, HandInv,
         NEW p \in Proc, Begin(p) \/ Step(p)
  PROVE  HandInv'
<1> USE PoolAssumption
<1>0. Others(p)
  BY StepOthers
<1>1. CASE Begin(p)
  <2>1. semAlive' => semAlive /\ \A s \in Slot : sem'[HandSem(s)] = sem[HandSem(s)]
    BY <1>1 DEF Begin, kernelSem
  <2>2. /\ \A q \in Proc \ {p} : numb'[q] = numb[q] /\ pc'[q] = pc[q]
        /\ pc[p] = "sub_wait" => ~semAlive'
        /\ pc'[p] # "publish" /\ (pc'[p] \in {"getncnt", "ack"} => call'[p].publish)
    BY <1>1 DEF Begin, Goto, TypeInv, LocalsOK, LocalsTypeOK
  <2> QED BY <1>0, <2>1, <2>2, HandAside
<1>2. CASE FindMaster(p)
  <2>1. semAlive' => semAlive /\ \A s \in Slot : sem'[HandSem(s)] = sem[HandSem(s)]
    BY <1>2 DEF FindMaster, kernelSem
  <2>2. /\ \A q \in Proc \ {p} : numb'[q] = numb[q] /\ pc'[q] = pc[q]
        /\ pc[p] = "sub_wait" => ~semAlive'
        /\ pc'[p] # "publish" /\ (pc'[p] \in {"getncnt", "ack"} => call'[p].publish)
    BY <1>2 DEF FindMaster, Return, Goto, locals, TypeInv, LocalsOK,
       LocalsTypeOK
  <2> QED BY <1>0, <2>1, <2>2, HandAside
<1>3. CASE AttachMaster(p)
  <2>1. semAlive' => semAlive /\ \A s \in Slot : sem'[HandSem(s)] = sem[HandSem(s)]
    BY <1>3 DEF AttachMaster, kernelSem
  <2>2. /\ \A q \in Proc \ {p} : numb'[q] = numb[q] /\ pc'[q] = pc[q]
        /\ pc[p] = "sub_wait" => ~semAlive'
        /\ pc'[p] # "publish" /\ (pc'[p] \in {"getncnt", "ack"} => call'[p].publish)
    BY <1>3 DEF AttachMaster, Goto, locals, TypeInv, LocalsOK, LocalsTypeOK
  <2> QED BY <1>0, <2>1, <2>2, HandAside
<1>4. CASE AttachMasterFault(p)
  <2>1. semAlive' => semAlive /\ \A s \in Slot : sem'[HandSem(s)] = sem[HandSem(s)]
    BY <1>4 DEF AttachMasterFault, Die, kernelSem
  <2>2. /\ \A q \in Proc \ {p} : numb'[q] = numb[q] /\ pc'[q] = pc[q]
        /\ pc[p] = "sub_wait" => ~semAlive'
        /\ pc'[p] # "publish" /\ (pc'[p] \in {"getncnt", "ack"} => call'[p].publish)
    BY <1>4 DEF AttachMasterFault, Goto, Die, locals, TypeInv, LocalsOK,
       LocalsTypeOK
  <2> QED BY <1>0, <2>1, <2>2, HandAside
<1>5. CASE LockMaster(p)
  <2>1. semAlive' => semAlive /\ \A s \in Slot : sem'[HandSem(s)] = sem[HandSem(s)]
    BY <1>5, HandKept, HandSems DEF LockMaster, TypeInv, LocalsOK, LocalOK,
       SlotLabel, Slot
  <2>2. /\ \A q \in Proc \ {p} : numb'[q] = numb[q] /\ pc'[q] = pc[q]
        /\ pc[p] = "sub_wait" => ~semAlive'
        /\ pc'[p] # "publish" /\ (pc'[p] \in {"getncnt", "ack"} => call'[p].publish)
    BY <1>5 DEF LockMaster, Goto, locals, TypeInv, LocalsOK, LocalsTypeOK
  <2> QED BY <1>0, <2>1, <2>2, HandAside
<1>6. CASE LockMasterFails(p)
  <2>1. semAlive' => semAlive /\ \A s \in Slot : sem'[HandSem(s)] = sem[HandSem(s)]
    BY <1>6 DEF LockMasterFails, kernelSem
  <2>2. /\ \A q \in Proc \ {p} : numb'[q] = numb[q] /\ pc'[q] = pc[q]
        /\ pc[p] = "sub_wait" => ~semAlive'
        /\ pc'[p] # "publish" /\ (pc'[p] \in {"getncnt", "ack"} => call'[p].publish)
    BY <1>6 DEF LockMasterFails, Return, Goto, TypeInv, LocalsOK,
       LocalsTypeOK
  <2> QED BY <1>0, <2>1, <2>2, HandAside
<1>7. CASE FindSlot(p)
  <2>1. semAlive' => semAlive /\ \A s \in Slot : sem'[HandSem(s)] = sem[HandSem(s)]
    BY <1>7 DEF FindSlot, kernelSem
  <2>2. /\ \A q \in Proc \ {p} : numb'[q] = numb[q] /\ pc'[q] = pc[q]
        /\ pc[p] = "sub_wait" => ~semAlive'
        /\ pc'[p] # "publish" /\ (pc'[p] \in {"getncnt", "ack"} => call'[p].publish)
    BY <1>7 DEF FindSlot, Goto, TypeInv, LocalsOK, LocalsTypeOK
  <2> QED BY <1>0, <2>1, <2>2, HandAside
<1>8. CASE PickFreeSlot(p)
  <2>1. semAlive' => semAlive /\ \A s \in Slot : sem'[HandSem(s)] = sem[HandSem(s)]
    BY <1>8 DEF PickFreeSlot, kernelSem
  <2>2. /\ \A q \in Proc \ {p} : numb'[q] = numb[q] /\ pc'[q] = pc[q]
        /\ pc[p] = "sub_wait" => ~semAlive'
        /\ pc'[p] # "publish" /\ (pc'[p] \in {"getncnt", "ack"} => call'[p].publish)
    BY <1>8 DEF PickFreeSlot, Goto, TypeInv, LocalsOK, LocalsTypeOK
  <2> QED BY <1>0, <2>1, <2>2, HandAside
<1>9. CASE NoSuchSlot(p)
  <2>1. semAlive' => semAlive /\ \A s \in Slot : sem'[HandSem(s)] = sem[HandSem(s)]
    BY <1>9, HandKept, HandSems DEF NoSuchSlot, TypeInv, LocalsOK, LocalOK,
       SlotLabel, Slot
  <2>2. /\ \A q \in Proc \ {p} : numb'[q] = numb[q] /\ pc'[q] = pc[q]
        /\ pc[p] = "sub_wait" => ~semAlive'
        /\ pc'[p] # "publish" /\ (pc'[p] \in {"getncnt", "ack"} => call'[p].publish)
    BY <1>9 DEF NoSuchSlot, Return, Goto, TypeInv, LocalsOK, LocalsTypeOK
  <2> QED BY <1>0, <2>1, <2>2, HandAside
<1>10. CASE LockSlot(p)
  <2>1. semAlive' => semAlive /\ \A s \in Slot : sem'[HandSem(s)] = sem[HandSem(s)]
    BY <1>10, HandKept, HandSems DEF LockSlot, TypeInv, LocalsOK, LocalOK,
       SlotLabel, Slot
  <2>2. /\ \A q \in Proc \ {p} : numb'[q] = numb[q] /\ pc'[q] = pc[q]
        /\ pc[p] = "sub_wait" => ~semAlive'
        /\ pc'[p] # "publish" /\ (pc'[p] \in {"getncnt", "ack"} => call'[p].publish)
    BY <1>10 DEF LockSlot, Goto, locals, TypeInv, LocalsOK, LocalsTypeOK
  <2> QED BY <1>0, <2>1, <2>2, HandAside
<1>11. CASE LockSlotFails(p)
  <2>1. semAlive' => semAlive /\ \A s \in Slot : sem'[HandSem(s)] = sem[HandSem(s)]
    BY <1>11, HandKept, HandSems DEF LockSlotFails, TypeInv, LocalsOK,
       LocalOK, SlotLabel, Slot
  <2>2. /\ \A q \in Proc \ {p} : numb'[q] = numb[q] /\ pc'[q] = pc[q]
        /\ pc[p] = "sub_wait" => ~semAlive'
        /\ pc'[p] # "publish" /\ (pc'[p] \in {"getncnt", "ack"} => call'[p].publish)
    BY <1>11 DEF LockSlotFails, Return, Goto, TypeInv, LocalsOK, LocalsTypeOK
  <2> QED BY <1>0, <2>1, <2>2, HandAside
<1>12. CASE CreateSegment(p)
  <2>1. semAlive' => semAlive /\ \A s \in Slot : sem'[HandSem(s)] = sem[HandSem(s)]
    BY <1>12 DEF CreateSegment, kernelSem
  <2>2. /\ \A q \in Proc \ {p} : numb'[q] = numb[q] /\ pc'[q] = pc[q]
        /\ pc[p] = "sub_wait" => ~semAlive'
        /\ pc'[p] # "publish" /\ (pc'[p] \in {"getncnt", "ack"} => call'[p].publish)
    BY <1>12 DEF CreateSegment, Goto, TypeInv, LocalsOK, LocalsTypeOK
  <2> QED BY <1>0, <2>1, <2>2, HandAside
<1>13. CASE CreateSegmentFails(p)
  <2>1. semAlive' => semAlive /\ \A s \in Slot : sem'[HandSem(s)] = sem[HandSem(s)]
    BY <1>13, HandKept, HandSems DEF CreateSegmentFails, TypeInv, LocalsOK,
       LocalOK, SlotLabel, Slot
  <2>2. /\ \A q \in Proc \ {p} : numb'[q] = numb[q] /\ pc'[q] = pc[q]
        /\ pc[p] = "sub_wait" => ~semAlive'
        /\ pc'[p] # "publish" /\ (pc'[p] \in {"getncnt", "ack"} => call'[p].publish)
    BY <1>13 DEF CreateSegmentFails, Return, Goto, TypeInv, LocalsOK,
       LocalsTypeOK
  <2> QED BY <1>0, <2>1, <2>2, HandAside
<1>14. CASE SetEntry(p)
  <2>1. semAlive' => semAlive /\ \A s \in Slot : sem'[HandSem(s)] = sem[HandSem(s)]
    BY <1>14 DEF SetEntry, kernelSem
  <2>2. /\ \A q \in Proc \ {p} : numb'[q] = numb[q] /\ pc'[q] = pc[q]
        /\ pc[p] = "sub_wait" => ~semAlive'
        /\ pc'[p] # "publish" /\ (pc'[p] \in {"getncnt", "ack"} => call'[p].publish)
    BY <1>14 DEF SetEntry, Goto, locals, TypeInv, LocalsOK, LocalsTypeOK
  <2> QED BY <1>0, <2>1, <2>2, HandAside
<1>15. CASE SnapSlot(p)
  <2>1. semAlive' => semAlive /\ \A s \in Slot : sem'[HandSem(s)] = sem[HandSem(s)]
    BY <1>15, HandKept, HandSems DEF SnapSlot, TypeInv, LocalsOK, LocalOK,
       SlotLabel, Slot
  <2>2. /\ \A q \in Proc \ {p} : numb'[q] = numb[q] /\ pc'[q] = pc[q]
        /\ pc[p] = "sub_wait" => ~semAlive'
        /\ pc'[p] # "publish" /\ (pc'[p] \in {"getncnt", "ack"} => call'[p].publish)
    BY <1>15 DEF SnapSlot, Goto, TypeInv, LocalsOK, LocalsTypeOK
  <2> QED BY <1>0, <2>1, <2>2, HandAside
<1>16. CASE AttachSegment(p)
  <2>1. semAlive' => semAlive /\ \A s \in Slot : sem'[HandSem(s)] = sem[HandSem(s)]
    BY <1>16 DEF AttachSegment, kernelSem
  <2>2. /\ \A q \in Proc \ {p} : numb'[q] = numb[q] /\ pc'[q] = pc[q]
        /\ pc[p] = "sub_wait" => ~semAlive'
        /\ pc'[p] # "publish" /\ (pc'[p] \in {"getncnt", "ack"} => call'[p].publish)
    BY <1>16 DEF AttachSegment, Goto, locals, TypeInv, LocalsOK, LocalsTypeOK
  <2> QED BY <1>0, <2>1, <2>2, HandAside
<1>17. CASE AttachSegmentFails(p)
  <2>1. semAlive' => semAlive /\ \A s \in Slot : sem'[HandSem(s)] = sem[HandSem(s)]
    BY <1>17, HandKept, HandSems DEF AttachSegmentFails, TypeInv, LocalsOK,
       LocalOK, SlotLabel, Slot
  <2>2. /\ \A q \in Proc \ {p} : numb'[q] = numb[q] /\ pc'[q] = pc[q]
        /\ pc[p] = "sub_wait" => ~semAlive'
        /\ pc'[p] # "publish" /\ (pc'[p] \in {"getncnt", "ack"} => call'[p].publish)
    BY <1>17 DEF AttachSegmentFails, Return, Goto, TypeInv, LocalsOK,
       LocalsTypeOK
  <2> QED BY <1>0, <2>1, <2>2, HandAside
<1>18. CASE FillHeader(p)
  <2>1. semAlive' => semAlive /\ \A s \in Slot : sem'[HandSem(s)] = sem[HandSem(s)]
    BY <1>18 DEF FillHeader, kernelSem
  <2>2. /\ \A q \in Proc \ {p} : numb'[q] = numb[q] /\ pc'[q] = pc[q]
        /\ pc[p] = "sub_wait" => ~semAlive'
        /\ pc'[p] # "publish" /\ (pc'[p] \in {"getncnt", "ack"} => call'[p].publish)
    BY <1>18 DEF FillHeader, Goto, locals, TypeInv, LocalsOK, LocalsTypeOK
  <2> QED BY <1>0, <2>1, <2>2, HandAside
<1>19. CASE CheckHeader(p)
  <2>1. semAlive' => semAlive /\ \A s \in Slot : sem'[HandSem(s)] = sem[HandSem(s)]
    BY <1>19 DEF CheckHeader, kernelSem
  <2>2. /\ \A q \in Proc \ {p} : numb'[q] = numb[q] /\ pc'[q] = pc[q]
        /\ pc[p] = "sub_wait" => ~semAlive'
        /\ pc'[p] # "publish" /\ (pc'[p] \in {"getncnt", "ack"} => call'[p].publish)
    BY <1>19 DEF CheckHeader, Goto, locals, TypeInv, LocalsOK, LocalsTypeOK
  <2> QED BY <1>0, <2>1, <2>2, HandAside
<1>20. CASE RefuseMisfit(p)
  <2>1. semAlive' => semAlive /\ \A s \in Slot : sem'[HandSem(s)] = sem[HandSem(s)]
    <3>1. slot[p] \in Nat /\ slot[p] < NumSlots
      BY <1>20 DEF RefuseMisfit, TypeInv, LocalsOK, LocalOK, SlotLabel, Slot
    <3> QED BY <1>20, <3>1, HandKept, HandSems DEF RefuseMisfit
  <2>2. /\ \A q \in Proc \ {p} : numb'[q] = numb[q] /\ pc'[q] = pc[q]
        /\ pc[p] = "sub_wait" => ~semAlive'
        /\ pc'[p] # "publish" /\ (pc'[p] \in {"getncnt", "ack"} => call'[p].publish)
    BY <1>20 DEF RefuseMisfit, Return, Goto, TypeInv, LocalsOK, LocalsTypeOK
  <2> QED BY <1>0, <2>1, <2>2, HandAside
<1>21. CASE ReadHeader(p)
  <2>1. semAlive' => semAlive /\ \A s \in Slot : sem'[HandSem(s)] = sem[HandSem(s)]
    BY <1>21 DEF ReadHeader, kernelSem
  <2>2. /\ \A q \in Proc \ {p} : numb'[q] = numb[q] /\ pc'[q] = pc[q]
        /\ pc[p] = "sub_wait" => ~semAlive'
        /\ pc'[p] # "publish" /\ (pc'[p] \in {"getncnt", "ack"} => call'[p].publish)
    BY <1>21 DEF ReadHeader, Goto, TypeInv, LocalsOK, LocalsTypeOK
  <2> QED BY <1>0, <2>1, <2>2, HandAside
<1>22. CASE CopyFirstHalf(p)
  <2>1. semAlive' => semAlive /\ \A s \in Slot : sem'[HandSem(s)] = sem[HandSem(s)]
    BY <1>22 DEF CopyFirstHalf, kernelSem
  <2>2. /\ \A q \in Proc \ {p} : numb'[q] = numb[q] /\ pc'[q] = pc[q]
        /\ pc[p] = "sub_wait" => ~semAlive'
        /\ pc'[p] # "publish" /\ (pc'[p] \in {"getncnt", "ack"} => call'[p].publish)
    BY <1>22 DEF CopyFirstHalf, Goto, TypeInv, LocalsOK, LocalsTypeOK
  <2> QED BY <1>0, <2>1, <2>2, HandAside
<1>23. CASE CopySecondHalf(p)
  <2>1. semAlive' => semAlive /\ \A s \in Slot : sem'[HandSem(s)] = sem[HandSem(s)]
    BY <1>23 DEF CopySecondHalf, kernelSem
  <2>2. /\ \A q \in Proc \ {p} : numb'[q] = numb[q] /\ pc'[q] = pc[q]
        /\ pc[p] = "sub_wait" => ~semAlive'
        /\ pc'[p] # "publish" /\ (pc'[p] \in {"getncnt", "ack"} => call'[p].publish)
    BY <1>23 DEF CopySecondHalf, Goto, TypeInv, LocalsOK, LocalsTypeOK
  <2> QED BY <1>0, <2>1, <2>2, HandAside
<1>24. CASE ReleaseSnapshot(p)
  <2>1. semAlive' => semAlive /\ \A s \in Slot : sem'[HandSem(s)] = sem[HandSem(s)]
    BY <1>24, HandKept, HandSems DEF ReleaseSnapshot, TypeInv, LocalsOK,
       LocalOK, SlotLabel, Slot
  <2>2. /\ \A q \in Proc \ {p} : numb'[q] = numb[q] /\ pc'[q] = pc[q]
        /\ pc[p] = "sub_wait" => ~semAlive'
        /\ pc'[p] # "publish" /\ (pc'[p] \in {"getncnt", "ack"} => call'[p].publish)
    BY <1>24 DEF ReleaseSnapshot, Return, Goto, locals, TypeInv, LocalsOK,
       LocalsTypeOK
  <2> QED BY <1>0, <2>1, <2>2, HandAside
<1>25. CASE CountSubscribers(p)
  <2>1. /\ pc[p] = "getncnt" /\ pc'[p] = "publish" /\ UNCHANGED <<sem, semAlive, slot, call>>
        /\ \A q \in Proc \ {p} : pc'[q] = pc[q] /\ numb'[q] = numb[q]
        /\ numb'[p] = IF semAlive THEN Cardinality(Waiting(slot[p])) ELSE -1
    BY <1>25 DEF CountSubscribers, Goto, kernelSem, TypeInv, LocalsOK,
       LocalsTypeOK
  <2>2. \A s : Waiting(s)' = Waiting(s)
    BY <2>1 DEF Waiting
  <2>3. ASSUME NEW q \in Proc PROVE Publishing(q)'
    <3>1. CASE q = p
      <4>1. call'[p].publish
        BY <2>1 DEF HandInv, Publishing
      <4>2. semAlive => numb'[p] = Cardinality(Waiting(slot[p]))
        BY <2>1
      <4> QED BY <2>1, <2>2, <3>1, <4>1, <4>2, WaitingFinite DEF Publishing
    <3>2. CASE q # p
      BY <2>1, <2>2, <3>2 DEF HandInv, Publishing
    <3> QED BY <3>1, <3>2
  <2> QED BY <2>1, <2>3 DEF HandInv
<1>26. CASE PublishToSubscribers(p)
  <2> DEFINE h == HandSem(slot[p])
  <2>1. /\ pc[p] = "publish" /\ semAlive /\ slot[p] \in Slot
        /\ UNCHANGED <<semAlive, slot, call, numb>>
    BY <1>26 DEF PublishToSubscribers, locals, TypeInv, LocalsOK, LocalOK,
       SlotLabel
  <2>2. PICK W \in SUBSET Waiting(slot[p]) :
          /\ Cardinality(W) <= sem[h] + numb[p]
          /\ W = Waiting(slot[p]) \/ Cardinality(W) = sem[h] + numb[p]
          /\ sem' = [sem EXCEPT ![h] = sem[h] + numb[p] - Cardinality(W)]
          /\ pc' = [q \in Proc |-> IF q = p THEN "ack"
                                   ELSE IF q \in W THEN "lock_snapshot" ELSE pc[q]]
    BY <1>26, Zenon DEF PublishToSubscribers
  <2>3. sem[h] = 0 /\ numb[p] <= Cardinality(Waiting(slot[p])) /\ numb[p] \in Int
    BY <2>1 DEF HandInv, Publishing, TypeInv, LocalsOK, LocalsTypeOK
  <2>4. Cardinality(W) \in Nat /\ Cardinality(Waiting(slot[p])) \in Nat
    BY WaitingFinite, FS_Subset, FS_CardinalityType
  <2>5. Cardinality(W) = numb[p]
    <3>1. CASE W = Waiting(slot[p])
      BY <2>2, <2>3, <2>4, <3>1
    <3>2. CASE Cardinality(W) = sem[h] + numb[p]
      BY <2>3, <2>4, <3>2
    <3> QED BY <2>2, <3>1, <3>2
  <2>6. h \in SemNum /\ sem'[h] = 0
    <3>1. h \in SemNum
      BY <2>1, HandSems
    <3>2. sem'[h] = sem[h] + numb[p] - Cardinality(W)
      <4>1. sem \in [SemNum -> 0 .. SEMVMX]
        BY DEF TypeInv, SharedTypeOK
      <4> HIDE DEF h
      <4> QED BY <2>2, <3>1, <4>1
    <3> QED BY <2>3, <2>5, <3>1, <3>2
  <2>7. \A s \in Slot : sem'[HandSem(s)] = 0
    <3> SUFFICES ASSUME NEW s \in Slot, s # slot[p] PROVE sem'[HandSem(s)] = 0
      BY <2>6
    <3>1. HandSem(s) # h /\ HandSem(s) \in SemNum
      BY <2>1, HandSems
    <3> QED BY <2>1, <2>2, <3>1 DEF HandInv, TypeInv, SharedTypeOK
  <2>8. ASSUME NEW q \in Proc PROVE Publishing(q)'
    <3>1. pc'[q] \in {"getncnt", "publish", "ack"} => pc[q] \in {"getncnt", "publish", "ack"}
      BY <2>1, <2>2
    <3>2. pc[q] \in {"getncnt", "publish", "ack"} => call[q].publish
      BY DEF HandInv, Publishing
    <3>3. pc'[q] # "publish"
      <4> SUFFICES ASSUME pc'[q] = "publish" PROVE FALSE
        OBVIOUS
      <4>1. q # p /\ pc[q] = "publish"
        BY <2>2
      <4>2. call[q].publish /\ call[p].publish
        BY <2>1, <4>1, <3>2 DEF HandInv, Publishing
      <4>3. call[p] \in Call[p] /\ call[q] \in Call[q]
        BY <4>2 DEF TypeInv, LocalsOK, LocalOK, NoCall
      <4> QED BY <4>1, <4>2, <4>3 DEF OnePublisher
    <3> QED BY <2>1, <3>1, <3>2, <3>3 DEF Publishing
  <2> QED BY <2>7, <2>8 DEF HandInv
<1>27. CASE PublishToNobody(p)
  <2>1. semAlive' => semAlive /\ \A s \in Slot : sem'[HandSem(s)] = sem[HandSem(s)]
    BY <1>27 DEF PublishToNobody, kernelSem
  <2>2. /\ \A q \in Proc \ {p} : numb'[q] = numb[q] /\ pc'[q] = pc[q]
        /\ pc[p] = "sub_wait" => ~semAlive'
        /\ pc'[p] # "publish" /\ (pc'[p] \in {"getncnt", "ack"} => call'[p].publish)
    BY <1>27 DEF PublishToNobody, Goto, locals, TypeInv, LocalsOK,
       LocalsTypeOK, HandInv, Publishing
  <2> QED BY <1>0, <2>1, <2>2, HandAside
<1>28. CASE PublishFails(p)
  <2>1. semAlive' => semAlive /\ \A s \in Slot : sem'[HandSem(s)] = sem[HandSem(s)]
    BY <1>28 DEF PublishFails, kernelSem
  <2>2. /\ \A q \in Proc \ {p} : numb'[q] = numb[q] /\ pc'[q] = pc[q]
        /\ pc[p] = "sub_wait" => ~semAlive'
        /\ pc'[p] # "publish" /\ (pc'[p] \in {"getncnt", "ack"} => call'[p].publish)
    BY <1>28 DEF PublishFails, Return, Goto, TypeInv, LocalsOK, LocalsTypeOK
  <2> QED BY <1>0, <2>1, <2>2, HandAside
<1>29. CASE Acknowledged(p)
  <2>1. semAlive' => semAlive /\ \A s \in Slot : sem'[HandSem(s)] = sem[HandSem(s)]
    BY <1>29 DEF Acknowledged, kernelSem
  <2>2. /\ \A q \in Proc \ {p} : numb'[q] = numb[q] /\ pc'[q] = pc[q]
        /\ pc[p] = "sub_wait" => ~semAlive'
        /\ pc'[p] # "publish" /\ (pc'[p] \in {"getncnt", "ack"} => call'[p].publish)
    BY <1>29 DEF Acknowledged, Return, Goto, TypeInv, LocalsOK, LocalsTypeOK
  <2> QED BY <1>0, <2>1, <2>2, HandAside
<1>30. CASE SnapSubscription(p)
  <2>1. semAlive' => semAlive /\ \A s \in Slot : sem'[HandSem(s)] = sem[HandSem(s)]
    BY <1>30, HandKept, HandSems DEF SnapSubscription, TypeInv, LocalsOK,
       LocalOK, SlotLabel, Slot
  <2>2. /\ \A q \in Proc \ {p} : numb'[q] = numb[q] /\ pc'[q] = pc[q]
        /\ pc[p] = "sub_wait" => ~semAlive'
        /\ pc'[p] # "publish" /\ (pc'[p] \in {"getncnt", "ack"} => call'[p].publish)
    BY <1>30 DEF SnapSubscription, Goto, TypeInv, LocalsOK, LocalsTypeOK
  <2> QED BY <1>0, <2>1, <2>2, HandAside
<1>31. CASE Subscribe(p)
  <2>1. semAlive' => semAlive /\ \A s \in Slot : sem'[HandSem(s)] = sem[HandSem(s)]
    <3>1. sem' = sem
      BY <1>31 DEF Subscribe, HandInv, TypeInv, LocalsOK, LocalOK, SlotLabel
    <3> QED BY <1>31, <3>1 DEF Subscribe
  <2>2. /\ \A q \in Proc \ {p} : numb'[q] = numb[q] /\ pc'[q] = pc[q]
        /\ pc[p] = "sub_wait" => ~semAlive'
        /\ pc'[p] # "publish" /\ (pc'[p] \in {"getncnt", "ack"} => call'[p].publish)
    BY <1>31 DEF Subscribe, Goto, locals, TypeInv, LocalsOK, LocalsTypeOK
  <2> QED BY <1>0, <2>1, <2>2, HandAside
<1>32. CASE SubscribeFails(p)
  <2>1. semAlive' => semAlive /\ \A s \in Slot : sem'[HandSem(s)] = sem[HandSem(s)]
    BY <1>32 DEF SubscribeFails, kernelSem
  <2>2. /\ \A q \in Proc \ {p} : numb'[q] = numb[q] /\ pc'[q] = pc[q]
        /\ pc[p] = "sub_wait" => ~semAlive'
        /\ pc'[p] # "publish" /\ (pc'[p] \in {"getncnt", "ack"} => call'[p].publish)
    BY <1>32 DEF SubscribeFails, Return, Goto, TypeInv, LocalsOK,
       LocalsTypeOK, PatientSubscribers, TableInv, TableLocal, kernelSem
  <2> QED BY <1>0, <2>1, <2>2, HandAside
<1>33. CASE LockSnapshot(p)
  <2>1. semAlive' => semAlive /\ \A s \in Slot : sem'[HandSem(s)] = sem[HandSem(s)]
    BY <1>33, HandKept, HandSems DEF LockSnapshot, TypeInv, LocalsOK,
       LocalOK, SlotLabel, Slot
  <2>2. /\ \A q \in Proc \ {p} : numb'[q] = numb[q] /\ pc'[q] = pc[q]
        /\ pc[p] = "sub_wait" => ~semAlive'
        /\ pc'[p] # "publish" /\ (pc'[p] \in {"getncnt", "ack"} => call'[p].publish)
    BY <1>33 DEF LockSnapshot, Goto, locals, TypeInv, LocalsOK, LocalsTypeOK
  <2> QED BY <1>0, <2>1, <2>2, HandAside
<1>34. CASE LockSnapshotFails(p)
  <2>1. semAlive' => semAlive /\ \A s \in Slot : sem'[HandSem(s)] = sem[HandSem(s)]
    BY <1>34 DEF LockSnapshotFails, kernelSem
  <2>2. /\ \A q \in Proc \ {p} : numb'[q] = numb[q] /\ pc'[q] = pc[q]
        /\ pc[p] = "sub_wait" => ~semAlive'
        /\ pc'[p] # "publish" /\ (pc'[p] \in {"getncnt", "ack"} => call'[p].publish)
    BY <1>34 DEF LockSnapshotFails, Return, Goto, TypeInv, LocalsOK,
       LocalsTypeOK
  <2> QED BY <1>0, <2>1, <2>2, HandAside
<1>35. CASE FindSlotToFree(p)
  <2>1. semAlive' => semAlive /\ \A s \in Slot : sem'[HandSem(s)] = sem[HandSem(s)]
    BY <1>35 DEF FindSlotToFree, kernelSem
  <2>2. /\ \A q \in Proc \ {p} : numb'[q] = numb[q] /\ pc'[q] = pc[q]
        /\ pc[p] = "sub_wait" => ~semAlive'
        /\ pc'[p] # "publish" /\ (pc'[p] \in {"getncnt", "ack"} => call'[p].publish)
    BY <1>35 DEF FindSlotToFree, Goto, TypeInv, LocalsOK, LocalsTypeOK
  <2> QED BY <1>0, <2>1, <2>2, HandAside
<1>36. CASE ScanUsed(p)
  <2>1. semAlive' => semAlive /\ \A s \in Slot : sem'[HandSem(s)] = sem[HandSem(s)]
    BY <1>36 DEF ScanUsed, kernelSem
  <2>2. /\ \A q \in Proc \ {p} : numb'[q] = numb[q] /\ pc'[q] = pc[q]
        /\ pc[p] = "sub_wait" => ~semAlive'
        /\ pc'[p] # "publish" /\ (pc'[p] \in {"getncnt", "ack"} => call'[p].publish)
    BY <1>36 DEF ScanUsed, Goto, locals, TypeInv, LocalsOK, LocalsTypeOK
  <2> QED BY <1>0, <2>1, <2>2, HandAside
<1>37. CASE ScanFree(p)
  <2>1. semAlive' => semAlive /\ \A s \in Slot : sem'[HandSem(s)] = sem[HandSem(s)]
    BY <1>37 DEF ScanFree, kernelSem
  <2>2. /\ \A q \in Proc \ {p} : numb'[q] = numb[q] /\ pc'[q] = pc[q]
        /\ pc[p] = "sub_wait" => ~semAlive'
        /\ pc'[p] # "publish" /\ (pc'[p] \in {"getncnt", "ack"} => call'[p].publish)
    BY <1>37 DEF ScanFree, TypeInv, LocalsOK, LocalsTypeOK
  <2> QED BY <1>0, <2>1, <2>2, HandAside
<1>38. CASE LockUsed(p)
  <2>1. semAlive' => semAlive /\ \A s \in Slot : sem'[HandSem(s)] = sem[HandSem(s)]
    BY <1>38, HandKept, HandSems DEF LockUsed, TypeInv, LocalsOK, LocalOK,
       SlotLabel, Slot
  <2>2. /\ \A q \in Proc \ {p} : numb'[q] = numb[q] /\ pc'[q] = pc[q]
        /\ pc[p] = "sub_wait" => ~semAlive'
        /\ pc'[p] # "publish" /\ (pc'[p] \in {"getncnt", "ack"} => call'[p].publish)
    BY <1>38 DEF LockUsed, Goto, locals, TypeInv, LocalsOK, LocalsTypeOK
  <2> QED BY <1>0, <2>1, <2>2, HandAside
<1>39. CASE LockUsedIgnored(p)
  <2>1. semAlive' => semAlive /\ \A s \in Slot : sem'[HandSem(s)] = sem[HandSem(s)]
    BY <1>39 DEF LockUsedIgnored, kernelSem
  <2>2. /\ \A q \in Proc \ {p} : numb'[q] = numb[q] /\ pc'[q] = pc[q]
        /\ pc[p] = "sub_wait" => ~semAlive'
        /\ pc'[p] # "publish" /\ (pc'[p] \in {"getncnt", "ack"} => call'[p].publish)
    BY <1>39 DEF LockUsedIgnored, Goto, locals, TypeInv, LocalsOK,
       LocalsTypeOK
  <2> QED BY <1>0, <2>1, <2>2, HandAside
<1>40. CASE InfoRead(p)
  <2>1. semAlive' => semAlive /\ \A s \in Slot : sem'[HandSem(s)] = sem[HandSem(s)]
    BY <1>40, HandKept, HandSems DEF InfoRead, TypeInv, LocalsOK, LocalOK,
       SlotLabel, Slot
  <2>2. /\ \A q \in Proc \ {p} : numb'[q] = numb[q] /\ pc'[q] = pc[q]
        /\ pc[p] = "sub_wait" => ~semAlive'
        /\ pc'[p] # "publish" /\ (pc'[p] \in {"getncnt", "ack"} => call'[p].publish)
    BY <1>40 DEF InfoRead, Goto, TypeInv, LocalsOK, LocalsTypeOK
  <2> QED BY <1>0, <2>1, <2>2, HandAside
<1>41. CASE InfoFault(p)
  <2>1. semAlive' => semAlive /\ \A s \in Slot : sem'[HandSem(s)] = sem[HandSem(s)]
    BY <1>41 DEF InfoFault, Die, kernelSem
  <2>2. /\ \A q \in Proc \ {p} : numb'[q] = numb[q] /\ pc'[q] = pc[q]
        /\ pc[p] = "sub_wait" => ~semAlive'
        /\ pc'[p] # "publish" /\ (pc'[p] \in {"getncnt", "ack"} => call'[p].publish)
    BY <1>41 DEF InfoFault, Goto, Die, locals, TypeInv, LocalsOK,
       LocalsTypeOK
  <2> QED BY <1>0, <2>1, <2>2, HandAside
<1>42. CASE RemoveSegment(p)
  <2>1. semAlive' => semAlive /\ \A s \in Slot : sem'[HandSem(s)] = sem[HandSem(s)]
    BY <1>42 DEF RemoveSegment, kernelSem
  <2>2. /\ \A q \in Proc \ {p} : numb'[q] = numb[q] /\ pc'[q] = pc[q]
        /\ pc[p] = "sub_wait" => ~semAlive'
        /\ pc'[p] # "publish" /\ (pc'[p] \in {"getncnt", "ack"} => call'[p].publish)
    BY <1>42 DEF RemoveSegment, Goto, locals, TypeInv, LocalsOK, LocalsTypeOK
  <2> QED BY <1>0, <2>1, <2>2, HandAside
<1>43. CASE ClearEntry(p)
  <2>1. semAlive' => semAlive /\ \A s \in Slot : sem'[HandSem(s)] = sem[HandSem(s)]
    BY <1>43, HandKept, HandSems DEF ClearEntry, TypeInv, LocalsOK, LocalOK,
       SlotLabel, Slot
  <2>2. /\ \A q \in Proc \ {p} : numb'[q] = numb[q] /\ pc'[q] = pc[q]
        /\ pc[p] = "sub_wait" => ~semAlive'
        /\ pc'[p] # "publish" /\ (pc'[p] \in {"getncnt", "ack"} => call'[p].publish)
    BY <1>43 DEF ClearEntry, Return, Goto, TypeInv, LocalsOK, LocalsTypeOK
  <2> QED BY <1>0, <2>1, <2>2, HandAside
<1>44. CASE InfoReturns(p)
  <2>1. semAlive' => semAlive /\ \A s \in Slot : sem'[HandSem(s)] = sem[HandSem(s)]
    BY <1>44, HandKept, HandSems DEF InfoReturns, TypeInv, LocalsOK, LocalOK,
       SlotLabel, Slot
  <2>2. /\ \A q \in Proc \ {p} : numb'[q] = numb[q] /\ pc'[q] = pc[q]
        /\ pc[p] = "sub_wait" => ~semAlive'
        /\ pc'[p] # "publish" /\ (pc'[p] \in {"getncnt", "ack"} => call'[p].publish)
    BY <1>44 DEF InfoReturns, Return, Goto, TypeInv, LocalsOK, LocalsTypeOK
  <2> QED BY <1>0, <2>1, <2>2, HandAside
<1>45. CASE RemoveSemaphores(p)
  <2>1. semAlive' => semAlive /\ \A s \in Slot : sem'[HandSem(s)] = sem[HandSem(s)]
    BY <1>45 DEF RemoveSemaphores
  <2>2. /\ \A q \in Proc \ {p} : numb'[q] = numb[q] /\ pc'[q] = pc[q]
        /\ pc[p] = "sub_wait" => ~semAlive'
        /\ pc'[p] # "publish" /\ (pc'[p] \in {"getncnt", "ack"} => call'[p].publish)
    BY <1>45 DEF RemoveSemaphores, Goto, locals, TypeInv, LocalsOK,
       LocalsTypeOK
  <2> QED BY <1>0, <2>1, <2>2, HandAside
<1>46. CASE RemoveMaster(p)
  <2>1. semAlive' => semAlive /\ \A s \in Slot : sem'[HandSem(s)] = sem[HandSem(s)]
    BY <1>46 DEF RemoveMaster, kernelSem
  <2>2. /\ \A q \in Proc \ {p} : numb'[q] = numb[q] /\ pc'[q] = pc[q]
        /\ pc[p] = "sub_wait" => ~semAlive'
        /\ pc'[p] # "publish" /\ (pc'[p] \in {"getncnt", "ack"} => call'[p].publish)
    BY <1>46 DEF RemoveMaster, Return, Goto, TypeInv, LocalsOK, LocalsTypeOK
  <2> QED BY <1>0, <2>1, <2>2, HandAside
<1> QED BY <1>1, <1>2, <1>3, <1>4, <1>5, <1>6, <1>7, <1>8, <1>9, <1>10, <1>11,
   <1>12,
   <1>13, <1>14, <1>15, <1>16, <1>17, <1>18, <1>19, <1>20, <1>21, <1>22,
   <1>23, <1>24, <1>25, <1>26, <1>27, <1>28, <1>29, <1>30, <1>31, <1>32,
   <1>33, <1>34, <1>35, <1>36, <1>37, <1>38, <1>39, <1>40, <1>41, <1>42,
   <1>43, <1>44, <1>45, <1>46 DEF Step

(* So does every step of the specification.                                *)
LEMMA HandNext ==
  ASSUME Signals = FALSE, OnePublisher, PatientSubscribers
  PROVE  TypeInv /\ TableInv /\ HandInv /\ [Next]_vars => HandInv'
<1>1. ASSUME HandInv, UNCHANGED vars PROVE HandInv'
  BY <1>1 DEF vars, HandInv, Publishing, Waiting, kernelSem, locals
<1> QED BY <1>1, HandStep DEF Next

(* The invariant of the handshake holds initially.                         *)
LEMMA HandInit == Init => HandInv
<1> SUFFICES ASSUME Init PROVE HandInv
  OBVIOUS
<1>1. \A s \in Slot : sem[HandSem(s)] = 0
  BY PoolAssumption DEF Init, SemNum, HandSem, Slot
<1>2. \A p \in Proc : Publishing(p)
  BY DEF Init, Publishing
<1> QED BY <1>1, <1>2 DEF HandInv

(* With one publisher, subscribers without a time limit and no signals, a  *)
(* publication is consumed by the subscribers it was counted for: no       *)
(* handshake semaphore ever stays above zero, for the next to find.        *)
THEOREM HandshakesDrained ==
  ASSUME Signals = FALSE, OnePublisher, PatientSubscribers
  PROVE  Spec => []HandshakeDrained
<1>1. HandInv => HandshakeDrained
  BY DEF HandInv, HandshakeDrained
<1> QED
  BY TypeInit, TypeNext, MasterNext, TableInit, TableNext, HandInit, HandNext,
     <1>1,
     PTL DEF Spec

(* So a subscriber always blocks: whoever comes to subscribe does not go   *)
(* on to read before a publication made after it.                          *)
THEOREM SubscribersBlock ==
  ASSUME Signals = FALSE, OnePublisher, PatientSubscribers
  PROVE  Spec => SubscriberBlocks
<1> DEFINE Blocks == \A p \in Proc : pc[p] = "subscribe" => pc'[p] # "lock_snapshot"
<1>1. TypeInv /\ HandInv /\ [Next]_vars => [Blocks]_vars
  <2> SUFFICES ASSUME TypeInv, HandInv, NEW p \in Proc, Begin(p) \/ Step(p),
                      NEW q \in Proc, pc[q] = "subscribe"
               PROVE  pc'[q] # "lock_snapshot"
    BY DEF Next
  <2>1. CASE q # p
    BY <2>1, StepOthers DEF Others
  <2>2. CASE q = p
    <3>1. Subscribe(p) \/ SubscribeFails(p)
      BY <2>2 DEF Step, Begin, FindMaster, AttachMaster, AttachMasterFault,
         LockMaster, LockMasterFails, FindSlot, PickFreeSlot, NoSuchSlot,
         LockSlot, LockSlotFails, CreateSegment, CreateSegmentFails, SetEntry,
         SnapSlot, AttachSegment, AttachSegmentFails, FillHeader, CheckHeader,
         RefuseMisfit, ReadHeader, CopyFirstHalf, CopySecondHalf,
         ReleaseSnapshot, CountSubscribers, PublishToSubscribers,
         PublishToNobody, PublishFails, Acknowledged, SnapSubscription,
         Subscribe, SubscribeFails, LockSnapshot, LockSnapshotFails,
         FindSlotToFree, ScanUsed, ScanFree, LockUsed, LockUsedIgnored,
         InfoRead, InfoFault, RemoveSegment, ClearEntry, InfoReturns,
         RemoveSemaphores, RemoveMaster, Die
    <3>2. CASE Subscribe(p)
      BY <2>2, <3>2 DEF Subscribe, Goto, HandInv, TypeInv, LocalsOK,
         LocalsTypeOK, LocalOK,
         SlotLabel
    <3>3. CASE SubscribeFails(p)
      BY <2>2, <3>3, ReturnOthers DEF SubscribeFails
    <3> QED BY <3>1, <3>2, <3>3
  <2> QED BY <2>1, <2>2
<1> QED
  BY TypeInit, TypeNext, MasterNext, TableInit, TableNext, HandInit, HandNext,
     <1>1,
     PTL DEF Spec, SubscriberBlocks

===============================================================================
