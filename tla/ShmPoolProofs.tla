---------------------------- MODULE ShmPoolProofs ----------------------------
(***************************************************************************)
(* Theorems about ShmPool, for any number of processes, slots, names,      *)
(* arrays and calls: types, mutual exclusion in the slot table, mutual     *)
(* exclusion in every slot.  Each is an inductive invariant: it holds      *)
(* initially (..Init) and every action preserves it (..Next), one step of  *)
(* the proof for each action of Next.                                      *)
(***************************************************************************)
EXTENDS ShmPool, FiniteSetTheorems, TLAPS

-----------------------------------------------------------------------------
(* Types.  TypeOK alone is not inductive: that the scan of the table stops *)
(* within it, or that a copy goes to a segment, depends on where the       *)
(* process is.                                                             *)

(* Where the local variable slot designates a slot.                        *)

SlotLabel ==
  {"lock_slot", "shmget_slot", "set_entry", "snap_slot", "shmat_slot", "header",
   "memcpy", "memcpy_rest", "release", "getncnt", "publish", "ack", "subscribe",
   "sub_wait", "lock_snapshot", "lock_used", "info_read", "rmid", "clear"}

(* What a process has to remember of its call.                             *)
LocalOK(p) ==
  /\ call[p] = NoCall \/ call[p] \in Call[p]
  /\ pc[p] \in SlotLabel => slot[p] \in Slot
  /\ InSegment(p) => shm[p] \in ShmId

LocalsOK == LocalsTypeOK /\ \A p \in Proc : LocalOK(p)

TypeInv == SharedTypeOK /\ SegsTypeOK /\ LocalsOK

(* A segment fresh from shmget holds a content.                            *)
LEMMA ZeroedContent == Zeroed(NoData) \in Content
  BY DEF Zeroed, Content, Data

(* Being in no call is a call record.                                      *)
LEMMA NoCallRecord == NoCall \in CallRecord
  BY DEF NoCall, CallRecord, Op

(* The type invariant holds initially.                                     *)
LEMMA TypeInit == Init => TypeInv
  BY PoolAssumption, ZeroedContent, NoCallRecord DEF Init, TypeInv,
     SharedTypeOK, SegsTypeOK, LocalsTypeOK, LocalsOK, LocalOK, InSegment,
     Slot, SemNum, Label, SlotLabel, NoSlot

(* semop(+1) keeps the semaphores within 0 .. SEMVMX.                      *)
LEMMA RaisedType ==
  ASSUME SharedTypeOK, NEW ks PROVE Raised(ks) \in [SemNum -> 0 .. SEMVMX]
  BY PoolAssumption DEF SharedTypeOK, Raised

(* semop(-1) on a positive semaphore keeps them there too.                 *)
LEMMA TakenType ==
  ASSUME SharedTypeOK, NEW k \in SemNum, Available(k) PROVE Taken(k) \in [SemNum -> 0 .. SEMVMX]
  BY PoolAssumption DEF SharedTypeOK, Taken, Available

(* A call that returns leaves well-typed locals.                           *)
LEMMA ReturnLocals ==
  ASSUME LocalsOK, NEW p \in Proc, Return(p) PROVE LocalsOK'
  BY ZeroedContent, NoCallRecord, PoolAssumption DEF LocalsOK, LocalsTypeOK,
     LocalOK, Return, Goto, Label, SlotLabel, InSegment

(* A step that only moves a process on keeps the locals well typed, if it  *)
(* has a slot and a segment where they are needed.                         *)
LEMMA GotoLocals ==
  ASSUME LocalsOK, NEW p \in Proc, NEW l \in Label, Goto(p, l), UNCHANGED locals,
         l \in SlotLabel => slot[p] \in Slot,
         l \in {"header", "memcpy", "memcpy_rest", "release"} => shm[p] \in ShmId
  PROVE  LocalsOK'
  BY DEF LocalsOK, LocalsTypeOK, LocalOK, Goto, locals, InSegment

(* The semaphores of a slot are in the set.                                *)
LEMMA SemNumbers ==
  ASSUME NEW s \in Slot
  PROVE  MasterSem \in SemNum /\ LockSem(s) \in SemNum /\ HandSem(s) \in SemNum
  BY PoolAssumption DEF Slot, MasterSem, LockSem, HandSem, SemNum

(* Storing a field of a content gives a content.                           *)
LEMMA ContentChange ==
  ASSUME NEW m \in Content
  PROVE  /\ \A t \in Int : [m EXCEPT !.typeID = t] \in Content
         /\ \A n \in Seq(Nat) : [m EXCEPT !.number = n] \in Content
         /\ \A d \in Data : [m EXCEPT !.lo = d] \in Content
         /\ \A d \in Data : [m EXCEPT !.hi = d] \in Content
         /\ m.typeID \in Int /\ m.number \in Seq(Nat) /\ m.lo \in Data /\ m.hi \in Data
  BY DEF Content

(* A write has an array to write.                                          *)
LEMMA WrittenArray ==
  ASSUME LocalsOK, NEW p \in Proc, call[p].op = "write"
  PROVE  /\ call[p].arr \in Array
         /\ call[p].arr.typeID \in Int
         /\ call[p].arr.number \in Seq(Nat)
         /\ call[p].arr.data \in Data
<1>1. call[p].arr \in Array
  BY PoolAssumption DEF LocalsOK, LocalOK, NoCall
<1>2. call[p].arr \in [typeID : 0 .. 5, number : Seq(Nat), data : Data]
  BY <1>1, PoolAssumption
<1> QED BY <1>1, <1>2

(* Every step preserves the type invariant.                                *)
LEMMA TypeNext == TypeInv /\ [Next]_vars => TypeInv'
<1> SUFFICES ASSUME TypeInv, [Next]_vars PROVE TypeInv'
  OBVIOUS
<1> USE PoolAssumption DEF TypeInv

<1>1. ASSUME NEW p \in Proc, Begin(p) PROVE TypeInv'
  <2>1. SharedTypeOK'
    BY <1>1 DEF Begin, SharedTypeOK, kernelSem, master, LocalsOK, LocalOK,
       LocalsTypeOK, SemNum, Slot, SlotLabel
  <2>2. SegsTypeOK'
    BY <1>1, ZeroedContent DEF Begin, SegsTypeOK, segs, LocalsOK, LocalOK,
       LocalsTypeOK, InSegment, SlotLabel
  <2>3. LocalsOK'
    <3>1. LocalsTypeOK'
      BY <1>1, NoCallRecord DEF Begin, LocalsOK, LocalsTypeOK, LocalOK,
         SharedTypeOK, Goto, Label, SlotLabel, InSegment, Slot
    <3>2. \A q \in Proc : LocalOK(q)'
      BY <1>1 DEF Begin, LocalsOK, LocalsTypeOK, LocalOK, SharedTypeOK, Goto,
         SlotLabel, InSegment, Slot
    <3> QED BY <3>1, <3>2 DEF LocalsOK
  <2> QED BY <2>1, <2>2, <2>3
<1>2. ASSUME NEW p \in Proc, FindMaster(p) PROVE TypeInv'
  <2>1. SharedTypeOK'
    BY <1>2 DEF FindMaster, SharedTypeOK, kernelSem, master, LocalsOK,
       LocalOK, LocalsTypeOK, SemNum, Slot, SlotLabel
  <2>2. SegsTypeOK'
    BY <1>2, ZeroedContent DEF FindMaster, SegsTypeOK, segs, LocalsOK,
       LocalOK, LocalsTypeOK, InSegment, SlotLabel
  <2>3. LocalsOK'
    BY <1>2, ReturnLocals, GotoLocals DEF FindMaster, LocalsOK, LocalOK,
       Label, SlotLabel, InSegment
  <2> QED BY <2>1, <2>2, <2>3
<1>3. ASSUME NEW p \in Proc, AttachMaster(p) PROVE TypeInv'
  <2>1. SharedTypeOK'
    BY <1>3 DEF AttachMaster, SharedTypeOK, kernelSem, LocalsOK, LocalOK,
       LocalsTypeOK, SemNum, Slot, SlotLabel
  <2>2. SegsTypeOK'
    BY <1>3, ZeroedContent DEF AttachMaster, SegsTypeOK, segs, LocalsOK,
       LocalOK, LocalsTypeOK, InSegment, SlotLabel
  <2>3. LocalsOK'
    BY <1>3, GotoLocals DEF AttachMaster, LocalsOK, LocalOK, Label,
       SlotLabel, InSegment
  <2> QED BY <2>1, <2>2, <2>3
<1>4. ASSUME NEW p \in Proc, AttachMasterFault(p) PROVE TypeInv'
  <2>1. SharedTypeOK'
    BY <1>4 DEF AttachMasterFault, SharedTypeOK, kernelSem, Die, LocalsOK,
       LocalOK, LocalsTypeOK, SemNum, Slot, SlotLabel
  <2>2. SegsTypeOK'
    BY <1>4, ZeroedContent DEF AttachMasterFault, SegsTypeOK, Die, LocalsOK,
       LocalOK, LocalsTypeOK, InSegment, SlotLabel
  <2>3. LocalsOK'
    BY <1>4, GotoLocals DEF AttachMasterFault, Die, LocalsOK, LocalOK, Label,
       SlotLabel, InSegment
  <2> QED BY <2>1, <2>2, <2>3
<1>5. ASSUME NEW p \in Proc, LockMaster(p) PROVE TypeInv'
  <2>1. SharedTypeOK'
    <3>1. sem' \in [SemNum -> 0 .. SEMVMX]
      <4>1. MasterSem \in SemNum
        BY DEF MasterSem, SemNum
      <4> QED BY <1>5, <4>1, TakenType DEF LockMaster
    <3>2. entry' \in [Slot -> [slot_shmid : ShmId \cup {NoShm}, desc : Id \cup {NoDesc}]]
      BY <1>5 DEF LockMaster, SharedTypeOK, LocalsOK, LocalsTypeOK, CallRecord
    <3> QED BY <1>5, <3>1, <3>2 DEF LockMaster, SharedTypeOK, master
  <2>2. SegsTypeOK'
    BY <1>5, ZeroedContent DEF LockMaster, SegsTypeOK, segs, LocalsOK,
       LocalOK, LocalsTypeOK, InSegment, SlotLabel
  <2>3. LocalsOK'
    BY <1>5, GotoLocals DEF LockMaster, LocalsOK, LocalOK, Label, SlotLabel,
       InSegment
  <2> QED BY <2>1, <2>2, <2>3
<1>6. ASSUME NEW p \in Proc, LockMasterFails(p) PROVE TypeInv'
  <2>1. SharedTypeOK'
    BY <1>6 DEF LockMasterFails, SharedTypeOK, kernelSem, Detach, LocalsOK,
       LocalOK, LocalsTypeOK, MasterSem, SemNum, Slot, SlotLabel
  <2>2. SegsTypeOK'
    BY <1>6, ZeroedContent DEF LockMasterFails, SegsTypeOK, segs, LocalsOK,
       LocalOK, LocalsTypeOK, InSegment, SlotLabel
  <2>3. LocalsOK'
    BY <1>6, ReturnLocals, GotoLocals DEF LockMasterFails, LocalsOK, LocalOK,
       Label, SlotLabel, InSegment
  <2> QED BY <2>1, <2>2, <2>3
<1>7. ASSUME NEW p \in Proc, FindSlot(p) PROVE TypeInv'
  <2>1. SharedTypeOK'
    BY <1>7 DEF FindSlot, SharedTypeOK, kernelSem, master, LocalsOK, LocalOK,
       LocalsTypeOK, SemNum, Slot, SlotLabel
  <2>2. SegsTypeOK'
    BY <1>7, ZeroedContent DEF FindSlot, SegsTypeOK, segs, LocalsOK, LocalOK,
       LocalsTypeOK, InSegment, SlotLabel
  <2>3. LocalsOK'
    <3>1. LocalsTypeOK'
      BY <1>7, NoCallRecord DEF FindSlot, LocalsOK, LocalsTypeOK, LocalOK,
         SharedTypeOK, Goto, Label, SlotLabel, InSegment, Slot, lkup_slot,
         FirstOf
    <3>2. \A q \in Proc : LocalOK(q)'
      BY <1>7 DEF FindSlot, LocalsOK, LocalsTypeOK, LocalOK, SharedTypeOK,
         Goto, SlotLabel, InSegment, Slot, lkup_slot, FirstOf
    <3> QED BY <3>1, <3>2 DEF LocalsOK
  <2> QED BY <2>1, <2>2, <2>3
<1>8. ASSUME NEW p \in Proc, PickFreeSlot(p) PROVE TypeInv'
  <2>1. SharedTypeOK'
    BY <1>8 DEF PickFreeSlot, SharedTypeOK, kernelSem, master, LocalsOK,
       LocalOK, LocalsTypeOK, SemNum, Slot, SlotLabel
  <2>2. SegsTypeOK'
    BY <1>8, ZeroedContent DEF PickFreeSlot, SegsTypeOK, segs, LocalsOK,
       LocalOK, LocalsTypeOK, InSegment, SlotLabel
  <2>3. LocalsOK'
    <3>1. LocalsTypeOK'
      BY <1>8, NoCallRecord DEF PickFreeSlot, LocalsOK, LocalsTypeOK,
         LocalOK, SharedTypeOK, Goto, Label, SlotLabel, InSegment, Slot,
         lkup_slot, getfree_slot, FirstOf
    <3>2. \A q \in Proc : LocalOK(q)'
      BY <1>8 DEF PickFreeSlot, LocalsOK, LocalsTypeOK, LocalOK,
         SharedTypeOK, Goto, SlotLabel, InSegment, Slot, lkup_slot,
         getfree_slot, FirstOf
    <3> QED BY <3>1, <3>2 DEF LocalsOK
  <2> QED BY <2>1, <2>2, <2>3
<1>9. ASSUME NEW p \in Proc, NoSuchSlot(p) PROVE TypeInv'
  <2>1. SharedTypeOK'
    BY <1>9, RaisedType DEF NoSuchSlot, SharedTypeOK, Detach, LocalsOK,
       LocalOK, LocalsTypeOK, MasterSem, SemNum, Slot, SlotLabel
  <2>2. SegsTypeOK'
    BY <1>9, ZeroedContent DEF NoSuchSlot, SegsTypeOK, segs, LocalsOK,
       LocalOK, LocalsTypeOK, InSegment, SlotLabel
  <2>3. LocalsOK'
    BY <1>9, ReturnLocals, GotoLocals DEF NoSuchSlot, LocalsOK, LocalOK,
       Label, SlotLabel, InSegment
  <2> QED BY <2>1, <2>2, <2>3
<1>10. ASSUME NEW p \in Proc, LockSlot(p) PROVE TypeInv'
  <2>1. SharedTypeOK'
    BY <1>10, SemNumbers, TakenType DEF LockSlot, SharedTypeOK, master,
       LocalsOK,
       LocalOK, LocalsTypeOK, LockSem, SemNum, Slot, SlotLabel
  <2>2. SegsTypeOK'
    BY <1>10, ZeroedContent DEF LockSlot, SegsTypeOK, segs, LocalsOK,
       LocalOK, LocalsTypeOK, InSegment, SlotLabel
  <2>3. LocalsOK'
    BY <1>10, GotoLocals DEF LockSlot, LocalsOK, LocalOK, Label, SlotLabel,
       InSegment
  <2> QED BY <2>1, <2>2, <2>3
<1>11. ASSUME NEW p \in Proc, LockSlotFails(p) PROVE TypeInv'
  <2>1. SharedTypeOK'
    BY <1>11, RaisedType DEF LockSlotFails, SharedTypeOK, Detach, LocalsOK,
       LocalOK, LocalsTypeOK, MasterSem, LockSem, SemNum, Slot, SlotLabel
  <2>2. SegsTypeOK'
    BY <1>11, ZeroedContent DEF LockSlotFails, SegsTypeOK, segs, LocalsOK,
       LocalOK, LocalsTypeOK, InSegment, SlotLabel
  <2>3. LocalsOK'
    BY <1>11, ReturnLocals, GotoLocals DEF LockSlotFails, LocalsOK, LocalOK,
       Label, SlotLabel, InSegment
  <2> QED BY <2>1, <2>2, <2>3
<1>12. ASSUME NEW p \in Proc, CreateSegment(p) PROVE TypeInv'
  <2>1. SharedTypeOK'
    BY <1>12 DEF CreateSegment, SharedTypeOK, kernelSem, master, LocalsOK,
       LocalOK, LocalsTypeOK, SemNum, Slot, SlotLabel
  <2>2. SegsTypeOK'
    BY <1>12, ZeroedContent DEF CreateSegment, SegsTypeOK, LocalsOK, LocalOK,
       LocalsTypeOK, InSegment, SlotLabel
  <2>3. LocalsOK'
    <3>1. LocalsTypeOK'
      BY <1>12, NoCallRecord DEF CreateSegment, LocalsOK, LocalsTypeOK,
         LocalOK, SharedTypeOK, Goto, Label, SlotLabel, InSegment, Slot
    <3>2. \A q \in Proc : LocalOK(q)'
      BY <1>12 DEF CreateSegment, LocalsOK, LocalsTypeOK, LocalOK,
         SharedTypeOK, Goto, SlotLabel, InSegment, Slot
    <3> QED BY <3>1, <3>2 DEF LocalsOK
  <2> QED BY <2>1, <2>2, <2>3
<1>13. ASSUME NEW p \in Proc, CreateSegmentFails(p) PROVE TypeInv'
  <2>1. SharedTypeOK'
    BY <1>13, RaisedType DEF CreateSegmentFails, SharedTypeOK, Detach,
       LocalsOK, LocalOK, LocalsTypeOK, MasterSem, LockSem, SemNum, Slot,
       SlotLabel
  <2>2. SegsTypeOK'
    BY <1>13, ZeroedContent DEF CreateSegmentFails, SegsTypeOK, segs,
       LocalsOK, LocalOK, LocalsTypeOK, InSegment, SlotLabel
  <2>3. LocalsOK'
    BY <1>13, ReturnLocals, GotoLocals DEF CreateSegmentFails, LocalsOK,
       LocalOK, Label, SlotLabel, InSegment
  <2> QED BY <2>1, <2>2, <2>3
<1>14. ASSUME NEW p \in Proc, SetEntry(p) PROVE TypeInv'
  <2>1. SharedTypeOK'
    <3>1. entry' \in [Slot -> [slot_shmid : ShmId \cup {NoShm}, desc : Id \cup {NoDesc}]]
      BY <1>14 DEF SetEntry, SharedTypeOK, LocalsOK, LocalsTypeOK, CallRecord
    <3> QED BY <1>14, <3>1 DEF SetEntry, SharedTypeOK, kernelSem, master
  <2>2. SegsTypeOK'
    BY <1>14, ZeroedContent DEF SetEntry, SegsTypeOK, segs, LocalsOK,
       LocalOK, LocalsTypeOK, InSegment, SlotLabel
  <2>3. LocalsOK'
    BY <1>14, GotoLocals DEF SetEntry, LocalsOK, LocalOK, Label, SlotLabel,
       InSegment
  <2> QED BY <2>1, <2>2, <2>3
<1>15. ASSUME NEW p \in Proc, SnapSlot(p) PROVE TypeInv'
  <2>1. SharedTypeOK'
    BY <1>15, RaisedType DEF SnapSlot, SharedTypeOK, Detach, LocalsOK,
       LocalOK, LocalsTypeOK, MasterSem, SemNum, Slot, SlotLabel
  <2>2. SegsTypeOK'
    BY <1>15, ZeroedContent DEF SnapSlot, SegsTypeOK, segs, LocalsOK,
       LocalOK, LocalsTypeOK, InSegment, SlotLabel
  <2>3. LocalsOK'
    <3>1. LocalsTypeOK'
      BY <1>15, NoCallRecord DEF SnapSlot, LocalsOK, LocalsTypeOK, LocalOK,
         SharedTypeOK, Goto, Label, SlotLabel, InSegment, Slot
    <3>2. \A q \in Proc : LocalOK(q)'
      BY <1>15 DEF SnapSlot, LocalsOK, LocalsTypeOK, LocalOK, SharedTypeOK,
         Goto, SlotLabel, InSegment, Slot
    <3> QED BY <3>1, <3>2 DEF LocalsOK
  <2> QED BY <2>1, <2>2, <2>3
<1>16. ASSUME NEW p \in Proc, AttachSegment(p) PROVE TypeInv'
  <2>1. SharedTypeOK'
    BY <1>16 DEF AttachSegment, SharedTypeOK, kernelSem, master, LocalsOK,
       LocalOK, LocalsTypeOK, SemNum, Slot, SlotLabel
  <2>2. SegsTypeOK'
    <3> DEFINE i == shm[p]
    <3>1. mem' \in [ShmId -> Content]
      <4>1. NewSegment \in Int
        BY DEF NewSegment
      <4>2. i \in ShmId /\ mem[i] \in Content
        BY <1>16 DEF AttachSegment, SegsTypeOK
      <4>3. [mem[i] EXCEPT !.typeID = NewSegment] \in Content
        BY <4>1, <4>2, ContentChange
      <4> QED BY <1>16, <4>3 DEF AttachSegment, SegsTypeOK
    <3> QED BY <1>16, <3>1 DEF AttachSegment, SegsTypeOK
  <2>3. LocalsOK'
    BY <1>16, GotoLocals DEF AttachSegment, LocalsOK, LocalOK, Label,
       SlotLabel, InSegment
  <2> QED BY <2>1, <2>2, <2>3
<1>17. ASSUME NEW p \in Proc, AttachSegmentFails(p) PROVE TypeInv'
  <2>1. SharedTypeOK'
    BY <1>17, RaisedType DEF AttachSegmentFails, SharedTypeOK, master,
       LocalsOK, LocalOK, LocalsTypeOK, LockSem, SemNum, Slot, SlotLabel
  <2>2. SegsTypeOK'
    BY <1>17, ZeroedContent DEF AttachSegmentFails, SegsTypeOK, segs,
       LocalsOK, LocalOK, LocalsTypeOK, InSegment, SlotLabel
  <2>3. LocalsOK'
    BY <1>17, ReturnLocals, GotoLocals DEF AttachSegmentFails, LocalsOK,
       LocalOK, Label, SlotLabel, InSegment
  <2> QED BY <2>1, <2>2, <2>3
<1>18. ASSUME NEW p \in Proc, FillHeader(p) PROVE TypeInv'
  <2>1. SharedTypeOK'
    BY <1>18 DEF FillHeader, SharedTypeOK, kernelSem, master, LocalsOK,
       LocalOK, LocalsTypeOK, SemNum, Slot, SlotLabel
  <2>2. SegsTypeOK'
    <3> DEFINE i == shm[p]
               a == call[p].arr
    <3>1. mem' \in [ShmId -> Content]
      <4>1. i \in ShmId /\ mem[i] \in Content
        BY <1>18 DEF FillHeader, SegsTypeOK, LocalsOK, LocalOK, InSegment
      <4>2. [[mem[i] EXCEPT !.typeID = a.typeID] EXCEPT !.number = a.number] \in Content
        BY <1>18, <4>1, WrittenArray, ContentChange DEF FillHeader
      <4>3. mem' = [[mem EXCEPT ![i].typeID = a.typeID] EXCEPT ![i].number = a.number]
        BY <1>18 DEF FillHeader
      <4>4. mem' = [mem EXCEPT ![i] = [[mem[i] EXCEPT !.typeID = a.typeID] EXCEPT !.number = a.number]]
        BY <4>1, <4>3 DEF SegsTypeOK
      <4> QED BY <4>1, <4>2, <4>4 DEF SegsTypeOK
    <3> QED BY <1>18, <3>1 DEF FillHeader, SegsTypeOK
  <2>3. LocalsOK'
    BY <1>18, GotoLocals DEF FillHeader, LocalsOK, LocalOK, Label, SlotLabel,
       InSegment
  <2> QED BY <2>1, <2>2, <2>3
<1>19. ASSUME NEW p \in Proc, CheckHeader(p) PROVE TypeInv'
  <2>1. SharedTypeOK'
    BY <1>19 DEF CheckHeader, SharedTypeOK, kernelSem, master, LocalsOK,
       LocalOK, LocalsTypeOK, SemNum, Slot, SlotLabel
  <2>2. SegsTypeOK'
    BY <1>19, ZeroedContent DEF CheckHeader, SegsTypeOK, segs, LocalsOK,
       LocalOK, LocalsTypeOK, InSegment, SlotLabel
  <2>3. LocalsOK'
    BY <1>19, GotoLocals DEF CheckHeader, LocalsOK, LocalOK, Label,
       SlotLabel, InSegment
  <2> QED BY <2>1, <2>2, <2>3
<1>20. ASSUME NEW p \in Proc, RefuseMisfit(p) PROVE TypeInv'
  <2>1. SharedTypeOK'
    BY <1>20, RaisedType DEF RefuseMisfit, SharedTypeOK, master, LocalsOK,
       LocalOK, LocalsTypeOK, LockSem, SemNum, Slot, SlotLabel
  <2>2. SegsTypeOK'
    BY <1>20, ZeroedContent DEF RefuseMisfit, SegsTypeOK, LocalsOK, LocalOK,
       LocalsTypeOK, InSegment, SlotLabel
  <2>3. LocalsOK'
    BY <1>20, ReturnLocals, GotoLocals DEF RefuseMisfit, LocalsOK, LocalOK,
       Label, SlotLabel, InSegment
  <2> QED BY <2>1, <2>2, <2>3
<1>21. ASSUME NEW p \in Proc, ReadHeader(p) PROVE TypeInv'
  <2>1. SharedTypeOK'
    BY <1>21 DEF ReadHeader, SharedTypeOK, kernelSem, master, LocalsOK,
       LocalOK, LocalsTypeOK, SemNum, Slot, SlotLabel
  <2>2. SegsTypeOK'
    BY <1>21, ZeroedContent DEF ReadHeader, SegsTypeOK, segs, LocalsOK,
       LocalOK, LocalsTypeOK, InSegment, SlotLabel
  <2>3. LocalsOK'
    <3> DEFINE m == mem[shm[p]]
    <3>1. m \in Content
      BY <1>21 DEF ReadHeader, SegsTypeOK, LocalsOK, LocalOK, InSegment
    <3>2. [[buf[p] EXCEPT !.typeID = m.typeID] EXCEPT !.number = m.number] \in Content
      BY <3>1, ContentChange DEF LocalsOK, LocalsTypeOK
    <3>3. buf' = [buf EXCEPT ![p] = [[buf[p] EXCEPT !.typeID = m.typeID] EXCEPT !.number = m.number]]
      BY <1>21 DEF ReadHeader, LocalsOK, LocalsTypeOK
    <3>4. LocalsTypeOK'
      BY <1>21, <3>2, <3>3 DEF ReadHeader, LocalsOK, LocalsTypeOK, Goto, Label
    <3>5. \A q \in Proc : LocalOK(q)'
      BY <1>21 DEF ReadHeader, LocalsOK, LocalsTypeOK, LocalOK, Goto,
         SlotLabel, InSegment
    <3> QED BY <3>4, <3>5 DEF LocalsOK
  <2> QED BY <2>1, <2>2, <2>3
<1>22. ASSUME NEW p \in Proc, CopyFirstHalf(p) PROVE TypeInv'
  <2>1. SharedTypeOK'
    BY <1>22 DEF CopyFirstHalf, SharedTypeOK, kernelSem, master, LocalsOK,
       LocalOK, LocalsTypeOK, SemNum, Slot, SlotLabel
  <2>2. SegsTypeOK'
    <3> DEFINE i == shm[p]
               d == call[p].arr.data
    <3>1. mem' \in [ShmId -> Content]
      <4>1. i \in ShmId /\ mem[i] \in Content
        BY <1>22 DEF CopyFirstHalf, SegsTypeOK, LocalsOK, LocalOK, InSegment
      <4>2. CASE call[p].op = "write"
        <5>1. [mem[i] EXCEPT !.lo = d] \in Content
          BY <4>1, <4>2, WrittenArray, ContentChange
        <5>2. mem' = [mem EXCEPT ![i] = [mem[i] EXCEPT !.lo = d]]
          BY <1>22, <4>2 DEF CopyFirstHalf
        <5> QED BY <5>1, <5>2 DEF SegsTypeOK
      <4>3. CASE call[p].op # "write"
        BY <1>22, <4>3 DEF CopyFirstHalf, SegsTypeOK
      <4> QED BY <4>2, <4>3
    <3> QED BY <1>22, <3>1 DEF CopyFirstHalf, SegsTypeOK
  <2>3. LocalsOK'
    <3> DEFINE d == mem[shm[p]].lo
    <3>1. d \in Data
      BY <1>22, ContentChange DEF CopyFirstHalf, SegsTypeOK, LocalsOK,
         LocalOK, InSegment
    <3>2. [buf[p] EXCEPT !.lo = d] \in Content
      BY <3>1, ContentChange DEF LocalsOK, LocalsTypeOK
    <3>3. buf' \in [Proc -> Content]
      <4>1. CASE call[p].op = "write"
        BY <1>22, <4>1 DEF CopyFirstHalf, LocalsOK, LocalsTypeOK
      <4>2. CASE call[p].op # "write"
        BY <1>22, <4>2, <3>2 DEF CopyFirstHalf, LocalsOK, LocalsTypeOK
      <4> QED BY <4>1, <4>2
    <3>4. LocalsTypeOK'
      BY <1>22, <3>3 DEF CopyFirstHalf, LocalsOK, LocalsTypeOK, Goto, Label
    <3>5. \A q \in Proc : LocalOK(q)'
      BY <1>22 DEF CopyFirstHalf, LocalsOK, LocalsTypeOK, LocalOK, Goto,
         SlotLabel, InSegment
    <3> QED BY <3>4, <3>5 DEF LocalsOK
  <2> QED BY <2>1, <2>2, <2>3
<1>23. ASSUME NEW p \in Proc, CopySecondHalf(p) PROVE TypeInv'
  <2>1. SharedTypeOK'
    BY <1>23 DEF CopySecondHalf, SharedTypeOK, kernelSem, master, LocalsOK,
       LocalOK, LocalsTypeOK, SemNum, Slot, SlotLabel
  <2>2. SegsTypeOK'
    <3> DEFINE i == shm[p]
               d == call[p].arr.data
    <3>1. mem' \in [ShmId -> Content]
      <4>1. i \in ShmId /\ mem[i] \in Content
        BY <1>23 DEF CopySecondHalf, SegsTypeOK, LocalsOK, LocalOK, InSegment
      <4>2. CASE call[p].op = "write"
        <5>1. [mem[i] EXCEPT !.hi = d] \in Content
          BY <4>1, <4>2, WrittenArray, ContentChange
        <5>2. mem' = [mem EXCEPT ![i] = [mem[i] EXCEPT !.hi = d]]
          BY <1>23, <4>2 DEF CopySecondHalf
        <5> QED BY <5>1, <5>2 DEF SegsTypeOK
      <4>3. CASE call[p].op # "write"
        BY <1>23, <4>3 DEF CopySecondHalf, SegsTypeOK
      <4> QED BY <4>2, <4>3
    <3> QED BY <1>23, <3>1 DEF CopySecondHalf, SegsTypeOK
  <2>3. LocalsOK'
    <3> DEFINE d == mem[shm[p]].hi
    <3>1. d \in Data
      BY <1>23, ContentChange DEF CopySecondHalf, SegsTypeOK, LocalsOK,
         LocalOK, InSegment
    <3>2. [buf[p] EXCEPT !.hi = d] \in Content
      BY <3>1, ContentChange DEF LocalsOK, LocalsTypeOK
    <3>3. buf' \in [Proc -> Content]
      <4>1. CASE call[p].op = "write"
        BY <1>23, <4>1 DEF CopySecondHalf, LocalsOK, LocalsTypeOK
      <4>2. CASE call[p].op # "write"
        BY <1>23, <4>2, <3>2 DEF CopySecondHalf, LocalsOK, LocalsTypeOK
      <4> QED BY <4>1, <4>2
    <3>4. LocalsTypeOK'
      BY <1>23, <3>3 DEF CopySecondHalf, LocalsOK, LocalsTypeOK, Goto, Label
    <3>5. \A q \in Proc : LocalOK(q)'
      BY <1>23 DEF CopySecondHalf, LocalsOK, LocalsTypeOK, LocalOK, Goto,
         SlotLabel, InSegment
    <3> QED BY <3>4, <3>5 DEF LocalsOK
  <2> QED BY <2>1, <2>2, <2>3
<1>24. ASSUME NEW p \in Proc, ReleaseSnapshot(p) PROVE TypeInv'
  <2>1. SharedTypeOK'
    BY <1>24, RaisedType DEF ReleaseSnapshot, SharedTypeOK, master, LocalsOK,
       LocalOK, LocalsTypeOK, LockSem, SemNum, Slot, SlotLabel
  <2>2. SegsTypeOK'
    BY <1>24, ZeroedContent DEF ReleaseSnapshot, SegsTypeOK, LocalsOK,
       LocalOK, LocalsTypeOK, InSegment, SlotLabel
  <2>3. LocalsOK'
    BY <1>24, ReturnLocals, GotoLocals DEF ReleaseSnapshot, LocalsOK,
       LocalOK, Label, SlotLabel, InSegment
  <2> QED BY <2>1, <2>2, <2>3
<1>25. ASSUME NEW p \in Proc, CountSubscribers(p) PROVE TypeInv'
  <2>1. SharedTypeOK'
    BY <1>25 DEF CountSubscribers, SharedTypeOK, kernelSem, master, LocalsOK,
       LocalOK, LocalsTypeOK, SemNum, Slot, SlotLabel
  <2>2. SegsTypeOK'
    BY <1>25, ZeroedContent DEF CountSubscribers, SegsTypeOK, segs, LocalsOK,
       LocalOK, LocalsTypeOK, InSegment, SlotLabel
  <2>3. LocalsOK'
    <3>1. IsFiniteSet(Waiting(slot[p]))
      BY PoolAssumption, FS_Subset DEF Waiting
    <3>2. numb' \in [Proc -> Int]
      BY <1>25, <3>1, FS_CardinalityType DEF CountSubscribers, LocalsOK,
         LocalsTypeOK
    <3>3. LocalsTypeOK'
      BY <1>25, <3>2 DEF CountSubscribers, LocalsOK, LocalsTypeOK, Goto, Label
    <3>4. \A q \in Proc : LocalOK(q)'
      BY <1>25 DEF CountSubscribers, LocalsOK, LocalsTypeOK, LocalOK, Goto,
         SlotLabel, InSegment
    <3> QED BY <3>3, <3>4 DEF LocalsOK
  <2> QED BY <2>1, <2>2, <2>3
<1>26. ASSUME NEW p \in Proc, PublishToSubscribers(p) PROVE TypeInv'
  <2>1. SharedTypeOK'
    <3> DEFINE h == HandSem(slot[p])
    <3>1. PICK W \in SUBSET Waiting(slot[p]) :
            /\ Cardinality(W) <= sem[h] + numb[p]
            /\ sem' = [sem EXCEPT ![h] = @ + numb[p] - Cardinality(W)]
      BY <1>26 DEF PublishToSubscribers
    <3>2. Cardinality(W) \in Nat
      BY PoolAssumption, FS_Subset, FS_CardinalityType DEF Waiting
    <3>3. h \in SemNum
      BY <1>26, SemNumbers DEF PublishToSubscribers, LocalsOK, LocalOK,
         SlotLabel
    <3>4. sem[h] \in 0 .. SEMVMX /\ numb[p] \in Int /\ numb[p] > 0 /\ sem[h] + numb[p] <= SEMVMX
      BY <1>26, <3>3 DEF PublishToSubscribers, SharedTypeOK, LocalsOK,
         LocalsTypeOK
    <3>5. sem[h] + numb[p] - Cardinality(W) \in 0 .. SEMVMX
      BY <3>1, <3>2, <3>4
    <3>6. sem' \in [SemNum -> 0 .. SEMVMX]
      BY <3>1, <3>5 DEF SharedTypeOK
    <3> QED BY <1>26, <3>6 DEF PublishToSubscribers, SharedTypeOK, master
  <2>2. SegsTypeOK'
    BY <1>26, ZeroedContent DEF PublishToSubscribers, SegsTypeOK, segs,
       LocalsOK, LocalOK, LocalsTypeOK, InSegment, SlotLabel
  <2>3. LocalsOK'
    <3>1. PICK W \in SUBSET Waiting(slot[p]) :
            pc' = [q \in Proc |-> IF q = p THEN "ack"
                                  ELSE IF q \in W THEN "lock_snapshot" ELSE pc[q]]
      BY <1>26 DEF PublishToSubscribers
    <3>2. LocalsTypeOK'
      BY <1>26, <3>1 DEF PublishToSubscribers, LocalsOK, LocalsTypeOK,
         locals, Label
    <3>3. \A q \in Proc : LocalOK(q)'
      BY <1>26, <3>1 DEF PublishToSubscribers, LocalsOK, LocalsTypeOK,
         LocalOK, locals, SlotLabel, InSegment, Waiting
    <3> QED BY <3>2, <3>3 DEF LocalsOK
  <2> QED BY <2>1, <2>2, <2>3
<1>27. ASSUME NEW p \in Proc, PublishToNobody(p) PROVE TypeInv'
  <2>1. SharedTypeOK'
    BY <1>27 DEF PublishToNobody, SharedTypeOK, kernelSem, master, LocalsOK,
       LocalOK, LocalsTypeOK, HandSem, SemNum, Slot, SlotLabel
  <2>2. SegsTypeOK'
    BY <1>27, ZeroedContent DEF PublishToNobody, SegsTypeOK, segs, LocalsOK,
       LocalOK, LocalsTypeOK, InSegment, SlotLabel
  <2>3. LocalsOK'
    BY <1>27, GotoLocals DEF PublishToNobody, LocalsOK, LocalOK, Label,
       SlotLabel, InSegment
  <2> QED BY <2>1, <2>2, <2>3
<1>28. ASSUME NEW p \in Proc, PublishFails(p) PROVE TypeInv'
  <2>1. SharedTypeOK'
    BY <1>28 DEF PublishFails, SharedTypeOK, kernelSem, master, LocalsOK,
       LocalOK, LocalsTypeOK, HandSem, SemNum, Slot, SlotLabel
  <2>2. SegsTypeOK'
    BY <1>28, ZeroedContent DEF PublishFails, SegsTypeOK, segs, LocalsOK,
       LocalOK, LocalsTypeOK, InSegment, SlotLabel
  <2>3. LocalsOK'
    BY <1>28, ReturnLocals, GotoLocals DEF PublishFails, LocalsOK, LocalOK,
       Label, SlotLabel, InSegment
  <2> QED BY <2>1, <2>2, <2>3
<1>29. ASSUME NEW p \in Proc, Acknowledged(p) PROVE TypeInv'
  <2>1. SharedTypeOK'
    BY <1>29 DEF Acknowledged, SharedTypeOK, kernelSem, master, LocalsOK,
       LocalOK, LocalsTypeOK, HandSem, SemNum, Slot, SlotLabel
  <2>2. SegsTypeOK'
    BY <1>29, ZeroedContent DEF Acknowledged, SegsTypeOK, segs, LocalsOK,
       LocalOK, LocalsTypeOK, InSegment, SlotLabel
  <2>3. LocalsOK'
    BY <1>29, ReturnLocals, GotoLocals DEF Acknowledged, LocalsOK, LocalOK,
       Label, SlotLabel, InSegment
  <2> QED BY <2>1, <2>2, <2>3
<1>30. ASSUME NEW p \in Proc, SnapSubscription(p) PROVE TypeInv'
  <2>1. SharedTypeOK'
    BY <1>30, RaisedType DEF SnapSubscription, SharedTypeOK, Detach,
       LocalsOK, LocalOK, LocalsTypeOK, MasterSem, SemNum, Slot, SlotLabel
  <2>2. SegsTypeOK'
    BY <1>30, ZeroedContent DEF SnapSubscription, SegsTypeOK, segs, LocalsOK,
       LocalOK, LocalsTypeOK, InSegment, SlotLabel
  <2>3. LocalsOK'
    <3>1. LocalsTypeOK'
      BY <1>30, NoCallRecord DEF SnapSubscription, LocalsOK, LocalsTypeOK,
         LocalOK, SharedTypeOK, Goto, Label, SlotLabel, InSegment, Slot,
         lkup_slot, FirstOf
    <3>2. \A q \in Proc : LocalOK(q)'
      BY <1>30 DEF SnapSubscription, LocalsOK, LocalsTypeOK, LocalOK,
         SharedTypeOK, Goto, SlotLabel, InSegment, Slot, lkup_slot, FirstOf
    <3> QED BY <3>1, <3>2 DEF LocalsOK
  <2> QED BY <2>1, <2>2, <2>3
<1>31. ASSUME NEW p \in Proc, Subscribe(p) PROVE TypeInv'
  <2>1. SharedTypeOK'
    <3>1. HandSem(slot[p]) \in SemNum
      BY <1>31, SemNumbers DEF Subscribe, LocalsOK, LocalOK, SlotLabel
    <3>2. sem' \in [SemNum -> 0 .. SEMVMX]
      BY <1>31, <3>1, TakenType DEF Subscribe, SharedTypeOK, Available
    <3> QED BY <1>31, <3>2 DEF Subscribe, SharedTypeOK, master
  <2>2. SegsTypeOK'
    BY <1>31, ZeroedContent DEF Subscribe, SegsTypeOK, segs, LocalsOK,
       LocalOK, LocalsTypeOK, InSegment, SlotLabel
  <2>3. LocalsOK'
    BY <1>31, GotoLocals DEF Subscribe, LocalsOK, LocalOK, Label, SlotLabel,
       InSegment
  <2> QED BY <2>1, <2>2, <2>3
<1>32. ASSUME NEW p \in Proc, SubscribeFails(p) PROVE TypeInv'
  <2>1. SharedTypeOK'
    BY <1>32 DEF SubscribeFails, SharedTypeOK, kernelSem, master, LocalsOK,
       LocalOK, LocalsTypeOK, SemNum, Slot, SlotLabel
  <2>2. SegsTypeOK'
    BY <1>32, ZeroedContent DEF SubscribeFails, SegsTypeOK, segs, LocalsOK,
       LocalOK, LocalsTypeOK, InSegment, SlotLabel
  <2>3. LocalsOK'
    BY <1>32, ReturnLocals, GotoLocals DEF SubscribeFails, LocalsOK, LocalOK,
       Label, SlotLabel, InSegment
  <2> QED BY <2>1, <2>2, <2>3
<1>33. ASSUME NEW p \in Proc, LockSnapshot(p) PROVE TypeInv'
  <2>1. SharedTypeOK'
    BY <1>33, SemNumbers, TakenType DEF LockSnapshot, SharedTypeOK, master,
       LocalsOK,
       LocalOK, LocalsTypeOK, LockSem, SemNum, Slot, SlotLabel
  <2>2. SegsTypeOK'
    BY <1>33, ZeroedContent DEF LockSnapshot, SegsTypeOK, segs, LocalsOK,
       LocalOK, LocalsTypeOK, InSegment, SlotLabel
  <2>3. LocalsOK'
    BY <1>33, GotoLocals DEF LockSnapshot, LocalsOK, LocalOK, Label,
       SlotLabel, InSegment
  <2> QED BY <2>1, <2>2, <2>3
<1>34. ASSUME NEW p \in Proc, LockSnapshotFails(p) PROVE TypeInv'
  <2>1. SharedTypeOK'
    BY <1>34 DEF LockSnapshotFails, SharedTypeOK, kernelSem, master,
       LocalsOK, LocalOK, LocalsTypeOK, LockSem, SemNum, Slot, SlotLabel
  <2>2. SegsTypeOK'
    BY <1>34, ZeroedContent DEF LockSnapshotFails, SegsTypeOK, segs,
       LocalsOK, LocalOK, LocalsTypeOK, InSegment, SlotLabel
  <2>3. LocalsOK'
    BY <1>34, ReturnLocals, GotoLocals DEF LockSnapshotFails, LocalsOK,
       LocalOK, Label, SlotLabel, InSegment
  <2> QED BY <2>1, <2>2, <2>3
<1>35. ASSUME NEW p \in Proc, FindSlotToFree(p) PROVE TypeInv'
  <2>1. SharedTypeOK'
    BY <1>35 DEF FindSlotToFree, SharedTypeOK, kernelSem, master, LocalsOK,
       LocalOK, LocalsTypeOK, SemNum, Slot, SlotLabel
  <2>2. SegsTypeOK'
    BY <1>35, ZeroedContent DEF FindSlotToFree, SegsTypeOK, segs, LocalsOK,
       LocalOK, LocalsTypeOK, InSegment, SlotLabel
  <2>3. LocalsOK'
    <3>1. LocalsTypeOK'
      BY <1>35, NoCallRecord DEF FindSlotToFree, LocalsOK, LocalsTypeOK,
         LocalOK, SharedTypeOK, Goto, Label, SlotLabel, InSegment, Slot,
         lkup_slot, FirstOf
    <3>2. \A q \in Proc : LocalOK(q)'
      BY <1>35 DEF FindSlotToFree, LocalsOK, LocalsTypeOK, LocalOK,
         SharedTypeOK, Goto, SlotLabel, InSegment, Slot, lkup_slot, FirstOf
    <3> QED BY <3>1, <3>2 DEF LocalsOK
  <2> QED BY <2>1, <2>2, <2>3
<1>36. ASSUME NEW p \in Proc, ScanUsed(p) PROVE TypeInv'
  <2>1. SharedTypeOK'
    BY <1>36 DEF ScanUsed, SharedTypeOK, kernelSem, master, LocalsOK,
       LocalOK, LocalsTypeOK, SemNum, Slot, SlotLabel
  <2>2. SegsTypeOK'
    BY <1>36, ZeroedContent DEF ScanUsed, SegsTypeOK, segs, LocalsOK,
       LocalOK, LocalsTypeOK, InSegment, SlotLabel
  <2>3. LocalsOK'
    <3>1. slot[p] \in Slot
      BY <1>36 DEF ScanUsed, LocalsOK, LocalsTypeOK, Slot
    <3> QED BY <1>36, <3>1, GotoLocals DEF ScanUsed, Label
  <2> QED BY <2>1, <2>2, <2>3
<1>37. ASSUME NEW p \in Proc, ScanFree(p) PROVE TypeInv'
  <2>1. SharedTypeOK'
    BY <1>37 DEF ScanFree, SharedTypeOK, kernelSem, master, LocalsOK,
       LocalOK, LocalsTypeOK, SemNum, Slot, SlotLabel
  <2>2. SegsTypeOK'
    BY <1>37, ZeroedContent DEF ScanFree, SegsTypeOK, segs, LocalsOK,
       LocalOK, LocalsTypeOK, InSegment, SlotLabel
  <2>3. LocalsOK'
    <3>1. LocalsTypeOK'
      BY <1>37, NoCallRecord DEF ScanFree, LocalsOK, LocalsTypeOK, LocalOK,
         SharedTypeOK, Label, SlotLabel, InSegment, Slot
    <3>2. \A q \in Proc : LocalOK(q)'
      BY <1>37 DEF ScanFree, LocalsOK, LocalsTypeOK, LocalOK, SharedTypeOK,
         SlotLabel, InSegment, Slot
    <3> QED BY <3>1, <3>2 DEF LocalsOK
  <2> QED BY <2>1, <2>2, <2>3
<1>38. ASSUME NEW p \in Proc, LockUsed(p) PROVE TypeInv'
  <2>1. SharedTypeOK'
    BY <1>38, SemNumbers, TakenType DEF LockUsed, SharedTypeOK, master,
       LocalsOK,
       LocalOK, LocalsTypeOK, LockSem, SemNum, Slot, SlotLabel
  <2>2. SegsTypeOK'
    BY <1>38, ZeroedContent DEF LockUsed, SegsTypeOK, segs, LocalsOK,
       LocalOK, LocalsTypeOK, InSegment, SlotLabel
  <2>3. LocalsOK'
    BY <1>38, GotoLocals DEF LockUsed, LocalsOK, LocalOK, Label, SlotLabel,
       InSegment
  <2> QED BY <2>1, <2>2, <2>3
<1>39. ASSUME NEW p \in Proc, LockUsedIgnored(p) PROVE TypeInv'
  <2>1. SharedTypeOK'
    BY <1>39 DEF LockUsedIgnored, SharedTypeOK, kernelSem, master, LocalsOK,
       LocalOK, LocalsTypeOK, LockSem, SemNum, Slot, SlotLabel
  <2>2. SegsTypeOK'
    BY <1>39, ZeroedContent DEF LockUsedIgnored, SegsTypeOK, segs, LocalsOK,
       LocalOK, LocalsTypeOK, InSegment, SlotLabel
  <2>3. LocalsOK'
    BY <1>39, GotoLocals DEF LockUsedIgnored, LocalsOK, LocalOK, Label,
       SlotLabel, InSegment
  <2> QED BY <2>1, <2>2, <2>3
<1>40. ASSUME NEW p \in Proc, InfoRead(p) PROVE TypeInv'
  <2>1. SharedTypeOK'
    BY <1>40, RaisedType DEF InfoRead, SharedTypeOK, master, LocalsOK,
       LocalOK, LocalsTypeOK, LockSem, SemNum, Slot, SlotLabel
  <2>2. SegsTypeOK'
    BY <1>40, ZeroedContent DEF InfoRead, SegsTypeOK, segs, LocalsOK,
       LocalOK, LocalsTypeOK, InSegment, SlotLabel
  <2>3. LocalsOK'
    <3>1. LocalsTypeOK'
      BY <1>40, NoCallRecord DEF InfoRead, LocalsOK, LocalsTypeOK, LocalOK,
         SharedTypeOK, Goto, Label, SlotLabel, InSegment, Slot
    <3>2. \A q \in Proc : LocalOK(q)'
      BY <1>40 DEF InfoRead, LocalsOK, LocalsTypeOK, LocalOK, SharedTypeOK,
         Goto, SlotLabel, InSegment, Slot
    <3> QED BY <3>1, <3>2 DEF LocalsOK
  <2> QED BY <2>1, <2>2, <2>3
<1>41. ASSUME NEW p \in Proc, InfoFault(p) PROVE TypeInv'
  <2>1. SharedTypeOK'
    BY <1>41 DEF InfoFault, SharedTypeOK, kernelSem, Die, LocalsOK, LocalOK,
       LocalsTypeOK, SemNum, Slot, SlotLabel
  <2>2. SegsTypeOK'
    BY <1>41, ZeroedContent DEF InfoFault, SegsTypeOK, Die, LocalsOK,
       LocalOK, LocalsTypeOK, InSegment, SlotLabel
  <2>3. LocalsOK'
    BY <1>41, GotoLocals DEF InfoFault, Die, LocalsOK, LocalOK, Label,
       SlotLabel, InSegment
  <2> QED BY <2>1, <2>2, <2>3
<1>42. ASSUME NEW p \in Proc, RemoveSegment(p) PROVE TypeInv'
  <2>1. SharedTypeOK'
    BY <1>42 DEF RemoveSegment, SharedTypeOK, kernelSem, master, LocalsOK,
       LocalOK, LocalsTypeOK, SemNum, Slot, SlotLabel
  <2>2. SegsTypeOK'
    BY <1>42, ZeroedContent DEF RemoveSegment, SegsTypeOK, LocalsOK, LocalOK,
       LocalsTypeOK, InSegment, SlotLabel
  <2>3. LocalsOK'
    BY <1>42, GotoLocals DEF RemoveSegment, LocalsOK, LocalOK, Label,
       SlotLabel, InSegment
  <2> QED BY <2>1, <2>2, <2>3
<1>43. ASSUME NEW p \in Proc, ClearEntry(p) PROVE TypeInv'
  <2>1. SharedTypeOK'
    <3>1. sem' \in [SemNum -> 0 .. SEMVMX]
      <4>1. CASE call[p].op = "free" BY <1>43, <4>1, RaisedType DEF ClearEntry
      <4>2. CASE call[p].op # "free" BY <1>43, <4>2, RaisedType DEF ClearEntry
      <4> QED BY <4>1, <4>2
    <3>2. entry' \in [Slot -> [slot_shmid : ShmId \cup {NoShm}, desc : Id \cup {NoDesc}]]
      BY <1>43 DEF ClearEntry, SharedTypeOK
    <3>3. semAlive' \in BOOLEAN /\ keyed' \in BOOLEAN /\ mapped' \subseteq Proc
      BY <1>43 DEF ClearEntry, SharedTypeOK, master, Detach
    <3> QED BY <3>1, <3>2, <3>3 DEF SharedTypeOK
  <2>2. SegsTypeOK'
    BY <1>43, ZeroedContent DEF ClearEntry, SegsTypeOK, segs, LocalsOK,
       LocalOK, LocalsTypeOK, InSegment, SlotLabel
  <2>3. LocalsOK'
    <3>1. CASE call[p].op = "free" BY <1>43, <3>1, ReturnLocals DEF ClearEntry
    <3>2. CASE call[p].op # "free"
      <4>1. slot[p] \in Slot
        BY <1>43 DEF ClearEntry, LocalsOK, LocalOK, SlotLabel
      <4>2. LocalsTypeOK'
        <5>1. slot[p] + 1 \in 0 .. NumSlots
          BY <4>1, PoolAssumption DEF Slot
        <5>2. slot' = [slot EXCEPT ![p] = slot[p] + 1] /\ pc' = [pc EXCEPT ![p] = "scan"]
          BY <1>43, <3>2 DEF ClearEntry, Goto
        <5>3. UNCHANGED <<call, create, shm, numb, buf>>
          BY <1>43, <3>2 DEF ClearEntry
        <5> QED BY <5>1, <5>2, <5>3 DEF LocalsOK, LocalsTypeOK, Label
      <4>3. \A q \in Proc : LocalOK(q)'
        BY <1>43, <3>2 DEF ClearEntry, LocalsOK, LocalsTypeOK, LocalOK, Goto,
           SlotLabel, InSegment
      <4> QED BY <4>2, <4>3 DEF LocalsOK
    <3> QED BY <3>1, <3>2
  <2> QED BY <2>1, <2>2, <2>3
<1>44. ASSUME NEW p \in Proc, InfoReturns(p) PROVE TypeInv'
  <2>1. SharedTypeOK'
    BY <1>44, RaisedType DEF InfoReturns, SharedTypeOK, Detach, LocalsOK,
       LocalOK, LocalsTypeOK, MasterSem, SemNum, Slot, SlotLabel
  <2>2. SegsTypeOK'
    BY <1>44, ZeroedContent DEF InfoReturns, SegsTypeOK, segs, LocalsOK,
       LocalOK, LocalsTypeOK, InSegment, SlotLabel
  <2>3. LocalsOK'
    BY <1>44, ReturnLocals, GotoLocals DEF InfoReturns, LocalsOK, LocalOK,
       Label, SlotLabel, InSegment
  <2> QED BY <2>1, <2>2, <2>3
<1>45. ASSUME NEW p \in Proc, RemoveSemaphores(p) PROVE TypeInv'
  <2>1. SharedTypeOK'
    BY <1>45 DEF RemoveSemaphores, SharedTypeOK, master, LocalsOK, LocalOK,
       LocalsTypeOK, SemNum, Slot, SlotLabel
  <2>2. SegsTypeOK'
    BY <1>45, ZeroedContent DEF RemoveSemaphores, SegsTypeOK, segs, LocalsOK,
       LocalOK, LocalsTypeOK, InSegment, SlotLabel
  <2>3. LocalsOK'
    BY <1>45, GotoLocals DEF RemoveSemaphores, LocalsOK, LocalOK, Label,
       SlotLabel, InSegment
  <2> QED BY <2>1, <2>2, <2>3
<1>46. ASSUME NEW p \in Proc, RemoveMaster(p) PROVE TypeInv'
  <2>1. SharedTypeOK'
    BY <1>46 DEF RemoveMaster, SharedTypeOK, kernelSem, LocalsOK, LocalOK,
       LocalsTypeOK, SemNum, Slot, SlotLabel
  <2>2. SegsTypeOK'
    BY <1>46, ZeroedContent DEF RemoveMaster, SegsTypeOK, segs, LocalsOK,
       LocalOK, LocalsTypeOK, InSegment, SlotLabel
  <2>3. LocalsOK'
    BY <1>46, ReturnLocals, GotoLocals DEF RemoveMaster, LocalsOK, LocalOK,
       Label, SlotLabel, InSegment
  <2> QED BY <2>1, <2>2, <2>3
<1>47. CASE UNCHANGED vars
  BY <1>47 DEF vars, kernelSem, master, segs, locals, SharedTypeOK,
     SegsTypeOK, LocalsOK, LocalsTypeOK, LocalOK, InSegment
<1> QED
  BY <1>1, <1>2, <1>3, <1>4, <1>5, <1>6, <1>7, <1>8, <1>9, <1>10, <1>11, <1>12,
     <1>13, <1>14, <1>15, <1>16, <1>17, <1>18, <1>19, <1>20, <1>21, <1>22,
     <1>23, <1>24, <1>25, <1>26, <1>27, <1>28, <1>29, <1>30, <1>31, <1>32,
     <1>33, <1>34, <1>35, <1>36, <1>37, <1>38, <1>39, <1>40, <1>41, <1>42,
     <1>43, <1>44, <1>45, <1>46, <1>47 DEF Next, Step
-----------------------------------------------------------------------------
(* MASTER LOCK.  Mutual exclusion follows from the value of the semaphore: *)
(* while the set exists it is 0 or 1, and 1 only if nobody holds the lock. *)
(* It survives interrupted calls and a concurrent cleanup because every    *)
(* caller of lock_master gives up when it fails.                           *)

(* The process is in the table and the semaphore set has not been removed  *)
(* by itself.                                                              *)
AtTable(p) == HoldsMaster(p) /\ pc[p] # "rm_master"

(* The inductive invariant of the master lock.                             *)
MasterInv ==
  /\ MasterExclusive
  /\ semAlive => /\ sem[MasterSem] <= 1
                 /\ sem[MasterSem] = 1 => \A p \in Proc : ~HoldsMaster(p)
  /\ \A p \in Proc : AtTable(p) => semAlive

(* A step that touches neither the lock nor its holders.                   *)
LEMMA MasterKept ==
  ASSUME TypeInv, MasterInv, semAlive' = semAlive, sem'[MasterSem] = sem[MasterSem],
         \A q \in Proc : /\ HoldsMaster(q)' => HoldsMaster(q)
                         /\ AtTable(q)' => AtTable(q)
  PROVE  MasterInv'
  BY DEF MasterInv, MasterExclusive

(* A step that takes the lock.                                             *)
LEMMA MasterTaken ==
  ASSUME TypeInv, MasterInv, NEW p \in Proc, Available(MasterSem), semAlive' = semAlive,
         sem' = Taken(MasterSem),
         \A q \in Proc \ {p} : /\ HoldsMaster(q)' => HoldsMaster(q)
                               /\ AtTable(q)' => AtTable(q)
  PROVE  MasterInv'
<1>1. sem[MasterSem] = 1 /\ sem'[MasterSem] = 0 /\ semAlive
  BY PoolAssumption DEF MasterInv, Available, Taken, TypeInv, SharedTypeOK,
     MasterSem, SemNum
<1>2. \A q \in Proc : ~HoldsMaster(q)
  BY <1>1 DEF MasterInv
<1> QED BY <1>1, <1>2 DEF MasterInv, MasterExclusive

(* A step of the holder out of the table; semop(+1) may be refused.        *)
LEMMA MasterReleased ==
  ASSUME TypeInv, MasterInv, NEW p \in Proc, HoldsMaster(p), semAlive' = semAlive,
         sem'[MasterSem] \in {sem[MasterSem], sem[MasterSem] + 1},
         \A q \in Proc : /\ HoldsMaster(q)' => HoldsMaster(q) /\ q # p
                         /\ AtTable(q)' => AtTable(q)
  PROVE  MasterInv'
<1>1. ASSUME semAlive PROVE sem[MasterSem] = 0
  BY <1>1, PoolAssumption DEF MasterInv, TypeInv, SharedTypeOK, MasterSem,
     SemNum
<1>2. \A q \in Proc : ~HoldsMaster(q)'
  BY DEF MasterInv, MasterExclusive
<1> QED BY <1>1, <1>2 DEF MasterInv, MasterExclusive, AtTable

(* What semop(+1) does to the master semaphore.                            *)
LEMMA RaisedMaster ==
  ASSUME TypeInv, NEW ks
  PROVE  /\ Raised(ks)[MasterSem] \in {sem[MasterSem], sem[MasterSem] + 1}
         /\ MasterSem \notin ks => Raised(ks)[MasterSem] = sem[MasterSem]
  BY PoolAssumption DEF Raised, MasterSem, SemNum

(* No slot's semaphore is the master semaphore.                            *)
LEMMA OtherThanMaster ==
  ASSUME TypeInv, NEW p \in Proc PROVE LockSem(slot[p]) # MasterSem /\ HandSem(slot[p]) # MasterSem
  BY PoolAssumption DEF TypeInv, LocalsOK, LocalsTypeOK, LockSem, HandSem,
     MasterSem

(* Every step preserves the invariant of the master lock.                  *)
LEMMA MasterNext == TypeInv /\ MasterInv /\ [Next]_vars => MasterInv'
<1> SUFFICES ASSUME TypeInv, MasterInv, [Next]_vars PROVE MasterInv'
  OBVIOUS

<1>1. ASSUME NEW p \in Proc, Begin(p) PROVE MasterInv'
  <2>1. semAlive' = semAlive /\ sem'[MasterSem] = sem[MasterSem]
    BY <1>1 DEF Begin, kernelSem
  <2>2. \A q \in Proc : /\ HoldsMaster(q)' => HoldsMaster(q)
                        /\ AtTable(q)' => AtTable(q)
    BY <1>1 DEF Begin, HoldsMaster, AtTable, Goto, TypeInv, LocalsOK,
       LocalsTypeOK
  <2> QED BY <2>1, <2>2, MasterKept
<1>2. ASSUME NEW p \in Proc, FindMaster(p) PROVE MasterInv'
  <2>1. semAlive' = semAlive /\ sem'[MasterSem] = sem[MasterSem]
    BY <1>2 DEF FindMaster, kernelSem
  <2>2. \A q \in Proc : /\ HoldsMaster(q)' => HoldsMaster(q)
                        /\ AtTable(q)' => AtTable(q)
    BY <1>2 DEF FindMaster, HoldsMaster, AtTable, Goto, Return, TypeInv,
       LocalsOK, LocalsTypeOK, locals
  <2> QED BY <2>1, <2>2, MasterKept
<1>3. ASSUME NEW p \in Proc, AttachMaster(p) PROVE MasterInv'
  <2>1. semAlive' = semAlive /\ sem'[MasterSem] = sem[MasterSem]
    BY <1>3 DEF AttachMaster, kernelSem
  <2>2. \A q \in Proc : /\ HoldsMaster(q)' => HoldsMaster(q)
                        /\ AtTable(q)' => AtTable(q)
    BY <1>3 DEF AttachMaster, HoldsMaster, AtTable, Goto, TypeInv, LocalsOK,
       LocalsTypeOK, locals
  <2> QED BY <2>1, <2>2, MasterKept
<1>4. ASSUME NEW p \in Proc, AttachMasterFault(p) PROVE MasterInv'
  <2>1. semAlive' = semAlive /\ sem'[MasterSem] = sem[MasterSem]
    BY <1>4 DEF AttachMasterFault, kernelSem, Die
  <2>2. \A q \in Proc : /\ HoldsMaster(q)' => HoldsMaster(q)
                        /\ AtTable(q)' => AtTable(q)
    BY <1>4 DEF AttachMasterFault, HoldsMaster, AtTable, Goto, Die, TypeInv,
       LocalsOK, LocalsTypeOK, locals
  <2> QED BY <2>1, <2>2, MasterKept
<1>5. ASSUME NEW p \in Proc, LockMaster(p) PROVE MasterInv'
  <2>1. \A q \in Proc \ {p} : pc'[q] = pc[q]
    BY <1>5 DEF LockMaster, Goto, TypeInv, LocalsOK, LocalsTypeOK
  <2> QED BY <1>5, <2>1, MasterTaken DEF LockMaster, HoldsMaster, AtTable
<1>6. ASSUME NEW p \in Proc, LockMasterFails(p) PROVE MasterInv'
  <2>1. semAlive' = semAlive /\ sem'[MasterSem] = sem[MasterSem]
    BY <1>6 DEF LockMasterFails, kernelSem
  <2>2. \A q \in Proc : /\ HoldsMaster(q)' => HoldsMaster(q)
                        /\ AtTable(q)' => AtTable(q)
    BY <1>6 DEF LockMasterFails, HoldsMaster, AtTable, Goto, Return, TypeInv,
       LocalsOK, LocalsTypeOK
  <2> QED BY <2>1, <2>2, MasterKept
<1>7. ASSUME NEW p \in Proc, FindSlot(p) PROVE MasterInv'
  <2>1. semAlive' = semAlive /\ sem'[MasterSem] = sem[MasterSem]
    BY <1>7 DEF FindSlot, kernelSem
  <2>2. \A q \in Proc : /\ HoldsMaster(q)' => HoldsMaster(q)
                        /\ AtTable(q)' => AtTable(q)
    BY <1>7 DEF FindSlot, HoldsMaster, AtTable, Goto, TypeInv, LocalsOK,
       LocalsTypeOK
  <2> QED BY <2>1, <2>2, MasterKept
<1>8. ASSUME NEW p \in Proc, PickFreeSlot(p) PROVE MasterInv'
  <2>1. semAlive' = semAlive /\ sem'[MasterSem] = sem[MasterSem]
    BY <1>8 DEF PickFreeSlot, kernelSem
  <2>2. \A q \in Proc : /\ HoldsMaster(q)' => HoldsMaster(q)
                        /\ AtTable(q)' => AtTable(q)
    BY <1>8 DEF PickFreeSlot, HoldsMaster, AtTable, Goto, TypeInv, LocalsOK,
       LocalsTypeOK
  <2> QED BY <2>1, <2>2, MasterKept
<1>9. ASSUME NEW p \in Proc, NoSuchSlot(p) PROVE MasterInv'
  <2>1. /\ semAlive' = semAlive
        /\ sem'[MasterSem] \in {sem[MasterSem], sem[MasterSem] + 1}
    BY <1>9, RaisedMaster DEF NoSuchSlot
  <2>2. \A q \in Proc : /\ HoldsMaster(q)' => HoldsMaster(q) /\ q # p
                        /\ AtTable(q)' => AtTable(q)
    BY <1>9 DEF NoSuchSlot, HoldsMaster, AtTable, Goto, Return, TypeInv,
       LocalsOK, LocalsTypeOK
  <2> QED BY <1>9, <2>1, <2>2, MasterReleased DEF NoSuchSlot, HoldsMaster
<1>10. ASSUME NEW p \in Proc, LockSlot(p) PROVE MasterInv'
  <2>1. semAlive' = semAlive /\ sem'[MasterSem] = sem[MasterSem]
    BY <1>10, OtherThanMaster DEF LockSlot, Taken, TypeInv, SharedTypeOK,
       SemNum
  <2>2. \A q \in Proc : /\ HoldsMaster(q)' => HoldsMaster(q)
                        /\ AtTable(q)' => AtTable(q)
    BY <1>10 DEF LockSlot, HoldsMaster, AtTable, Goto, TypeInv, LocalsOK,
       LocalsTypeOK, locals
  <2> QED BY <2>1, <2>2, MasterKept
<1>11. ASSUME NEW p \in Proc, LockSlotFails(p) PROVE MasterInv'
  <2>1. /\ semAlive' = semAlive
        /\ sem'[MasterSem] \in {sem[MasterSem], sem[MasterSem] + 1}
    BY <1>11, RaisedMaster DEF LockSlotFails
  <2>2. \A q \in Proc : /\ HoldsMaster(q)' => HoldsMaster(q) /\ q # p
                        /\ AtTable(q)' => AtTable(q)
    BY <1>11 DEF LockSlotFails, HoldsMaster, AtTable, Goto, Return, TypeInv,
       LocalsOK, LocalsTypeOK
  <2> QED BY <1>11, <2>1, <2>2, MasterReleased DEF LockSlotFails, HoldsMaster
<1>12. ASSUME NEW p \in Proc, CreateSegment(p) PROVE MasterInv'
  <2>1. semAlive' = semAlive /\ sem'[MasterSem] = sem[MasterSem]
    BY <1>12 DEF CreateSegment, kernelSem
  <2>2. \A q \in Proc : /\ HoldsMaster(q)' => HoldsMaster(q)
                        /\ AtTable(q)' => AtTable(q)
    BY <1>12 DEF CreateSegment, HoldsMaster, AtTable, Goto, TypeInv,
       LocalsOK, LocalsTypeOK
  <2> QED BY <2>1, <2>2, MasterKept
<1>13. ASSUME NEW p \in Proc, CreateSegmentFails(p) PROVE MasterInv'
  <2>1. /\ semAlive' = semAlive
        /\ sem'[MasterSem] \in {sem[MasterSem], sem[MasterSem] + 1}
    BY <1>13, RaisedMaster DEF CreateSegmentFails
  <2>2. \A q \in Proc : /\ HoldsMaster(q)' => HoldsMaster(q) /\ q # p
                        /\ AtTable(q)' => AtTable(q)
    BY <1>13 DEF CreateSegmentFails, HoldsMaster, AtTable, Goto, Return,
       TypeInv, LocalsOK, LocalsTypeOK
  <2> QED
    BY <1>13, <2>1, <2>2, MasterReleased DEF CreateSegmentFails, HoldsMaster
<1>14. ASSUME NEW p \in Proc, SetEntry(p) PROVE MasterInv'
  <2>1. semAlive' = semAlive /\ sem'[MasterSem] = sem[MasterSem]
    BY <1>14 DEF SetEntry, kernelSem
  <2>2. \A q \in Proc : /\ HoldsMaster(q)' => HoldsMaster(q)
                        /\ AtTable(q)' => AtTable(q)
    BY <1>14 DEF SetEntry, HoldsMaster, AtTable, Goto, TypeInv, LocalsOK,
       LocalsTypeOK, locals
  <2> QED BY <2>1, <2>2, MasterKept
<1>15. ASSUME NEW p \in Proc, SnapSlot(p) PROVE MasterInv'
  <2>1. /\ semAlive' = semAlive
        /\ sem'[MasterSem] \in {sem[MasterSem], sem[MasterSem] + 1}
    BY <1>15, RaisedMaster DEF SnapSlot
  <2>2. \A q \in Proc : /\ HoldsMaster(q)' => HoldsMaster(q) /\ q # p
                        /\ AtTable(q)' => AtTable(q)
    BY <1>15 DEF SnapSlot, HoldsMaster, AtTable, Goto, TypeInv, LocalsOK,
       LocalsTypeOK
  <2> QED BY <1>15, <2>1, <2>2, MasterReleased DEF SnapSlot, HoldsMaster
<1>16. ASSUME NEW p \in Proc, AttachSegment(p) PROVE MasterInv'
  <2>1. semAlive' = semAlive /\ sem'[MasterSem] = sem[MasterSem]
    BY <1>16 DEF AttachSegment, kernelSem
  <2>2. \A q \in Proc : /\ HoldsMaster(q)' => HoldsMaster(q)
                        /\ AtTable(q)' => AtTable(q)
    BY <1>16 DEF AttachSegment, HoldsMaster, AtTable, Goto, TypeInv,
       LocalsOK, LocalsTypeOK, locals
  <2> QED BY <2>1, <2>2, MasterKept
<1>17. ASSUME NEW p \in Proc, AttachSegmentFails(p) PROVE MasterInv'
  <2>1. semAlive' = semAlive /\ sem'[MasterSem] = sem[MasterSem]
    BY <1>17, RaisedMaster, OtherThanMaster DEF AttachSegmentFails
  <2>2. \A q \in Proc : /\ HoldsMaster(q)' => HoldsMaster(q)
                        /\ AtTable(q)' => AtTable(q)
    BY <1>17 DEF AttachSegmentFails, HoldsMaster, AtTable, Goto, Return,
       TypeInv, LocalsOK, LocalsTypeOK
  <2> QED BY <2>1, <2>2, MasterKept
<1>18. ASSUME NEW p \in Proc, FillHeader(p) PROVE MasterInv'
  <2>1. semAlive' = semAlive /\ sem'[MasterSem] = sem[MasterSem]
    BY <1>18 DEF FillHeader, kernelSem
  <2>2. \A q \in Proc : /\ HoldsMaster(q)' => HoldsMaster(q)
                        /\ AtTable(q)' => AtTable(q)
    BY <1>18 DEF FillHeader, HoldsMaster, AtTable, Goto, TypeInv, LocalsOK,
       LocalsTypeOK, locals
  <2> QED BY <2>1, <2>2, MasterKept
<1>19. ASSUME NEW p \in Proc, CheckHeader(p) PROVE MasterInv'
  <2>1. semAlive' = semAlive /\ sem'[MasterSem] = sem[MasterSem]
    BY <1>19 DEF CheckHeader, kernelSem
  <2>2. \A q \in Proc : /\ HoldsMaster(q)' => HoldsMaster(q)
                        /\ AtTable(q)' => AtTable(q)
    BY <1>19 DEF CheckHeader, HoldsMaster, AtTable, Goto, TypeInv, LocalsOK,
       LocalsTypeOK, locals
  <2> QED BY <2>1, <2>2, MasterKept
<1>20. ASSUME NEW p \in Proc, RefuseMisfit(p) PROVE MasterInv'
  <2>1. semAlive' = semAlive /\ sem'[MasterSem] = sem[MasterSem]
    BY <1>20, RaisedMaster, OtherThanMaster DEF RefuseMisfit
  <2>2. \A q \in Proc : /\ HoldsMaster(q)' => HoldsMaster(q)
                        /\ AtTable(q)' => AtTable(q)
    BY <1>20 DEF RefuseMisfit, HoldsMaster, AtTable, Goto, Return, TypeInv,
       LocalsOK, LocalsTypeOK
  <2> QED BY <2>1, <2>2, MasterKept
<1>21. ASSUME NEW p \in Proc, ReadHeader(p) PROVE MasterInv'
  <2>1. semAlive' = semAlive /\ sem'[MasterSem] = sem[MasterSem]
    BY <1>21 DEF ReadHeader, kernelSem
  <2>2. \A q \in Proc : /\ HoldsMaster(q)' => HoldsMaster(q)
                        /\ AtTable(q)' => AtTable(q)
    BY <1>21 DEF ReadHeader, HoldsMaster, AtTable, Goto, TypeInv, LocalsOK,
       LocalsTypeOK
  <2> QED BY <2>1, <2>2, MasterKept
<1>22. ASSUME NEW p \in Proc, CopyFirstHalf(p) PROVE MasterInv'
  <2>1. semAlive' = semAlive /\ sem'[MasterSem] = sem[MasterSem]
    BY <1>22 DEF CopyFirstHalf, kernelSem
  <2>2. \A q \in Proc : /\ HoldsMaster(q)' => HoldsMaster(q)
                        /\ AtTable(q)' => AtTable(q)
    BY <1>22 DEF CopyFirstHalf, HoldsMaster, AtTable, Goto, TypeInv,
       LocalsOK, LocalsTypeOK
  <2> QED BY <2>1, <2>2, MasterKept
<1>23. ASSUME NEW p \in Proc, CopySecondHalf(p) PROVE MasterInv'
  <2>1. semAlive' = semAlive /\ sem'[MasterSem] = sem[MasterSem]
    BY <1>23 DEF CopySecondHalf, kernelSem
  <2>2. \A q \in Proc : /\ HoldsMaster(q)' => HoldsMaster(q)
                        /\ AtTable(q)' => AtTable(q)
    BY <1>23 DEF CopySecondHalf, HoldsMaster, AtTable, Goto, TypeInv,
       LocalsOK, LocalsTypeOK
  <2> QED BY <2>1, <2>2, MasterKept
<1>24. ASSUME NEW p \in Proc, ReleaseSnapshot(p) PROVE MasterInv'
  <2>1. semAlive' = semAlive /\ sem'[MasterSem] = sem[MasterSem]
    BY <1>24, RaisedMaster, OtherThanMaster DEF ReleaseSnapshot
  <2>2. \A q \in Proc : /\ HoldsMaster(q)' => HoldsMaster(q)
                        /\ AtTable(q)' => AtTable(q)
    BY <1>24 DEF ReleaseSnapshot, HoldsMaster, AtTable, Goto, Return,
       TypeInv, LocalsOK, LocalsTypeOK, locals
  <2> QED BY <2>1, <2>2, MasterKept
<1>25. ASSUME NEW p \in Proc, CountSubscribers(p) PROVE MasterInv'
  <2>1. semAlive' = semAlive /\ sem'[MasterSem] = sem[MasterSem]
    BY <1>25 DEF CountSubscribers, kernelSem
  <2>2. \A q \in Proc : /\ HoldsMaster(q)' => HoldsMaster(q)
                        /\ AtTable(q)' => AtTable(q)
    BY <1>25 DEF CountSubscribers, HoldsMaster, AtTable, Goto, TypeInv,
       LocalsOK, LocalsTypeOK
  <2> QED BY <2>1, <2>2, MasterKept
<1>26. ASSUME NEW p \in Proc, PublishToSubscribers(p) PROVE MasterInv'
  <2>1. semAlive' = semAlive /\ sem'[MasterSem] = sem[MasterSem]
    BY <1>26, OtherThanMaster DEF PublishToSubscribers, Taken, TypeInv,
       SharedTypeOK, SemNum
  <2>2. \A q \in Proc : /\ HoldsMaster(q)' => HoldsMaster(q)
                        /\ AtTable(q)' => AtTable(q)
    BY <1>26 DEF PublishToSubscribers, HoldsMaster, AtTable, TypeInv,
       LocalsOK, LocalsTypeOK, locals
  <2> QED BY <2>1, <2>2, MasterKept
<1>27. ASSUME NEW p \in Proc, PublishToNobody(p) PROVE MasterInv'
  <2>1. semAlive' = semAlive /\ sem'[MasterSem] = sem[MasterSem]
    BY <1>27 DEF PublishToNobody, kernelSem
  <2>2. \A q \in Proc : /\ HoldsMaster(q)' => HoldsMaster(q)
                        /\ AtTable(q)' => AtTable(q)
    BY <1>27 DEF PublishToNobody, HoldsMaster, AtTable, Goto, TypeInv,
       LocalsOK, LocalsTypeOK, locals
  <2> QED BY <2>1, <2>2, MasterKept
<1>28. ASSUME NEW p \in Proc, PublishFails(p) PROVE MasterInv'
  <2>1. semAlive' = semAlive /\ sem'[MasterSem] = sem[MasterSem]
    BY <1>28 DEF PublishFails, kernelSem
  <2>2. \A q \in Proc : /\ HoldsMaster(q)' => HoldsMaster(q)
                        /\ AtTable(q)' => AtTable(q)
    BY <1>28 DEF PublishFails, HoldsMaster, AtTable, Goto, Return, TypeInv,
       LocalsOK, LocalsTypeOK
  <2> QED BY <2>1, <2>2, MasterKept
<1>29. ASSUME NEW p \in Proc, Acknowledged(p) PROVE MasterInv'
  <2>1. semAlive' = semAlive /\ sem'[MasterSem] = sem[MasterSem]
    BY <1>29 DEF Acknowledged, kernelSem
  <2>2. \A q \in Proc : /\ HoldsMaster(q)' => HoldsMaster(q)
                        /\ AtTable(q)' => AtTable(q)
    BY <1>29 DEF Acknowledged, HoldsMaster, AtTable, Goto, Return, TypeInv,
       LocalsOK, LocalsTypeOK
  <2> QED BY <2>1, <2>2, MasterKept
<1>30. ASSUME NEW p \in Proc, SnapSubscription(p) PROVE MasterInv'
  <2>1. /\ semAlive' = semAlive
        /\ sem'[MasterSem] \in {sem[MasterSem], sem[MasterSem] + 1}
    BY <1>30, RaisedMaster DEF SnapSubscription
  <2>2. \A q \in Proc : /\ HoldsMaster(q)' => HoldsMaster(q) /\ q # p
                        /\ AtTable(q)' => AtTable(q)
    BY <1>30 DEF SnapSubscription, HoldsMaster, AtTable, Goto, TypeInv,
       LocalsOK, LocalsTypeOK
  <2> QED
    BY <1>30, <2>1, <2>2, MasterReleased DEF SnapSubscription, HoldsMaster
<1>31. ASSUME NEW p \in Proc, Subscribe(p) PROVE MasterInv'
  <2>1. semAlive' = semAlive /\ sem'[MasterSem] = sem[MasterSem]
    <3>1. HandSem(slot[p]) # MasterSem
      BY OtherThanMaster
    <3>2. Taken(HandSem(slot[p]))[MasterSem] = sem[MasterSem]
      BY <3>1, PoolAssumption DEF Taken, TypeInv, SharedTypeOK, MasterSem,
         SemNum
    <3> QED BY <1>31, <3>2 DEF Subscribe
  <2>2. \A q \in Proc : /\ HoldsMaster(q)' => HoldsMaster(q)
                        /\ AtTable(q)' => AtTable(q)
    BY <1>31 DEF Subscribe, HoldsMaster, AtTable, Goto, TypeInv, LocalsOK,
       LocalsTypeOK, locals
  <2> QED BY <2>1, <2>2, MasterKept
<1>32. ASSUME NEW p \in Proc, SubscribeFails(p) PROVE MasterInv'
  <2>1. semAlive' = semAlive /\ sem'[MasterSem] = sem[MasterSem]
    BY <1>32 DEF SubscribeFails, kernelSem
  <2>2. \A q \in Proc : /\ HoldsMaster(q)' => HoldsMaster(q)
                        /\ AtTable(q)' => AtTable(q)
    BY <1>32 DEF SubscribeFails, HoldsMaster, AtTable, Goto, Return, TypeInv,
       LocalsOK, LocalsTypeOK
  <2> QED BY <2>1, <2>2, MasterKept
<1>33. ASSUME NEW p \in Proc, LockSnapshot(p) PROVE MasterInv'
  <2>1. semAlive' = semAlive /\ sem'[MasterSem] = sem[MasterSem]
    BY <1>33, OtherThanMaster DEF LockSnapshot, Taken, TypeInv, SharedTypeOK,
       SemNum
  <2>2. \A q \in Proc : /\ HoldsMaster(q)' => HoldsMaster(q)
                        /\ AtTable(q)' => AtTable(q)
    BY <1>33 DEF LockSnapshot, HoldsMaster, AtTable, Goto, TypeInv, LocalsOK,
       LocalsTypeOK, locals
  <2> QED BY <2>1, <2>2, MasterKept
<1>34. ASSUME NEW p \in Proc, LockSnapshotFails(p) PROVE MasterInv'
  <2>1. semAlive' = semAlive /\ sem'[MasterSem] = sem[MasterSem]
    BY <1>34 DEF LockSnapshotFails, kernelSem
  <2>2. \A q \in Proc : /\ HoldsMaster(q)' => HoldsMaster(q)
                        /\ AtTable(q)' => AtTable(q)
    BY <1>34 DEF LockSnapshotFails, HoldsMaster, AtTable, Goto, Return,
       TypeInv, LocalsOK, LocalsTypeOK
  <2> QED BY <2>1, <2>2, MasterKept
<1>35. ASSUME NEW p \in Proc, FindSlotToFree(p) PROVE MasterInv'
  <2>1. semAlive' = semAlive /\ sem'[MasterSem] = sem[MasterSem]
    BY <1>35 DEF FindSlotToFree, kernelSem
  <2>2. \A q \in Proc : /\ HoldsMaster(q)' => HoldsMaster(q)
                        /\ AtTable(q)' => AtTable(q)
    BY <1>35 DEF FindSlotToFree, HoldsMaster, AtTable, Goto, TypeInv,
       LocalsOK, LocalsTypeOK
  <2> QED BY <2>1, <2>2, MasterKept
<1>36. ASSUME NEW p \in Proc, ScanUsed(p) PROVE MasterInv'
  <2>1. semAlive' = semAlive /\ sem'[MasterSem] = sem[MasterSem]
    BY <1>36 DEF ScanUsed, kernelSem
  <2>2. \A q \in Proc : /\ HoldsMaster(q)' => HoldsMaster(q)
                        /\ AtTable(q)' => AtTable(q)
    BY <1>36 DEF ScanUsed, HoldsMaster, AtTable, Goto, TypeInv, LocalsOK,
       LocalsTypeOK, locals
  <2> QED BY <2>1, <2>2, MasterKept
<1>37. ASSUME NEW p \in Proc, ScanFree(p) PROVE MasterInv'
  <2>1. semAlive' = semAlive /\ sem'[MasterSem] = sem[MasterSem]
    BY <1>37 DEF ScanFree, kernelSem
  <2>2. \A q \in Proc : /\ HoldsMaster(q)' => HoldsMaster(q)
                        /\ AtTable(q)' => AtTable(q)
    BY <1>37 DEF ScanFree, HoldsMaster, AtTable, TypeInv, LocalsOK,
       LocalsTypeOK
  <2> QED BY <2>1, <2>2, MasterKept
<1>38. ASSUME NEW p \in Proc, LockUsed(p) PROVE MasterInv'
  <2>1. semAlive' = semAlive /\ sem'[MasterSem] = sem[MasterSem]
    BY <1>38, OtherThanMaster DEF LockUsed, Taken, TypeInv, SharedTypeOK,
       SemNum
  <2>2. \A q \in Proc : /\ HoldsMaster(q)' => HoldsMaster(q)
                        /\ AtTable(q)' => AtTable(q)
    BY <1>38 DEF LockUsed, HoldsMaster, AtTable, Goto, TypeInv, LocalsOK,
       LocalsTypeOK, locals
  <2> QED BY <2>1, <2>2, MasterKept
<1>39. ASSUME NEW p \in Proc, LockUsedIgnored(p) PROVE MasterInv'
  <2>1. semAlive' = semAlive /\ sem'[MasterSem] = sem[MasterSem]
    BY <1>39 DEF LockUsedIgnored, kernelSem
  <2>2. \A q \in Proc : /\ HoldsMaster(q)' => HoldsMaster(q)
                        /\ AtTable(q)' => AtTable(q)
    BY <1>39 DEF LockUsedIgnored, HoldsMaster, AtTable, Goto, TypeInv,
       LocalsOK, LocalsTypeOK, locals
  <2> QED BY <2>1, <2>2, MasterKept
<1>40. ASSUME NEW p \in Proc, InfoRead(p) PROVE MasterInv'
  <2>1. semAlive' = semAlive /\ sem'[MasterSem] = sem[MasterSem]
    BY <1>40, RaisedMaster, OtherThanMaster DEF InfoRead
  <2>2. \A q \in Proc : /\ HoldsMaster(q)' => HoldsMaster(q)
                        /\ AtTable(q)' => AtTable(q)
    BY <1>40 DEF InfoRead, HoldsMaster, AtTable, Goto, TypeInv, LocalsOK,
       LocalsTypeOK
  <2> QED BY <2>1, <2>2, MasterKept
<1>41. ASSUME NEW p \in Proc, InfoFault(p) PROVE MasterInv'
  <2>1. /\ semAlive' = semAlive
        /\ sem'[MasterSem] \in {sem[MasterSem], sem[MasterSem] + 1}
    BY <1>41 DEF kernelSem, InfoFault, Die
  <2>2. \A q \in Proc : /\ HoldsMaster(q)' => HoldsMaster(q) /\ q # p
                        /\ AtTable(q)' => AtTable(q)
    BY <1>41 DEF InfoFault, HoldsMaster, AtTable, Goto, Die, TypeInv,
       LocalsOK, LocalsTypeOK
  <2> QED BY <1>41, <2>1, <2>2, MasterReleased DEF InfoFault, HoldsMaster
<1>42. ASSUME NEW p \in Proc, RemoveSegment(p) PROVE MasterInv'
  <2>1. semAlive' = semAlive /\ sem'[MasterSem] = sem[MasterSem]
    BY <1>42 DEF RemoveSegment, kernelSem
  <2>2. \A q \in Proc : /\ HoldsMaster(q)' => HoldsMaster(q)
                        /\ AtTable(q)' => AtTable(q)
    BY <1>42 DEF RemoveSegment, HoldsMaster, AtTable, Goto, TypeInv,
       LocalsOK, LocalsTypeOK, locals
  <2> QED BY <2>1, <2>2, MasterKept
<1>43. ASSUME NEW p \in Proc, ClearEntry(p) PROVE MasterInv'
  <2>1. CASE call[p].op = "free"
    <3>1. /\ semAlive' = semAlive
          /\ sem'[MasterSem] \in {sem[MasterSem], sem[MasterSem] + 1}
      BY <1>43, <2>1, RaisedMaster DEF ClearEntry
    <3>2. \A q \in Proc : /\ HoldsMaster(q)' => HoldsMaster(q) /\ q # p
                          /\ AtTable(q)' => AtTable(q)
      BY <1>43, <2>1 DEF ClearEntry, HoldsMaster, AtTable, Goto, Return,
         TypeInv, LocalsOK, LocalsTypeOK
    <3> QED BY <1>43, <3>1, <3>2, MasterReleased DEF ClearEntry, HoldsMaster
  <2>2. CASE call[p].op # "free"
    <3>1. semAlive' = semAlive /\ sem'[MasterSem] = sem[MasterSem]
      BY <1>43, <2>2, RaisedMaster, OtherThanMaster DEF ClearEntry
    <3>2. \A q \in Proc : /\ HoldsMaster(q)' => HoldsMaster(q)
                          /\ AtTable(q)' => AtTable(q)
      BY <1>43, <2>2 DEF ClearEntry, HoldsMaster, AtTable, Goto, Return,
         TypeInv, LocalsOK, LocalsTypeOK
    <3> QED BY <3>1, <3>2, MasterKept
  <2> QED BY <2>1, <2>2
<1>44. ASSUME NEW p \in Proc, InfoReturns(p) PROVE MasterInv'
  <2>1. /\ semAlive' = semAlive
        /\ sem'[MasterSem] \in {sem[MasterSem], sem[MasterSem] + 1}
    BY <1>44, RaisedMaster DEF InfoReturns
  <2>2. \A q \in Proc : /\ HoldsMaster(q)' => HoldsMaster(q) /\ q # p
                        /\ AtTable(q)' => AtTable(q)
    BY <1>44 DEF InfoReturns, HoldsMaster, AtTable, Goto, Return, TypeInv,
       LocalsOK, LocalsTypeOK
  <2> QED BY <1>44, <2>1, <2>2, MasterReleased DEF InfoReturns, HoldsMaster
<1>45. ASSUME NEW p \in Proc, RemoveSemaphores(p) PROVE MasterInv'
  <2>1. \A q \in Proc : HoldsMaster(q) => q = p
    BY <1>45 DEF RemoveSemaphores, HoldsMaster, MasterInv, MasterExclusive
  <2> QED
    BY <1>45, <2>1 DEF RemoveSemaphores, HoldsMaster, AtTable, Goto, TypeInv,
       LocalsOK, LocalsTypeOK, MasterInv, MasterExclusive
<1>46. ASSUME NEW p \in Proc, RemoveMaster(p) PROVE MasterInv'
  <2>1. /\ semAlive' = semAlive
        /\ sem'[MasterSem] \in {sem[MasterSem], sem[MasterSem] + 1}
    BY <1>46 DEF kernelSem, RemoveMaster
  <2>2. \A q \in Proc : /\ HoldsMaster(q)' => HoldsMaster(q) /\ q # p
                        /\ AtTable(q)' => AtTable(q)
    BY <1>46 DEF RemoveMaster, HoldsMaster, AtTable, Goto, Return, TypeInv,
       LocalsOK, LocalsTypeOK
  <2> QED BY <1>46, <2>1, <2>2, MasterReleased DEF RemoveMaster, HoldsMaster
<1>47. CASE UNCHANGED vars
  BY <1>47, MasterKept DEF vars, kernelSem, HoldsMaster, AtTable
<1> QED
  BY <1>1, <1>2, <1>3, <1>4, <1>5, <1>6, <1>7, <1>8, <1>9, <1>10, <1>11, <1>12,
     <1>13, <1>14, <1>15, <1>16, <1>17, <1>18, <1>19, <1>20, <1>21, <1>22,
     <1>23, <1>24, <1>25, <1>26, <1>27, <1>28, <1>29, <1>30, <1>31, <1>32,
     <1>33, <1>34, <1>35, <1>36, <1>37, <1>38, <1>39, <1>40, <1>41, <1>42,
     <1>43, <1>44, <1>45, <1>46, <1>47 DEF Next, Step

(* Every variable keeps its type, in particular no semaphore leaves        *)
(* 0 .. SEMVMX and no process acts on a slot outside the table.            *)
THEOREM TypeCorrect == Spec => []TypeOK
<1>1. TypeInv => TypeOK
  BY DEF TypeInv, TypeOK, LocalsOK
<1> QED BY TypeInit, TypeNext, <1>1, PTL DEF Spec

(* Two processes are never in the slot table at once, with or without      *)
(* signals, memory shortage or a concurrent shm_cleanup: between           *)
(* lock_master and unlock_master a process is alone.                       *)
THEOREM MasterExclusion == Spec => []MasterExclusive
<1>1. Init => MasterInv
  BY PoolAssumption DEF Init, MasterInv, MasterExclusive, AtTable,
     HoldsMaster, MasterSem, SemNum
<1>2. MasterInv => MasterExclusive
  BY DEF MasterInv
<1> QED BY TypeInit, TypeNext, MasterNext, <1>1, <1>2, PTL DEF Spec
-----------------------------------------------------------------------------
(* SLOT LOCKS.  The same argument for each slot, where no signal arrives:  *)
(* free_slot and svipc_shm_info go on when lock_slot fails, so it must not *)
(* fail; it cannot then, because they hold the master lock and the         *)
(* semaphore set is only removed by who holds it.                          *)

(* The inductive invariant of the lock of slot s.                          *)
LockInv(s) ==
  /\ \A p, q \in Proc : HoldsSlot(p, s) /\ HoldsSlot(q, s) => p = q
  /\ semAlive => /\ sem[LockSem(s)] <= 1
                 /\ sem[LockSem(s)] = 1 => \A p \in Proc : ~HoldsSlot(p, s)

(* The invariant of all slot locks.                                        *)
SlotInv == \A s \in Slot : LockInv(s)

(* The semaphores of the set are distinct.                                 *)
LEMMA LockSems ==
  ASSUME NEW s \in Slot
  PROVE  /\ LockSem(s) \in SemNum
         /\ LockSem(s) # MasterSem
         /\ \A t \in Slot : HandSem(t) # LockSem(s) /\ (t # s => LockSem(t) # LockSem(s))
  BY PoolAssumption DEF Slot, SemNum, LockSem, MasterSem, HandSem

(* A step that touches neither the lock of s nor its holders.              *)
LEMMA LockKept ==
  ASSUME NEW s \in Slot, LockInv(s), semAlive' => semAlive,
         sem'[LockSem(s)] = sem[LockSem(s)],
         \A q \in Proc : HoldsSlot(q, s)' => HoldsSlot(q, s)
  PROVE  LockInv(s)'
  BY DEF LockInv

(* A step that takes the lock of s.                                        *)
LEMMA LockTaken ==
  ASSUME TypeInv, NEW s \in Slot, LockInv(s), NEW p \in Proc,
         Available(LockSem(s)), semAlive' = semAlive, sem' = Taken(LockSem(s)),
         \A q \in Proc \ {p} : HoldsSlot(q, s)' => HoldsSlot(q, s)
  PROVE  LockInv(s)'
<1>1. sem[LockSem(s)] = 1 /\ sem'[LockSem(s)] = 0 /\ semAlive
  BY LockSems DEF LockInv, Available, Taken, TypeInv, SharedTypeOK
<1>2. \A q \in Proc : ~HoldsSlot(q, s)
  BY <1>1 DEF LockInv
<1> QED BY <1>1, <1>2 DEF LockInv

(* A step of the holder out of slot s.                                     *)
LEMMA LockReleased ==
  ASSUME TypeInv, NEW s \in Slot, LockInv(s), NEW p \in Proc, HoldsSlot(p, s),
         semAlive' = semAlive,
         sem'[LockSem(s)] \in {sem[LockSem(s)], sem[LockSem(s)] + 1},
         \A q \in Proc : HoldsSlot(q, s)' => HoldsSlot(q, s) /\ q # p
  PROVE  LockInv(s)'
<1>1. ASSUME semAlive PROVE sem[LockSem(s)] = 0
  BY <1>1, LockSems, PoolAssumption DEF LockInv, TypeInv, SharedTypeOK
<1>2. \A q \in Proc : ~HoldsSlot(q, s)'
  BY DEF LockInv
<1> QED BY <1>1, <1>2 DEF LockInv

(* What semop(+1) does to the lock of s.                                   *)
LEMMA RaisedLock ==
  ASSUME NEW s \in Slot, NEW ks
  PROVE  /\ Raised(ks)[LockSem(s)] \in {sem[LockSem(s)], sem[LockSem(s)] + 1}
         /\ LockSem(s) \notin ks => Raised(ks)[LockSem(s)] = sem[LockSem(s)]
  BY LockSems DEF Raised

(* semop(-1) on another semaphore leaves the lock of s alone.              *)
LEMMA TakenElsewhere ==
  ASSUME TypeInv, NEW s \in Slot, NEW k, k # LockSem(s)
  PROVE  Taken(k)[LockSem(s)] = sem[LockSem(s)]
  BY LockSems DEF Taken, TypeInv, SharedTypeOK

(* Every step preserves the invariant of the slot locks.                   *)
LEMMA SlotNext ==
  ASSUME Signals = FALSE
  PROVE  TypeInv /\ MasterInv /\ SlotInv /\ [Next]_vars => SlotInv'
<1> SUFFICES ASSUME TypeInv, MasterInv, SlotInv, [Next]_vars,
                    NEW s \in Slot, LockInv(s)
             PROVE  LockInv(s)'
  BY DEF SlotInv

<1>1. ASSUME NEW p \in Proc, Begin(p) PROVE LockInv(s)'
  <2>1. semAlive' => semAlive
    BY <1>1 DEF Begin, kernelSem
  <2>2. sem'[LockSem(s)] = sem[LockSem(s)]
    BY <1>1 DEF Begin, kernelSem
  <2>3. \A q \in Proc : HoldsSlot(q, s)' => HoldsSlot(q, s)
    BY <1>1 DEF Begin, HoldsSlot, Goto, TypeInv, LocalsOK, LocalsTypeOK
  <2> QED BY <2>1, <2>2, <2>3, LockKept
<1>2. ASSUME NEW p \in Proc, FindMaster(p) PROVE LockInv(s)'
  <2>1. semAlive' => semAlive
    BY <1>2 DEF FindMaster, kernelSem
  <2>2. sem'[LockSem(s)] = sem[LockSem(s)]
    BY <1>2 DEF FindMaster, kernelSem
  <2>3. \A q \in Proc : HoldsSlot(q, s)' => HoldsSlot(q, s)
    BY <1>2 DEF FindMaster, HoldsSlot, Goto, Return, TypeInv, LocalsOK,
       LocalsTypeOK, locals
  <2> QED BY <2>1, <2>2, <2>3, LockKept
<1>3. ASSUME NEW p \in Proc, AttachMaster(p) PROVE LockInv(s)'
  <2>1. semAlive' => semAlive
    BY <1>3 DEF AttachMaster, kernelSem
  <2>2. sem'[LockSem(s)] = sem[LockSem(s)]
    BY <1>3 DEF AttachMaster, kernelSem
  <2>3. \A q \in Proc : HoldsSlot(q, s)' => HoldsSlot(q, s)
    BY <1>3 DEF AttachMaster, HoldsSlot, Goto, TypeInv, LocalsOK,
       LocalsTypeOK, locals
  <2> QED BY <2>1, <2>2, <2>3, LockKept
<1>4. ASSUME NEW p \in Proc, AttachMasterFault(p) PROVE LockInv(s)'
  <2>1. semAlive' => semAlive
    BY <1>4 DEF AttachMasterFault, kernelSem, Die
  <2>2. sem'[LockSem(s)] = sem[LockSem(s)]
    BY <1>4 DEF AttachMasterFault, kernelSem, Die
  <2>3. \A q \in Proc : HoldsSlot(q, s)' => HoldsSlot(q, s)
    BY <1>4 DEF AttachMasterFault, HoldsSlot, Goto, Die, TypeInv, LocalsOK,
       LocalsTypeOK, locals
  <2> QED BY <2>1, <2>2, <2>3, LockKept
<1>5. ASSUME NEW p \in Proc, LockMaster(p) PROVE LockInv(s)'
  <2>1. semAlive' => semAlive
    BY <1>5 DEF LockMaster
  <2>2. sem'[LockSem(s)] = sem[LockSem(s)]
    BY <1>5, LockSems, TakenElsewhere DEF LockMaster
  <2>3. \A q \in Proc : HoldsSlot(q, s)' => HoldsSlot(q, s)
    BY <1>5 DEF LockMaster, HoldsSlot, Goto, TypeInv, LocalsOK, LocalsTypeOK,
       locals
  <2> QED BY <2>1, <2>2, <2>3, LockKept
<1>6. ASSUME NEW p \in Proc, LockMasterFails(p) PROVE LockInv(s)'
  <2>1. semAlive' => semAlive
    BY <1>6 DEF LockMasterFails, kernelSem
  <2>2. sem'[LockSem(s)] = sem[LockSem(s)]
    BY <1>6 DEF LockMasterFails, kernelSem
  <2>3. \A q \in Proc : HoldsSlot(q, s)' => HoldsSlot(q, s)
    BY <1>6 DEF LockMasterFails, HoldsSlot, Goto, Return, TypeInv, LocalsOK,
       LocalsTypeOK
  <2> QED BY <2>1, <2>2, <2>3, LockKept
<1>7. ASSUME NEW p \in Proc, FindSlot(p) PROVE LockInv(s)'
  <2>1. semAlive' => semAlive
    BY <1>7 DEF FindSlot, kernelSem
  <2>2. sem'[LockSem(s)] = sem[LockSem(s)]
    BY <1>7 DEF FindSlot, kernelSem
  <2>3. \A q \in Proc : HoldsSlot(q, s)' => HoldsSlot(q, s)
    BY <1>7 DEF FindSlot, HoldsSlot, Goto, TypeInv, LocalsOK, LocalsTypeOK
  <2> QED BY <2>1, <2>2, <2>3, LockKept
<1>8. ASSUME NEW p \in Proc, PickFreeSlot(p) PROVE LockInv(s)'
  <2>1. semAlive' => semAlive
    BY <1>8 DEF PickFreeSlot, kernelSem
  <2>2. sem'[LockSem(s)] = sem[LockSem(s)]
    BY <1>8 DEF PickFreeSlot, kernelSem
  <2>3. \A q \in Proc : HoldsSlot(q, s)' => HoldsSlot(q, s)
    BY <1>8 DEF PickFreeSlot, HoldsSlot, Goto, TypeInv, LocalsOK, LocalsTypeOK
  <2> QED BY <2>1, <2>2, <2>3, LockKept
<1>9. ASSUME NEW p \in Proc, NoSuchSlot(p) PROVE LockInv(s)'
  <2>1. semAlive' => semAlive
    BY <1>9 DEF NoSuchSlot
  <2>2. sem'[LockSem(s)] = sem[LockSem(s)]
    BY <1>9, LockSems, RaisedLock DEF NoSuchSlot
  <2>3. \A q \in Proc : HoldsSlot(q, s)' => HoldsSlot(q, s)
    BY <1>9 DEF NoSuchSlot, HoldsSlot, Goto, Return, TypeInv, LocalsOK,
       LocalsTypeOK
  <2> QED BY <2>1, <2>2, <2>3, LockKept
<1>10. ASSUME NEW p \in Proc, LockSlot(p) PROVE LockInv(s)'
  <2>1. slot[p] \in Slot
    BY <1>10 DEF LockSlot, TypeInv, LocalsOK, LocalOK, SlotLabel
  <2>2. CASE s = slot[p]
    <3>1. \A q \in Proc \ {p} : HoldsSlot(q, s)' => HoldsSlot(q, s)
      BY <1>10 DEF LockSlot, HoldsSlot, Goto, TypeInv, LocalsOK,
         LocalsTypeOK, locals
    <3> QED BY <1>10, <2>2, <3>1, LockTaken DEF LockSlot
  <2>3. CASE s # slot[p]
    <3>1. sem'[LockSem(s)] = sem[LockSem(s)]
      BY <1>10, <2>1, <2>3, LockSems, TakenElsewhere DEF LockSlot
    <3>2. \A q \in Proc : HoldsSlot(q, s)' => HoldsSlot(q, s)
      BY <1>10, <2>3 DEF LockSlot, HoldsSlot, Goto, TypeInv, LocalsOK,
         LocalsTypeOK, locals
    <3> QED BY <1>10, <3>1, <3>2, LockKept DEF LockSlot
  <2> QED BY <2>2, <2>3
<1>11. ASSUME NEW p \in Proc, LockSlotFails(p) PROVE LockInv(s)'
  <2>1. semAlive' => semAlive
    BY <1>11 DEF LockSlotFails
  <2>2. sem'[LockSem(s)] = sem[LockSem(s)]
    BY <1>11, LockSems, RaisedLock DEF LockSlotFails
  <2>3. \A q \in Proc : HoldsSlot(q, s)' => HoldsSlot(q, s)
    BY <1>11 DEF LockSlotFails, HoldsSlot, Goto, Return, TypeInv, LocalsOK,
       LocalsTypeOK
  <2> QED BY <2>1, <2>2, <2>3, LockKept
<1>12. ASSUME NEW p \in Proc, CreateSegment(p) PROVE LockInv(s)'
  <2>1. semAlive' => semAlive
    BY <1>12 DEF CreateSegment, kernelSem
  <2>2. sem'[LockSem(s)] = sem[LockSem(s)]
    BY <1>12 DEF CreateSegment, kernelSem
  <2>3. \A q \in Proc : HoldsSlot(q, s)' => HoldsSlot(q, s)
    BY <1>12 DEF CreateSegment, HoldsSlot, Goto, TypeInv, LocalsOK,
       LocalsTypeOK
  <2> QED BY <2>1, <2>2, <2>3, LockKept
<1>13. ASSUME NEW p \in Proc, CreateSegmentFails(p) PROVE LockInv(s)'
  <2>1. slot[p] \in Slot
    BY <1>13 DEF CreateSegmentFails, TypeInv, LocalsOK, LocalOK, SlotLabel
  <2>2. CASE s = slot[p]
    <3>1. /\ HoldsSlot(p, s) /\ semAlive' = semAlive
          /\ sem'[LockSem(s)] \in {sem[LockSem(s)], sem[LockSem(s)] + 1}
      BY <1>13, <2>2, RaisedLock DEF CreateSegmentFails, HoldsSlot
    <3>2. \A q \in Proc : HoldsSlot(q, s)' => HoldsSlot(q, s) /\ q # p
      BY <1>13 DEF CreateSegmentFails, HoldsSlot, Goto, Return, TypeInv,
         LocalsOK, LocalsTypeOK
    <3> QED BY <3>1, <3>2, LockReleased
  <2>3. CASE s # slot[p]
    <3>1. sem'[LockSem(s)] = sem[LockSem(s)]
      BY <1>13, <2>1, <2>3, LockSems, RaisedLock DEF CreateSegmentFails
    <3>2. \A q \in Proc : HoldsSlot(q, s)' => HoldsSlot(q, s)
      BY <1>13 DEF CreateSegmentFails, HoldsSlot, Goto, Return, TypeInv,
         LocalsOK, LocalsTypeOK
    <3> QED BY <1>13, <3>1, <3>2, LockKept DEF CreateSegmentFails
  <2> QED BY <2>2, <2>3
<1>14. ASSUME NEW p \in Proc, SetEntry(p) PROVE LockInv(s)'
  <2>1. semAlive' => semAlive
    BY <1>14 DEF SetEntry, kernelSem
  <2>2. sem'[LockSem(s)] = sem[LockSem(s)]
    BY <1>14 DEF SetEntry, kernelSem
  <2>3. \A q \in Proc : HoldsSlot(q, s)' => HoldsSlot(q, s)
    BY <1>14 DEF SetEntry, HoldsSlot, Goto, TypeInv, LocalsOK, LocalsTypeOK,
       locals
  <2> QED BY <2>1, <2>2, <2>3, LockKept
<1>15. ASSUME NEW p \in Proc, SnapSlot(p) PROVE LockInv(s)'
  <2>1. semAlive' => semAlive
    BY <1>15 DEF SnapSlot
  <2>2. sem'[LockSem(s)] = sem[LockSem(s)]
    BY <1>15, LockSems, RaisedLock DEF SnapSlot
  <2>3. \A q \in Proc : HoldsSlot(q, s)' => HoldsSlot(q, s)
    BY <1>15 DEF SnapSlot, HoldsSlot, Goto, TypeInv, LocalsOK, LocalsTypeOK
  <2> QED BY <2>1, <2>2, <2>3, LockKept
<1>16. ASSUME NEW p \in Proc, AttachSegment(p) PROVE LockInv(s)'
  <2>1. semAlive' => semAlive
    BY <1>16 DEF AttachSegment, kernelSem
  <2>2. sem'[LockSem(s)] = sem[LockSem(s)]
    BY <1>16 DEF AttachSegment, kernelSem
  <2>3. \A q \in Proc : HoldsSlot(q, s)' => HoldsSlot(q, s)
    BY <1>16 DEF AttachSegment, HoldsSlot, Goto, TypeInv, LocalsOK,
       LocalsTypeOK, locals
  <2> QED BY <2>1, <2>2, <2>3, LockKept
<1>17. ASSUME NEW p \in Proc, AttachSegmentFails(p) PROVE LockInv(s)'
  <2>1. slot[p] \in Slot
    BY <1>17 DEF AttachSegmentFails, TypeInv, LocalsOK, LocalOK, SlotLabel
  <2>2. CASE s = slot[p]
    <3>1. /\ HoldsSlot(p, s) /\ semAlive' = semAlive
          /\ sem'[LockSem(s)] \in {sem[LockSem(s)], sem[LockSem(s)] + 1}
      BY <1>17, <2>2, RaisedLock DEF AttachSegmentFails, HoldsSlot
    <3>2. \A q \in Proc : HoldsSlot(q, s)' => HoldsSlot(q, s) /\ q # p
      BY <1>17 DEF AttachSegmentFails, HoldsSlot, Goto, Return, TypeInv,
         LocalsOK, LocalsTypeOK
    <3> QED BY <3>1, <3>2, LockReleased
  <2>3. CASE s # slot[p]
    <3>1. sem'[LockSem(s)] = sem[LockSem(s)]
      BY <1>17, <2>1, <2>3, LockSems, RaisedLock DEF AttachSegmentFails
    <3>2. \A q \in Proc : HoldsSlot(q, s)' => HoldsSlot(q, s)
      BY <1>17 DEF AttachSegmentFails, HoldsSlot, Goto, Return, TypeInv,
         LocalsOK, LocalsTypeOK
    <3> QED BY <1>17, <3>1, <3>2, LockKept DEF AttachSegmentFails
  <2> QED BY <2>2, <2>3
<1>18. ASSUME NEW p \in Proc, FillHeader(p) PROVE LockInv(s)'
  <2>1. semAlive' => semAlive
    BY <1>18 DEF FillHeader, kernelSem
  <2>2. sem'[LockSem(s)] = sem[LockSem(s)]
    BY <1>18 DEF FillHeader, kernelSem
  <2>3. \A q \in Proc : HoldsSlot(q, s)' => HoldsSlot(q, s)
    BY <1>18 DEF FillHeader, HoldsSlot, Goto, TypeInv, LocalsOK,
       LocalsTypeOK, locals
  <2> QED BY <2>1, <2>2, <2>3, LockKept
<1>19. ASSUME NEW p \in Proc, CheckHeader(p) PROVE LockInv(s)'
  <2>1. semAlive' => semAlive
    BY <1>19 DEF CheckHeader, kernelSem
  <2>2. sem'[LockSem(s)] = sem[LockSem(s)]
    BY <1>19 DEF CheckHeader, kernelSem
  <2>3. \A q \in Proc : HoldsSlot(q, s)' => HoldsSlot(q, s)
    BY <1>19 DEF CheckHeader, HoldsSlot, Goto, TypeInv, LocalsOK,
       LocalsTypeOK, locals
  <2> QED BY <2>1, <2>2, <2>3, LockKept
<1>20. ASSUME NEW p \in Proc, RefuseMisfit(p) PROVE LockInv(s)'
  <2>1. slot[p] \in Slot
    BY <1>20 DEF RefuseMisfit, TypeInv, LocalsOK, LocalOK, SlotLabel
  <2>2. CASE s = slot[p]
    <3>1. /\ HoldsSlot(p, s) /\ semAlive' = semAlive
          /\ sem'[LockSem(s)] \in {sem[LockSem(s)], sem[LockSem(s)] + 1}
      BY <1>20, <2>2, RaisedLock DEF RefuseMisfit, HoldsSlot
    <3>2. \A q \in Proc : HoldsSlot(q, s)' => HoldsSlot(q, s) /\ q # p
      BY <1>20 DEF RefuseMisfit, HoldsSlot, Goto, Return, TypeInv, LocalsOK,
         LocalsTypeOK
    <3> QED BY <3>1, <3>2, LockReleased
  <2>3. CASE s # slot[p]
    <3>1. sem'[LockSem(s)] = sem[LockSem(s)]
      BY <1>20, <2>1, <2>3, LockSems, RaisedLock DEF RefuseMisfit
    <3>2. \A q \in Proc : HoldsSlot(q, s)' => HoldsSlot(q, s)
      BY <1>20 DEF RefuseMisfit, HoldsSlot, Goto, Return, TypeInv, LocalsOK,
         LocalsTypeOK
    <3> QED BY <1>20, <3>1, <3>2, LockKept DEF RefuseMisfit
  <2> QED BY <2>2, <2>3
<1>21. ASSUME NEW p \in Proc, ReadHeader(p) PROVE LockInv(s)'
  <2>1. semAlive' => semAlive
    BY <1>21 DEF ReadHeader, kernelSem
  <2>2. sem'[LockSem(s)] = sem[LockSem(s)]
    BY <1>21 DEF ReadHeader, kernelSem
  <2>3. \A q \in Proc : HoldsSlot(q, s)' => HoldsSlot(q, s)
    BY <1>21 DEF ReadHeader, HoldsSlot, Goto, TypeInv, LocalsOK, LocalsTypeOK
  <2> QED BY <2>1, <2>2, <2>3, LockKept
<1>22. ASSUME NEW p \in Proc, CopyFirstHalf(p) PROVE LockInv(s)'
  <2>1. semAlive' => semAlive
    BY <1>22 DEF CopyFirstHalf, kernelSem
  <2>2. sem'[LockSem(s)] = sem[LockSem(s)]
    BY <1>22 DEF CopyFirstHalf, kernelSem
  <2>3. \A q \in Proc : HoldsSlot(q, s)' => HoldsSlot(q, s)
    BY <1>22 DEF CopyFirstHalf, HoldsSlot, Goto, TypeInv, LocalsOK,
       LocalsTypeOK
  <2> QED BY <2>1, <2>2, <2>3, LockKept
<1>23. ASSUME NEW p \in Proc, CopySecondHalf(p) PROVE LockInv(s)'
  <2>1. semAlive' => semAlive
    BY <1>23 DEF CopySecondHalf, kernelSem
  <2>2. sem'[LockSem(s)] = sem[LockSem(s)]
    BY <1>23 DEF CopySecondHalf, kernelSem
  <2>3. \A q \in Proc : HoldsSlot(q, s)' => HoldsSlot(q, s)
    BY <1>23 DEF CopySecondHalf, HoldsSlot, Goto, TypeInv, LocalsOK,
       LocalsTypeOK
  <2> QED BY <2>1, <2>2, <2>3, LockKept
<1>24. ASSUME NEW p \in Proc, ReleaseSnapshot(p) PROVE LockInv(s)'
  <2>1. slot[p] \in Slot
    BY <1>24 DEF ReleaseSnapshot, TypeInv, LocalsOK, LocalOK, SlotLabel
  <2>2. CASE s = slot[p]
    <3>1. /\ HoldsSlot(p, s) /\ semAlive' = semAlive
          /\ sem'[LockSem(s)] \in {sem[LockSem(s)], sem[LockSem(s)] + 1}
      BY <1>24, <2>2, RaisedLock DEF ReleaseSnapshot, HoldsSlot
    <3>2. \A q \in Proc : HoldsSlot(q, s)' => HoldsSlot(q, s) /\ q # p
      BY <1>24 DEF ReleaseSnapshot, HoldsSlot, Goto, Return, TypeInv,
         LocalsOK, LocalsTypeOK, locals
    <3> QED BY <3>1, <3>2, LockReleased
  <2>3. CASE s # slot[p]
    <3>1. sem'[LockSem(s)] = sem[LockSem(s)]
      BY <1>24, <2>1, <2>3, LockSems, RaisedLock DEF ReleaseSnapshot
    <3>2. \A q \in Proc : HoldsSlot(q, s)' => HoldsSlot(q, s)
      BY <1>24 DEF ReleaseSnapshot, HoldsSlot, Goto, Return, TypeInv,
         LocalsOK, LocalsTypeOK, locals
    <3> QED BY <1>24, <3>1, <3>2, LockKept DEF ReleaseSnapshot
  <2> QED BY <2>2, <2>3
<1>25. ASSUME NEW p \in Proc, CountSubscribers(p) PROVE LockInv(s)'
  <2>1. semAlive' => semAlive
    BY <1>25 DEF CountSubscribers, kernelSem
  <2>2. sem'[LockSem(s)] = sem[LockSem(s)]
    BY <1>25 DEF CountSubscribers, kernelSem
  <2>3. \A q \in Proc : HoldsSlot(q, s)' => HoldsSlot(q, s)
    BY <1>25 DEF CountSubscribers, HoldsSlot, Goto, TypeInv, LocalsOK,
       LocalsTypeOK
  <2> QED BY <2>1, <2>2, <2>3, LockKept
<1>26. ASSUME NEW p \in Proc, PublishToSubscribers(p) PROVE LockInv(s)'
  <2>1. semAlive' => semAlive
    BY <1>26 DEF PublishToSubscribers
  <2>2. sem'[LockSem(s)] = sem[LockSem(s)]
    <3>1. HandSem(slot[p]) # LockSem(s)
      BY <1>26, LockSems DEF PublishToSubscribers, TypeInv, LocalsOK,
         LocalOK, SlotLabel
    <3> QED
      BY <1>26, <3>1, LockSems DEF PublishToSubscribers, TypeInv, SharedTypeOK
  <2>3. \A q \in Proc : HoldsSlot(q, s)' => HoldsSlot(q, s)
    BY <1>26 DEF PublishToSubscribers, HoldsSlot, TypeInv, LocalsOK,
       LocalsTypeOK, locals
  <2> QED BY <2>1, <2>2, <2>3, LockKept
<1>27. ASSUME NEW p \in Proc, PublishToNobody(p) PROVE LockInv(s)'
  <2>1. semAlive' => semAlive
    BY <1>27 DEF PublishToNobody, kernelSem
  <2>2. sem'[LockSem(s)] = sem[LockSem(s)]
    BY <1>27 DEF PublishToNobody, kernelSem
  <2>3. \A q \in Proc : HoldsSlot(q, s)' => HoldsSlot(q, s)
    BY <1>27 DEF PublishToNobody, HoldsSlot, Goto, TypeInv, LocalsOK,
       LocalsTypeOK, locals
  <2> QED BY <2>1, <2>2, <2>3, LockKept
<1>28. ASSUME NEW p \in Proc, PublishFails(p) PROVE LockInv(s)'
  <2>1. semAlive' => semAlive
    BY <1>28 DEF PublishFails, kernelSem
  <2>2. sem'[LockSem(s)] = sem[LockSem(s)]
    BY <1>28 DEF PublishFails, kernelSem
  <2>3. \A q \in Proc : HoldsSlot(q, s)' => HoldsSlot(q, s)
    BY <1>28 DEF PublishFails, HoldsSlot, Goto, Return, TypeInv, LocalsOK,
       LocalsTypeOK
  <2> QED BY <2>1, <2>2, <2>3, LockKept
<1>29. ASSUME NEW p \in Proc, Acknowledged(p) PROVE LockInv(s)'
  <2>1. semAlive' => semAlive
    BY <1>29 DEF Acknowledged, kernelSem
  <2>2. sem'[LockSem(s)] = sem[LockSem(s)]
    BY <1>29 DEF Acknowledged, kernelSem
  <2>3. \A q \in Proc : HoldsSlot(q, s)' => HoldsSlot(q, s)
    BY <1>29 DEF Acknowledged, HoldsSlot, Goto, Return, TypeInv, LocalsOK,
       LocalsTypeOK
  <2> QED BY <2>1, <2>2, <2>3, LockKept
<1>30. ASSUME NEW p \in Proc, SnapSubscription(p) PROVE LockInv(s)'
  <2>1. semAlive' => semAlive
    BY <1>30 DEF SnapSubscription
  <2>2. sem'[LockSem(s)] = sem[LockSem(s)]
    BY <1>30, LockSems, RaisedLock DEF SnapSubscription
  <2>3. \A q \in Proc : HoldsSlot(q, s)' => HoldsSlot(q, s)
    BY <1>30 DEF SnapSubscription, HoldsSlot, Goto, TypeInv, LocalsOK,
       LocalsTypeOK
  <2> QED BY <2>1, <2>2, <2>3, LockKept
<1>31. ASSUME NEW p \in Proc, Subscribe(p) PROVE LockInv(s)'
  <2>1. semAlive' => semAlive
    BY <1>31 DEF Subscribe
  <2>2. sem'[LockSem(s)] = sem[LockSem(s)]
    <3>1. HandSem(slot[p]) # LockSem(s)
      BY <1>31, LockSems DEF Subscribe, TypeInv, LocalsOK, LocalOK, SlotLabel
    <3> QED BY <1>31, <3>1, TakenElsewhere DEF Subscribe
  <2>3. \A q \in Proc : HoldsSlot(q, s)' => HoldsSlot(q, s)
    BY <1>31 DEF Subscribe, HoldsSlot, Goto, TypeInv, LocalsOK, LocalsTypeOK,
       locals
  <2> QED BY <2>1, <2>2, <2>3, LockKept
<1>32. ASSUME NEW p \in Proc, SubscribeFails(p) PROVE LockInv(s)'
  <2>1. semAlive' => semAlive
    BY <1>32 DEF SubscribeFails, kernelSem
  <2>2. sem'[LockSem(s)] = sem[LockSem(s)]
    BY <1>32 DEF SubscribeFails, kernelSem
  <2>3. \A q \in Proc : HoldsSlot(q, s)' => HoldsSlot(q, s)
    BY <1>32 DEF SubscribeFails, HoldsSlot, Goto, Return, TypeInv, LocalsOK,
       LocalsTypeOK
  <2> QED BY <2>1, <2>2, <2>3, LockKept
<1>33. ASSUME NEW p \in Proc, LockSnapshot(p) PROVE LockInv(s)'
  <2>1. slot[p] \in Slot
    BY <1>33 DEF LockSnapshot, TypeInv, LocalsOK, LocalOK, SlotLabel
  <2>2. CASE s = slot[p]
    <3>1. \A q \in Proc \ {p} : HoldsSlot(q, s)' => HoldsSlot(q, s)
      BY <1>33 DEF LockSnapshot, HoldsSlot, Goto, TypeInv, LocalsOK,
         LocalsTypeOK, locals
    <3> QED BY <1>33, <2>2, <3>1, LockTaken DEF LockSnapshot
  <2>3. CASE s # slot[p]
    <3>1. sem'[LockSem(s)] = sem[LockSem(s)]
      BY <1>33, <2>1, <2>3, LockSems, TakenElsewhere DEF LockSnapshot
    <3>2. \A q \in Proc : HoldsSlot(q, s)' => HoldsSlot(q, s)
      BY <1>33, <2>3 DEF LockSnapshot, HoldsSlot, Goto, TypeInv, LocalsOK,
         LocalsTypeOK, locals
    <3> QED BY <1>33, <3>1, <3>2, LockKept DEF LockSnapshot
  <2> QED BY <2>2, <2>3
<1>34. ASSUME NEW p \in Proc, LockSnapshotFails(p) PROVE LockInv(s)'
  <2>1. semAlive' => semAlive
    BY <1>34 DEF LockSnapshotFails, kernelSem
  <2>2. sem'[LockSem(s)] = sem[LockSem(s)]
    BY <1>34 DEF LockSnapshotFails, kernelSem
  <2>3. \A q \in Proc : HoldsSlot(q, s)' => HoldsSlot(q, s)
    BY <1>34 DEF LockSnapshotFails, HoldsSlot, Goto, Return, TypeInv,
       LocalsOK, LocalsTypeOK
  <2> QED BY <2>1, <2>2, <2>3, LockKept
<1>35. ASSUME NEW p \in Proc, FindSlotToFree(p) PROVE LockInv(s)'
  <2>1. semAlive' => semAlive
    BY <1>35 DEF FindSlotToFree, kernelSem
  <2>2. sem'[LockSem(s)] = sem[LockSem(s)]
    BY <1>35 DEF FindSlotToFree, kernelSem
  <2>3. \A q \in Proc : HoldsSlot(q, s)' => HoldsSlot(q, s)
    BY <1>35 DEF FindSlotToFree, HoldsSlot, Goto, TypeInv, LocalsOK,
       LocalsTypeOK
  <2> QED BY <2>1, <2>2, <2>3, LockKept
<1>36. ASSUME NEW p \in Proc, ScanUsed(p) PROVE LockInv(s)'
  <2>1. semAlive' => semAlive
    BY <1>36 DEF ScanUsed, kernelSem
  <2>2. sem'[LockSem(s)] = sem[LockSem(s)]
    BY <1>36 DEF ScanUsed, kernelSem
  <2>3. \A q \in Proc : HoldsSlot(q, s)' => HoldsSlot(q, s)
    BY <1>36 DEF ScanUsed, HoldsSlot, Goto, TypeInv, LocalsOK, LocalsTypeOK,
       locals
  <2> QED BY <2>1, <2>2, <2>3, LockKept
<1>37. ASSUME NEW p \in Proc, ScanFree(p) PROVE LockInv(s)'
  <2>1. semAlive' => semAlive
    BY <1>37 DEF ScanFree, kernelSem
  <2>2. sem'[LockSem(s)] = sem[LockSem(s)]
    BY <1>37 DEF ScanFree, kernelSem
  <2>3. \A q \in Proc : HoldsSlot(q, s)' => HoldsSlot(q, s)
    BY <1>37 DEF ScanFree, HoldsSlot, TypeInv, LocalsOK, LocalsTypeOK
  <2> QED BY <2>1, <2>2, <2>3, LockKept
<1>38. ASSUME NEW p \in Proc, LockUsed(p) PROVE LockInv(s)'
  <2>1. slot[p] \in Slot
    BY <1>38 DEF LockUsed, TypeInv, LocalsOK, LocalOK, SlotLabel
  <2>2. CASE s = slot[p]
    <3>1. \A q \in Proc \ {p} : HoldsSlot(q, s)' => HoldsSlot(q, s)
      BY <1>38 DEF LockUsed, HoldsSlot, Goto, TypeInv, LocalsOK,
         LocalsTypeOK, locals
    <3> QED BY <1>38, <2>2, <3>1, LockTaken DEF LockUsed
  <2>3. CASE s # slot[p]
    <3>1. sem'[LockSem(s)] = sem[LockSem(s)]
      BY <1>38, <2>1, <2>3, LockSems, TakenElsewhere DEF LockUsed
    <3>2. \A q \in Proc : HoldsSlot(q, s)' => HoldsSlot(q, s)
      BY <1>38, <2>3 DEF LockUsed, HoldsSlot, Goto, TypeInv, LocalsOK,
         LocalsTypeOK, locals
    <3> QED BY <1>38, <3>1, <3>2, LockKept DEF LockUsed
  <2> QED BY <2>2, <2>3
<1>39. ASSUME NEW p \in Proc, LockUsedIgnored(p) PROVE LockInv(s)'
  <2>1. semAlive
    BY <1>39 DEF LockUsedIgnored, MasterInv, AtTable, HoldsMaster
  <2>2. ~semAlive
    BY <1>39 DEF LockUsedIgnored, SemopFails
  <2> QED BY <2>1, <2>2
<1>40. ASSUME NEW p \in Proc, InfoRead(p) PROVE LockInv(s)'
  <2>1. slot[p] \in Slot
    BY <1>40 DEF InfoRead, TypeInv, LocalsOK, LocalOK, SlotLabel
  <2>2. CASE s = slot[p]
    <3>1. /\ HoldsSlot(p, s) /\ semAlive' = semAlive
          /\ sem'[LockSem(s)] \in {sem[LockSem(s)], sem[LockSem(s)] + 1}
      BY <1>40, <2>2, RaisedLock DEF InfoRead, HoldsSlot
    <3>2. \A q \in Proc : HoldsSlot(q, s)' => HoldsSlot(q, s) /\ q # p
      BY <1>40 DEF InfoRead, HoldsSlot, Goto, TypeInv, LocalsOK, LocalsTypeOK
    <3> QED BY <3>1, <3>2, LockReleased
  <2>3. CASE s # slot[p]
    <3>1. sem'[LockSem(s)] = sem[LockSem(s)]
      BY <1>40, <2>1, <2>3, LockSems, RaisedLock DEF InfoRead
    <3>2. \A q \in Proc : HoldsSlot(q, s)' => HoldsSlot(q, s)
      BY <1>40 DEF InfoRead, HoldsSlot, Goto, TypeInv, LocalsOK, LocalsTypeOK
    <3> QED BY <1>40, <3>1, <3>2, LockKept DEF InfoRead
  <2> QED BY <2>2, <2>3
<1>41. ASSUME NEW p \in Proc, InfoFault(p) PROVE LockInv(s)'
  <2>1. semAlive' => semAlive
    BY <1>41 DEF InfoFault, kernelSem, Die
  <2>2. sem'[LockSem(s)] = sem[LockSem(s)]
    BY <1>41 DEF InfoFault, kernelSem, Die
  <2>3. \A q \in Proc : HoldsSlot(q, s)' => HoldsSlot(q, s)
    BY <1>41 DEF InfoFault, HoldsSlot, Goto, Die, TypeInv, LocalsOK,
       LocalsTypeOK, locals
  <2> QED BY <2>1, <2>2, <2>3, LockKept
<1>42. ASSUME NEW p \in Proc, RemoveSegment(p) PROVE LockInv(s)'
  <2>1. semAlive' => semAlive
    BY <1>42 DEF RemoveSegment, kernelSem
  <2>2. sem'[LockSem(s)] = sem[LockSem(s)]
    BY <1>42 DEF RemoveSegment, kernelSem
  <2>3. \A q \in Proc : HoldsSlot(q, s)' => HoldsSlot(q, s)
    BY <1>42 DEF RemoveSegment, HoldsSlot, Goto, TypeInv, LocalsOK,
       LocalsTypeOK, locals
  <2> QED BY <2>1, <2>2, <2>3, LockKept
<1>43. ASSUME NEW p \in Proc, ClearEntry(p) PROVE LockInv(s)'
  <2>1. slot[p] \in Slot
    BY <1>43 DEF ClearEntry, TypeInv, LocalsOK, LocalOK, SlotLabel
  <2>2. CASE s = slot[p]
    <3>1. /\ HoldsSlot(p, s) /\ semAlive' = semAlive
          /\ sem'[LockSem(s)] \in {sem[LockSem(s)], sem[LockSem(s)] + 1}
      BY <1>43, <2>2, RaisedLock DEF ClearEntry, HoldsSlot
    <3>2. \A q \in Proc : HoldsSlot(q, s)' => HoldsSlot(q, s) /\ q # p
      BY <1>43 DEF ClearEntry, HoldsSlot, Goto, Return, TypeInv, LocalsOK,
         LocalsTypeOK
    <3> QED BY <3>1, <3>2, LockReleased
  <2>3. CASE s # slot[p]
    <3>1. sem'[LockSem(s)] = sem[LockSem(s)]
      BY <1>43, <2>1, <2>3, LockSems, RaisedLock DEF ClearEntry
    <3>2. \A q \in Proc : HoldsSlot(q, s)' => HoldsSlot(q, s)
      BY <1>43 DEF ClearEntry, HoldsSlot, Goto, Return, TypeInv, LocalsOK,
         LocalsTypeOK
    <3> QED BY <1>43, <3>1, <3>2, LockKept DEF ClearEntry
  <2> QED BY <2>2, <2>3
<1>44. ASSUME NEW p \in Proc, InfoReturns(p) PROVE LockInv(s)'
  <2>1. semAlive' => semAlive
    BY <1>44 DEF InfoReturns
  <2>2. sem'[LockSem(s)] = sem[LockSem(s)]
    BY <1>44, LockSems, RaisedLock DEF InfoReturns
  <2>3. \A q \in Proc : HoldsSlot(q, s)' => HoldsSlot(q, s)
    BY <1>44 DEF InfoReturns, HoldsSlot, Goto, Return, TypeInv, LocalsOK,
       LocalsTypeOK
  <2> QED BY <2>1, <2>2, <2>3, LockKept
<1>45. ASSUME NEW p \in Proc, RemoveSemaphores(p) PROVE LockInv(s)'
  <2>1. semAlive' => semAlive
    BY <1>45 DEF RemoveSemaphores
  <2>2. sem'[LockSem(s)] = sem[LockSem(s)]
    BY <1>45 DEF RemoveSemaphores
  <2>3. \A q \in Proc : HoldsSlot(q, s)' => HoldsSlot(q, s)
    BY <1>45 DEF RemoveSemaphores, HoldsSlot, Goto, TypeInv, LocalsOK,
       LocalsTypeOK, locals
  <2> QED BY <2>1, <2>2, <2>3, LockKept
<1>46. ASSUME NEW p \in Proc, RemoveMaster(p) PROVE LockInv(s)'
  <2>1. semAlive' => semAlive
    BY <1>46 DEF RemoveMaster, kernelSem
  <2>2. sem'[LockSem(s)] = sem[LockSem(s)]
    BY <1>46 DEF RemoveMaster, kernelSem
  <2>3. \A q \in Proc : HoldsSlot(q, s)' => HoldsSlot(q, s)
    BY <1>46 DEF RemoveMaster, HoldsSlot, Goto, Return, TypeInv, LocalsOK,
       LocalsTypeOK
  <2> QED BY <2>1, <2>2, <2>3, LockKept
<1>47. CASE UNCHANGED vars
  BY <1>47, LockKept DEF vars, kernelSem, locals, HoldsSlot
<1> QED
  BY <1>1, <1>2, <1>3, <1>4, <1>5, <1>6, <1>7, <1>8, <1>9, <1>10, <1>11, <1>12,
     <1>13, <1>14, <1>15, <1>16, <1>17, <1>18, <1>19, <1>20, <1>21, <1>22,
     <1>23, <1>24, <1>25, <1>26, <1>27, <1>28, <1>29, <1>30, <1>31, <1>32,
     <1>33, <1>34, <1>35, <1>36, <1>37, <1>38, <1>39, <1>40, <1>41, <1>42,
     <1>43, <1>44, <1>45, <1>46, <1>47 DEF Next, Step

(* Where no signal interrupts semop, two processes are never in one slot   *)
(* at once: readers and writers copy under the lock that shm_free,         *)
(* shm_info and shm_cleanup take, whatever becomes of the pool meanwhile.  *)
THEOREM SlotExclusion == ASSUME Signals = FALSE PROVE Spec => []SlotExclusive
<1>1. Init => MasterInv
  BY PoolAssumption DEF Init, MasterInv, MasterExclusive, AtTable,
     HoldsMaster, MasterSem, SemNum
<1>2. Init => SlotInv
  BY PoolAssumption DEF Init, SlotInv, LockInv, HoldsSlot, LockSem, SemNum,
     Slot
<1>3. SlotInv => SlotExclusive
  BY DEF SlotInv, LockInv, SlotExclusive
<1> QED
  BY TypeInit, TypeNext, MasterNext, SlotNext, <1>1, <1>2, <1>3, PTL DEF Spec
==============================================================================
