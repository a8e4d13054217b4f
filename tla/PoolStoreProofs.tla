--------------------------- MODULE PoolStoreProofs ---------------------------
(***************************************************************************)
(* Theorems about what the pool promises those who call it, on top of      *)
(* ShmTableProofs: a read answers an array that was written under the name *)
(* in one of the two languages; and writes, reads and frees are atomic     *)
(* steps on a map from names to arrays (SlotStore).                        *)
(***************************************************************************)
EXTENDS PoolStore, PoolBindings, ShmTableProofs

-----------------------------------------------------------------------------
(* WHERE WHAT IS READ COMES FROM.                                          *)

(* The arrays that are written under a name.                               *)
WrittenAs(id) ==
  UNION {{c.arr : c \in {d \in Call[q] : d.op = "write" /\ d.id = id}} : q \in Proc}

(* The payload of m, if there is any, is of an array with the header of m  *)
(* that was written under the name.                                        *)
Origin(id, m) ==
  m.lo = NoData \/ [typeID |-> m.typeID, number |-> m.number, data |-> m.lo] \in WrittenAs(id)

(* The segment a call works on, which has no other name.                   *)
KnownAs(p) ==
  Snapped(p) =>
    /\ Origin(call[p].id, mem[shm[p]])
    /\ \A s \in Slot : entry[s].slot_shmid = shm[p] => entry[s].desc = call[p].id
    /\ \A q \in Proc : Snapped(q) /\ shm[q] = shm[p] => call[q].id = call[p].id

(* What the call itself does with it.                                      *)
OwnCopy(p) ==
  /\ create[p] /\ pc[p] \in {"set_entry", "snap_slot", "shmat_slot", "header"} =>
       mem[shm[p]].lo = NoData
  /\ call[p].op = "write" /\ pc[p] \in {"memcpy", "memcpy_rest"} =>
       /\ mem[shm[p]].typeID = call[p].arr.typeID
       /\ mem[shm[p]].number = call[p].arr.number
  /\ call[p].op = "read" /\ pc[p] \in {"memcpy_rest", "release"} =>
       Origin(call[p].id, buf[p])

OriginInv ==
  /\ \A s \in Slot : entry[s].slot_shmid # NoShm =>
                       Origin(entry[s].desc, mem[entry[s].slot_shmid])
  /\ \A p \in Proc : KnownAs(p) /\ OwnCopy(p)
                     /\ (pc[p] = "set_entry" => ~Used(shm[p]))

-----------------------------------------------------------------------------
(* What the claim needs of the calls that are made: an array that is       *)
(* written has a payload, no two arrays of one type, rank and size but of  *)
(* different shape are written under one name (a write keeps the           *)
(* dimensions it finds), and what is written is what a language hands      *)
(* over.  Python hands over scalars and vectors as they are.               *)
PayloadsWritten == \A a \in Array : a.data # NoData
OneShape ==
  \A id \in Id : \A a, b \in WrittenAs(id) : Fits(a, b) => a.number = b.number
Handed == \A p \in Proc : \A c \in Call[p] : c.op = "write" => c.arr \in SlotArrays(p, c.id)
PythonWritesVectors ==
  \A p \in Proc : Lang[p] = "python" =>
    \A id \in DOMAIN Source[p] : \A a \in Source[p][id] : Len(a.number) <= 1

(* What a call is writing is one of the arrays written under the name.     *)
LEMMA ArrayWritten ==
  ASSUME TypeInv, TableInv, NEW p \in Proc, call[p].op = "write", pc[p] # "idle"
  PROVE  /\ call[p].id \in Id /\ call[p].arr \in WrittenAs(call[p].id)
         /\ call[p].arr = [typeID |-> call[p].arr.typeID, number |-> call[p].arr.number,
                           data |-> call[p].arr.data]
<1>1. call[p] \in Call[p]
  BY DEF TableInv, TableLocal
<1>2. call[p].id \in Id /\ call[p].arr \in Array
  BY <1>1, CallFields
<1>3. call[p].arr \in WrittenAs(call[p].id)
  BY <1>1 DEF WrittenAs
<1>4. call[p].arr \in [typeID : 0 .. 5, number : Seq(Nat), data : Data]
  BY <1>2, PoolAssumption
<1> QED BY <1>2, <1>3, <1>4

(* A step that stores nothing and takes no segment up.                     *)
LEMMA OriginAside ==
  ASSUME TypeInv, TableInv, SegInv, OriginInv, NEW p \in Proc, Others(p), mem' = mem,
         \A s \in Slot : entry'[s] = entry[s] \/ entry'[s].slot_shmid = NoShm,
         Snapped(p)' => Snapped(p) /\ shm'[p] = shm[p] /\ call'[p] = call[p],
         pc'[p] # "set_entry", OwnCopy(p)'
  PROVE  OriginInv'
<1>1. \A q \in Proc : Snapped(q)' => Snapped(q) /\ shm'[q] = shm[q] /\ call'[q] = call[q]
  BY DEF Snapped, Others
<1>2. \A s \in Slot : entry'[s].slot_shmid # NoShm => entry'[s] = entry[s]
  OBVIOUS
<1>3. ASSUME NEW s \in Slot, entry'[s].slot_shmid # NoShm
      PROVE  Origin(entry'[s].desc, mem'[entry'[s].slot_shmid])
  BY <1>2, <1>3 DEF OriginInv
<1>4. ASSUME NEW q \in Proc PROVE KnownAs(q)'
  <2> SUFFICES ASSUME Snapped(q)' PROVE KnownAs(q)'
    BY DEF KnownAs
  <2>1. Snapped(q) /\ shm'[q] = shm[q] /\ call'[q] = call[q] /\ shm[q] # NoShm
    BY <1>1, PoolAssumption DEF SegInv, SegLocal
  <2> QED BY <1>1, <1>2, <2>1 DEF OriginInv, KnownAs
<1>5. ASSUME NEW q \in Proc \ {p} PROVE OwnCopy(q)'
  BY DEF OriginInv, OwnCopy, Others
<1>6. ASSUME NEW q \in Proc \ {p}, pc'[q] = "set_entry" PROVE ~Used(shm[q])'
  <2>1. pc[q] = "set_entry" /\ shm'[q] = shm[q]
    BY <1>6 DEF Others
  <2>2. shm[q] # NoShm
    BY <2>1, PoolAssumption DEF TableInv, TableLocal
  <2> QED BY <1>1, <1>2, <2>1, <2>2 DEF OriginInv, Used
<1> QED BY <1>3, <1>4, <1>5, <1>6 DEF OriginInv

(* A step that takes up the segment of an entry.                           *)
LEMMA OriginTaken ==
  ASSUME TypeInv, TableInv, SegInv, OriginInv, NEW p \in Proc, Others(p), mem' = mem,
         entry' = entry, ~Snapped(p), NEW t \in Slot, entry[t].slot_shmid # NoShm,
         entry[t].desc = call[p].id, shm'[p] = entry[t].slot_shmid, call'[p] = call[p],
         pc'[p] # "set_entry", OwnCopy(p)'
  PROVE  OriginInv'
<1> DEFINE i == entry[t].slot_shmid
<1>1. \A q \in Proc \ {p} : (Snapped(q)' => Snapped(q)) /\ shm'[q] = shm[q] /\ call'[q] = call[q]
  BY DEF Snapped, Others
<1>2. \A s \in Slot : entry[s].slot_shmid = i => s = t
  BY DEF TableInv, Entries
<1>3. Origin(call[p].id, mem[i])
  BY DEF OriginInv
<1>4. \A q \in Proc \ {p} : Snapped(q)' /\ shm'[q] = i => call'[q].id = call[p].id
  BY <1>1 DEF OriginInv, KnownAs
<1>5. KnownAs(p)'
  BY <1>2, <1>3, <1>4 DEF KnownAs
<1>6. ASSUME NEW q \in Proc \ {p} PROVE KnownAs(q)'
  BY <1>1, <1>4 DEF OriginInv, KnownAs
<1>7. ASSUME NEW q \in Proc \ {p} PROVE OwnCopy(q)'
  BY DEF OriginInv, OwnCopy, Others
<1>8. ASSUME NEW q \in Proc \ {p}, pc'[q] = "set_entry" PROVE ~Used(shm[q])'
  <2>1. pc[q] = "set_entry" /\ shm'[q] = shm[q]
    BY <1>8 DEF Others
  <2>2. shm[q] # i
    BY <2>1 DEF OriginInv, Used
  <2> QED BY <1>1, <2>1, <2>2 DEF OriginInv, Used
<1> QED BY <1>5, <1>6, <1>7, <1>8 DEF OriginInv

(* A step that stores into the segment the call is working on.             *)
LEMMA OriginStored ==
  ASSUME TypeInv, MasterInv, SlotInv, TableInv, SegInv, OriginInv, NEW p \in Proc, Others(p),
         pc[p] \in SnapLabel, Snapped(p)', entry' = entry, shm' = shm, call' = call,
         \A i \in ShmId : i # shm[p] => mem'[i] = mem[i],
         Origin(call[p].id, mem'[shm[p]]), pc'[p] # "set_entry", OwnCopy(p)'
  PROVE  OriginInv'
<1>1. Snapped(p) /\ shm[p] \in ShmId
  BY DEF Snapped, SegInv, SegLocal
<1>2. \A q \in Proc : Snapped(q)' => Snapped(q)
  BY <1>1 DEF Snapped, Others
<1>3. ASSUME NEW s \in Slot, entry'[s].slot_shmid # NoShm
      PROVE  Origin(entry'[s].desc, mem'[entry'[s].slot_shmid])
  <2>1. entry[s].slot_shmid \in ShmId
    BY <1>3 DEF TypeInv, SharedTypeOK
  <2>2. CASE entry[s].slot_shmid = shm[p]
    BY <1>1, <2>2 DEF OriginInv, KnownAs
  <2>3. CASE entry[s].slot_shmid # shm[p]
    BY <1>3, <2>1, <2>3 DEF OriginInv
  <2> QED BY <2>2, <2>3
<1>4. ASSUME NEW q \in Proc PROVE KnownAs(q)'
  <2> SUFFICES ASSUME Snapped(q)' PROVE KnownAs(q)'
    BY DEF KnownAs
  <2>1. Snapped(q) /\ shm[q] \in ShmId
    BY <1>2 DEF SegInv, SegLocal
  <2>2. Origin(call[q].id, mem'[shm[q]])
    BY <1>1, <2>1 DEF OriginInv, KnownAs
  <2> QED BY <1>2, <2>1, <2>2 DEF OriginInv, KnownAs
<1>5. ASSUME NEW q \in Proc \ {p} PROVE OwnCopy(q)'
  <2>1. Writer(q) \/ pc[q] \in SnapLabel => mem'[shm[q]] = mem[shm[q]]
    BY CopyAlone, CopyHolds
  <2>2. create[q] => call[q].op = "write"
    BY DEF SegInv, SegLocal
  <2>3. pc'[q] \in {"set_entry", "snap_slot"} \cup SnapLabel => pc[q] = pc'[q]
    BY DEF SnapLabel, Others
  <2> QED BY <2>1, <2>2, <2>3 DEF OriginInv, OwnCopy, Others, Writer, SnapLabel
<1>6. ASSUME NEW q \in Proc \ {p}, pc'[q] = "set_entry" PROVE ~Used(shm[q])'
  BY <1>2, <1>6 DEF OriginInv, Used, Others
<1> QED BY <1>3, <1>4, <1>5, <1>6 DEF OriginInv

(* Every step of a process preserves where what is stored comes from.      *)
LEMMA OriginStep ==
  ASSUME Signals = FALSE, PayloadsWritten, OneShape, TypeInv, MasterInv, SlotInv, TableInv,
         SegInv, ContentInv, OriginInv, NEW p \in Proc, Begin(p) \/ Step(p)
  PROVE  OriginInv'
<1> USE PoolAssumption
<1>0. Others(p)
  BY StepOthers
<1>1. CASE Begin(p)
  <2>1. mem' = mem /\ entry' = entry /\ pc'[p] # "set_entry" /\ OwnCopy(p)'
    BY <1>1 DEF Begin, Goto, segs, TypeInv, LocalsOK, LocalsTypeOK, OwnCopy
  <2>2. Snapped(p)' => Snapped(p) /\ shm'[p] = shm[p] /\ call'[p] = call[p]
    BY <1>1 DEF Begin, Goto, segs, TypeInv, LocalsOK, LocalsTypeOK, Snapped,
       SnapLabel
  <2> QED BY <1>0, <2>1, <2>2, OriginAside
<1>2. CASE FindMaster(p)
  <2>1. mem' = mem /\ entry' = entry /\ pc'[p] # "set_entry" /\ OwnCopy(p)'
    BY <1>2, ReturnOthers DEF FindMaster, Goto, segs, locals, TypeInv,
       LocalsOK, LocalsTypeOK, OwnCopy
  <2>2. Snapped(p)' => Snapped(p) /\ shm'[p] = shm[p] /\ call'[p] = call[p]
    BY <1>2, ReturnOthers DEF FindMaster, Goto, segs, locals, TypeInv,
       LocalsOK, LocalsTypeOK, Snapped, SnapLabel
  <2> QED BY <1>0, <2>1, <2>2, OriginAside
<1>3. CASE AttachMaster(p)
  <2>1. mem' = mem /\ entry' = entry /\ pc'[p] # "set_entry" /\ OwnCopy(p)'
    BY <1>3 DEF AttachMaster, Goto, segs, locals, TypeInv, LocalsOK,
       LocalsTypeOK, OwnCopy
  <2>2. Snapped(p)' => Snapped(p) /\ shm'[p] = shm[p] /\ call'[p] = call[p]
    BY <1>3 DEF AttachMaster, Goto, segs, locals, TypeInv, LocalsOK,
       LocalsTypeOK, Snapped, SnapLabel
  <2> QED BY <1>0, <2>1, <2>2, OriginAside
<1>4. CASE AttachMasterFault(p)
  <2>1. mem' = mem /\ entry' = entry /\ pc'[p] # "set_entry" /\ OwnCopy(p)'
    BY <1>4 DEF AttachMasterFault, Goto, Die, locals, TypeInv, LocalsOK,
       LocalsTypeOK, OwnCopy
  <2>2. Snapped(p)' => Snapped(p) /\ shm'[p] = shm[p] /\ call'[p] = call[p]
    BY <1>4 DEF AttachMasterFault, Goto, Die, locals, TypeInv, LocalsOK,
       LocalsTypeOK, Snapped, SnapLabel
  <2> QED BY <1>0, <2>1, <2>2, OriginAside
<1>5. CASE LockMaster(p)
  <2>1. mem' = mem /\ entry' = entry /\ pc'[p] # "set_entry" /\ OwnCopy(p)'
    BY <1>5 DEF LockMaster, Goto, segs, locals, TypeInv, LocalsOK,
       LocalsTypeOK, OwnCopy
  <2>2. Snapped(p)' => Snapped(p) /\ shm'[p] = shm[p] /\ call'[p] = call[p]
    BY <1>5 DEF LockMaster, Goto, segs, locals, TypeInv, LocalsOK,
       LocalsTypeOK, Snapped, SnapLabel
  <2> QED BY <1>0, <2>1, <2>2, OriginAside
<1>6. CASE LockMasterFails(p)
  <2>1. mem' = mem /\ entry' = entry /\ pc'[p] # "set_entry" /\ OwnCopy(p)'
    BY <1>6, ReturnOthers DEF LockMasterFails, Goto, Detach, segs, TypeInv,
       LocalsOK, LocalsTypeOK, OwnCopy
  <2>2. Snapped(p)' => Snapped(p) /\ shm'[p] = shm[p] /\ call'[p] = call[p]
    BY <1>6, ReturnOthers DEF LockMasterFails, Goto, Detach, segs, TypeInv,
       LocalsOK, LocalsTypeOK, Snapped, SnapLabel
  <2> QED BY <1>0, <2>1, <2>2, OriginAside
<1>7. CASE FindSlot(p)
  <2>1. mem' = mem /\ entry' = entry /\ pc'[p] # "set_entry" /\ OwnCopy(p)'
    BY <1>7 DEF FindSlot, Goto, segs, TypeInv, LocalsOK, LocalsTypeOK, OwnCopy
  <2>2. Snapped(p)' => Snapped(p) /\ shm'[p] = shm[p] /\ call'[p] = call[p]
    BY <1>7 DEF FindSlot, Goto, segs, TypeInv, LocalsOK, LocalsTypeOK,
       Snapped, SnapLabel
  <2> QED BY <1>0, <2>1, <2>2, OriginAside
<1>8. CASE PickFreeSlot(p)
  <2>1. mem' = mem /\ entry' = entry /\ pc'[p] # "set_entry" /\ OwnCopy(p)'
    BY <1>8 DEF PickFreeSlot, Goto, segs, TypeInv, LocalsOK, LocalsTypeOK,
       OwnCopy
  <2>2. Snapped(p)' => Snapped(p) /\ shm'[p] = shm[p] /\ call'[p] = call[p]
    BY <1>8 DEF PickFreeSlot, Goto, segs, TypeInv, LocalsOK, LocalsTypeOK,
       Snapped, SnapLabel
  <2> QED BY <1>0, <2>1, <2>2, OriginAside
<1>9. CASE NoSuchSlot(p)
  <2>1. mem' = mem /\ entry' = entry /\ pc'[p] # "set_entry" /\ OwnCopy(p)'
    BY <1>9, ReturnOthers DEF NoSuchSlot, Goto, Detach, segs, TypeInv,
       LocalsOK, LocalsTypeOK, OwnCopy
  <2>2. Snapped(p)' => Snapped(p) /\ shm'[p] = shm[p] /\ call'[p] = call[p]
    BY <1>9, ReturnOthers DEF NoSuchSlot, Goto, Detach, segs, TypeInv,
       LocalsOK, LocalsTypeOK, Snapped, SnapLabel
  <2> QED BY <1>0, <2>1, <2>2, OriginAside
<1>10. CASE LockSlot(p)
  <2>1. mem' = mem /\ entry' = entry /\ pc'[p] # "set_entry" /\ OwnCopy(p)'
    BY <1>10 DEF LockSlot, Goto, segs, locals, TypeInv, LocalsOK,
       LocalsTypeOK, OwnCopy
  <2>2. Snapped(p)' => Snapped(p) /\ shm'[p] = shm[p] /\ call'[p] = call[p]
    BY <1>10 DEF LockSlot, Goto, segs, locals, TypeInv, LocalsOK,
       LocalsTypeOK, Snapped, SnapLabel
  <2> QED BY <1>0, <2>1, <2>2, OriginAside
<1>11. CASE LockSlotFails(p)
  <2>1. mem' = mem /\ entry' = entry /\ pc'[p] # "set_entry" /\ OwnCopy(p)'
    BY <1>11, ReturnOthers DEF LockSlotFails, Goto, Detach, segs, TypeInv,
       LocalsOK, LocalsTypeOK, OwnCopy
  <2>2. Snapped(p)' => Snapped(p) /\ shm'[p] = shm[p] /\ call'[p] = call[p]
    BY <1>11, ReturnOthers DEF LockSlotFails, Goto, Detach, segs, TypeInv,
       LocalsOK, LocalsTypeOK, Snapped, SnapLabel
  <2> QED BY <1>0, <2>1, <2>2, OriginAside
<1>12. CASE CreateSegment(p)
  <2>1. PICK i \in ShmId : /\ Fresh(i) /\ shm' = [shm EXCEPT ![p] = i]
                            /\ mem' = [mem EXCEPT ![i] = Zeroed(NoData)]
    BY <1>12 DEF CreateSegment
  <2>2. /\ pc[p] = "shmget_slot" /\ pc'[p] = "set_entry" /\ entry' = entry
        /\ call' = call /\ shm'[p] = i
        /\ mem'[i] = Zeroed(NoData) /\ \A j \in ShmId \ {i} : mem'[j] = mem[j]
    BY <1>12, <2>1 DEF CreateSegment, Goto, TypeInv, LocalsOK, LocalsTypeOK,
       SegsTypeOK
  <2>3. (\A q \in Proc : shm[q] # i) /\ \A s \in Slot : entry[s].slot_shmid # i
    BY <2>1 DEF Fresh
  <2>4. \A q \in Proc : Snapped(q)' => q # p /\ Snapped(q)
    BY <1>0, <2>2 DEF Snapped, SnapLabel, Others
  <2>5. \A j : Used(j)' => j # i /\ Used(j)
    BY <1>0, <2>2, <2>3, <2>4 DEF Used, Others
  <2>6. ASSUME NEW q \in Proc \ {p}, shm[q] \in ShmId PROVE mem'[shm[q]] = mem[shm[q]]
    BY <2>2, <2>3, <2>6
  <2>7. ASSUME NEW s \in Slot, entry'[s].slot_shmid # NoShm
        PROVE  Origin(entry'[s].desc, mem'[entry'[s].slot_shmid])
    BY <2>2, <2>3, <2>7 DEF OriginInv, TypeInv, SharedTypeOK
  <2>8. ASSUME NEW q \in Proc PROVE KnownAs(q)'
    <3> SUFFICES ASSUME Snapped(q)' PROVE KnownAs(q)'
      BY DEF KnownAs
    <3>1. q # p /\ Snapped(q) /\ shm[q] \in ShmId
      BY <2>4 DEF SegInv, SegLocal
    <3>2. Origin(call'[q].id, mem'[shm'[q]])
      BY <1>0, <2>6, <3>1 DEF OriginInv, KnownAs, Others
    <3> QED BY <1>0, <2>2, <2>4, <3>1, <3>2 DEF OriginInv, KnownAs, Others
  <2>9. ASSUME NEW q \in Proc \ {p} PROVE OwnCopy(q)' /\ (pc'[q] = "set_entry" => ~Used(shm[q])')
    <3>1. pc'[q] \in {"set_entry", "snap_slot"} \cup SnapLabel => pc[q] = pc'[q]
      BY <1>0 DEF SnapLabel, Others
    <3>2. create[q] /\ pc[q] \in {"set_entry", "snap_slot"} => shm[q] \in ShmId
      BY CopyHolds DEF Writer, SegInv, SegLocal
    <3>3. pc[q] \in SnapLabel => shm[q] \in ShmId
      BY CopyHolds
    <3>4. OwnCopy(q)'
      BY <1>0, <2>6, <3>1, <3>2, <3>3 DEF OriginInv, OwnCopy, Others, SnapLabel
    <3> QED BY <1>0, <2>5, <3>1, <3>4 DEF OriginInv, Others
  <2>10. OwnCopy(p)' /\ ~Used(shm[p])'
    BY <2>2, <2>3, <2>5 DEF OwnCopy, Zeroed
  <2> QED BY <2>7, <2>8, <2>9, <2>10 DEF OriginInv
<1>13. CASE CreateSegmentFails(p)
  <2>1. mem' = mem /\ entry' = entry /\ pc'[p] # "set_entry" /\ OwnCopy(p)'
    BY <1>13, ReturnOthers DEF CreateSegmentFails, Goto, Detach, segs,
       TypeInv, LocalsOK, LocalsTypeOK, OwnCopy
  <2>2. Snapped(p)' => Snapped(p) /\ shm'[p] = shm[p] /\ call'[p] = call[p]
    BY <1>13, ReturnOthers DEF CreateSegmentFails, Goto, Detach, segs,
       TypeInv, LocalsOK, LocalsTypeOK, Snapped, SnapLabel
  <2> QED BY <1>0, <2>1, <2>2, OriginAside
<1>14. CASE SetEntry(p)
  <2>1. /\ pc[p] = "set_entry" /\ pc'[p] = "snap_slot" /\ mem' = mem
        /\ UNCHANGED <<call, slot, create, shm, buf>>
        /\ \A s \in Slot \ {slot[p]} : entry'[s] = entry[s]
        /\ slot[p] \in Slot => entry'[slot[p]] = [slot_shmid |-> shm[p], desc |-> call[p].id]
    BY <1>14 DEF SetEntry, Goto, segs, locals, TypeInv, LocalsOK, LocalsTypeOK,
       SharedTypeOK
  <2>2. slot[p] \in Slot /\ create[p] /\ shm[p] \in ShmId
    BY <2>1 DEF TableInv, TableLocal, Creating, TypeInv, LocalsOK, LocalOK,
       SlotLabel
  <2>3. mem[shm[p]].lo = NoData /\ ~Used(shm[p])
    BY <2>1, <2>2 DEF OriginInv, OwnCopy
  <2>4. \A q \in Proc : Snapped(q)' => Snapped(q)
    BY <1>0, <2>1 DEF Snapped, SnapLabel, Others
  <2>5. ASSUME NEW s \in Slot, entry'[s].slot_shmid # NoShm
        PROVE  Origin(entry'[s].desc, mem'[entry'[s].slot_shmid])
    <3>1. CASE s = slot[p]
      BY <2>1, <2>2, <2>3, <3>1 DEF Origin
    <3>2. CASE s # slot[p]
      BY <2>1, <2>5, <3>2 DEF OriginInv
    <3> QED BY <3>1, <3>2
  <2>6. ASSUME NEW q \in Proc PROVE KnownAs(q)'
    <3> SUFFICES ASSUME Snapped(q)' PROVE KnownAs(q)'
      BY DEF KnownAs
    <3>1. Snapped(q) /\ shm[q] # shm[p]
      BY <2>3, <2>4 DEF Used
    <3>2. \A s \in Slot : entry'[s].slot_shmid = shm[q] => entry'[s] = entry[s]
      BY <2>1, <2>2, <3>1
    <3> QED BY <1>0, <2>1, <2>4, <3>1, <3>2 DEF OriginInv, KnownAs, Others
  <2>7. ASSUME NEW q \in Proc PROVE OwnCopy(q)'
    BY <1>0, <2>1, <2>2, <2>3 DEF OriginInv, OwnCopy, Others
  <2>8. ASSUME NEW q \in Proc PROVE pc'[q] # "set_entry"
    <3>1. q # p => pc[q] # "set_entry"
      BY <2>1 DEF MasterInv, MasterExclusive, HoldsMaster
    <3> QED BY <1>0, <2>1, <3>1 DEF Others
  <2> QED BY <2>5, <2>6, <2>7, <2>8 DEF OriginInv
<1>15. CASE SnapSlot(p)
  <2>1. /\ pc[p] = "snap_slot" /\ pc'[p] = "shmat_slot" /\ mem' = mem
        /\ UNCHANGED <<entry, call, slot, create, buf>>
        /\ shm'[p] = entry[slot[p]].slot_shmid /\ slot[p] \in Slot
    BY <1>15 DEF SnapSlot, Goto, segs, TypeInv, LocalsOK, LocalsTypeOK, LocalOK,
       SlotLabel
  <2>2. Found(p) /\ (create[p] => shm'[p] = shm[p])
    BY <2>1 DEF TableInv, TableLocal
  <2>3. OwnCopy(p)'
    BY <2>1, <2>2 DEF OriginInv, OwnCopy
  <2>4. ~Snapped(p)
    BY <2>1 DEF Snapped, SnapLabel
  <2> QED BY <1>0, <2>1, <2>2, <2>3, <2>4, OriginTaken DEF Found
<1>16. CASE AttachSegment(p)
  <2>1. /\ pc[p] = "shmat_slot" /\ pc'[p] = "header" /\ shm[p] \in ShmId
        /\ UNCHANGED <<entry, call, slot, create, shm, buf>>
    BY <1>16 DEF AttachSegment, Goto, locals, TypeInv, LocalsOK, LocalsTypeOK
  <2>2. Snapped(p) /\ Snapped(p)' /\ pc[p] \in SnapLabel
    BY <2>1 DEF Snapped, SnapLabel
  <2>3. CASE create[p]
    <3>1. /\ mem'[shm[p]].lo = mem[shm[p]].lo
          /\ \A i \in ShmId : i # shm[p] => mem'[i] = mem[i]
      BY <1>16, <2>1, <2>3 DEF AttachSegment, TypeInv, SegsTypeOK, Content
    <3>2. mem'[shm[p]].lo = NoData
      BY <2>1, <2>3, <3>1 DEF OriginInv, OwnCopy
    <3>3. Origin(call[p].id, mem'[shm[p]]) /\ OwnCopy(p)'
      BY <2>1, <3>2 DEF Origin, OwnCopy
    <3> QED BY <1>0, <2>1, <2>2, <3>1, <3>3, OriginStored
  <2>4. CASE ~create[p]
    <3>1. mem' = mem
      BY <1>16, <2>4 DEF AttachSegment
    <3>2. OwnCopy(p)'
      BY <2>1, <2>4 DEF OwnCopy
    <3> QED BY <1>0, <2>1, <2>2, <3>1, <3>2, OriginAside
  <2> QED BY <2>3, <2>4
<1>17. CASE AttachSegmentFails(p)
  <2>1. mem' = mem /\ entry' = entry /\ pc'[p] # "set_entry" /\ OwnCopy(p)'
    BY <1>17, ReturnOthers DEF AttachSegmentFails, segs, OwnCopy
  <2>2. Snapped(p)' => Snapped(p) /\ shm'[p] = shm[p] /\ call'[p] = call[p]
    BY <1>17, ReturnOthers DEF AttachSegmentFails, segs, Snapped, SnapLabel
  <2> QED BY <1>0, <2>1, <2>2, OriginAside
<1>18. CASE FillHeader(p)
  <2>1. /\ pc[p] = "header" /\ pc'[p] = "memcpy" /\ shm[p] \in ShmId
        /\ UNCHANGED <<entry, call, slot, create, shm, buf>> /\ call[p].op = "write"
        /\ mem[shm[p]].typeID = NewSegment /\ mem'[shm[p]].lo = mem[shm[p]].lo
        /\ mem'[shm[p]].typeID = call[p].arr.typeID
        /\ mem'[shm[p]].number = call[p].arr.number
        /\ \A i \in ShmId : i # shm[p] => mem'[i] = mem[i]
    BY <1>18 DEF FillHeader, Goto, locals, TypeInv, LocalsOK, LocalsTypeOK,
       LocalOK,
       InSegment, SegsTypeOK, Content
  <2>2. Snapped(p) /\ Snapped(p)' /\ pc[p] \in SnapLabel
    BY <2>1 DEF Snapped, SnapLabel
  <2>3. create[p]
    <3>1. ~Whole(mem[shm[p]])
      BY <2>1 DEF Whole, Fits, NewSegment
    <3>2. \E q \in Proc : Writer(q) /\ shm[q] = shm[p]
      BY <2>1, <2>2, <3>1 DEF ContentInv, Used
    <3>3. Writer(p)
      BY <2>2, <3>2, CopyAlone
    <3> QED BY <2>1, <3>3 DEF Writer
  <2>4. mem'[shm[p]].lo = NoData
    BY <2>1, <2>3 DEF OriginInv, OwnCopy
  <2>5. Origin(call[p].id, mem'[shm[p]]) /\ OwnCopy(p)'
    BY <2>1, <2>4 DEF Origin, OwnCopy
  <2> QED BY <1>0, <2>1, <2>2, <2>5, OriginStored
<1>19. CASE CheckHeader(p)
  <2>1. /\ pc[p] = "header" /\ pc'[p] = "memcpy" /\ mem' = mem /\ call[p].op = "write"
        /\ UNCHANGED <<entry, call, slot, create, shm>> /\ Fits(call[p].arr, mem[shm[p]])
        /\ mem[shm[p]].typeID # NewSegment
    BY <1>19 DEF CheckHeader, Goto, segs, locals, TypeInv, LocalsOK,
       LocalsTypeOK
  <2>2. Snapped(p) /\ Snapped(p)' /\ pc[p] \in SnapLabel /\ shm[p] \in ShmId
    BY <2>1, CopyHolds DEF Snapped, SnapLabel
  <2>3. Whole(mem[shm[p]])
    <3>1. ~Writer(p)
      BY <2>1 DEF Writer, ContentInv, CopyLocal
    <3>2. ~\E q \in Proc : Writer(q) /\ shm[q] = shm[p]
      BY <2>2, <3>1, CopyAlone
    <3> QED BY <2>2, <3>2 DEF ContentInv, Used
  <2>4. mem[shm[p]].lo # NoData
    BY <2>3 DEF Whole, PayloadsWritten
  <2> DEFINE b == [typeID |-> mem[shm[p]].typeID, number |-> mem[shm[p]].number,
                   data |-> mem[shm[p]].lo]
  <2>5. b \in WrittenAs(call[p].id)
    BY <2>2, <2>4 DEF OriginInv, KnownAs, Origin
  <2>6. call[p].arr \in WrittenAs(call[p].id)
    BY <2>1, ArrayWritten
  <2>7. Fits(call[p].arr, b)
    BY <2>1 DEF Fits
  <2>8. call[p].arr.number = mem[shm[p]].number
    BY <2>1, <2>5, <2>6, <2>7, ArrayWritten DEF OneShape
  <2>9. OwnCopy(p)'
    BY <2>1, <2>8 DEF OwnCopy, Fits
  <2> QED BY <1>0, <2>1, <2>2, <2>9, OriginAside
<1>20. CASE RefuseMisfit(p)
  <2>1. mem' = mem /\ entry' = entry /\ pc'[p] # "set_entry" /\ OwnCopy(p)'
    BY <1>20, ReturnOthers DEF RefuseMisfit, OwnCopy
  <2>2. Snapped(p)' => Snapped(p) /\ shm'[p] = shm[p] /\ call'[p] = call[p]
    BY <1>20, ReturnOthers DEF RefuseMisfit, Snapped, SnapLabel
  <2> QED BY <1>0, <2>1, <2>2, OriginAside
<1>21. CASE ReadHeader(p)
  <2>1. mem' = mem /\ entry' = entry /\ pc'[p] # "set_entry" /\ OwnCopy(p)'
    BY <1>21 DEF ReadHeader, Goto, segs, TypeInv, LocalsOK, LocalsTypeOK,
       OwnCopy
  <2>2. Snapped(p)' => Snapped(p) /\ shm'[p] = shm[p] /\ call'[p] = call[p]
    BY <1>21 DEF ReadHeader, Goto, segs, TypeInv, LocalsOK, LocalsTypeOK,
       Snapped, SnapLabel
  <2> QED BY <1>0, <2>1, <2>2, OriginAside
<1>22. CASE CopyFirstHalf(p)
  <2>1. /\ pc[p] = "memcpy" /\ pc'[p] = "memcpy_rest" /\ shm[p] \in ShmId
        /\ UNCHANGED <<entry, call, slot, create, shm>>
    BY <1>22 DEF CopyFirstHalf, Goto, TypeInv, LocalsOK, LocalsTypeOK, LocalOK,
       InSegment
  <2>2. Snapped(p) /\ Snapped(p)' /\ pc[p] \in SnapLabel
    BY <2>1 DEF Snapped, SnapLabel
  <2>3. CASE call[p].op = "write"
    <3>1. /\ mem'[shm[p]] = [mem[shm[p]] EXCEPT !.lo = call[p].arr.data]
          /\ \A i \in ShmId : i # shm[p] => mem'[i] = mem[i]
      BY <1>22, <2>1, <2>3 DEF CopyFirstHalf, TypeInv, SegsTypeOK
    <3>2. /\ mem[shm[p]] \in Content /\ mem[shm[p]].typeID = call[p].arr.typeID
          /\ mem[shm[p]].number = call[p].arr.number
      BY <2>1, <2>3 DEF OriginInv, OwnCopy, TypeInv, SegsTypeOK
    <3>3. /\ mem'[shm[p]].typeID = call[p].arr.typeID
          /\ mem'[shm[p]].number = call[p].arr.number
          /\ mem'[shm[p]].lo = call[p].arr.data
      BY <3>1, <3>2 DEF Content
    <3>4. Origin(call[p].id, mem'[shm[p]])
      BY <2>1, <2>3, <3>3, ArrayWritten DEF Origin
    <3>5. OwnCopy(p)'
      BY <2>1, <2>3, <3>3 DEF OwnCopy
    <3> QED BY <1>0, <2>1, <2>2, <3>1, <3>4, <3>5, OriginStored
  <2>4. CASE call[p].op # "write"
    <3>1. mem' = mem /\ buf' = [buf EXCEPT ![p].lo = mem[shm[p]].lo]
      BY <1>22, <2>4 DEF CopyFirstHalf
    <3>2. buf[p] \in Content /\ buf'[p] = [buf[p] EXCEPT !.lo = mem[shm[p]].lo]
      BY <3>1 DEF TypeInv, LocalsOK, LocalsTypeOK
    <3>3. ASSUME call[p].op = "read" PROVE Origin(call[p].id, buf'[p])
      <4>1. /\ buf'[p].typeID = mem[shm[p]].typeID
            /\ buf'[p].number = mem[shm[p]].number /\ buf'[p].lo = mem[shm[p]].lo
        BY <2>1, <3>2, <3>3 DEF ContentInv, CopyLocal, Content
      <4>2. Origin(call[p].id, mem[shm[p]])
        BY <2>2 DEF OriginInv, KnownAs
      <4> QED BY <4>1, <4>2 DEF Origin
    <3>4. OwnCopy(p)'
      BY <2>1, <2>4, <3>3 DEF OwnCopy
    <3> QED BY <1>0, <2>1, <2>2, <3>1, <3>4, OriginAside
  <2> QED BY <2>3, <2>4
<1>23. CASE CopySecondHalf(p)
  <2>1. /\ pc[p] = "memcpy_rest" /\ pc'[p] = "release" /\ shm[p] \in ShmId
        /\ UNCHANGED <<entry, call, slot, create, shm>>
    BY <1>23 DEF CopySecondHalf, Goto, TypeInv, LocalsOK, LocalsTypeOK, LocalOK,
       InSegment
  <2>2. Snapped(p) /\ Snapped(p)' /\ pc[p] \in SnapLabel
    BY <2>1 DEF Snapped, SnapLabel
  <2>3. CASE call[p].op = "write"
    <3>1. /\ mem'[shm[p]] = [mem[shm[p]] EXCEPT !.hi = call[p].arr.data]
          /\ \A i \in ShmId : i # shm[p] => mem'[i] = mem[i]
      BY <1>23, <2>1, <2>3 DEF CopySecondHalf, TypeInv, SegsTypeOK
    <3>2. mem[shm[p]] \in Content /\ Origin(call[p].id, mem[shm[p]])
      BY <2>1, <2>2 DEF OriginInv, KnownAs, TypeInv, SegsTypeOK
    <3>3. /\ mem'[shm[p]].typeID = mem[shm[p]].typeID
          /\ mem'[shm[p]].number = mem[shm[p]].number
          /\ mem'[shm[p]].lo = mem[shm[p]].lo
      BY <3>1, <3>2 DEF Content
    <3>4. Origin(call[p].id, mem'[shm[p]])
      BY <3>2, <3>3 DEF Origin
    <3>5. OwnCopy(p)'
      BY <2>1, <2>3 DEF OwnCopy
    <3> QED BY <1>0, <2>1, <2>2, <3>1, <3>4, <3>5, OriginStored
  <2>4. CASE call[p].op # "write"
    <3>1. mem' = mem /\ buf' = [buf EXCEPT ![p].hi = mem[shm[p]].hi]
      BY <1>23, <2>4 DEF CopySecondHalf
    <3>2. /\ buf'[p].typeID = buf[p].typeID /\ buf'[p].number = buf[p].number
          /\ buf'[p].lo = buf[p].lo
      BY <3>1 DEF TypeInv, LocalsOK, LocalsTypeOK, Content
    <3>3. OwnCopy(p)'
      BY <2>1, <2>4, <3>2 DEF OriginInv, OwnCopy, Origin
    <3> QED BY <1>0, <2>1, <2>2, <3>1, <3>3, OriginAside
  <2> QED BY <2>3, <2>4
<1>24. CASE ReleaseSnapshot(p)
  <2>1. mem' = mem /\ entry' = entry /\ pc'[p] # "set_entry" /\ OwnCopy(p)'
    BY <1>24, ReturnOthers DEF ReleaseSnapshot, Goto, locals, TypeInv,
       LocalsOK, LocalsTypeOK, OwnCopy
  <2>2. Snapped(p)' => Snapped(p) /\ shm'[p] = shm[p] /\ call'[p] = call[p]
    BY <1>24, ReturnOthers DEF ReleaseSnapshot, Goto, locals, TypeInv,
       LocalsOK, LocalsTypeOK, Snapped, SnapLabel
  <2> QED BY <1>0, <2>1, <2>2, OriginAside
<1>25. CASE CountSubscribers(p)
  <2>1. mem' = mem /\ entry' = entry /\ pc'[p] # "set_entry" /\ OwnCopy(p)'
    BY <1>25 DEF CountSubscribers, Goto, segs, TypeInv, LocalsOK,
       LocalsTypeOK, OwnCopy
  <2>2. Snapped(p)' => Snapped(p) /\ shm'[p] = shm[p] /\ call'[p] = call[p]
    BY <1>25 DEF CountSubscribers, Goto, segs, TypeInv, LocalsOK,
       LocalsTypeOK, Snapped, SnapLabel
  <2> QED BY <1>0, <2>1, <2>2, OriginAside
<1>26. CASE PublishToSubscribers(p)
  <2>1. mem' = mem /\ entry' = entry /\ pc'[p] # "set_entry" /\ OwnCopy(p)'
    BY <1>26 DEF PublishToSubscribers, segs, locals, TypeInv, LocalsOK,
       LocalsTypeOK, OwnCopy
  <2>2. Snapped(p)' => Snapped(p) /\ shm'[p] = shm[p] /\ call'[p] = call[p]
    BY <1>26 DEF PublishToSubscribers, segs, locals, TypeInv, LocalsOK,
       LocalsTypeOK, Snapped, SnapLabel
  <2> QED BY <1>0, <2>1, <2>2, OriginAside
<1>27. CASE PublishToNobody(p)
  <2>1. mem' = mem /\ entry' = entry /\ pc'[p] # "set_entry" /\ OwnCopy(p)'
    BY <1>27 DEF PublishToNobody, Goto, segs, locals, TypeInv, LocalsOK,
       LocalsTypeOK, OwnCopy
  <2>2. Snapped(p)' => Snapped(p) /\ shm'[p] = shm[p] /\ call'[p] = call[p]
    BY <1>27 DEF PublishToNobody, Goto, segs, locals, TypeInv, LocalsOK,
       LocalsTypeOK, Snapped, SnapLabel
  <2> QED BY <1>0, <2>1, <2>2, OriginAside
<1>28. CASE PublishFails(p)
  <2>1. mem' = mem /\ entry' = entry /\ pc'[p] # "set_entry" /\ OwnCopy(p)'
    BY <1>28, ReturnOthers DEF PublishFails, Goto, segs, TypeInv, LocalsOK,
       LocalsTypeOK, OwnCopy
  <2>2. Snapped(p)' => Snapped(p) /\ shm'[p] = shm[p] /\ call'[p] = call[p]
    BY <1>28, ReturnOthers DEF PublishFails, Goto, segs, TypeInv, LocalsOK,
       LocalsTypeOK, Snapped, SnapLabel
  <2> QED BY <1>0, <2>1, <2>2, OriginAside
<1>29. CASE Acknowledged(p)
  <2>1. mem' = mem /\ entry' = entry /\ pc'[p] # "set_entry" /\ OwnCopy(p)'
    BY <1>29, ReturnOthers DEF Acknowledged, Goto, segs, TypeInv, LocalsOK,
       LocalsTypeOK, OwnCopy
  <2>2. Snapped(p)' => Snapped(p) /\ shm'[p] = shm[p] /\ call'[p] = call[p]
    BY <1>29, ReturnOthers DEF Acknowledged, Goto, segs, TypeInv, LocalsOK,
       LocalsTypeOK, Snapped, SnapLabel
  <2> QED BY <1>0, <2>1, <2>2, OriginAside
<1>30. CASE SnapSubscription(p)
  <2>1. PICK s \in lkup_slot(call[p].id) : shm' = [shm EXCEPT ![p] = entry[s].slot_shmid]
    BY <1>30 DEF SnapSubscription
  <2>2. /\ pc[p] = "lkup_slot" /\ pc'[p] = "subscribe" /\ mem' = mem
        /\ UNCHANGED <<entry, call>> /\ shm'[p] = entry[s].slot_shmid
    BY <1>30, <2>1 DEF SnapSubscription, Goto, segs, TypeInv, LocalsOK,
       LocalsTypeOK
  <2>3. s \in Slot /\ entry[s].slot_shmid # NoShm /\ entry[s].desc = call[p].id
    BY <2>2, FoundSlot
  <2>4. ~Snapped(p) /\ OwnCopy(p)'
    BY <2>2 DEF Snapped, SnapLabel, OwnCopy
  <2> QED BY <1>0, <2>2, <2>3, <2>4, OriginTaken
<1>31. CASE Subscribe(p)
  <2>1. mem' = mem /\ entry' = entry /\ pc'[p] # "set_entry" /\ OwnCopy(p)'
    BY <1>31 DEF Subscribe, Goto, segs, locals, TypeInv, LocalsOK,
       LocalsTypeOK, OwnCopy
  <2>2. Snapped(p)' => Snapped(p) /\ shm'[p] = shm[p] /\ call'[p] = call[p]
    BY <1>31 DEF Subscribe, Goto, segs, locals, TypeInv, LocalsOK,
       LocalsTypeOK, Snapped, SnapLabel
  <2> QED BY <1>0, <2>1, <2>2, OriginAside
<1>32. CASE SubscribeFails(p)
  <2>1. mem' = mem /\ entry' = entry /\ pc'[p] # "set_entry" /\ OwnCopy(p)'
    BY <1>32, ReturnOthers DEF SubscribeFails, Goto, segs, TypeInv, LocalsOK,
       LocalsTypeOK, OwnCopy
  <2>2. Snapped(p)' => Snapped(p) /\ shm'[p] = shm[p] /\ call'[p] = call[p]
    BY <1>32, ReturnOthers DEF SubscribeFails, Goto, segs, TypeInv, LocalsOK,
       LocalsTypeOK, Snapped, SnapLabel
  <2> QED BY <1>0, <2>1, <2>2, OriginAside
<1>33. CASE LockSnapshot(p)
  <2>1. /\ pc[p] = "lock_snapshot" /\ pc'[p] = "shmat_slot"
        /\ UNCHANGED <<mem, entry, call, shm, create>>
    BY <1>33 DEF LockSnapshot, Goto, segs, locals, TypeInv, LocalsOK,
       LocalsTypeOK
  <2>2. ~create[p]
    BY <2>1, CallFields DEF TableInv, TableLocal, SegInv, SegLocal
  <2>3. OwnCopy(p)' /\ Snapped(p)
    BY <2>1, <2>2 DEF OwnCopy, Snapped
  <2> QED BY <1>0, <2>1, <2>3, OriginAside
<1>34. CASE LockSnapshotFails(p)
  <2>1. mem' = mem /\ entry' = entry /\ pc'[p] # "set_entry" /\ OwnCopy(p)'
    BY <1>34, ReturnOthers DEF LockSnapshotFails, Goto, segs, TypeInv,
       LocalsOK, LocalsTypeOK, OwnCopy
  <2>2. Snapped(p)' => Snapped(p) /\ shm'[p] = shm[p] /\ call'[p] = call[p]
    BY <1>34, ReturnOthers DEF LockSnapshotFails, Goto, segs, TypeInv,
       LocalsOK, LocalsTypeOK, Snapped, SnapLabel
  <2> QED BY <1>0, <2>1, <2>2, OriginAside
<1>35. CASE FindSlotToFree(p)
  <2>1. mem' = mem /\ entry' = entry /\ pc'[p] # "set_entry" /\ OwnCopy(p)'
    BY <1>35 DEF FindSlotToFree, Goto, segs, TypeInv, LocalsOK, LocalsTypeOK,
       OwnCopy
  <2>2. Snapped(p)' => Snapped(p) /\ shm'[p] = shm[p] /\ call'[p] = call[p]
    BY <1>35 DEF FindSlotToFree, Goto, segs, TypeInv, LocalsOK, LocalsTypeOK,
       Snapped, SnapLabel
  <2> QED BY <1>0, <2>1, <2>2, OriginAside
<1>36. CASE ScanUsed(p)
  <2>1. mem' = mem /\ entry' = entry /\ pc'[p] # "set_entry" /\ OwnCopy(p)'
    BY <1>36 DEF ScanUsed, Goto, segs, locals, TypeInv, LocalsOK,
       LocalsTypeOK, OwnCopy
  <2>2. Snapped(p)' => Snapped(p) /\ shm'[p] = shm[p] /\ call'[p] = call[p]
    BY <1>36 DEF ScanUsed, Goto, segs, locals, TypeInv, LocalsOK,
       LocalsTypeOK, Snapped, SnapLabel
  <2> QED BY <1>0, <2>1, <2>2, OriginAside
<1>37. CASE ScanFree(p)
  <2>1. mem' = mem /\ entry' = entry /\ pc'[p] # "set_entry" /\ OwnCopy(p)'
    BY <1>37 DEF ScanFree, segs, TypeInv, LocalsOK, LocalsTypeOK, OwnCopy
  <2>2. Snapped(p)' => Snapped(p) /\ shm'[p] = shm[p] /\ call'[p] = call[p]
    BY <1>37 DEF ScanFree, segs, TypeInv, LocalsOK, LocalsTypeOK, Snapped,
       SnapLabel
  <2> QED BY <1>0, <2>1, <2>2, OriginAside
<1>38. CASE LockUsed(p)
  <2>1. mem' = mem /\ entry' = entry /\ pc'[p] # "set_entry" /\ OwnCopy(p)'
    BY <1>38 DEF LockUsed, Goto, segs, locals, TypeInv, LocalsOK,
       LocalsTypeOK, OwnCopy
  <2>2. Snapped(p)' => Snapped(p) /\ shm'[p] = shm[p] /\ call'[p] = call[p]
    BY <1>38 DEF LockUsed, Goto, segs, locals, TypeInv, LocalsOK,
       LocalsTypeOK, Snapped, SnapLabel
  <2> QED BY <1>0, <2>1, <2>2, OriginAside
<1>39. CASE LockUsedIgnored(p)
  <2>1. mem' = mem /\ entry' = entry /\ pc'[p] # "set_entry" /\ OwnCopy(p)'
    BY <1>39 DEF LockUsedIgnored, Goto, segs, locals, TypeInv, LocalsOK,
       LocalsTypeOK, OwnCopy
  <2>2. Snapped(p)' => Snapped(p) /\ shm'[p] = shm[p] /\ call'[p] = call[p]
    BY <1>39 DEF LockUsedIgnored, Goto, segs, locals, TypeInv, LocalsOK,
       LocalsTypeOK, Snapped, SnapLabel
  <2> QED BY <1>0, <2>1, <2>2, OriginAside
<1>40. CASE InfoRead(p)
  <2>1. mem' = mem /\ entry' = entry /\ pc'[p] # "set_entry" /\ OwnCopy(p)'
    BY <1>40 DEF InfoRead, Goto, segs, TypeInv, LocalsOK, LocalsTypeOK,
       OwnCopy
  <2>2. Snapped(p)' => Snapped(p) /\ shm'[p] = shm[p] /\ call'[p] = call[p]
    BY <1>40 DEF InfoRead, Goto, segs, TypeInv, LocalsOK, LocalsTypeOK,
       Snapped, SnapLabel
  <2> QED BY <1>0, <2>1, <2>2, OriginAside
<1>41. CASE InfoFault(p)
  <2>1. mem' = mem /\ entry' = entry /\ pc'[p] # "set_entry" /\ OwnCopy(p)'
    BY <1>41 DEF InfoFault, Goto, Die, locals, TypeInv, LocalsOK,
       LocalsTypeOK, OwnCopy
  <2>2. Snapped(p)' => Snapped(p) /\ shm'[p] = shm[p] /\ call'[p] = call[p]
    BY <1>41 DEF InfoFault, Goto, Die, locals, TypeInv, LocalsOK,
       LocalsTypeOK, Snapped, SnapLabel
  <2> QED BY <1>0, <2>1, <2>2, OriginAside
<1>42. CASE RemoveSegment(p)
  <2>1. mem' = mem /\ entry' = entry /\ pc'[p] # "set_entry" /\ OwnCopy(p)'
    BY <1>42 DEF RemoveSegment, Goto, locals, TypeInv, LocalsOK, LocalsTypeOK,
       OwnCopy
  <2>2. Snapped(p)' => Snapped(p) /\ shm'[p] = shm[p] /\ call'[p] = call[p]
    BY <1>42 DEF RemoveSegment, Goto, locals, TypeInv, LocalsOK, LocalsTypeOK,
       Snapped, SnapLabel
  <2> QED BY <1>0, <2>1, <2>2, OriginAside
<1>43. CASE ClearEntry(p)
  <2>1. mem' = mem /\ (\A s \in Slot : entry'[s] = entry[s] \/ entry'[s].slot_shmid = NoShm) /\ pc'[p] # "set_entry" /\ OwnCopy(p)'
    BY <1>43, ReturnOthers DEF ClearEntry, Goto, segs, TypeInv, SharedTypeOK,
       LocalsOK, LocalsTypeOK, OwnCopy
  <2>2. Snapped(p)' => Snapped(p) /\ shm'[p] = shm[p] /\ call'[p] = call[p]
    BY <1>43, ReturnOthers DEF ClearEntry, Goto, segs, TypeInv, SharedTypeOK,
       LocalsOK, LocalsTypeOK, Snapped, SnapLabel
  <2> QED BY <1>0, <2>1, <2>2, OriginAside
<1>44. CASE InfoReturns(p)
  <2>1. mem' = mem /\ entry' = entry /\ pc'[p] # "set_entry" /\ OwnCopy(p)'
    BY <1>44, ReturnOthers DEF InfoReturns, Goto, Detach, segs, TypeInv,
       LocalsOK, LocalsTypeOK, OwnCopy
  <2>2. Snapped(p)' => Snapped(p) /\ shm'[p] = shm[p] /\ call'[p] = call[p]
    BY <1>44, ReturnOthers DEF InfoReturns, Goto, Detach, segs, TypeInv,
       LocalsOK, LocalsTypeOK, Snapped, SnapLabel
  <2> QED BY <1>0, <2>1, <2>2, OriginAside
<1>45. CASE RemoveSemaphores(p)
  <2>1. mem' = mem /\ entry' = entry /\ pc'[p] # "set_entry" /\ OwnCopy(p)'
    BY <1>45 DEF RemoveSemaphores, Goto, segs, locals, TypeInv, LocalsOK,
       LocalsTypeOK, OwnCopy
  <2>2. Snapped(p)' => Snapped(p) /\ shm'[p] = shm[p] /\ call'[p] = call[p]
    BY <1>45 DEF RemoveSemaphores, Goto, segs, locals, TypeInv, LocalsOK,
       LocalsTypeOK, Snapped, SnapLabel
  <2> QED BY <1>0, <2>1, <2>2, OriginAside
<1>46. CASE RemoveMaster(p)
  <2>1. mem' = mem /\ entry' = entry /\ pc'[p] # "set_entry" /\ OwnCopy(p)'
    BY <1>46, ReturnOthers DEF RemoveMaster, Goto, segs, TypeInv, LocalsOK,
       LocalsTypeOK, OwnCopy
  <2>2. Snapped(p)' => Snapped(p) /\ shm'[p] = shm[p] /\ call'[p] = call[p]
    BY <1>46, ReturnOthers DEF RemoveMaster, Goto, segs, TypeInv, LocalsOK,
       LocalsTypeOK, Snapped, SnapLabel
  <2> QED BY <1>0, <2>1, <2>2, OriginAside
<1> QED BY <1>1, <1>2, <1>3, <1>4, <1>5, <1>6, <1>7, <1>8, <1>9, <1>10, <1>11,
   <1>12,
   <1>13, <1>14, <1>15, <1>16, <1>17, <1>18, <1>19, <1>20, <1>21, <1>22,
   <1>23, <1>24, <1>25, <1>26, <1>27, <1>28, <1>29, <1>30, <1>31, <1>32,
   <1>33, <1>34, <1>35, <1>36, <1>37, <1>38, <1>39, <1>40, <1>41, <1>42,
   <1>43, <1>44, <1>45, <1>46 DEF Step

(* So does every step of the specification.                                *)
LEMMA OriginNext ==
  ASSUME Signals = FALSE, PayloadsWritten, OneShape
  PROVE  TypeInv /\ MasterInv /\ SlotInv /\ TableInv /\ SegInv /\ ContentInv /\ OriginInv
           /\ [Next]_vars => OriginInv'
<1>1. ASSUME OriginInv, UNCHANGED vars PROVE OriginInv'
  BY <1>1 DEF vars, OriginInv, KnownAs, OwnCopy, Origin, Used, Snapped, master,
     segs, locals
<1> QED BY <1>1, OriginStep DEF Next

(* It holds initially.                                                     *)
LEMMA OriginInit == Init => OriginInv
  BY PoolAssumption DEF Init, OriginInv, KnownAs, OwnCopy, Snapped, SnapLabel

(* What a language hands over is what its process means to write.          *)
LEMMA HandedOver ==
  ASSUME Handed, PythonWritesVectors, NEW q \in Proc, NEW c \in Call[q], c.op = "write"
  PROVE  c.arr \in Source[q][c.id] /\ Supported(c.arr)
<1>1. c.id \in Id /\ c.id \in DOMAIN Source[q]
  BY PoolAssumption, BindingAssumption DEF Handed
<1>2. PICK a \in Source[q][c.id] :
         c.arr \in IF Lang[q] = "yorick" THEN Y_shm_write(a) ELSE python_svipc_shm_write(a)
  BY DEF Handed, SlotArrays
<1>3. a \in [typeID : Nat, number : Seq(Nat), data : {a.data}]
  BY <1>1, BindingAssumption
<1>4. CASE Lang[q] = "yorick"
  <2>1. c.arr = [a EXCEPT !.number = a.number] /\ Supported(a)
    BY <1>2, <1>4 DEF Y_shm_write, HeaderInts
  <2> QED BY <1>2, <1>3, <2>1
<1>5. CASE Lang[q] # "yorick"
  <2>1. Lang[q] = "python" /\ Len(a.number) <= 1
    BY <1>1, <1>2, <1>5, BindingAssumption DEF PythonWritesVectors
  <2>2. HeaderInts("python", a) = a.number
    <3>1. a.number \in Seq(Nat) /\ Len(a.number) \in Nat
      BY <1>3
    <3>2. \A k \in 1 .. Len(a.number) : k = 1
      BY <2>1, <3>1
    <3>3. (1 - 1) % IntpInts = 0 /\ 1 + (1 - 1) \div IntpInts = 1
      BY BindingAssumption
    <3>4. HeaderInts("python", a) = [k \in 1 .. Len(a.number) |-> a.number[k]]
      BY <3>2, <3>3 DEF HeaderInts
    <3> QED BY <3>1, <3>4
  <2>3. c.arr = [typeID |-> a.typeID, number |-> a.number, data |-> a.data] /\ Supported(a)
    BY <1>2, <1>5, <2>2 DEF python_svipc_shm_write
  <2> QED BY <1>2, <1>3, <2>3
<1> QED BY <1>4, <1>5

(* A read, subscribing or not, answers in either language an array that    *)
(* some process of either language wrote under that name, with its type,   *)
(* dimensions and payload, whoever frees or writes meanwhile: where no     *)
(* signal interrupts semop, shmat finds its memory, the arrays under a     *)
(* name that could be written over each other have one shape, and python   *)
(* writes scalars and vectors.                                             *)
THEOREM ReadsBack ==
  ASSUME Signals = FALSE, NoMemory = FALSE, PayloadsWritten, OneShape, Handed,
         PythonWritesVectors
  PROVE  Spec => []ReadBack
<1>1. TypeInv /\ TableInv /\ ContentInv /\ OriginInv => ReadBack
  <2> SUFFICES ASSUME TypeInv, TableInv, ContentInv, OriginInv, NEW p \in Proc,
                      pc[p] = "release", call[p].op = "read"
               PROVE  /\ Answer(p) # {}
                      /\ Answer(p) \subseteq UNION {Source[q][call[p].id] : q \in Proc}
    BY DEF ReadBack
  <2> DEFINE r == [typeID |-> buf[p].typeID, number |-> buf[p].number, data |-> buf[p].lo]
  <2>1. buf[p].lo = buf[p].hi /\ buf[p].lo # NoData
    BY DEF ContentInv, CopyLocal, Whole, PayloadsWritten
  <2>2. r \in WrittenAs(call[p].id)
    BY <2>1 DEF OriginInv, OwnCopy, Origin
  <2>3. PICK q \in Proc : r \in {c.arr : c \in {d \in Call[q] : d.op = "write" /\ d.id = call[p].id}}
    BY <2>2 DEF WrittenAs
  <2>4. r \in Source[q][call[p].id] /\ Supported(r)
    BY <2>3, HandedOver
  <2>5. Joined(buf[p], Garbled) = r
    BY <2>1 DEF Joined
  <2>6. Answer(p) = {r}
    BY <2>4, <2>5 DEF Answer, Y_shm_read, python_svipc_shm_read
  <2> QED BY <2>4, <2>6
<1> QED
  BY TypeInit, TypeNext, MasterNext, SlotNext, TableInit, TableNext, SegInit,
     SegNext,
     ContentInit, ContentNext, OriginInit, OriginNext, <1>1, PTL DEF Spec

-----------------------------------------------------------------------------
(* THE STORE, where no signal arrives, segments can be attached, and the   *)
(* calls are writes, publishing or not, reads, frees and listings: nobody  *)
(* removes the pool, and nobody subscribes.                                *)

PlainCalls ==
  \A p \in Proc : \A c \in Call[p] : c.op # "cleanup" /\ c.subscribe = "no"

(* Where such calls come, and what for.                                    *)
StoreLocal(p) ==
  /\ pc[p] \notin {"subscribe", "sub_wait", "lock_snapshot", "rm_master", "fault"}
  /\ pc[p] \in {"lock_slot", "shmget_slot", "set_entry", "snap_slot"} \cup SnapLabel =>
       call[p].op \in {"write", "read"}
  /\ pc[p] \in {"scan", "info_read"} => call[p].op = "info"
  /\ pc[p] = "lock_used" => call[p].op \in {"info", "free"}
  /\ pc[p] \in {"rmid", "clear"} => call[p].op = "free"
  /\ pc[p] \in {"lock_used", "rmid", "clear"} /\ call[p].op = "free" =>
       entry[slot[p]].desc = call[p].id

StoreInv == semAlive /\ keyed /\ \A p \in Proc : StoreLocal(p)

(* The operators of SlotStore are those of the model.                      *)
LEMMA SameFits == \A a, m : Store!Fits(a, m) <=> Fits(a, m)
  BY DEF Store!Fits, Fits, Store!TotalNumber, TotalNumber

(* Full is when as many names are in use as there are slots.               *)
LEMMA SameFull == Store!Full <=> Cardinality(NamesInUse) = NumSlots
  BY DEF Store!Full, StoreOf, Store!Cardinality, Cardinality

(* An array that is not there yet is a header not filled.                  *)
LEMMA SameNew == Store!New = Unfilled
  BY DEF Store!New, Unfilled, Stored, Joined, Zeroed, Store!NewSegment,
     NewSegment

(* In a table without duplicates a name has one slot.                      *)
LEMMA OneSlot ==
  ASSUME NEW e, NEW s \in Slot, \A t \in Slot : e[t].desc = e[s].desc => t = s
  PROVE  (CHOOSE u \in FirstOf({t \in Slot : e[t].desc = e[s].desc}) : TRUE) = s
<1>1. s <= s
  BY DEF Slot
<1>2. {t \in Slot : e[t].desc = e[s].desc} = {s}
  OBVIOUS
<1>3. FirstOf({s}) = {s}
  BY <1>1 DEF FirstOf
<1> QED BY <1>2, <1>3

(* The same, for a name and not a slot that bears it.                      *)
LEMMA TheSlot ==
  ASSUME NEW e, NEW s \in Slot, NEW n, e[s].desc = n, \A t \in Slot : e[t].desc = n => t = s
  PROVE  (CHOOSE u \in FirstOf({t \in Slot : e[t].desc = n}) : TRUE) = s
  BY OneSlot

(* The slot of a name, and the name of a slot.                             *)
LEMMA SlotNamed ==
  ASSUME TypeInv, TableInv, NEW s \in Slot, entry[s].slot_shmid # NoShm
  PROVE  /\ entry[s].desc \in NamesInUse /\ At(entry[s].desc) = s
         /\ entry[s].slot_shmid \in ShmId
<1>1. entry[s].desc # NoDesc /\ \A t \in Slot : entry[t].desc = entry[s].desc => t = s
  BY DEF TableInv, Entries, UniqueNames
<1>2. At(entry[s].desc) = s
  BY <1>1, OneSlot DEF At, lkup_slot
<1> QED BY <1>1, <1>2 DEF NamesInUse, TypeInv, SharedTypeOK

(* A name in use is that of the slot where it is found.                    *)
LEMMA NameAt ==
  ASSUME TypeInv, TableInv, NEW id \in NamesInUse
  PROVE  /\ At(id) \in Slot /\ entry[At(id)].desc = id
         /\ entry[At(id)].slot_shmid # NoShm /\ entry[At(id)].slot_shmid \in ShmId
<1>1. PICK s \in Slot : entry[s].desc = id /\ id # NoDesc
  BY DEF NamesInUse
<1>2. entry[s].slot_shmid # NoShm
  BY <1>1 DEF TableInv, Entries
<1> QED BY <1>1, <1>2, SlotNamed

(* What the store has under the name of a slot.                            *)
LEMMA StoredAt ==
  ASSUME TypeInv, TableInv, NEW s \in Slot, entry[s].slot_shmid # NoShm
  PROVE  /\ entry[s].desc \in DOMAIN StoreOf
         /\ StoreOf[entry[s].desc] = ArrayOf(entry[s].slot_shmid)
  BY SlotNamed DEF StoreOf

(* The store stays as it is when the arrays of the table do.               *)
LEMMA StoreKept ==
  ASSUME TypeInv, TableInv, entry' = entry,
         \A s \in Slot : entry[s].slot_shmid # NoShm =>
           ArrayOf(entry[s].slot_shmid)' = ArrayOf(entry[s].slot_shmid)
  PROVE  StoreOf' = StoreOf
<1>1. NamesInUse' = NamesInUse /\ \A id : At(id)' = At(id)
  BY DEF NamesInUse, At, lkup_slot
<1>2. ASSUME NEW id \in NamesInUse
      PROVE  ArrayOf(entry[At(id)].slot_shmid)' = ArrayOf(entry[At(id)].slot_shmid)
  BY <1>1, <1>2, NameAt
<1> QED BY <1>1, <1>2 DEF StoreOf

(* A step that changes the array of one slot.                              *)
LEMMA StoreChanged ==
  ASSUME TypeInv, TableInv, entry' = entry, NEW k \in Slot, entry[k].slot_shmid # NoShm,
         NEW v, ArrayOf(entry[k].slot_shmid)' = v,
         \A s \in Slot \ {k} : entry[s].slot_shmid # NoShm =>
           ArrayOf(entry[s].slot_shmid)' = ArrayOf(entry[s].slot_shmid)
  PROVE  StoreOf' = [StoreOf EXCEPT ![entry[k].desc] = v]
<1>1. NamesInUse' = NamesInUse /\ \A id : At(id)' = At(id)
  BY DEF NamesInUse, At, lkup_slot
<1>2. ASSUME NEW id \in NamesInUse
      PROVE  ArrayOf(entry[At(id)].slot_shmid)' =
               IF id = entry[k].desc THEN v ELSE ArrayOf(entry[At(id)].slot_shmid)
  <2>1. CASE id = entry[k].desc
    BY <1>1, <2>1, SlotNamed
  <2>2. CASE id # entry[k].desc
    <3>1. At(id) \in Slot \ {k} /\ entry[At(id)].slot_shmid # NoShm
      BY <2>2, NameAt
    <3> QED BY <1>1, <2>2, <3>1
  <2> QED BY <2>1, <2>2
<1>3. entry[k].desc \in NamesInUse
  BY SlotNamed
<1> QED BY <1>1, <1>2, <1>3 DEF StoreOf

(* The others are where they were.                                         *)
LEMMA OthersAside ==
  ASSUME TypeInv, StoreInv, NEW p \in Proc, Others(p), NEW q \in Proc \ {p}
  PROVE  /\ pc'[q] = pc[q]
         /\ Phase(q)' = Phase(q) /\ Got(q)' = Got(q)
         /\ Creates(q)' <=> Creates(q)
         /\ Copies(q)' <=> Copies(q)
<1>1. pc'[q] = pc[q] /\ call'[q] = call[q] /\ create'[q] = create[q] /\ buf'[q] = buf[q]
  BY DEF StoreInv, StoreLocal, Others
<1> QED BY <1>1 DEF Phase, Got, Creates, Copies

(* Where a step leads need be looked at for the process that takes it only. *)
LEMMA StoreOthers ==
  ASSUME TypeInv, MasterInv, StoreInv, NEW p \in Proc, Others(p),
         entry' = entry \/ HoldsMaster(p), UNCHANGED <<semAlive, keyed>>, StoreLocal(p)'
  PROVE  StoreInv'
<1>1. ASSUME NEW q \in Proc \ {p} PROVE StoreLocal(q)'
  <2>1. pc'[q] = pc[q] /\ call'[q] = call[q] /\ slot'[q] = slot[q]
    BY OthersAside DEF Others
  <2>2. pc[q] \in {"lock_used", "rmid", "clear"} => entry' = entry
    BY DEF MasterInv, MasterExclusive, HoldsMaster
  <2> QED BY <2>1, <2>2 DEF StoreInv, StoreLocal
<1> QED BY <1>1 DEF StoreInv

(* Phases and answers change for the process that takes a step only.       *)
LEMMA PhaseChanged ==
  ASSUME TypeInv, StoreInv, NEW p \in Proc, Others(p)
  PROVE  /\ [q \in Proc |-> Phase(q)]' = [[q \in Proc |-> Phase(q)] EXCEPT ![p] = Phase(p)']
         /\ [q \in Proc |-> Got(q)]' = [[q \in Proc |-> Got(q)] EXCEPT ![p] = Got(p)']
<1>1. \A q \in Proc \ {p} : Phase(q)' = Phase(q) /\ Got(q)' = Got(q)
  BY OthersAside
<1> QED BY <1>1

(* A segment whose content and whose writers stay as they are.             *)
LEMMA ArrayKept ==
  ASSUME TypeInv, StoreInv, NEW p \in Proc, Others(p), NEW i, mem'[i] = mem[i],
         (Creates(p) /\ shm[p] = i)' <=> Creates(p) /\ shm[p] = i,
         (Copies(p) /\ shm[p] = i)' <=> Copies(p) /\ shm[p] = i,
         Copies(p) /\ shm[p] = i => call'[p] = call[p]
  PROVE  ArrayOf(i)' = ArrayOf(i)
<1>1. \A q \in Proc : ((Creates(q) /\ shm[q] = i)' <=> Creates(q) /\ shm[q] = i)
  BY OthersAside DEF Others
<1>2. \A q \in Proc : ((Copies(q) /\ shm[q] = i)' <=> Copies(q) /\ shm[q] = i)
  BY OthersAside DEF Others
<1>3. Creators(i)' = Creators(i) /\ Copiers(i)' = Copiers(i)
  BY <1>1, <1>2 DEF Creators, Copiers
<1>4. \A q \in Copiers(i) : call'[q] = call[q]
  BY DEF Copiers, Others
<1>5. Copiers(i) # {} => call'[CHOOSE q \in Copiers(i) : TRUE] = call[CHOOSE q \in Copiers(i) : TRUE]
  BY <1>4
<1>6. Unfilled' = Unfilled /\ Stored(mem[i])' = Stored(mem[i])
  BY DEF Unfilled, Stored
<1> QED BY <1>3, <1>5, <1>6 DEF ArrayOf

(* A step that leaves the store as it is.                                  *)
LEMMA Stutters ==
  ASSUME TypeInv, MasterInv, TableInv, StoreInv, NEW p \in Proc, Others(p),
         UNCHANGED <<mem, entry, call, semAlive, keyed>>, StoreLocal(p)',
         Phase(p)' = Phase(p), Got(p)' = Got(p),
         Creates(p)' <=> Creates(p), Copies(p)' <=> Copies(p),
         Creates(p) \/ Copies(p) => shm'[p] = shm[p]
  PROVE  StoreInv' /\ UNCHANGED Store!vars
<1>1. StoreInv'
  BY StoreOthers
<1>2. \A i : ArrayOf(i)' = ArrayOf(i)
  BY ArrayKept
<1>3. StoreOf' = StoreOf
  BY <1>2, StoreKept
<1>4. /\ [q \in Proc |-> Phase(q)]' = [q \in Proc |-> Phase(q)]
      /\ [q \in Proc |-> Got(q)]' = [q \in Proc |-> Got(q)]
  BY PhaseChanged
<1> QED BY <1>1, <1>3, <1>4 DEF Store!vars

(* One between two places where nothing is done to the segments.           *)
Busy == {"idle", "fault", "snap_slot", "getncnt", "publish", "ack"} \cup SnapLabel

LEMMA Quiet ==
  ASSUME TypeInv, MasterInv, TableInv, StoreInv, NEW p \in Proc, Others(p),
         UNCHANGED <<mem, entry, call, semAlive, keyed>>, StoreLocal(p)',
         pc[p] \notin Busy, pc'[p] \notin Busy
  PROVE  StoreInv' /\ UNCHANGED Store!vars
<1>1. Phase(p) = "called" /\ Phase(p)' = "called"
  BY DEF Phase, Busy, SnapLabel
<1>2. Got(p)' = Got(p) /\ ~Creates(p) /\ ~Creates(p)' /\ ~Copies(p) /\ ~Copies(p)'
  BY DEF Got, Creates, Copies, Busy, SnapLabel, Unfilled
<1> QED BY <1>1, <1>2, Stutters

(* What a call knows of the segment it works on, which is its own.         *)
LEMMA OwnSegment ==
  ASSUME PlainCalls, TypeInv, TableInv, SegInv, NEW p \in Proc, pc[p] \in SnapLabel
  PROVE  /\ slot[p] \in Slot /\ shm[p] \in ShmId /\ shm[p] # NoShm
         /\ entry[slot[p]] = [slot_shmid |-> shm[p], desc |-> call[p].id]
         /\ segKeyed[shm[p]]
         /\ \A s \in Slot \ {slot[p]} : entry[s].slot_shmid # shm[p]
<1>1. call[p].subscribe = "no"
  BY DEF PlainCalls, TableInv, TableLocal, SnapLabel
<1>2. shm[p] \in ShmId /\ shm[p] # NoShm /\ segSlot[shm[p]] = slot[p] /\ segKeyed[shm[p]]
      /\ entry[slot[p]] = [slot_shmid |-> shm[p], desc |-> call[p].id]
  BY <1>1, PoolAssumption DEF SegInv, SegLocal, Snapped
<1>3. slot[p] \in Slot
  BY DEF SnapLabel, TypeInv, LocalsOK, LocalOK, SlotLabel
<1>4. \A s \in Slot \ {slot[p]} : entry[s].slot_shmid # shm[p]
  BY <1>2 DEF TableInv, Entries
<1> QED BY <1>2, <1>3, <1>4

(* Nobody else writes to the segment a call works on.                      *)
LEMMA AloneIn ==
  ASSUME TypeInv, MasterInv, SlotInv, TableInv, SegInv, StoreInv, NEW p \in Proc, Others(p),
         pc[p] \in SnapLabel, NEW q \in Proc \ {p}, shm[q] = shm[p]
  PROVE  ~Creates(q) /\ ~Creates(q)' /\ ~Copies(q) /\ ~Copies(q)'
<1>1. ~Writer(q) /\ pc[q] \notin SnapLabel
  BY CopyAlone
<1>2. create[q] => call[q].op = "write"
  BY DEF SegInv, SegLocal
<1>3. ~Creates(q) /\ ~Copies(q)
  BY <1>1, <1>2 DEF Creates, Copies, Writer, SnapLabel
<1> QED BY <1>3, OthersAside

(* A step after which the store is as before.                              *)
LEMMA Keeps ==
  ASSUME TypeInv, TableInv, StoreInv, NEW p \in Proc, Others(p), mem' = mem, entry' = entry,
         ~Creates(p), ~Creates(p)', ~Copies(p), ~Copies(p)'
  PROVE  StoreOf' = StoreOf
<1>1. \A i : ArrayOf(i)' = ArrayOf(i)
  BY ArrayKept
<1> QED BY <1>1, StoreKept

(* A call that returns.                                                    *)
LEMMA Returned ==
  ASSUME TypeInv, MasterInv, StoreInv, NEW p \in Proc, Return(p),
         UNCHANGED <<semAlive, keyed>>, entry' = entry \/ HoldsMaster(p)
  PROVE  /\ StoreInv' /\ Others(p) /\ Store!Return(p)
         /\ ~Creates(p)' /\ ~Copies(p)' /\ Phase(p)' = "idle"
<1>1. Others(p) /\ pc'[p] = "idle" /\ ~create'[p] /\ call'[p] = NoCall
  BY ReturnOthers
<1>2. StoreLocal(p)' /\ ~Creates(p)' /\ ~Copies(p)'
  BY <1>1 DEF StoreLocal, SnapLabel, Creates, Copies
<1>3. Phase(p)' = "idle" /\ Got(p)' = Store!New
  BY <1>1, SameNew DEF Phase, Got, NoCall, Unfilled
<1>4. StoreInv'
  BY <1>1, <1>2, StoreOthers
<1>5. call' = [call EXCEPT ![p] = NoCall]
  BY DEF Return
<1>6. Store!Return(p)
  BY <1>1, <1>3, <1>5, PhaseChanged DEF Store!Return
<1> QED BY <1>1, <1>2, <1>3, <1>4, <1>6

(* As many names are in use as slots.                                      *)
LEMMA NamesCount ==
  ASSUME TypeInv, TableInv
  PROVE  /\ IsFiniteSet(Slot) /\ Cardinality(Slot) = NumSlots
         /\ Cardinality(NamesInUse) = Cardinality({s \in Slot : entry[s].desc # NoDesc})
<1> DEFINE S == {s \in Slot : entry[s].desc # NoDesc}
           f == [s \in S |-> entry[s].desc]
<1>1. IsFiniteSet(Slot) /\ Cardinality(Slot) = NumSlots
  BY FS_Interval, PoolAssumption DEF Slot
<1>2. IsFiniteSet(S)
  BY <1>1, FS_Subset
<1>3. f \in [S -> NamesInUse]
  BY DEF NamesInUse
<1>4. \A s, t \in S : f[s] = f[t] => s = t
  BY DEF TableInv, Entries, UniqueNames
<1>5. \A id \in NamesInUse : \E s \in S : f[s] = id
  BY DEF NamesInUse
<1>6. f \in Bijection(S, NamesInUse)
  BY <1>3, <1>4, <1>5 DEF Bijection, Injection, Surjection, IsInjective
<1>7. ExistsBijection(S, NamesInUse)
  BY <1>6 DEF ExistsBijection
<1> HIDE DEF S, f
<1>8. Cardinality(NamesInUse) = Cardinality(S)
  BY <1>2, <1>7, FS_Bijection
<1> QED BY <1>1, <1>8 DEF S

(* No slot is free when all names are taken, and the other way round.      *)
LEMMA FullMeans ==
  ASSUME TypeInv, TableInv
  PROVE  /\ getfree_slot = {} => Store!Full
         /\ \A k \in Slot : entry[k].slot_shmid = NoShm => ~Store!Full
<1> DEFINE S == {s \in Slot : entry[s].desc # NoDesc}
<1>1. getfree_slot = {} => S = Slot
  <2>1. {s \in Slot : entry[s].slot_shmid = NoShm} \in SUBSET Nat
    BY DEF Slot
  <2>2. getfree_slot = {} => {s \in Slot : entry[s].slot_shmid = NoShm} = {}
    BY <2>1, FirstExists DEF getfree_slot
  <2> QED BY <2>2 DEF TableInv, Entries
<1>2. ASSUME NEW k \in Slot, entry[k].slot_shmid = NoShm PROVE S # Slot
  BY <1>2 DEF TableInv, Entries
<1>3. S \in SUBSET Slot
  OBVIOUS
<1> HIDE DEF S
<1>4. Cardinality(S) = NumSlots <=> S = Slot
  BY <1>3, NamesCount, FS_Subset
<1>5. Cardinality(NamesInUse) = Cardinality(S)
  BY NamesCount DEF S
<1> QED BY <1>1, <1>2, <1>4, <1>5, SameFull

(* What has the marker of a new segment holds no array.                    *)
LEMMA NewIsEmpty ==
  ASSUME NEW m, m.typeID = NewSegment
  PROVE  ~Whole(m)
<1>1. \A a \in Array : a.typeID # NewSegment
  BY PoolAssumption DEF NewSegment
<1> QED BY <1>1 DEF Whole, Fits

(* The array of a segment nobody is writing to.                            *)
LEMMA ArrayFree ==
  ASSUME TypeInv, TableInv, SegInv, ContentInv, NEW i \in ShmId, Used(i),
         \A q \in Proc : shm[q] = i => ~Writer(q)
  PROVE  /\ Whole(mem[i]) /\ ArrayOf(i) = Stored(mem[i])
         /\ Stored(mem[i]) # Store!New /\ ArrayOf(i) # Store!New
<1>1. Whole(mem[i])
  BY DEF ContentInv
<1>2. Creators(i) = {} /\ Copiers(i) = {}
  <2>1. ASSUME NEW q \in Proc, Creates(q) \/ Copies(q) PROVE Writer(q)
    BY <2>1 DEF Creates, Copies, Writer, SegInv, SegLocal
  <2> QED BY <2>1 DEF Creators, Copiers
<1>3. mem[i].typeID # NewSegment
  BY <1>1, NewIsEmpty
<1>4. Stored(mem[i]).typeID # Store!New.typeID
  BY <1>3, SameNew DEF Stored, Joined, Unfilled
<1>5. Stored(mem[i]) # Store!New
  BY <1>4
<1> QED BY <1>1, <1>2, <1>5 DEF ArrayOf

(* The array of the segment a call works on, if it is not writing to it.   *)
LEMMA ArrayReady ==
  ASSUME TypeInv, MasterInv, SlotInv, TableInv, SegInv, ContentInv, NEW p \in Proc,
         pc[p] \in SnapLabel, shm[p] \in ShmId, ~Writer(p)
  PROVE  /\ Whole(mem[shm[p]]) /\ ArrayOf(shm[p]) = Stored(mem[shm[p]])
         /\ Stored(mem[shm[p]]) # Store!New
<1>1. Used(shm[p])
  BY DEF Used, Snapped
<1>2. \A q \in Proc : shm[q] = shm[p] => ~Writer(q)
  BY CopyAlone
<1> QED BY <1>1, <1>2, ArrayFree

(* The array of the segment a call is copying to.                          *)
LEMMA ArrayCopying ==
  ASSUME NEW p \in Proc, Copies(p), ~Creates(p),
         \A q \in Proc \ {p} : shm[q] = shm[p] => ~Creates(q) /\ ~Copies(q)
  PROVE  ArrayOf(shm[p]) = [Stored(mem[shm[p]]) EXCEPT !.data = call[p].arr.data]
<1>1. Creators(shm[p]) = {} /\ Copiers(shm[p]) = {p}
  BY DEF Creators, Copiers
<1>2. (CHOOSE q \in Copiers(shm[p]) : TRUE) = p
  BY <1>1
<1> QED BY <1>1, <1>2 DEF ArrayOf

(* The same after a step that lets the call go on copying,                 *)
LEMMA ArrayCopied ==
  ASSUME NEW p \in Proc, Others(p), Copies(p)', ~Creates(p)', UNCHANGED <<call, shm>>,
         \A q \in Proc \ {p} : shm[q] = shm[p] => ~Creates(q)' /\ ~Copies(q)'
  PROVE  ArrayOf(shm[p])' = [Stored(mem'[shm[p]]) EXCEPT !.data = call[p].arr.data]
<1>1. Creators(shm[p])' = {} /\ Copiers(shm[p])' = {p}
  BY DEF Creators, Copiers
<1>2. (CHOOSE q \in Copiers(shm[p])' : TRUE) = p
  BY <1>1
<1> QED BY <1>1, <1>2 DEF ArrayOf, Stored

(* and after the step that has filled the header.                          *)
LEMMA ArrayFilled ==
  ASSUME TypeInv, NEW p \in Proc, Others(p), Copies(p)', ~Creates(p)', call[p].op = "write",
         UNCHANGED <<call, shm>>,
         \A q \in Proc \ {p} : shm[q] = shm[p] => ~Creates(q)' /\ ~Copies(q)',
         mem'[shm[p]].typeID = call[p].arr.typeID, mem'[shm[p]].number = call[p].arr.number
  PROVE  ArrayOf(shm[p])' = call[p].arr
<1>1. call[p].arr \in [typeID : 0 .. 5, number : Seq(Nat), data : Data]
  BY WrittenArray, PoolAssumption DEF TypeInv
<1>2. ArrayOf(shm[p])' = [Stored(mem'[shm[p]]) EXCEPT !.data = call[p].arr.data]
  BY ArrayCopied
<1>3. Stored(mem'[shm[p]]).typeID = call[p].arr.typeID
      /\ Stored(mem'[shm[p]]).number = call[p].arr.number
  BY DEF Stored, Joined
<1>4. [Stored(mem'[shm[p]]) EXCEPT !.data = call[p].arr.data] =
        [typeID |-> call[p].arr.typeID, number |-> call[p].arr.number, data |-> call[p].arr.data]
  BY <1>3 DEF Stored, Joined
<1>5. call[p].arr =
        [typeID |-> call[p].arr.typeID, number |-> call[p].arr.number, data |-> call[p].arr.data]
  BY <1>1
<1> QED BY <1>2, <1>4, <1>5

(* What a publisher does after its write took effect changes no array.     *)
LEMMA Announces ==
  ASSUME TypeInv, MasterInv, TableInv, StoreInv, NEW p \in Proc, Others(p),
         pc[p] \in {"getncnt", "publish"}, pc'[p] \in {"publish", "ack"},
         UNCHANGED <<mem, entry, call, create, shm, semAlive, keyed>>
  PROVE  StoreInv' /\ UNCHANGED Store!vars
<1>1. StoreLocal(p)'
  BY DEF StoreLocal, SnapLabel
<1>2. /\ Phase(p)' = Phase(p) /\ Got(p)' = Got(p)
      /\ ~Creates(p) /\ ~Creates(p)' /\ ~Copies(p) /\ ~Copies(p)'
  BY DEF Phase, Got, Unfilled, Creates, Copies
<1> QED BY <1>1, <1>2, Stutters

(* It returns as if it had not published.                                  *)
LEMMA Announced ==
  ASSUME TypeInv, MasterInv, TableInv, StoreInv, NEW p \in Proc, Others(p),
         pc[p] \in {"publish", "ack"}, Return(p), UNCHANGED <<mem, entry, semAlive, keyed>>
  PROVE  StoreInv' /\ Store!Next
<1>1. StoreInv' /\ Store!Return(p) /\ ~Creates(p)' /\ ~Copies(p)'
  BY Returned
<1>2. Phase(p) = "done" /\ ~Creates(p) /\ ~Copies(p)
  BY DEF Phase, Creates, Copies
<1>3. StoreOf' = StoreOf
  BY <1>1, <1>2, Keeps
<1>4. Store!Done(p)
  BY <1>1, <1>2, <1>3 DEF Store!Done
<1> QED BY <1>1, <1>4 DEF Store!Next

(* Every step of the code is a step of the store, or leaves it alone.      *)
LEMMA StoreStep ==
  ASSUME Signals = FALSE, NoMemory = FALSE, PlainCalls, TypeInv, MasterInv, SlotInv, TableInv,
         SegInv, ContentInv, StoreInv, NEW p \in Proc, Begin(p) \/ Step(p)
  PROVE  StoreInv' /\ [Store!Next]_(Store!vars)
<1>0. Others(p)
  BY StepOthers
<1>1. CASE Begin(p)
  <2>1. /\ pc[p] = "idle" /\ pc'[p] = "attach_master"
        /\ UNCHANGED <<mem, entry, semAlive, keyed>>
        /\ \E c \in Call[p] : call' = [call EXCEPT ![p] = c]
    BY <1>1 DEF Begin, Goto, kernelSem, master, segs, TypeInv, LocalsOK,
       LocalsTypeOK
  <2>2. StoreLocal(p)' /\ ~Creates(p) /\ ~Creates(p)' /\ ~Copies(p) /\ ~Copies(p)'
    BY <2>1 DEF StoreLocal, SnapLabel, Creates, Copies
  <2>3. Phase(p) = "idle" /\ Phase(p)' = "called" /\ Got(p)' = Got(p)
    BY <2>1 DEF Phase, Got, Unfilled
  <2>4. StoreInv' /\ StoreOf' = StoreOf
    BY <1>0, <2>1, <2>2, StoreOthers, Keeps
  <2>5. Store!Begin(p)
    BY <1>0, <2>1, <2>3, <2>4, PhaseChanged DEF Store!Begin
  <2> QED BY <2>4, <2>5 DEF Store!Next
<1>2. CASE FindMaster(p)
  <2>1. /\ pc[p] = "attach_master" /\ pc'[p] = "shmat_master"
        /\ UNCHANGED <<mem, entry, call, semAlive, keyed>>
    BY <1>2 DEF FindMaster, Goto, Return, kernelSem, master, segs, locals,
       TypeInv, LocalsOK, LocalsTypeOK, StoreInv
  <2>2. StoreLocal(p)'
    BY <2>1 DEF StoreLocal, SnapLabel, TableInv, TableLocal, StoreInv
  <2> QED BY <1>0, <2>1, <2>2, Quiet DEF Busy, SnapLabel
<1>3. CASE AttachMaster(p)
  <2>1. /\ pc[p] = "shmat_master" /\ pc'[p] = "lock_master"
        /\ UNCHANGED <<mem, entry, call, semAlive, keyed>>
    BY <1>3 DEF AttachMaster, Goto, Return, kernelSem, master, segs, locals,
       TypeInv, LocalsOK, LocalsTypeOK, StoreInv
  <2>2. StoreLocal(p)'
    BY <2>1 DEF StoreLocal, SnapLabel, TableInv, TableLocal, StoreInv
  <2> QED BY <1>0, <2>1, <2>2, Quiet DEF Busy, SnapLabel
<1>4. CASE AttachMasterFault(p)
  <2> QED BY <1>4 DEF AttachMasterFault, MasterExists, StoreInv
<1>5. CASE LockMaster(p)
  <2>1. /\ pc[p] = "lock_master"
        /\ pc'[p] = IF call[p].op = "info" THEN "scan" ELSE "lkup_slot"
        /\ UNCHANGED <<mem, entry, call, semAlive, keyed>>
    BY <1>5 DEF LockMaster, Goto, master, segs, locals, TypeInv, LocalsOK,
       LocalsTypeOK,
       PlainCalls, TableInv, TableLocal
  <2>2. StoreLocal(p)'
    BY <2>1 DEF StoreLocal, SnapLabel
  <2> QED BY <1>0, <2>1, <2>2, Quiet DEF Busy, SnapLabel
<1>6. CASE LockMasterFails(p)
  <2> QED BY <1>6 DEF LockMasterFails, SemopFails, StoreInv
<1>7. CASE FindSlot(p)
  <2>1. /\ pc[p] = "lkup_slot" /\ pc'[p] = "lock_slot" /\ call[p].op # "free"
        /\ UNCHANGED <<mem, entry, call, semAlive, keyed>>
    BY <1>7 DEF FindSlot, Goto, kernelSem, master, segs, TypeInv, LocalsOK,
       LocalsTypeOK
  <2>2. StoreLocal(p)'
    BY <2>1 DEF StoreLocal, SnapLabel, TableInv, TableLocal
  <2> QED BY <1>0, <2>1, <2>2, Quiet DEF Busy, SnapLabel
<1>8. CASE PickFreeSlot(p)
  <2>1. /\ pc[p] = "lkup_slot" /\ pc'[p] = "lock_slot" /\ call[p].op = "write"
        /\ UNCHANGED <<mem, entry, call, semAlive, keyed>>
    BY <1>8 DEF PickFreeSlot, Goto, kernelSem, master, segs, TypeInv, LocalsOK,
       LocalsTypeOK
  <2>2. StoreLocal(p)'
    BY <2>1 DEF StoreLocal, SnapLabel, TableInv, TableLocal
  <2> QED BY <1>0, <2>1, <2>2, Quiet DEF Busy, SnapLabel
<1>9. CASE NoSuchSlot(p)
  <2>1. /\ pc[p] = "lkup_slot" /\ lkup_slot(call[p].id) = {} /\ Return(p)
        /\ call[p].op = "write" => getfree_slot = {}
        /\ UNCHANGED <<mem, entry, semAlive, keyed>>
    BY <1>9 DEF NoSuchSlot, Detach, segs
  <2>2. /\ StoreInv' /\ Store!Return(p) /\ ~Creates(p)' /\ ~Copies(p)'
    BY <2>1, Returned
  <2>3. Phase(p) = "called" /\ ~Creates(p) /\ ~Copies(p)
    BY <2>1 DEF Phase, Creates, Copies
  <2>4. StoreOf' = StoreOf
    BY <1>0, <2>1, <2>2, <2>3, Keeps
  <2>5. ~Store!Named(p)
    BY <2>1, NobodysName DEF Store!Named, StoreOf, NamesInUse
  <2>6. call[p].op \in {"write", "read", "free"} /\ (call[p].op = "write" => Store!Full)
    BY <2>1, FullMeans DEF TableInv, TableLocal
  <2>7. Store!Fail(p)
    BY <2>2, <2>3, <2>4, <2>5, <2>6 DEF Store!Fail, Store!In
  <2> QED BY <2>2, <2>7 DEF Store!Next
<1>10. CASE LockSlot(p)
  <2>1. /\ pc[p] = "lock_slot"
        /\ pc'[p] = IF create[p] THEN "shmget_slot" ELSE "snap_slot"
        /\ UNCHANGED <<mem, entry, call, create, semAlive, keyed>>
    BY <1>10 DEF LockSlot, Goto, master, segs, locals, TypeInv, LocalsOK,
       LocalsTypeOK
  <2>2. StoreLocal(p)'
    BY <2>1 DEF StoreInv, StoreLocal, SnapLabel
  <2>3. /\ Phase(p)' = Phase(p) /\ Got(p)' = Got(p)
        /\ ~Creates(p) /\ ~Creates(p)' /\ ~Copies(p) /\ ~Copies(p)'
    BY <2>1 DEF Phase, Got, Unfilled, Creates, Copies
  <2> QED BY <1>0, <2>1, <2>2, <2>3, Stutters
<1>11. CASE LockSlotFails(p)
  <2> QED BY <1>11 DEF LockSlotFails, SemopFails, StoreInv
<1>12. CASE CreateSegment(p)
  <2>1. PICK i \in ShmId : Fresh(i) /\ mem' = [mem EXCEPT ![i] = Zeroed(NoData)]
    BY <1>12 DEF CreateSegment
  <2>2. /\ pc[p] = "shmget_slot" /\ pc'[p] = "set_entry"
        /\ UNCHANGED <<entry, call, semAlive, keyed>>
        /\ \A j \in ShmId \ {i} : mem'[j] = mem[j]
    BY <1>12, <2>1 DEF CreateSegment, Goto, kernelSem, master, TypeInv,
       LocalsOK,
       LocalsTypeOK, SegsTypeOK
  <2>3. StoreLocal(p)'
    BY <2>2 DEF StoreInv, StoreLocal, SnapLabel
  <2>4. /\ Phase(p)' = Phase(p) /\ Got(p)' = Got(p)
        /\ ~Creates(p) /\ ~Creates(p)' /\ ~Copies(p) /\ ~Copies(p)'
    BY <2>2 DEF Phase, Got, Unfilled, Creates, Copies
  <2>5. ASSUME NEW s \in Slot, entry[s].slot_shmid # NoShm
        PROVE  ArrayOf(entry[s].slot_shmid)' = ArrayOf(entry[s].slot_shmid)
    <3>1. entry[s].slot_shmid \in ShmId \ {i}
      BY <2>1, <2>5, SlotNamed DEF Fresh
    <3>2. mem'[entry[s].slot_shmid] = mem[entry[s].slot_shmid]
      BY <2>2, <3>1
    <3> QED BY <1>0, <2>2, <2>4, <3>2, ArrayKept
  <2>6. StoreInv' /\ StoreOf' = StoreOf
    BY <1>0, <2>2, <2>3, <2>5, StoreOthers, StoreKept
  <2> QED BY <1>0, <2>2, <2>4, <2>6, PhaseChanged DEF Store!vars
<1>13. CASE CreateSegmentFails(p)
  <2>1. PICK i \in ShmId : segKeyed[i] /\ segSlot[i] = slot[p]
    BY <1>13 DEF CreateSegmentFails
  <2>2. pc[p] = "shmget_slot" /\ entry[slot[p]].slot_shmid = NoShm
    BY <1>13 DEF CreateSegmentFails, TableInv, TableLocal, Creating
  <2>3. PICK q \in Proc : pc[q] = "set_entry"
    BY <2>1, <2>2, PoolAssumption DEF TableInv, Entries
  <2> QED BY <2>2, <2>3 DEF MasterInv, MasterExclusive, HoldsMaster
<1>14. CASE SetEntry(p)
  <2> DEFINE id == call[p].id
  <2>1. /\ pc[p] = "set_entry" /\ pc'[p] = "snap_slot"
        /\ UNCHANGED <<mem, call, slot, create, shm, semAlive, keyed>>
        /\ \A s \in Slot \ {slot[p]} : entry'[s] = entry[s]
        /\ slot[p] \in Slot => entry'[slot[p]] = [slot_shmid |-> shm[p], desc |-> id]
    BY <1>14 DEF SetEntry, Goto, kernelSem, master, segs, locals, TypeInv,
       LocalsOK,
       LocalsTypeOK, SharedTypeOK
  <2>2. /\ slot[p] \in Slot /\ create[p] /\ call[p].op = "write" /\ id # NoDesc
        /\ entry[slot[p]].slot_shmid = NoShm /\ \A t \in Slot : entry[t].desc # id
        /\ shm[p] \in ShmId /\ segSlot[shm[p]] = slot[p]
    BY <2>1, CallFields DEF TableInv, TableLocal, Creating, TypeInv, LocalsOK,
       LocalOK, SlotLabel
  <2>3. StoreInv'
    <3>1. StoreLocal(p)'
      BY <2>1 DEF StoreInv, StoreLocal, SnapLabel
    <3>2. HoldsMaster(p)
      BY <2>1 DEF HoldsMaster
    <3> QED BY <1>0, <2>1, <3>1, <3>2, StoreOthers
  <2>4. /\ Phase(p) = "called" /\ Phase(p)' = "called" /\ Got(p)' = Got(p)
        /\ ~Creates(p) /\ Creates(p)' /\ ~Copies(p) /\ ~Copies(p)'
    BY <2>1, <2>2 DEF Phase, Got, Unfilled, Creates, Copies
  <2>5. NamesInUse' = NamesInUse \cup {id}
    <3>1. entry[slot[p]].desc = NoDesc
      BY <2>2 DEF TableInv, Entries
    <3>2. ASSUME NEW n \in NamesInUse PROVE n \in NamesInUse'
      <4>1. PICK s \in Slot : entry[s].desc = n /\ n # NoDesc
        BY DEF NamesInUse
      <4> QED BY <2>1, <3>1, <4>1 DEF NamesInUse
    <3>3. id \in NamesInUse'
      BY <2>1, <2>2 DEF NamesInUse
    <3>4. ASSUME NEW n \in NamesInUse', n # id PROVE n \in NamesInUse
      <4>1. PICK s \in Slot : entry'[s].desc = n /\ n # NoDesc
        BY DEF NamesInUse
      <4>2. s # slot[p]
        BY <2>1, <2>2, <3>4, <4>1
      <4> QED BY <2>1, <4>1, <4>2 DEF NamesInUse
    <3> QED BY <3>2, <3>3, <3>4
  <2>6. At(call[p].id)' = slot[p]
    <3>1. entry'[slot[p]].desc = call[p].id
      BY <2>1, <2>2
    <3>2. \A t \in Slot : entry'[t].desc = call[p].id => t = slot[p]
      BY <2>1, <2>2
    <3>3. (CHOOSE u \in FirstOf({t \in Slot : entry'[t].desc = call[p].id}) : TRUE) = slot[p]
      BY <2>2, <3>1, <3>2, TheSlot
    <3>4. call'[p].id = call[p].id
      BY <2>1
    <3> QED BY <3>3, <3>4 DEF At, lkup_slot
  <2>7. ASSUME NEW n \in NamesInUse PROVE At(n)' = At(n) /\ At(n) \in Slot \ {slot[p]}
    <3>1. At(n) \in Slot \ {slot[p]} /\ entry[At(n)].desc = n
      BY <2>2, NameAt
    <3>2. n # NoDesc /\ n # call[p].id
      BY <2>2 DEF NamesInUse
    <3>3. entry'[At(n)].desc = n
      BY <2>1, <3>1
    <3>4. \A t \in Slot : entry'[t].desc = n => t = At(n)
      BY <2>1, <2>2, <3>1, <3>2 DEF TableInv, Entries, UniqueNames
    <3>5. (CHOOSE u \in FirstOf({t \in Slot : entry'[t].desc = n}) : TRUE) = At(n)
      BY <3>1, <3>3, <3>4, TheSlot
    <3> QED BY <3>1, <3>5 DEF At, lkup_slot
  <2>8. ArrayOf(shm[p])' = Store!New
    <3>1. Creators(shm[p])' # {}
      BY <2>1, <2>4 DEF Creators
    <3> QED BY <2>1, <3>1, SameNew DEF ArrayOf, Unfilled
  <2>9. ASSUME NEW n \in NamesInUse
        PROVE  (ArrayOf(entry[At(n)].slot_shmid))' = ArrayOf(entry[At(n)].slot_shmid)
    <3>1. entry[At(n)].slot_shmid # shm[p]
      BY <2>2, <2>7, NameAt DEF TableInv, Entries
    <3>2. \A j : j # shm[p] => ArrayOf(j)' = ArrayOf(j)
      BY <1>0, <2>1, <2>4, ArrayKept
    <3>3. (entry[At(n)].slot_shmid)' = entry[At(n)].slot_shmid
      BY <2>1, <2>7
    <3> QED BY <3>1, <3>2, <3>3
  <2>10. StoreOf' = [n \in NamesInUse \cup {id} |-> IF n = id THEN Store!New ELSE StoreOf[n]]
    <3>1. id \notin NamesInUse
      BY <2>2 DEF NamesInUse
    <3>2. ASSUME NEW n \in NamesInUse \cup {id}
          PROVE  (ArrayOf(entry[At(n)].slot_shmid))' = IF n = id THEN Store!New ELSE StoreOf[n]
      BY <2>1, <2>2, <2>6, <2>8, <2>9, <3>1 DEF StoreOf
    <3> QED BY <2>5, <3>2 DEF StoreOf
  <2>11. ~Store!Full /\ ~Store!Named(p) /\ DOMAIN StoreOf = NamesInUse
    BY <2>2, FullMeans DEF Store!Named, StoreOf, NamesInUse
  <2>12. /\ [q \in Proc |-> Phase(q)]' = [q \in Proc |-> Phase(q)]
         /\ [q \in Proc |-> Got(q)]' = [q \in Proc |-> Got(q)]
    BY <1>0, <2>4, PhaseChanged
  <2>13. Store!In(p, "write")
    BY <2>2, <2>4 DEF Store!In
  <2> HIDE DEF id
  <2>14. StoreOf' = [n \in DOMAIN StoreOf \cup {id} |-> IF n = id THEN Store!New ELSE StoreOf[n]]
    BY <2>10, <2>11
  <2>15. Store!Reserve(p)
    BY <2>1, <2>11, <2>12, <2>13, <2>14 DEF Store!Reserve, id
  <2> QED BY <2>3, <2>15 DEF Store!Next
<1>15. CASE SnapSlot(p)
  <2>1. /\ pc[p] = "snap_slot" /\ pc'[p] = "shmat_slot"
        /\ UNCHANGED <<mem, entry, call, create, semAlive, keyed>>
        /\ shm'[p] = entry[slot[p]].slot_shmid
    BY <1>15 DEF SnapSlot, Goto, Detach, segs, TypeInv, LocalsOK, LocalsTypeOK
  <2>2. create[p] => shm'[p] = shm[p]
    BY <2>1 DEF TableInv, TableLocal
  <2>3. StoreLocal(p)'
    BY <2>1 DEF StoreInv, StoreLocal, SnapLabel
  <2>4. /\ Phase(p)' = Phase(p) /\ Got(p)' = Got(p) /\ ~Copies(p) /\ ~Copies(p)'
        /\ (Creates(p)' <=> Creates(p)) /\ (Creates(p) => shm'[p] = shm[p])
    BY <2>1, <2>2 DEF Phase, Got, Unfilled, Creates, Copies
  <2> QED BY <1>0, <2>1, <2>3, <2>4, Stutters
<1>16. CASE AttachSegment(p)
  <2>1. /\ pc[p] = "shmat_slot" /\ pc'[p] = "header"
        /\ UNCHANGED <<entry, call, slot, create, shm, semAlive, keyed>>
    BY <1>16 DEF AttachSegment, Goto, kernelSem, master, locals, TypeInv,
       LocalsOK, LocalsTypeOK
  <2> DEFINE i == shm[p]
  <2>2. /\ pc[p] \in SnapLabel /\ slot[p] \in Slot /\ i \in ShmId /\ i # NoShm
        /\ entry[slot[p]] = [slot_shmid |-> i, desc |-> call[p].id]
        /\ \A s \in Slot \ {slot[p]} : entry[s].slot_shmid # i
    BY <2>1, OwnSegment DEF SnapLabel
  <2>3. \A q \in Proc \ {p} : shm[q] = i => ~Creates(q) /\ ~Creates(q)' /\ ~Copies(q) /\ ~Copies(q)'
    BY <1>0, <2>2, AloneIn
  <2>4. StoreInv'
    <3>1. StoreLocal(p)'
      BY <2>1 DEF StoreInv, StoreLocal, SnapLabel
    <3> QED BY <1>0, <2>1, <3>1, StoreOthers
  <2>5. /\ Phase(p)' = Phase(p) /\ Got(p)' = Got(p) /\ (Creates(p)' <=> Creates(p))
        /\ ~Copies(p) /\ ~Copies(p)' /\ (create[p] => Creates(p))
    BY <2>1 DEF Phase, Got, Unfilled, Creates, Copies
  <2>7. \A j \in ShmId \ {i} : mem'[j] = mem[j]
    BY <1>16, <2>2 DEF AttachSegment, TypeInv, SegsTypeOK
  <2>8. ASSUME NEW s \in Slot \ {slot[p]}, entry[s].slot_shmid # NoShm
        PROVE  ArrayOf(entry[s].slot_shmid)' = ArrayOf(entry[s].slot_shmid)
    <3>1. entry[s].slot_shmid \in ShmId /\ entry[s].slot_shmid # i
      BY <2>2, <2>8, SlotNamed
    <3>2. mem'[entry[s].slot_shmid] = mem[entry[s].slot_shmid]
      BY <2>7, <3>1
    <3> QED BY <1>0, <2>1, <3>1, <3>2, ArrayKept
  <2>9. ArrayOf(i)' = ArrayOf(i)
    <3>1. CASE create[p]
      <4>1. p \in Creators(i) /\ p \in Creators(i)'
        BY <2>1, <2>5, <3>1 DEF Creators
      <4> QED BY <2>1, <4>1 DEF ArrayOf, Unfilled
    <3>2. CASE ~create[p]
      <4>1. mem' = mem
        BY <1>16, <3>2 DEF AttachSegment
      <4> QED BY <1>0, <2>1, <2>5, <4>1, ArrayKept
    <3> QED BY <3>1, <3>2
  <2>10. StoreOf' = StoreOf
    <3>1. ASSUME NEW s \in Slot, entry[s].slot_shmid # NoShm
          PROVE  ArrayOf(entry[s].slot_shmid)' = ArrayOf(entry[s].slot_shmid)
      <4>1. CASE s = slot[p]
        <5>1. entry[s].slot_shmid = shm[p] /\ (entry[s].slot_shmid)' = (shm[p])'
          BY <2>1, <2>2, <4>1
        <5> QED BY <2>9, <5>1
      <4>2. CASE s # slot[p]
        BY <2>8, <3>1, <4>2
      <4> QED BY <4>1, <4>2
    <3> QED BY <2>1, <3>1, StoreKept
  <2> QED BY <1>0, <2>1, <2>4, <2>5, <2>10, PhaseChanged DEF Store!vars
<1>17. CASE AttachSegmentFails(p)
  <2> QED BY <1>17, OwnSegment DEF AttachSegmentFails, SnapLabel, Exists
<1>18. CASE FillHeader(p)
  <2>1. /\ pc[p] = "header" /\ pc'[p] = "memcpy" /\ call[p].op = "write"
        /\ mem[shm[p]].typeID = NewSegment
        /\ UNCHANGED <<entry, call, slot, create, shm, semAlive, keyed>>
    BY <1>18 DEF FillHeader, Goto, kernelSem, master, locals, TypeInv, LocalsOK,
       LocalsTypeOK
  <2> DEFINE i == shm[p]
  <2>2. /\ pc[p] \in SnapLabel /\ slot[p] \in Slot /\ i \in ShmId /\ i # NoShm
        /\ entry[slot[p]] = [slot_shmid |-> i, desc |-> call[p].id]
        /\ \A s \in Slot \ {slot[p]} : entry[s].slot_shmid # i
    BY <2>1, OwnSegment DEF SnapLabel
  <2>3. \A q \in Proc \ {p} : shm[q] = i => ~Creates(q) /\ ~Creates(q)' /\ ~Copies(q) /\ ~Copies(q)'
    BY <1>0, <2>2, AloneIn
  <2>4. StoreInv'
    <3>1. StoreLocal(p)'
      BY <2>1 DEF StoreInv, StoreLocal, SnapLabel
    <3> QED BY <1>0, <2>1, <3>1, StoreOthers
  <2>5. /\ Phase(p) = "called" /\ Phase(p)' = "done" /\ Got(p)' = Got(p)
        /\ ~Creates(p)' /\ ~Copies(p) /\ Copies(p)'
    BY <2>1 DEF Phase, Got, Unfilled, Creates, Copies
  <2>6. Creates(p)
    <3>1. ~Whole(mem[i])
      BY <2>1, NewIsEmpty
    <3>2. \E q \in Proc : Writer(q) /\ shm[q] = i
      BY <2>2, <3>1 DEF ContentInv, Used
    <3>3. Writer(p)
      BY <2>2, <3>2, CopyAlone
    <3> QED BY <2>1, <3>3 DEF Writer, Creates
  <2>7. /\ mem'[i].typeID = call[p].arr.typeID /\ mem'[i].number = call[p].arr.number
        /\ \A j \in ShmId \ {i} : mem'[j] = mem[j]
    BY <1>18, <2>2 DEF FillHeader, TypeInv, SegsTypeOK, Content
  <2>8. ASSUME NEW s \in Slot \ {slot[p]}, entry[s].slot_shmid # NoShm
        PROVE  ArrayOf(entry[s].slot_shmid)' = ArrayOf(entry[s].slot_shmid)
    <3>1. entry[s].slot_shmid \in ShmId /\ entry[s].slot_shmid # i
      BY <2>2, <2>8, SlotNamed
    <3>2. mem'[entry[s].slot_shmid] = mem[entry[s].slot_shmid]
      BY <2>7, <3>1
    <3> QED BY <1>0, <2>1, <3>1, <3>2, ArrayKept
  <2>9. StoreOf[call[p].id] = Store!New /\ call[p].id \in DOMAIN StoreOf
    <3>1. p \in Creators(i)
      BY <2>6 DEF Creators
    <3>2. ArrayOf(i) = Store!New
      BY <3>1, SameNew DEF ArrayOf
    <3> QED BY <2>2, <3>2, StoredAt
  <2>10. ArrayOf(i)' = call[p].arr
    BY <1>0, <2>1, <2>2, <2>3, <2>5, <2>7, ArrayFilled
  <2>11. StoreOf' = [StoreOf EXCEPT ![call[p].id] = call[p].arr]
    BY <2>1, <2>2, <2>8, <2>10, StoreChanged
  <2>12. Store!Write(p)
    BY <1>0, <2>1, <2>5, <2>9, <2>11, PhaseChanged DEF Store!Write, Store!In,
       Store!Named
  <2> QED BY <2>4, <2>12 DEF Store!Next
<1>19. CASE CheckHeader(p)
  <2>1. /\ pc[p] = "header" /\ pc'[p] = "memcpy" /\ call[p].op = "write" /\ mem' = mem
        /\ mem[shm[p]].typeID # NewSegment /\ Fits(call[p].arr, mem[shm[p]])
        /\ UNCHANGED <<entry, call, slot, create, shm, semAlive, keyed>>
    BY <1>19 DEF CheckHeader, Goto, kernelSem, master, segs, locals, TypeInv,
       LocalsOK, LocalsTypeOK
  <2> DEFINE i == shm[p]
  <2>2. /\ pc[p] \in SnapLabel /\ slot[p] \in Slot /\ i \in ShmId /\ i # NoShm
        /\ entry[slot[p]] = [slot_shmid |-> i, desc |-> call[p].id]
        /\ \A s \in Slot \ {slot[p]} : entry[s].slot_shmid # i
    BY <2>1, OwnSegment DEF SnapLabel
  <2>3. \A q \in Proc \ {p} : shm[q] = i => ~Creates(q) /\ ~Creates(q)' /\ ~Copies(q) /\ ~Copies(q)'
    BY <1>0, <2>2, AloneIn
  <2>4. StoreInv'
    <3>1. StoreLocal(p)'
      BY <2>1 DEF StoreInv, StoreLocal, SnapLabel
    <3> QED BY <1>0, <2>1, <3>1, StoreOthers
  <2>6. Whole(mem[i]) /\ ArrayOf(i) = Stored(mem[i]) /\ Stored(mem[i]) # Store!New
    <3>1. ~Writer(p)
      BY <2>1 DEF Writer, ContentInv, CopyLocal
    <3> QED BY <2>2, <3>1, ArrayReady
  <2>5. /\ Phase(p) = "called" /\ Phase(p)' = "done" /\ Got(p)' = Got(p)
        /\ ~Creates(p)' /\ ~Copies(p) /\ Copies(p)'
    BY <2>1 DEF Phase, Got, Unfilled, Creates, Copies
  <2>7. ~Creates(p)
    BY <2>1 DEF Creates, ContentInv, CopyLocal
  <2>8. ASSUME NEW s \in Slot \ {slot[p]}, entry[s].slot_shmid # NoShm
        PROVE  ArrayOf(entry[s].slot_shmid)' = ArrayOf(entry[s].slot_shmid)
    BY <1>0, <2>1, <2>2, ArrayKept
  <2>9. StoreOf[call[p].id] = Stored(mem[i]) /\ call[p].id \in DOMAIN StoreOf
    BY <2>2, <2>6, StoredAt
  <2>10. ArrayOf(i)' = [Stored(mem[i]) EXCEPT !.data = call[p].arr.data]
    BY <1>0, <2>1, <2>2, <2>3, <2>5, ArrayCopied
  <2>11. StoreOf' = [StoreOf EXCEPT ![call[p].id] = [@ EXCEPT !.data = call[p].arr.data]]
    BY <2>1, <2>2, <2>8, <2>9, <2>10, StoreChanged
  <2>12. Store!Fits(call[p].arr, Stored(mem[i]))
    BY <2>1, SameFits DEF Fits, Stored, Joined
  <2>13. Store!Write(p)
    BY <1>0, <2>1, <2>5, <2>6, <2>9, <2>11, <2>12, PhaseChanged
       DEF Store!Write, Store!In, Store!Named
  <2> QED BY <2>4, <2>13 DEF Store!Next
<1>20. CASE RefuseMisfit(p)
  <2> DEFINE i == shm[p]
  <2>1. /\ pc[p] = "header" /\ call[p].op = "write" /\ Return(p)
        /\ mem[i].typeID # NewSegment /\ ~Fits(call[p].arr, mem[i])
        /\ UNCHANGED <<mem, entry, semAlive, keyed>>
    BY <1>20 DEF RefuseMisfit, master
  <2>2. /\ pc[p] \in SnapLabel /\ slot[p] \in Slot /\ i \in ShmId /\ i # NoShm
        /\ entry[slot[p]] = [slot_shmid |-> i, desc |-> call[p].id]
    BY <2>1, OwnSegment DEF SnapLabel
  <2>6. Whole(mem[i]) /\ ArrayOf(i) = Stored(mem[i]) /\ Stored(mem[i]) # Store!New
    <3>1. ~Writer(p)
      BY <2>1 DEF Writer, ContentInv, CopyLocal
    <3> QED BY <2>2, <3>1, ArrayReady
  <2>3. StoreInv' /\ Store!Return(p) /\ ~Creates(p)' /\ ~Copies(p)'
    BY <2>1, Returned
  <2>4. Phase(p) = "called" /\ ~Creates(p) /\ ~Copies(p)
    BY <2>1 DEF Phase, Creates, Copies, ContentInv, CopyLocal
  <2>5. StoreOf' = StoreOf
    BY <1>0, <2>1, <2>3, <2>4, Keeps
  <2>7. StoreOf[call[p].id] = Stored(mem[i]) /\ call[p].id \in DOMAIN StoreOf
    BY <2>2, <2>6, StoredAt
  <2>8. ~Store!Fits(call[p].arr, Stored(mem[i]))
    BY <2>1, SameFits DEF Fits, Stored, Joined
  <2>9. Store!Fail(p)
    BY <2>1, <2>3, <2>4, <2>5, <2>6, <2>7, <2>8 DEF Store!Fail, Store!In,
       Store!Named
  <2> QED BY <2>3, <2>9 DEF Store!Next
<1>21. CASE ReadHeader(p)
  <2>1. /\ pc[p] = "header" /\ pc'[p] = "memcpy" /\ call[p].op = "read"
        /\ UNCHANGED <<mem, entry, call, create, shm, semAlive, keyed>>
    BY <1>21 DEF ReadHeader, Goto, kernelSem, master, segs, TypeInv, LocalsOK,
       LocalsTypeOK
  <2>2. StoreLocal(p)'
    BY <2>1 DEF StoreInv, StoreLocal, SnapLabel
  <2>3. ~create[p]
    BY <2>1 DEF SegInv, SegLocal
  <2>4. /\ Phase(p)' = Phase(p) /\ Got(p)' = Got(p)
        /\ ~Creates(p) /\ ~Creates(p)' /\ ~Copies(p) /\ ~Copies(p)'
    BY <2>1, <2>3 DEF Phase, Got, Unfilled, Creates, Copies
  <2> QED BY <1>0, <2>1, <2>2, <2>4, Stutters
<1>22. CASE CopyFirstHalf(p)
  <2>1. /\ pc[p] = "memcpy" /\ pc'[p] = "memcpy_rest"
        /\ UNCHANGED <<entry, call, slot, create, shm, semAlive, keyed>>
    BY <1>22 DEF CopyFirstHalf, Goto, kernelSem, master, TypeInv, LocalsOK,
       LocalsTypeOK
  <2> DEFINE i == shm[p]
  <2>2. /\ pc[p] \in SnapLabel /\ slot[p] \in Slot /\ i \in ShmId /\ i # NoShm
        /\ entry[slot[p]] = [slot_shmid |-> i, desc |-> call[p].id]
        /\ \A s \in Slot \ {slot[p]} : entry[s].slot_shmid # i
    BY <2>1, OwnSegment DEF SnapLabel
  <2>3. \A q \in Proc \ {p} : shm[q] = i => ~Creates(q) /\ ~Creates(q)' /\ ~Copies(q) /\ ~Copies(q)'
    BY <1>0, <2>2, AloneIn
  <2>4. StoreInv'
    <3>1. StoreLocal(p)'
      BY <2>1 DEF StoreInv, StoreLocal, SnapLabel
    <3> QED BY <1>0, <2>1, <3>1, StoreOthers
  <2>5. /\ Phase(p)' = Phase(p) /\ Got(p)' = Got(p)
        /\ ~Creates(p) /\ ~Creates(p)' /\ (Copies(p)' <=> Copies(p))
    BY <2>1 DEF Phase, Got, Unfilled, Creates, Copies
  <2>6. CASE call[p].op # "write"
    <3>1. mem' = mem /\ StoreLocal(p)'
      BY <1>22, <2>4, <2>6 DEF CopyFirstHalf, StoreInv
    <3> QED BY <1>0, <2>1, <2>5, <3>1, Stutters
  <2>7. CASE call[p].op = "write"
    <3>1. /\ mem'[i] = [mem[i] EXCEPT !.lo = call[p].arr.data]
          /\ \A j \in ShmId \ {i} : mem'[j] = mem[j]
      BY <1>22, <2>2, <2>7 DEF CopyFirstHalf, TypeInv, SegsTypeOK
    <3>2. mem'[i].typeID = mem[i].typeID /\ mem'[i].number = mem[i].number
      BY <2>2, <3>1 DEF TypeInv, SegsTypeOK, Content
    <3>3. Copies(p) /\ Copies(p)'
      BY <2>1, <2>7 DEF Copies
    <3>4. ArrayOf(i) = [Stored(mem[i]) EXCEPT !.data = call[p].arr.data]
      BY <2>3, <2>5, <3>3, ArrayCopying
    <3>5. ArrayOf(i)' = [Stored(mem'[i]) EXCEPT !.data = call[p].arr.data]
      BY <1>0, <2>1, <2>2, <2>3, <2>5, <3>3, ArrayCopied
    <3>6. ArrayOf(i)' = ArrayOf(i)
      BY <3>2, <3>4, <3>5 DEF Stored, Joined
    <3>7. ASSUME NEW s \in Slot, entry[s].slot_shmid # NoShm
          PROVE  ArrayOf(entry[s].slot_shmid)' = ArrayOf(entry[s].slot_shmid)
      <4>1. CASE entry[s].slot_shmid = i
        <5>1. (entry[s].slot_shmid)' = (shm[p])'
          BY <2>1, <4>1
        <5> QED BY <3>6, <4>1, <5>1
      <4>2. CASE entry[s].slot_shmid # i
        <5>1. mem'[entry[s].slot_shmid] = mem[entry[s].slot_shmid]
          BY <3>1, <3>7, <4>2, SlotNamed
        <5> QED BY <1>0, <2>1, <4>2, <5>1, ArrayKept
      <4> QED BY <4>1, <4>2
    <3>8. StoreOf' = StoreOf
      BY <2>1, <3>7, StoreKept
    <3> QED BY <1>0, <2>1, <2>4, <2>5, <3>8, PhaseChanged DEF Store!vars
  <2> QED BY <2>6, <2>7
<1>23. CASE CopySecondHalf(p)
  <2>1. /\ pc[p] = "memcpy_rest" /\ pc'[p] = "release"
        /\ UNCHANGED <<entry, call, slot, create, shm, semAlive, keyed>>
    BY <1>23 DEF CopySecondHalf, Goto, kernelSem, master, TypeInv, LocalsOK,
       LocalsTypeOK
  <2> DEFINE i == shm[p]
  <2>2. /\ pc[p] \in SnapLabel /\ slot[p] \in Slot /\ i \in ShmId /\ i # NoShm
        /\ entry[slot[p]] = [slot_shmid |-> i, desc |-> call[p].id]
        /\ \A s \in Slot \ {slot[p]} : entry[s].slot_shmid # i
    BY <2>1, OwnSegment DEF SnapLabel
  <2>3. \A q \in Proc \ {p} : shm[q] = i => ~Creates(q) /\ ~Creates(q)' /\ ~Copies(q) /\ ~Copies(q)'
    BY <1>0, <2>2, AloneIn
  <2>4. StoreInv'
    <3>1. StoreLocal(p)'
      BY <2>1 DEF StoreInv, StoreLocal, SnapLabel
    <3> QED BY <1>0, <2>1, <3>1, StoreOthers
  <2>5. ~Creates(p) /\ ~Creates(p)' /\ ~Copies(p)'
    BY <2>1 DEF Creates, Copies
  <2>6. CASE call[p].op # "write"
    <3>1. call[p].op = "read"
      BY <2>2, <2>6 DEF StoreInv, StoreLocal
    <3>2. mem' = mem /\ buf' = [buf EXCEPT ![p].hi = mem[i].hi] /\ ~Writer(p)
      BY <1>23, <2>6 DEF CopySecondHalf, Writer
    <3>3. /\ Phase(p) = "called" /\ Phase(p)' = "done" /\ ~Copies(p)
          /\ Got(p)' = Stored(buf'[p])
      BY <2>1, <3>1 DEF Phase, Got, Copies, Stored
    <3>4. Stored(buf'[p]) = Stored(mem[i])
      <4>1. /\ buf[p].typeID = mem[i].typeID /\ buf[p].number = mem[i].number
            /\ buf[p].lo = mem[i].lo
        BY <2>1, <3>1 DEF ContentInv, CopyLocal
      <4>2. /\ buf'[p].typeID = buf[p].typeID /\ buf'[p].number = buf[p].number
            /\ buf'[p].lo = buf[p].lo /\ buf'[p].hi = mem[i].hi
        BY <3>2 DEF TypeInv, LocalsOK, LocalsTypeOK, Content
      <4> QED BY <4>1, <4>2 DEF Stored, Joined
    <3>5. ArrayOf(i) = Stored(mem[i]) /\ Stored(mem[i]) # Store!New
      BY <2>2, <3>2, ArrayReady
    <3>6. StoreOf[call[p].id] = Stored(mem[i]) /\ call[p].id \in DOMAIN StoreOf
      BY <2>2, <3>5, StoredAt
    <3>7. StoreOf' = StoreOf
      BY <1>0, <2>1, <2>5, <3>2, <3>3, Keeps
    <3>8. Store!Read(p)
      BY <1>0, <2>1, <3>1, <3>3, <3>4, <3>5, <3>6, <3>7, PhaseChanged
         DEF Store!Read, Store!In, Store!Named
    <3> QED BY <2>4, <3>8 DEF Store!Next
  <2>7. CASE call[p].op = "write"
    <3>1. /\ mem'[i] = [mem[i] EXCEPT !.hi = call[p].arr.data]
          /\ \A j \in ShmId \ {i} : mem'[j] = mem[j]
      BY <1>23, <2>2, <2>7 DEF CopySecondHalf, TypeInv, SegsTypeOK
    <3>2. /\ mem'[i].typeID = mem[i].typeID /\ mem'[i].number = mem[i].number
          /\ mem'[i].lo = call[p].arr.data /\ mem'[i].hi = call[p].arr.data
      <4>1. mem[i] \in Content /\ mem[i].lo = call[p].arr.data
        BY <2>1, <2>2, <2>7 DEF TypeInv, SegsTypeOK, ContentInv, CopyLocal
      <4> QED BY <3>1, <4>1 DEF Content
    <3>3. Copies(p) /\ Phase(p)' = Phase(p) /\ Got(p)' = Got(p)
      BY <2>1, <2>7 DEF Copies, Phase, Got, Unfilled
    <3>4. ArrayOf(i) = [Stored(mem[i]) EXCEPT !.data = call[p].arr.data]
      BY <2>3, <2>5, <3>3, ArrayCopying
    <3>5. ArrayOf(i)' = Stored(mem'[i])
      <4>1. Creators(i)' = {} /\ Copiers(i)' = {}
        BY <1>0, <2>1, <2>3, <2>5 DEF Creators, Copiers
      <4> QED BY <2>1, <4>1 DEF ArrayOf, Stored
    <3>6. ArrayOf(i)' = ArrayOf(i)
      BY <3>2, <3>4, <3>5 DEF Stored, Joined
    <3>7. ASSUME NEW s \in Slot, entry[s].slot_shmid # NoShm
          PROVE  ArrayOf(entry[s].slot_shmid)' = ArrayOf(entry[s].slot_shmid)
      <4>1. CASE entry[s].slot_shmid = i
        <5>1. (entry[s].slot_shmid)' = (shm[p])'
          BY <2>1, <4>1
        <5> QED BY <3>6, <4>1, <5>1
      <4>2. CASE entry[s].slot_shmid # i
        <5>1. mem'[entry[s].slot_shmid] = mem[entry[s].slot_shmid]
          BY <3>1, <3>7, <4>2, SlotNamed
        <5> QED BY <1>0, <2>1, <4>2, <5>1, ArrayKept
      <4> QED BY <4>1, <4>2
    <3>8. StoreOf' = StoreOf
      BY <2>1, <3>7, StoreKept
    <3> QED BY <1>0, <2>1, <2>4, <3>3, <3>8, PhaseChanged DEF Store!vars
  <2> QED BY <2>6, <2>7
<1>24. CASE ReleaseSnapshot(p)
  <2>1. /\ pc[p] = "release" /\ UNCHANGED <<mem, entry, semAlive, keyed>>
        /\ IF call[p].publish THEN Goto(p, "getncnt") /\ UNCHANGED locals ELSE Return(p)
    BY <1>24 DEF ReleaseSnapshot, master
  <2>2. Phase(p) = "done" /\ ~Creates(p) /\ ~Copies(p)
    BY <2>1 DEF Phase, Creates, Copies
  <2>3. CASE call[p].publish
    <3>1. call[p].op = "write"
      BY <2>1, <2>3, CallFields DEF TypeInv, LocalsOK, LocalOK, NoCall
    <3>2. pc'[p] = "getncnt" /\ UNCHANGED <<call, create, shm>>
      BY <2>1, <2>3 DEF Goto, locals, TypeInv, LocalsOK, LocalsTypeOK
    <3>3. StoreLocal(p)'
      BY <3>1, <3>2 DEF StoreLocal, SnapLabel
    <3>4. /\ Phase(p)' = Phase(p) /\ Got(p)' = Got(p)
          /\ ~Creates(p)' /\ ~Copies(p)'
      BY <2>1, <2>2, <3>1, <3>2 DEF Phase, Got, Unfilled, Creates, Copies
    <3> QED BY <1>0, <2>1, <2>2, <3>2, <3>3, <3>4, Stutters
  <2>4. CASE ~call[p].publish
    <3>1. StoreInv' /\ Store!Return(p) /\ ~Creates(p)' /\ ~Copies(p)'
      BY <2>1, <2>4, Returned
    <3>2. StoreOf' = StoreOf
      BY <1>0, <2>1, <2>2, <3>1, Keeps
    <3>3. Store!Done(p)
      BY <2>2, <3>1, <3>2 DEF Store!Done
    <3> QED BY <3>1, <3>3 DEF Store!Next
  <2> QED BY <2>3, <2>4
<1>25. CASE CountSubscribers(p)
  <2>1. /\ pc[p] = "getncnt" /\ pc'[p] = "publish"
        /\ UNCHANGED <<mem, entry, call, create, shm, semAlive, keyed>>
    BY <1>25 DEF CountSubscribers, Goto, kernelSem, master, segs, TypeInv,
       LocalsOK, LocalsTypeOK
  <2> QED BY <1>0, <2>1, Announces
<1>26. CASE PublishToSubscribers(p)
  <2>1. /\ pc[p] = "publish" /\ pc'[p] = "ack"
        /\ UNCHANGED <<mem, entry, call, create, shm, semAlive, keyed>>
    BY <1>26 DEF PublishToSubscribers, master, segs, locals
  <2> QED BY <1>0, <2>1, Announces
<1>27. CASE PublishToNobody(p)
  <2>1. /\ pc[p] = "publish" /\ pc'[p] = "ack"
        /\ UNCHANGED <<mem, entry, call, create, shm, semAlive, keyed>>
    BY <1>27 DEF PublishToNobody, Goto, kernelSem, master, segs, locals,
       TypeInv, LocalsOK,
       LocalsTypeOK
  <2> QED BY <1>0, <2>1, Announces
<1>28. CASE PublishFails(p)
  <2>1. /\ pc[p] = "publish" /\ Return(p) /\ UNCHANGED <<mem, entry, semAlive, keyed>>
    BY <1>28 DEF PublishFails, kernelSem, master, segs
  <2> QED BY <1>0, <2>1, Announced
<1>29. CASE Acknowledged(p)
  <2>1. /\ pc[p] = "ack" /\ Return(p) /\ UNCHANGED <<mem, entry, semAlive, keyed>>
    BY <1>29 DEF Acknowledged, kernelSem, master, segs
  <2> QED BY <1>0, <2>1, Announced
<1>30. CASE SnapSubscription(p)
  <2> QED BY <1>30 DEF SnapSubscription, PlainCalls, TableInv, TableLocal
<1>31. CASE Subscribe(p)
  <2> QED BY <1>31 DEF Subscribe, StoreInv, StoreLocal
<1>32. CASE SubscribeFails(p)
  <2> QED BY <1>32 DEF SubscribeFails, StoreInv, StoreLocal
<1>33. CASE LockSnapshot(p)
  <2> QED BY <1>33 DEF LockSnapshot, StoreInv, StoreLocal
<1>34. CASE LockSnapshotFails(p)
  <2> QED BY <1>34 DEF LockSnapshotFails, StoreInv, StoreLocal
<1>35. CASE FindSlotToFree(p)
  <2>1. PICK s \in lkup_slot(call[p].id) : slot' = [slot EXCEPT ![p] = s]
    BY <1>35 DEF FindSlotToFree
  <2>2. /\ pc[p] = "lkup_slot" /\ pc'[p] = "lock_used" /\ call[p].op = "free"
        /\ slot'[p] = s /\ UNCHANGED <<mem, entry, call, semAlive, keyed>>
    BY <1>35, <2>1 DEF FindSlotToFree, Goto, kernelSem, master, segs, TypeInv,
       LocalsOK,
       LocalsTypeOK
  <2>3. entry[s].desc = call[p].id
    BY <2>2, FoundSlot
  <2>4. StoreLocal(p)'
    BY <2>2, <2>3 DEF StoreLocal, SnapLabel
  <2> QED BY <1>0, <2>2, <2>4, Quiet DEF Busy, SnapLabel
<1>36. CASE ScanUsed(p)
  <2>1. /\ pc[p] = "scan" /\ pc'[p] = "lock_used"
        /\ UNCHANGED <<mem, entry, call, semAlive, keyed>>
    BY <1>36 DEF ScanUsed, Goto, Return, kernelSem, master, segs, locals,
       TypeInv, LocalsOK, LocalsTypeOK, StoreInv
  <2>2. StoreLocal(p)'
    BY <2>1 DEF StoreLocal, SnapLabel, TableInv, TableLocal, StoreInv
  <2> QED BY <1>0, <2>1, <2>2, Quiet DEF Busy, SnapLabel
<1>37. CASE ScanFree(p)
  <2>1. /\ pc[p] = "scan" /\ pc'[p] = "scan"
        /\ UNCHANGED <<mem, entry, call, semAlive, keyed>>
    BY <1>37 DEF ScanFree, Goto, Return, kernelSem, master, segs, locals,
       TypeInv, LocalsOK, LocalsTypeOK, StoreInv
  <2>2. StoreLocal(p)'
    BY <2>1 DEF StoreLocal, SnapLabel, TableInv, TableLocal, StoreInv
  <2> QED BY <1>0, <2>1, <2>2, Quiet DEF Busy, SnapLabel
<1>38. CASE LockUsed(p)
  <2>1. /\ pc[p] = "lock_used" /\ slot' = slot /\ pc'[p] = IF call[p].op = "info" THEN "info_read" ELSE "rmid"
        /\ UNCHANGED <<mem, entry, call, semAlive, keyed>>
    BY <1>38 DEF LockUsed, Goto, Return, kernelSem, master, segs, locals,
       TypeInv, LocalsOK, LocalsTypeOK, StoreInv
  <2>2. StoreLocal(p)'
    BY <2>1 DEF StoreLocal, SnapLabel, TableInv, TableLocal, StoreInv
  <2> QED BY <1>0, <2>1, <2>2, Quiet DEF Busy, SnapLabel
<1>39. CASE LockUsedIgnored(p)
  <2> QED BY <1>39 DEF LockUsedIgnored, SemopFails, StoreInv
<1>40. CASE InfoRead(p)
  <2>1. /\ pc[p] = "info_read" /\ pc'[p] = "scan"
        /\ UNCHANGED <<mem, entry, call, semAlive, keyed>>
    BY <1>40 DEF InfoRead, Goto, Return, kernelSem, master, segs, locals,
       TypeInv, LocalsOK, LocalsTypeOK, StoreInv
  <2>2. StoreLocal(p)'
    BY <2>1 DEF StoreLocal, SnapLabel, TableInv, TableLocal, StoreInv
  <2> QED BY <1>0, <2>1, <2>2, Quiet DEF Busy, SnapLabel
<1>41. CASE InfoFault(p)
  <2> QED BY <1>41 DEF InfoFault, StoreInv
<1>42. CASE RemoveSegment(p)
  <2>1. /\ pc[p] = "rmid" /\ pc'[p] = "clear" /\ slot' = slot
        /\ UNCHANGED <<mem, entry, call, semAlive, keyed>>
    BY <1>42 DEF RemoveSegment, Goto, Return, kernelSem, master, segs, locals,
       TypeInv, LocalsOK, LocalsTypeOK, StoreInv
  <2>2. StoreLocal(p)'
    BY <2>1 DEF StoreLocal, SnapLabel, TableInv, TableLocal, StoreInv
  <2> QED BY <1>0, <2>1, <2>2, Quiet DEF Busy, SnapLabel
<1>43. CASE ClearEntry(p)
  <2> DEFINE id == call[p].id
             k == slot[p]
             i == entry[k].slot_shmid
  <2>1. /\ pc[p] = "clear" /\ call[p].op = "free" /\ k \in Slot /\ entry[k].desc = id
        /\ i # NoShm
    BY <1>43 DEF ClearEntry, StoreInv, StoreLocal, TableInv, TableLocal,
       TypeInv, LocalsOK,
       LocalOK, SlotLabel
  <2>2. Return(p) /\ UNCHANGED <<mem, semAlive, keyed>>
    BY <1>43, <2>1 DEF ClearEntry, segs, Detach
  <2>3. /\ entry'[k] = [slot_shmid |-> NoShm, desc |-> NoDesc]
        /\ \A s \in Slot \ {k} : entry'[s] = entry[s]
    BY <1>43, <2>1 DEF ClearEntry, TypeInv, SharedTypeOK
  <2>4. i \in ShmId /\ segSlot[i] = k /\ id # NoDesc /\ At(id) = k /\ id \in NamesInUse
    BY <2>1, SlotNamed DEF TableInv, Entries
  <2>5. StoreInv' /\ Store!Return(p) /\ ~Creates(p)' /\ ~Copies(p)'
    <3>1. HoldsMaster(p)
      BY <2>1 DEF HoldsMaster
    <3> QED BY <2>2, <3>1, Returned
  <2>6. Phase(p) = "called" /\ ~Creates(p) /\ ~Copies(p)
    BY <2>1 DEF Phase, Creates, Copies
  <2>7. StoreOf[id] # Store!New /\ id \in DOMAIN StoreOf
    <3>1. ASSUME NEW q \in Proc, Writer(q), shm[q] = i PROVE FALSE
      <4>1. HoldsSlot(q, k)
        BY <2>4, <3>1, CopyHolds
      <4>2. HoldsSlot(p, k)
        BY <2>1 DEF HoldsSlot
      <4>3. q = p
        BY <2>1, <4>1, <4>2 DEF SlotInv, LockInv
      <4> QED BY <2>1, <3>1, <4>3 DEF Writer, SnapLabel
    <3>2. ArrayOf(i) # Store!New
      BY <2>1, <2>4, <3>1, ArrayFree DEF Used
    <3> QED BY <2>1, <3>2, StoredAt
  <2>8. NamesInUse' = NamesInUse \ {id}
    <3>1. ASSUME NEW n \in NamesInUse' PROVE n \in NamesInUse \ {id}
      <4>1. PICK s \in Slot : entry'[s].desc = n /\ n # NoDesc
        BY DEF NamesInUse
      <4>2. s # k /\ entry[s].desc = n
        BY <2>3, <4>1
      <4> QED BY <2>1, <4>1, <4>2 DEF NamesInUse, TableInv, Entries, UniqueNames
    <3>2. ASSUME NEW n \in NamesInUse, n # id PROVE n \in NamesInUse'
      <4>1. PICK s \in Slot : entry[s].desc = n /\ n # NoDesc
        BY DEF NamesInUse
      <4> QED BY <2>1, <2>3, <3>2, <4>1 DEF NamesInUse
    <3> QED BY <3>1, <3>2
  <2>9. ASSUME NEW n \in NamesInUse, n # id
        PROVE  /\ At(n)' = At(n) /\ entry'[At(n)] = entry[At(n)]
    <3>1. At(n) \in Slot \ {k} /\ entry[At(n)].desc = n
      BY <2>1, <2>9, NameAt
    <3>2. n # NoDesc
      BY DEF NamesInUse
    <3>3. \A t \in Slot : entry'[t].desc = entry'[At(n)].desc => t = At(n)
      BY <2>3, <3>1, <3>2 DEF TableInv, Entries, UniqueNames
    <3>4. (CHOOSE u \in FirstOf({t \in Slot : entry'[t].desc = entry'[At(n)].desc}) : TRUE) = At(n)
      BY <3>1, <3>3, OneSlot
    <3>5. entry'[At(n)].desc = n
      BY <2>3, <3>1
    <3> QED BY <2>3, <3>1, <3>4, <3>5 DEF At, lkup_slot
  <2>10. \A j : ArrayOf(j)' = ArrayOf(j)
    BY <1>0, <2>2, <2>5, <2>6, ArrayKept
  <2>11. StoreOf' = [n \in NamesInUse \ {id} |-> StoreOf[n]]
    <3>1. ASSUME NEW n \in NamesInUse \ {id}
          PROVE  (ArrayOf(entry[At(n)].slot_shmid))' = StoreOf[n]
      BY <2>9, <2>10 DEF StoreOf
    <3> QED BY <2>8, <3>1 DEF StoreOf
  <2>12. Store!Free(p)
    BY <2>1, <2>5, <2>6, <2>7, <2>11 DEF Store!Free, Store!In, Store!Named,
       StoreOf
  <2> QED BY <2>5, <2>12 DEF Store!Next
<1>44. CASE InfoReturns(p)
  <2>1. /\ pc[p] = "scan" /\ call[p].op = "info" /\ Return(p)
        /\ UNCHANGED <<mem, entry, semAlive, keyed>>
    BY <1>44 DEF InfoReturns, Detach, segs
  <2>2. StoreInv' /\ Store!Return(p) /\ ~Creates(p)' /\ ~Copies(p)'
    BY <2>1, Returned
  <2>3. Phase(p) = "called" /\ ~Creates(p) /\ ~Copies(p)
    BY <2>1 DEF Phase, Creates, Copies
  <2>4. StoreOf' = StoreOf
    BY <1>0, <2>1, <2>2, <2>3, Keeps
  <2>5. Store!Info(p)
    BY <2>1, <2>2, <2>3, <2>4 DEF Store!Info, Store!In
  <2> QED BY <2>2, <2>5 DEF Store!Next
<1>45. CASE RemoveSemaphores(p)
  <2> QED BY <1>45 DEF RemoveSemaphores, StoreInv, StoreLocal
<1>46. CASE RemoveMaster(p)
  <2> QED BY <1>46 DEF RemoveMaster, StoreInv, StoreLocal
<1> QED BY <1>1, <1>2, <1>3, <1>4, <1>5, <1>6, <1>7, <1>8, <1>9, <1>10, <1>11,
   <1>12,
   <1>13, <1>14, <1>15, <1>16, <1>17, <1>18, <1>19, <1>20, <1>21, <1>22,
   <1>23, <1>24, <1>25, <1>26, <1>27, <1>28, <1>29, <1>30, <1>31, <1>32,
   <1>33, <1>34, <1>35, <1>36, <1>37, <1>38, <1>39, <1>40, <1>41, <1>42,
   <1>43, <1>44, <1>45, <1>46 DEF Step

(* So is every step of the specification.                                  *)
LEMMA StoreNext ==
  ASSUME Signals = FALSE, NoMemory = FALSE, PlainCalls
  PROVE  TypeInv /\ MasterInv /\ SlotInv /\ TableInv /\ SegInv /\ ContentInv /\ StoreInv
           /\ [Next]_vars => StoreInv' /\ [Store!Next]_(Store!vars)
<1>1. ASSUME StoreInv, UNCHANGED vars PROVE StoreInv' /\ UNCHANGED Store!vars
  <2>1. StoreInv'
    BY <1>1 DEF vars, StoreInv, StoreLocal, kernelSem, master, locals
  <2>2. StoreOf' = StoreOf
    BY <1>1 DEF vars, StoreOf, NamesInUse, At, lkup_slot, ArrayOf, Creators,
       Copiers, Creates,
       Copies, Stored, Unfilled, segs, locals
  <2>3. [q \in Proc |-> Phase(q)]' = [q \in Proc |-> Phase(q)]
        /\ [q \in Proc |-> Got(q)]' = [q \in Proc |-> Got(q)]
    BY <1>1 DEF vars, Phase, Got, Stored, Unfilled, locals
  <2> QED BY <1>1, <2>1, <2>2, <2>3 DEF Store!vars, vars, locals
<1> QED BY <1>1, StoreStep DEF Next

(* The pool begins as an empty store.                                      *)
LEMMA StoreInit == Init => StoreInv /\ Store!Init
<1> SUFFICES ASSUME Init PROVE StoreInv /\ Store!Init
  OBVIOUS
<1>1. StoreInv
  BY DEF Init, StoreInv, StoreLocal, SnapLabel
<1>2. NamesInUse = {}
  BY DEF Init, NamesInUse
<1>3. \A p \in Proc : Phase(p) = "idle" /\ Got(p) = Store!New
  BY SameNew DEF Init, Phase, Got
<1> QED BY <1>1, <1>2, <1>3 DEF Store!Init, StoreOf, Init

(* Every write, read and free of the pool is one atomic step on a map from *)
(* names to arrays, whatever the interleaving, and fails only because the  *)
(* name is not there, no slot is left or the array does not fit: where no  *)
(* signal interrupts semop, shmat and shmget find their memory, and nobody *)
(* cleans up or subscribes.                                                *)
THEOREM StoreImplemented ==
  ASSUME Signals = FALSE, NoMemory = FALSE, PlainCalls
  PROVE  Spec => ImplementsStore
<1> QED
  BY TypeInit, TypeNext, MasterNext, SlotNext, TableInit, TableNext, SegInit,
     SegNext,
     ContentInit, ContentNext, StoreInit, StoreNext, PTL DEF Spec, ImplementsStore, Store!Spec
===============================================================================
