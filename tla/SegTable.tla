------------------------------- MODULE SegTable -------------------------------
(***************************************************************************)
(* The references of one yorick session to slots: shm_var and shm_unvar    *)
(* (src/yorick/yorick_svipc.c) over the list of attached segments that     *)
(* svipc_shm_attach and svipc_shm_detach keep (src/common/svipc_shm.c).    *)
(*                                                                         *)
(* The session is sequential; the others free slots and write new ones,    *)
(* under the slot lock.  A pool and a slot name give a segment; attaching  *)
(* it gives an address, which the kernel may give again once detached.     *)
(***************************************************************************)
EXTENDS Integers, Sequences
LOCAL INSTANCE SequencesExt

CONSTANTS
  Key,       \* the keys of the pools
  Id,        \* the slot names
  Blank,     \* the empty name, of an item that was taken out
  Seg,       \* segments, as the kernel identifies them
  NoSeg,     \* no segment
  Addr,      \* the addresses shmat may answer
  Null,      \* the null pointer
  Var,       \* the session's variables
  MaxItems   \* bound: the length of the list

ASSUME SegAssumption ==
  Blank \notin Id /\ NoSeg \notin Seg /\ Null \notin Addr /\ MaxItems \in Nat

Slot == Key \X Id
Item == [id : Id \cup {Blank}, addr : Addr \cup {Null}, pdata : Addr \cup {Null}]

VARIABLES
  slotSeg,   \* the segment of each slot of each pool
  lock,      \* the value of each slot's lock
  mapping,   \* what the session has attached at each address
  segtable,  \* the list of attached segments, from its head on
  var,       \* the address each variable is bound to
  pc,        \* where the session is
  call,      \* the variable and the slot of its shm_var
  sg,        \* local: the item found or added
  cleanup    \* local: the slot lock is to be raised

vars == <<slotSeg, lock, mapping, segtable, var, pc, call, sg, cleanup>>
pool == <<slotSeg, lock>>

Init ==
  /\ slotSeg = [s \in Slot |-> NoSeg]
  /\ lock = [s \in Slot |-> 1]
  /\ mapping = [a \in Addr |-> NoSeg]
  /\ segtable = <<>>
  /\ var = [v \in Var |-> Null]
  /\ pc = "idle"
  /\ call \in [var : Var, slot : Slot]
  /\ sg = 0
  /\ cleanup = FALSE

-----------------------------------------------------------------------------
(* The list.                                                               *)

FirstItem(K) == {k \in K : \A j \in K : k <= j}
seg_lkupid(id) == FirstItem({k \in DOMAIN segtable : segtable[k].id = id})
seg_lkupdata(pdata) == FirstItem({k \in DOMAIN segtable : segtable[k].pdata = pdata})

(* Mutant: the head is always moved on past the item.                      *)
seg_rem_Head(list, k) == SubSeq(list, k + 1, Len(list))

(* The item is unlinked, unless it is the last of several: that one stays. *)
seg_rem(list, k) ==
  IF k = Len(list) /\ k > 1
  THEN [list EXCEPT ![k] = [id |-> Blank, addr |-> Null, pdata |-> Null]]
  ELSE RemoveAt(list, k)

-----------------------------------------------------------------------------
(* shm_var.                                                                *)

CallVar ==
  /\ pc = "idle"
  /\ call' \in [var : Var, slot : Slot]
  /\ pc' = "lkupid"
  /\ UNCHANGED <<pool, mapping, segtable, var, sg, cleanup>>

(* Already referenced: the pool is not asked, nor is the key looked at.    *)
AttachKnown ==
  /\ pc = "lkupid"
  /\ sg' \in seg_lkupid(call.slot[2])
  /\ cleanup' = FALSE
  /\ pc' = "bind"
  /\ UNCHANGED <<pool, mapping, segtable, var, call>>

(* Mutant: the list is not looked through first.                           *)
AttachNew_Again ==
  /\ pc = "lkupid"
  /\ slotSeg[call.slot] # NoSeg /\ lock[call.slot] > 0
  /\ Len(segtable) < MaxItems
  /\ \E a \in Addr :
       /\ mapping[a] = NoSeg
       /\ mapping' = [mapping EXCEPT ![a] = slotSeg[call.slot]]
       /\ segtable' = Append(segtable,
                             [id |-> call.slot[2], addr |-> a, pdata |-> Null])
  /\ lock' = [lock EXCEPT ![call.slot] = @ - 1]
  /\ sg' = Len(segtable) + 1
  /\ cleanup' = TRUE
  /\ pc' = "bind"
  /\ UNCHANGED <<slotSeg, var, call>>

(* acquire_slot locks the slot and attaches its segment, seg_add appends   *)
(* it.                                                                     *)
AttachNew ==
  /\ pc = "lkupid"
  /\ seg_lkupid(call.slot[2]) = {}
  /\ slotSeg[call.slot] # NoSeg /\ lock[call.slot] > 0
  /\ Len(segtable) < MaxItems
  /\ \E a \in Addr :
       /\ mapping[a] = NoSeg
       /\ mapping' = [mapping EXCEPT ![a] = slotSeg[call.slot]]
       /\ segtable' = Append(segtable,
                             [id |-> call.slot[2], addr |-> a, pdata |-> Null])
  /\ lock' = [lock EXCEPT ![call.slot] = @ - 1]
  /\ sg' = Len(segtable) + 1
  /\ cleanup' = TRUE
  /\ pc' = "bind"
  /\ UNCHANGED <<slotSeg, var, call>>

(* acquire_slot fails, for want of the slot or of resources.               *)
AttachFails ==
  /\ pc = "lkupid"
  /\ seg_lkupid(call.slot[2]) = {}
  /\ pc' = "idle"
  /\ UNCHANGED <<pool, mapping, segtable, var, call, sg, cleanup>>

(* Mutant: the slot lock is raised whether or not it was taken.            *)
Bind_Unlocks ==
  /\ pc = "bind"
  /\ segtable' = [segtable EXCEPT ![sg].pdata = segtable[sg].addr]
  /\ lock' = [lock EXCEPT ![call.slot] = @ + 1]
  /\ var' = [var EXCEPT ![call.var] = segtable[sg].addr]
  /\ pc' = "idle"
  /\ sg' = 0
  /\ cleanup' = FALSE
  /\ UNCHANGED <<slotSeg, mapping, call>>

(* The address is noted for shm_unvar, the lock let go if it was taken,    *)
(* the variable bound.                                                     *)
Bind ==
  /\ pc = "bind"
  /\ segtable' = [segtable EXCEPT ![sg].pdata = segtable[sg].addr]
  /\ lock' = IF cleanup THEN [lock EXCEPT ![call.slot] = @ + 1] ELSE lock
  /\ var' = [var EXCEPT ![call.var] = segtable[sg].addr]
  /\ pc' = "idle"
  /\ sg' = 0
  /\ cleanup' = FALSE
  /\ UNCHANGED <<slotSeg, mapping, call>>

-----------------------------------------------------------------------------
(* shm_unvar.                                                              *)

Unvar(v) ==
  /\ pc = "idle" /\ var[v] # Null
  /\ \E k \in seg_lkupdata(var[v]) :
       /\ segtable' = seg_rem(segtable, k)
       /\ mapping' = [mapping EXCEPT ![segtable[k].addr] = NoSeg]
  /\ var' = [var EXCEPT ![v] = Null]
  /\ UNCHANGED <<pool, pc, call, sg, cleanup>>

(* Another variable was bound to the same slot and has been unbound.       *)
UnvarFails(v) ==
  /\ pc = "idle" /\ var[v] # Null
  /\ seg_lkupdata(var[v]) = {}
  /\ UNCHANGED vars

-----------------------------------------------------------------------------
(* The other processes, under the slot lock (see ShmPool).                 *)

OthersWrite(s) ==
  /\ slotSeg[s] = NoSeg /\ lock[s] > 0
  /\ \E i \in Seg :
       /\ \A t \in Slot : slotSeg[t] # i
       /\ \A a \in Addr : mapping[a] # i
       /\ slotSeg' = [slotSeg EXCEPT ![s] = i]
  /\ UNCHANGED <<lock, mapping, segtable, var, pc, call, sg, cleanup>>

OthersFree(s) ==
  /\ slotSeg[s] # NoSeg /\ lock[s] > 0
  /\ slotSeg' = [slotSeg EXCEPT ![s] = NoSeg]
  /\ UNCHANGED <<lock, mapping, segtable, var, pc, call, sg, cleanup>>

Next ==
  \/ CallVar \/ AttachKnown \/ AttachNew \/ AttachFails \/ Bind
  \/ \E v \in Var : Unvar(v) \/ UnvarFails(v)
  \/ \E s \in Slot : OthersWrite(s) \/ OthersFree(s)

Spec == Init /\ [][Next]_vars

-----------------------------------------------------------------------------
(* Every variable stays in its type.  No slot lock ever goes above one:    *)
(* shm_var raises the lock it took and no other.                           *)
TypeOK ==
  /\ slotSeg \in [Slot -> Seg \cup {NoSeg}]
  /\ lock \in [Slot -> 0 .. 1]
  /\ mapping \in [Addr -> Seg \cup {NoSeg}]
  /\ segtable \in Seq(Item) /\ Len(segtable) <= MaxItems
  /\ var \in [Var -> Addr \cup {Null}]
  /\ pc \in {"idle", "lkupid", "bind"}
  /\ call \in [var : Var, slot : Slot]
  /\ sg \in 0 .. MaxItems
  /\ cleanup \in BOOLEAN

(* The list holds each address the session has attached once, and holds no *)
(* address it has detached: whatever the order of shm_unvar, no item but   *)
(* the one that is meant leaves the list, and shm_unvar of a segment that  *)
(* is still attached finds it.                                             *)
AttachedListed ==
  /\ \A a \in Addr : mapping[a] # NoSeg =>
       \E k \in DOMAIN segtable : segtable[k].addr = a
  /\ \A k \in DOMAIN segtable : segtable[k].addr # Null =>
       /\ mapping[segtable[k].addr] # NoSeg
       /\ pc = "idle" => segtable[k].pdata = segtable[k].addr
  /\ \A j, k \in DOMAIN segtable :
       segtable[j].addr = segtable[k].addr /\ segtable[j].addr # Null => j = k

(* A name is in the list once: a second shm_var of a slot shares the       *)
(* address of the first.                                                   *)
OneItemPerName ==
  \A j, k \in DOMAIN segtable :
    segtable[j].id = segtable[k].id /\ segtable[j].id # Blank => j = k

(* shm_var binds the variable "to the content of the slot identified by    *)
(* 'id' from the shared memory pool identified by 'key'" (svipc.i:288):    *)
(* the segment it settles on is the one the slot has at that time.         *)
BindsTheSlot ==
  [][pc = "lkupid" /\ pc' = "bind" =>
       mapping'[segtable'[sg'].addr] = slotSeg[call.slot]]_vars
===============================================================================
