------------------------------ MODULE PoolStore ------------------------------
(***************************************************************************)
(* ShmPool seen as a SlotStore: where in svipc_shm_write, svipc_shm_read   *)
(* and svipc_shm_free a call takes effect.                                 *)
(***************************************************************************)
EXTENDS ShmPool

(* A write takes effect when the header is filled or found to fit, under   *)
(* the slot lock and before the payload is copied; a read when it has      *)
(* copied everything; a free when the entry is cleared, as it returns.     *)
Phase(p) ==
  CASE pc[p] \in {"idle", "fault"} -> "idle"
    [] pc[p] \in {"release", "getncnt", "publish", "ack"} -> "done"
    [] pc[p] \in {"memcpy", "memcpy_rest"} /\ call[p].op = "write" -> "done"
    [] OTHER -> "called"

Stored(m) == Joined(m, NoData)

(* Who is about to fill the header of a new segment; who has its header    *)
(* right and is still copying the payload.                                 *)
Creates(p) == create[p] /\ pc[p] \in {"snap_slot", "shmat_slot", "header"}
Copies(p) == call[p].op = "write" /\ pc[p] \in {"memcpy", "memcpy_rest"}
Creators(i) == {p \in Proc : Creates(p) /\ shm[p] = i}
Copiers(i) == {p \in Proc : Copies(p) /\ shm[p] = i}

Unfilled == [Stored(Zeroed(NoData)) EXCEPT !.typeID = NewSegment]

(* The array of segment i: none while its creator has not filled the       *)
(* header, the new one from then on even if memcpy is still under way.     *)
ArrayOf(i) ==
  IF Creators(i) # {} THEN Unfilled
  ELSE IF Copiers(i) # {}
       THEN [Stored(mem[i]) EXCEPT !.data = call[CHOOSE p \in Copiers(i) : TRUE].arr.data]
       ELSE Stored(mem[i])

NamesInUse == {entry[s].desc : s \in Slot} \ {NoDesc}
At(id) == CHOOSE s \in lkup_slot(id) : TRUE
StoreOf == [id \in NamesInUse |-> ArrayOf(entry[At(id)].slot_shmid)]

(* What a read is about to answer.                                         *)
Got(p) == IF call[p].op = "read" /\ pc[p] = "release" THEN Stored(buf[p]) ELSE Unfilled

Store == INSTANCE SlotStore WITH
  phase <- [p \in Proc |-> Phase(p)],
  store <- StoreOf,
  got <- [p \in Proc |-> Got(p)]

(* Every write, read and free of the pool is one atomic step on a map from *)
(* names to arrays, whatever the interleaving, and fails only because the  *)
(* name is not there, no slot is left or the array does not fit            *)
(* (svipc.i:170-171, 222, 245: "semaphore protected").                     *)
ImplementsStore == Store!Spec
==============================================================================
