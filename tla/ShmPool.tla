------------------------------- MODULE ShmPool -------------------------------
(***************************************************************************)
(* The shared-memory pool of svipc (src/common/svipc_shm.c) after          *)
(* svipc_shm_init has returned: every process that holds the key may call  *)
(* shm_write, shm_read (plain or subscribing), shm_free, shm_info and      *)
(* shm_cleanup.                                                            *)
(*                                                                         *)
(* The processes share, in the kernel, one semaphore set (the master lock, *)
(* one lock and one handshake semaphore per slot) and the segments; and,   *)
(* in the master segment, the table of slots.  One action is the code      *)
(* between two points where another process can tell the difference: a     *)
(* semaphore operation, a kernel object made or removed, a table entry     *)
(* stored, a part of a segment stored or loaded.                           *)
(*                                                                         *)
(* Semaphores behave as on Linux: an operation that raises a semaphore     *)
(* completes the blocked decrements it satisfies before it returns.        *)
(***************************************************************************)
EXTENDS SlotArray, FiniteSets

CONSTANTS
  Proc,      \* the processes that use the pool
  NumSlots,  \* the slots of the pool (m->numslots)
  Id,        \* slot names, short enough to fit sse[].desc
  NoDesc,    \* the empty name of a free slot
  ShmId,     \* identifiers shmget may return for slot segments
  NoShm,     \* slot_shmid of a free slot (0 in the code)
  Array,     \* the arrays that are written
  NoArray,   \* no array: the payload of a call that writes nothing
  NoData,    \* the payload of a segment never written
  Call,      \* the calls each process may make
  Signals,   \* may a blocked semop be interrupted (EINTR)?
  NoMemory,  \* may shmget and shmat run out of resources?
  SEMVMX     \* the largest value the kernel gives a semaphore

Slot == 0 .. NumSlots - 1
NoSlot == -1

Op == {"write", "read", "free", "info", "cleanup", "none"}
NoCall == [op |-> "none", id |-> NoDesc, arr |-> NoArray,
           publish |-> FALSE, subscribe |-> "no"]

CallRecord == [op : Op, id : Id \cup {NoDesc}, arr : Array \cup {NoArray},
               publish : BOOLEAN, subscribe : {"no", "timed", "forever"}]

Data == {a.data : a \in Array} \cup {NoData}
Content == [typeID : Int, number : Seq(Nat), lo : Data, hi : Data]

ASSUME PoolAssumption ==
  /\ IsFiniteSet(Proc)
  /\ NumSlots \in Nat
  /\ SEMVMX \in Nat \ {0}
  /\ Signals \in BOOLEAN
  /\ NoMemory \in BOOLEAN
  /\ NoDesc \notin Id
  /\ NoShm \notin ShmId
  /\ NoArray \notin Array
  /\ Array \subseteq [typeID : 0 .. 5, number : Seq(Nat), data : Data]
  /\ Call \in [Proc -> SUBSET CallRecord]
  /\ \A p \in Proc : \A c \in Call[p] :
       /\ c.op # "none"
       /\ c.op = "write" => c.arr \in Array
       /\ c.op \in {"write", "read", "free"} => c.id \in Id
       /\ c.op # "read" => c.subscribe = "no"
       /\ c.op # "write" => ~c.publish

VARIABLES
  sem,       \* values of the semaphore set
  semAlive,  \* the semaphore set has not been removed
  keyed,     \* the master segment is still found by its key
  mapped,    \* the processes that have the master segment attached
  entry,     \* the table of slots: m->sse[]
  segSlot,   \* the slot whose key each segment was made with
  segKeyed,  \* the segments not yet marked for removal (IPC_RMID)
  att,       \* the processes attached to each segment inside a call
  kept,      \* the processes that returned from a call still attached
  mem,       \* the content of each segment
  pc,        \* where each process is
  call,      \* the call each process is in
  slot,      \* local: the slot found
  create,    \* local: the slot is to be created
  shm,       \* local: sss_shm_id
  numb,      \* local: the subscribers counted by a publisher
  buf        \* local: what a reader has copied so far

kernelSem == <<sem, semAlive>>
master == <<keyed, mapped>>
segs == <<segSlot, segKeyed, att, kept, mem>>
locals == <<call, slot, create, shm, numb, buf>>
vars == <<kernelSem, master, entry, segs, pc, locals>>

-----------------------------------------------------------------------------
(* The layout of the semaphore set.                                        *)

MasterSem == 0
LockSem(s) == 1 + s
HandSem(s) == 1 + NumSlots + s
SemNum == 0 .. 2 * NumSlots

(* semop(-1) returns at once, or would block and is interrupted, or finds  *)
(* the set removed.                                                        *)
Available(k) == semAlive /\ sem[k] > 0
SemopFails(k) == ~semAlive \/ (Signals /\ sem[k] = 0)
Taken(k) == [sem EXCEPT ![k] = @ - 1]

(* semop(+1) on every semaphore of ks; it is refused (ERANGE, reported and *)
(* otherwise ignored by the callers) at SEMVMX, and on a removed set.      *)
Raised(ks) ==
  [k \in SemNum |-> IF k \in ks /\ semAlive /\ sem[k] < SEMVMX
                    THEN sem[k] + 1 ELSE sem[k]]

Waiting(s) == {q \in Proc : pc[q] = "sub_wait" /\ slot[q] = s}

(* Objects in the kernel: a segment goes when it is marked and nobody has  *)
(* it attached.  An identifier is not used again while anybody remembers   *)
(* it, as the kernel's sequence numbers ensure.                            *)
MasterExists == keyed \/ mapped # {}
Exists(i) == segKeyed[i] \/ att[i] # {} \/ kept[i] # {}
Fresh(i) == /\ ~Exists(i)
            /\ \A p \in Proc : shm[p] # i
            /\ \A s \in Slot : entry[s].slot_shmid # i

(* The table scans of lkup_slot and getfree_slot stop at the first match.  *)
FirstOf(S) == {s \in S : \A t \in S : s <= t}
lkup_slot(id) == FirstOf({s \in Slot : entry[s].desc = id})
getfree_slot == FirstOf({s \in Slot : entry[s].slot_shmid = NoShm})

Goto(p, l) == pc' = [pc EXCEPT ![p] = l]
Detach(p) == /\ mapped' = mapped \ {p}
             /\ UNCHANGED keyed

(* The call returns: its locals are gone.                                  *)
Return(p) ==
  /\ Goto(p, "idle")
  /\ call' = [call EXCEPT ![p] = NoCall]
  /\ slot' = [slot EXCEPT ![p] = 0]
  /\ create' = [create EXCEPT ![p] = FALSE]
  /\ shm' = [shm EXCEPT ![p] = NoShm]
  /\ numb' = [numb EXCEPT ![p] = 0]
  /\ buf' = [buf EXCEPT ![p] = Zeroed(NoData)]

(* A segmentation fault: the kernel detaches the process from everything   *)
(* it has mapped; the semaphores it holds stay taken (no SEM_UNDO).        *)
Die(p) ==
  /\ Goto(p, "fault")
  /\ mapped' = mapped \ {p}
  /\ att' = [i \in ShmId |-> att[i] \ {p}]
  /\ kept' = [i \in ShmId |-> kept[i] \ {p}]
  /\ UNCHANGED <<kernelSem, keyed, entry, segSlot, segKeyed, mem, locals>>

Init ==
  /\ sem = [k \in SemNum |-> IF k <= NumSlots THEN 1 ELSE 0]
  /\ semAlive = TRUE
  /\ keyed = TRUE
  /\ mapped = {}
  /\ entry = [s \in Slot |-> [slot_shmid |-> NoShm, desc |-> NoDesc]]
  /\ segSlot = [i \in ShmId |-> NoSlot]
  /\ segKeyed = [i \in ShmId |-> FALSE]
  /\ att = [i \in ShmId |-> {}]
  /\ kept = [i \in ShmId |-> {}]
  /\ mem = [i \in ShmId |-> Zeroed(NoData)]
  /\ pc = [p \in Proc |-> "idle"]
  /\ call = [p \in Proc |-> NoCall]
  /\ slot = [p \in Proc |-> 0]
  /\ create = [p \in Proc |-> FALSE]
  /\ shm = [p \in Proc |-> NoShm]
  /\ numb = [p \in Proc |-> 0]
  /\ buf = [p \in Proc |-> Zeroed(NoData)]

-----------------------------------------------------------------------------
(* acquire_master: look the master segment up, attach it, lock it.         *)

Begin(p) ==
  /\ pc[p] = "idle"
  /\ \E c \in Call[p] : call' = [call EXCEPT ![p] = c]
  /\ Goto(p, "attach_master")
  /\ UNCHANGED <<kernelSem, master, entry, segs, slot, create, shm, numb, buf>>

FindMaster(p) ==
  /\ pc[p] = "attach_master"
  /\ IF keyed THEN Goto(p, "shmat_master") /\ UNCHANGED locals ELSE Return(p)
  /\ UNCHANGED <<kernelSem, master, entry, segs>>

AttachMaster(p) ==
  /\ pc[p] = "shmat_master"
  /\ MasterExists
  /\ mapped' = mapped \cup {p}
  /\ Goto(p, "lock_master")
  /\ UNCHANGED <<kernelSem, keyed, entry, segs, locals>>

(* shmat answers (void * ) -1, which acquire_master takes for a master: it *)
(* only tests for NULL.  lock_master dereferences it and the process dies. *)
AttachMasterFault(p) ==
  /\ pc[p] = "shmat_master"
  /\ ~MasterExists \/ NoMemory
  /\ Die(p)

(* Mutant: semop does not wait for the master lock.                        *)
LockMaster_Nowait(p) ==
  /\ pc[p] = "lock_master"
  /\ semAlive
  /\ sem' = Taken(MasterSem)
  /\ Goto(p, IF call[p].op \in {"info", "cleanup"} THEN "scan" ELSE "lkup_slot")
  /\ UNCHANGED <<semAlive, master, entry, segs, locals>>

LockMaster(p) ==
  /\ pc[p] = "lock_master"
  /\ Available(MasterSem)
  /\ sem' = Taken(MasterSem)
  /\ Goto(p, IF call[p].op \in {"info", "cleanup"} THEN "scan" ELSE "lkup_slot")
  /\ UNCHANGED <<semAlive, master, entry, segs, locals>>

(* Mutant: what lock_master returns is ignored.                            *)
LockMasterFails_Ignored(p) ==
  /\ pc[p] = "lock_master"
  /\ SemopFails(MasterSem)
  /\ Goto(p, IF call[p].op \in {"info", "cleanup"} THEN "scan" ELSE "lkup_slot")
  /\ UNCHANGED <<kernelSem, master, entry, segs, locals>>

(* Mutant: acquire_master does not detach when the lock fails.             *)
LockMasterFails_Attached(p) ==
  /\ pc[p] = "lock_master"
  /\ SemopFails(MasterSem)
  /\ Return(p)
  /\ UNCHANGED <<kernelSem, master, entry, segs>>

LockMasterFails(p) ==
  /\ pc[p] = "lock_master"
  /\ SemopFails(MasterSem)
  /\ Detach(p)
  /\ Return(p)
  /\ UNCHANGED <<kernelSem, entry, segs>>

-----------------------------------------------------------------------------
(* acquire_slot, without a subscription: find or pick the slot, lock it,   *)
(* create the segment if needed, remember its identifier, let go of the    *)
(* master lock, attach the segment.                                        *)

(* Mutant: the master lock is let go as soon as the slot is found, and     *)
(* once more after the snapshot.                                           *)
FindSlot_Unlocks(p) ==
  /\ pc[p] = "lkup_slot"
  /\ call[p].op # "free" /\ call[p].subscribe = "no"
  /\ \E s \in lkup_slot(call[p].id) : slot' = [slot EXCEPT ![p] = s]
  /\ sem' = Raised({MasterSem})
  /\ Goto(p, "lock_slot")
  /\ UNCHANGED <<semAlive, master, entry, segs, call, create, shm, numb, buf>>

FindSlot(p) ==
  /\ pc[p] = "lkup_slot"
  /\ call[p].op # "free" /\ call[p].subscribe = "no"
  /\ \E s \in lkup_slot(call[p].id) : slot' = [slot EXCEPT ![p] = s]
  /\ Goto(p, "lock_slot")
  /\ UNCHANGED <<kernelSem, master, entry, segs, call, create, shm, numb, buf>>

(* Mutant: a free slot is taken without looking the name up.               *)
PickFreeSlot_Anyway(p) ==
  /\ pc[p] = "lkup_slot"
  /\ call[p].op = "write"
  /\ \E s \in getfree_slot : slot' = [slot EXCEPT ![p] = s]
  /\ create' = [create EXCEPT ![p] = TRUE]
  /\ Goto(p, "lock_slot")
  /\ UNCHANGED <<kernelSem, master, entry, segs, call, shm, numb, buf>>

PickFreeSlot(p) ==
  /\ pc[p] = "lkup_slot"
  /\ call[p].op = "write" /\ lkup_slot(call[p].id) = {}
  /\ \E s \in getfree_slot : slot' = [slot EXCEPT ![p] = s]
  /\ create' = [create EXCEPT ![p] = TRUE]
  /\ Goto(p, "lock_slot")
  /\ UNCHANGED <<kernelSem, master, entry, segs, call, shm, numb, buf>>

(* Mutant: no release_master on this way out.                              *)
NoSuchSlot_Locked(p) ==
  /\ pc[p] = "lkup_slot"
  /\ lkup_slot(call[p].id) = {}
  /\ call[p].op = "write" => getfree_slot = {}
  /\ Detach(p)
  /\ Return(p)
  /\ UNCHANGED <<kernelSem, entry, segs>>

(* No such slot, or none left to create it in; also svipc_shm_free's       *)
(* failed lookup.                                                          *)
NoSuchSlot(p) ==
  /\ pc[p] = "lkup_slot"
  /\ lkup_slot(call[p].id) = {}
  /\ call[p].op = "write" => getfree_slot = {}
  /\ sem' = Raised({MasterSem})
  /\ Detach(p)
  /\ Return(p)
  /\ UNCHANGED <<semAlive, entry, segs>>

LockSlot(p) ==
  /\ pc[p] = "lock_slot"
  /\ Available(LockSem(slot[p]))
  /\ sem' = Taken(LockSem(slot[p]))
  /\ Goto(p, IF create[p] THEN "shmget_slot" ELSE "snap_slot")
  /\ UNCHANGED <<semAlive, master, entry, segs, locals>>

LockSlotFails(p) ==
  /\ pc[p] = "lock_slot"
  /\ SemopFails(LockSem(slot[p]))
  /\ sem' = Raised({MasterSem})
  /\ Detach(p)
  /\ Return(p)
  /\ UNCHANGED <<semAlive, entry, segs>>

CreateSegment(p) ==
  /\ pc[p] = "shmget_slot"
  /\ \A i \in ShmId : ~(segKeyed[i] /\ segSlot[i] = slot[p])
  /\ \E i \in ShmId :
       /\ Fresh(i)
       /\ segSlot' = [segSlot EXCEPT ![i] = slot[p]]
       /\ segKeyed' = [segKeyed EXCEPT ![i] = TRUE]
       /\ mem' = [mem EXCEPT ![i] = Zeroed(NoData)]
       /\ shm' = [shm EXCEPT ![p] = i]
  /\ Goto(p, "set_entry")
  /\ UNCHANGED <<kernelSem, master, entry, att, kept, call, slot, create, numb, buf>>

(* Mutant: the entry is named before shmget is tried.                      *)
CreateSegmentFails_Named(p) ==
  /\ pc[p] = "shmget_slot"
  /\ NoMemory
  /\ entry' = [entry EXCEPT ![slot[p]].desc = call[p].id]
  /\ sem' = Raised({LockSem(slot[p]), MasterSem})
  /\ Detach(p)
  /\ Return(p)
  /\ UNCHANGED <<semAlive, segs>>

CreateSegmentFails(p) ==
  /\ pc[p] = "shmget_slot"
  /\ NoMemory \/ \E i \in ShmId : segKeyed[i] /\ segSlot[i] = slot[p]
  /\ sem' = Raised({LockSem(slot[p]), MasterSem})
  /\ Detach(p)
  /\ Return(p)
  /\ UNCHANGED <<semAlive, entry, segs>>

SetEntry(p) ==
  /\ pc[p] = "set_entry"
  /\ entry' = [entry EXCEPT ![slot[p]] =
                 [slot_shmid |-> shm[p], desc |-> call[p].id]]
  /\ Goto(p, "snap_slot")
  /\ UNCHANGED <<kernelSem, master, segs, locals>>

SnapSlot(p) ==
  /\ pc[p] = "snap_slot"
  /\ shm' = [shm EXCEPT ![p] = entry[slot[p]].slot_shmid]
  /\ sem' = Raised({MasterSem})
  /\ Detach(p)
  /\ Goto(p, "shmat_slot")
  /\ UNCHANGED <<semAlive, entry, segs, call, slot, create, numb, buf>>

(* Mutant: a new segment is not marked.                                    *)
AttachSegment_Unmarked(p) ==
  /\ pc[p] = "shmat_slot"
  /\ shm[p] \in ShmId /\ Exists(shm[p])
  /\ att' = [att EXCEPT ![shm[p]] = @ \cup {p}]
  /\ Goto(p, "header")
  /\ UNCHANGED <<kernelSem, master, entry, segSlot, segKeyed, kept, mem, locals>>

AttachSegment(p) ==
  /\ pc[p] = "shmat_slot"
  /\ shm[p] \in ShmId /\ Exists(shm[p])
  /\ att' = [att EXCEPT ![shm[p]] = @ \cup {p}]
  /\ mem' = IF create[p] THEN [mem EXCEPT ![shm[p]].typeID = NewSegment] ELSE mem
  /\ Goto(p, "header")
  /\ UNCHANGED <<kernelSem, master, entry, segSlot, segKeyed, kept, locals>>

(* Mutant: no unlock_snaphot on this way out.                              *)
AttachSegmentFails_Locked(p) ==
  /\ pc[p] = "shmat_slot"
  /\ NoMemory \/ shm[p] \notin ShmId \/ ~Exists(shm[p])
  /\ Return(p)
  /\ UNCHANGED <<kernelSem, master, entry, segs>>

(* The segment was removed since the snapshot, or cannot be attached.      *)
AttachSegmentFails(p) ==
  /\ pc[p] = "shmat_slot"
  /\ NoMemory \/ shm[p] \notin ShmId \/ ~Exists(shm[p])
  /\ sem' = Raised({LockSem(slot[p])})
  /\ Return(p)
  /\ UNCHANGED <<semAlive, master, entry, segs>>

-----------------------------------------------------------------------------
(* svipc_shm_write and svipc_shm_read on the attached segment.             *)

FillHeader(p) ==
  /\ pc[p] = "header" /\ call[p].op = "write"
  /\ mem[shm[p]].typeID = NewSegment
  /\ mem' = [mem EXCEPT ![shm[p]].typeID = call[p].arr.typeID,
                        ![shm[p]].number = call[p].arr.number]
  /\ Goto(p, "memcpy")
  /\ UNCHANGED <<kernelSem, master, entry, segSlot, segKeyed, att, kept, locals>>

CheckHeader(p) ==
  /\ pc[p] = "header" /\ call[p].op = "write"
  /\ mem[shm[p]].typeID # NewSegment
  /\ Fits(call[p].arr, mem[shm[p]])
  /\ Goto(p, "memcpy")
  /\ UNCHANGED <<kernelSem, master, entry, segs, locals>>

(* A misfit is refused: the slot is unlocked, the segment stays attached.  *)
RefuseMisfit(p) ==
  /\ pc[p] = "header" /\ call[p].op = "write"
  /\ mem[shm[p]].typeID # NewSegment
  /\ ~Fits(call[p].arr, mem[shm[p]])
  /\ att' = [att EXCEPT ![shm[p]] = @ \ {p}]
  /\ kept' = [kept EXCEPT ![shm[p]] = @ \cup {p}]
  /\ sem' = Raised({LockSem(slot[p])})
  /\ Return(p)
  /\ UNCHANGED <<semAlive, master, entry, segSlot, segKeyed, mem>>

(* Mutant: a reader lets go of the slot once it has the header, and again  *)
(* when it is done.                                                        *)
ReadHeader_Unlocks(p) ==
  /\ pc[p] = "header" /\ call[p].op = "read"
  /\ buf' = [buf EXCEPT ![p].typeID = mem[shm[p]].typeID,
                        ![p].number = mem[shm[p]].number]
  /\ sem' = Raised({LockSem(slot[p])})
  /\ Goto(p, "memcpy")
  /\ UNCHANGED <<semAlive, master, entry, segs, call, slot, create, shm, numb>>

ReadHeader(p) ==
  /\ pc[p] = "header" /\ call[p].op = "read"
  /\ buf' = [buf EXCEPT ![p].typeID = mem[shm[p]].typeID,
                        ![p].number = mem[shm[p]].number]
  /\ Goto(p, "memcpy")
  /\ UNCHANGED <<kernelSem, master, entry, segs, call, slot, create, shm, numb>>

(* memcpy moves the payload in two halves, whichever way it goes.          *)
CopyFirstHalf(p) ==
  /\ pc[p] = "memcpy"
  /\ IF call[p].op = "write"
     THEN mem' = [mem EXCEPT ![shm[p]].lo = call[p].arr.data] /\ UNCHANGED buf
     ELSE buf' = [buf EXCEPT ![p].lo = mem[shm[p]].lo] /\ UNCHANGED mem
  /\ Goto(p, "memcpy_rest")
  /\ UNCHANGED <<kernelSem, master, entry, segSlot, segKeyed, att, kept,
                 call, slot, create, shm, numb>>

CopySecondHalf(p) ==
  /\ pc[p] = "memcpy_rest"
  /\ IF call[p].op = "write"
     THEN mem' = [mem EXCEPT ![shm[p]].hi = call[p].arr.data] /\ UNCHANGED buf
     ELSE buf' = [buf EXCEPT ![p].hi = mem[shm[p]].hi] /\ UNCHANGED mem
  /\ Goto(p, "release")
  /\ UNCHANGED <<kernelSem, master, entry, segSlot, segKeyed, att, kept,
                 call, slot, create, shm, numb>>

(* release_snapshot: detach, unlock.  A publisher goes on to publish.      *)
ReleaseSnapshot(p) ==
  /\ pc[p] = "release"
  /\ att' = [att EXCEPT ![shm[p]] = @ \ {p}]
  /\ sem' = Raised({LockSem(slot[p])})
  /\ IF call[p].publish THEN Goto(p, "getncnt") /\ UNCHANGED locals ELSE Return(p)
  /\ UNCHANGED <<semAlive, master, entry, segSlot, segKeyed, kept, mem>>

-----------------------------------------------------------------------------
(* publish_snapshot: count the subscribers waiting, raise the handshake by *)
(* that many, wait until it is back at zero.                               *)

(* Mutant: one subscriber too many.                                        *)
CountSubscribers_OneMore(p) ==
  /\ pc[p] = "getncnt"
  /\ numb' = [numb EXCEPT ![p] = Cardinality(Waiting(slot[p])) + 1]
  /\ Goto(p, "publish")
  /\ UNCHANGED <<kernelSem, master, entry, segs, call, slot, create, shm, buf>>

CountSubscribers(p) ==
  /\ pc[p] = "getncnt"
  /\ numb' = [numb EXCEPT ![p] =
                IF semAlive THEN Cardinality(Waiting(slot[p])) ELSE -1]
  /\ Goto(p, "publish")
  /\ UNCHANGED <<kernelSem, master, entry, segs, call, slot, create, shm, buf>>

(* semop(+numb): the blocked subscribers it satisfies are on their way     *)
(* when it returns.                                                        *)
PublishToSubscribers(p) ==
  LET h == HandSem(slot[p]) IN
  /\ pc[p] = "publish"
  /\ semAlive /\ numb[p] > 0 /\ sem[h] + numb[p] <= SEMVMX
  /\ \E W \in SUBSET Waiting(slot[p]) :
       /\ Cardinality(W) <= sem[h] + numb[p]
       /\ W = Waiting(slot[p]) \/ Cardinality(W) = sem[h] + numb[p]
       /\ sem' = [sem EXCEPT ![h] = @ + numb[p] - Cardinality(W)]
       /\ pc' = [q \in Proc |-> IF q = p THEN "ack"
                                ELSE IF q \in W THEN "lock_snapshot" ELSE pc[q]]
  /\ UNCHANGED <<semAlive, master, entry, segs, locals>>

(* Mutant: a publication nobody waits for is left for the next subscriber. *)
PublishToNobody_Anyway(p) ==
  /\ pc[p] = "publish"
  /\ semAlive /\ numb[p] = 0
  /\ sem' = Raised({HandSem(slot[p])})
  /\ Goto(p, "ack")
  /\ UNCHANGED <<semAlive, master, entry, segs, locals>>

(* With nobody counted the operation is semop(0): it waits for zero too.   *)
PublishToNobody(p) ==
  /\ pc[p] = "publish"
  /\ semAlive /\ numb[p] = 0 /\ sem[HandSem(slot[p])] = 0
  /\ Goto(p, "ack")
  /\ UNCHANGED <<kernelSem, master, entry, segs, locals>>

PublishFails(p) ==
  /\ pc[p] = "publish"
  /\ \/ ~semAlive
     \/ sem[HandSem(slot[p])] + numb[p] > SEMVMX
     \/ Signals /\ numb[p] = 0 /\ sem[HandSem(slot[p])] > 0
  /\ Return(p)
  /\ UNCHANGED <<kernelSem, master, entry, segs>>

Acknowledged(p) ==
  /\ pc[p] = "ack"
  /\ ~semAlive \/ sem[HandSem(slot[p])] = 0 \/ Signals
  /\ Return(p)
  /\ UNCHANGED <<kernelSem, master, entry, segs>>

-----------------------------------------------------------------------------
(* acquire_slot with a subscription: the snapshot is taken and the master  *)
(* lock let go before the process waits for a publisher.                   *)

SnapSubscription(p) ==
  /\ pc[p] = "lkup_slot"
  /\ call[p].subscribe # "no"
  /\ \E s \in lkup_slot(call[p].id) :
       /\ slot' = [slot EXCEPT ![p] = s]
       /\ shm' = [shm EXCEPT ![p] = entry[s].slot_shmid]
  /\ sem' = Raised({MasterSem})
  /\ Detach(p)
  /\ Goto(p, "subscribe")
  /\ UNCHANGED <<semAlive, entry, segs, call, create, numb, buf>>

Subscribe(p) ==
  LET h == HandSem(slot[p]) IN
  /\ pc[p] = "subscribe"
  /\ semAlive
  /\ IF sem[h] > 0
     THEN sem' = Taken(h) /\ Goto(p, "lock_snapshot")
     ELSE UNCHANGED sem /\ Goto(p, "sub_wait")
  /\ UNCHANGED <<semAlive, master, entry, segs, locals>>

(* The semaphore set is gone, a signal arrives, or the time given is up.   *)
SubscribeFails(p) ==
  /\ \/ pc[p] \in {"subscribe", "sub_wait"} /\ ~semAlive
     \/ pc[p] = "sub_wait" /\ (Signals \/ call[p].subscribe = "timed")
  /\ Return(p)
  /\ UNCHANGED <<kernelSem, master, entry, segs>>

(* Mutant: a subscriber that was woken reads without the slot lock.        *)
LockSnapshot_Skipped(p) ==
  /\ pc[p] = "lock_snapshot"
  /\ Goto(p, "shmat_slot")
  /\ UNCHANGED <<kernelSem, master, entry, segs, locals>>

LockSnapshot(p) ==
  /\ pc[p] = "lock_snapshot"
  /\ Available(LockSem(slot[p]))
  /\ sem' = Taken(LockSem(slot[p]))
  /\ Goto(p, "shmat_slot")
  /\ UNCHANGED <<semAlive, master, entry, segs, locals>>

LockSnapshotFails(p) ==
  /\ pc[p] = "lock_snapshot"
  /\ SemopFails(LockSem(slot[p]))
  /\ Return(p)
  /\ UNCHANGED <<kernelSem, master, entry, segs>>

-----------------------------------------------------------------------------
(* svipc_shm_free, svipc_shm_info and svipc_shm_cleanup: under the master  *)
(* lock throughout.  The last two scan the slots from 0.                   *)

(* Mutant: free_slot does not lock the slot.                               *)
FindSlotToFree_Unlocked(p) ==
  /\ pc[p] = "lkup_slot" /\ call[p].op = "free"
  /\ \E s \in lkup_slot(call[p].id) : slot' = [slot EXCEPT ![p] = s]
  /\ Goto(p, "rmid")
  /\ UNCHANGED <<kernelSem, master, entry, segs, call, create, shm, numb, buf>>

FindSlotToFree(p) ==
  /\ pc[p] = "lkup_slot" /\ call[p].op = "free"
  /\ \E s \in lkup_slot(call[p].id) : slot' = [slot EXCEPT ![p] = s]
  /\ Goto(p, "lock_used")
  /\ UNCHANGED <<kernelSem, master, entry, segs, call, create, shm, numb, buf>>

ScanUsed(p) ==
  /\ pc[p] = "scan"
  /\ slot[p] < NumSlots /\ entry[slot[p]].slot_shmid # NoShm
  /\ Goto(p, "lock_used")
  /\ UNCHANGED <<kernelSem, master, entry, segs, locals>>

ScanFree(p) ==
  /\ pc[p] = "scan"
  /\ slot[p] < NumSlots /\ entry[slot[p]].slot_shmid = NoShm
  /\ slot' = [slot EXCEPT ![p] = @ + 1]
  /\ UNCHANGED <<kernelSem, master, entry, segs, pc, call, create, shm, numb, buf>>

(* Mutant: IPC_NOWAIT on the slot lock, and the answer ignored.            *)
LockUsed_Nowait(p) ==
  /\ pc[p] = "lock_used"
  /\ sem' = IF Available(LockSem(slot[p])) THEN Taken(LockSem(slot[p])) ELSE sem
  /\ Goto(p, IF call[p].op = "info" THEN "info_read" ELSE "rmid")
  /\ UNCHANGED <<semAlive, master, entry, segs, locals>>

LockUsed(p) ==
  /\ pc[p] = "lock_used"
  /\ Available(LockSem(slot[p]))
  /\ sem' = Taken(LockSem(slot[p]))
  /\ Goto(p, IF call[p].op = "info" THEN "info_read" ELSE "rmid")
  /\ UNCHANGED <<semAlive, master, entry, segs, locals>>

(* Neither free_slot nor svipc_shm_info looks at what lock_slot returned.  *)
LockUsedIgnored(p) ==
  /\ pc[p] = "lock_used"
  /\ SemopFails(LockSem(slot[p]))
  /\ Goto(p, IF call[p].op = "info" THEN "info_read" ELSE "rmid")
  /\ UNCHANGED <<kernelSem, master, entry, segs, locals>>

(* The detailed listing: shmat, print the header, shmdt, unlock_slot.      *)
InfoRead(p) ==
  /\ pc[p] = "info_read"
  /\ sem' = Raised({LockSem(slot[p])})
  /\ slot' = [slot EXCEPT ![p] = @ + 1]
  /\ Goto(p, "scan")
  /\ UNCHANGED <<semAlive, master, entry, segs, call, create, shm, numb, buf>>

(* A failed shmat is reported and then dereferenced.                       *)
InfoFault(p) ==
  /\ pc[p] = "info_read"
  /\ NoMemory
  /\ Die(p)

RemoveSegment(p) ==
  /\ pc[p] = "rmid"
  /\ segKeyed' = [segKeyed EXCEPT ![entry[slot[p]].slot_shmid] = FALSE]
  /\ Goto(p, "clear")
  /\ UNCHANGED <<kernelSem, master, entry, segSlot, att, kept, mem, locals>>

ClearEntry(p) ==
  /\ pc[p] = "clear"
  /\ entry' = [entry EXCEPT ![slot[p]] = [slot_shmid |-> NoShm, desc |-> NoDesc]]
  /\ IF call[p].op = "free"
     THEN /\ sem' = Raised({LockSem(slot[p]), MasterSem})
          /\ Detach(p)
          /\ Return(p)
     ELSE /\ sem' = Raised({LockSem(slot[p])})
          /\ slot' = [slot EXCEPT ![p] = @ + 1]
          /\ Goto(p, "scan")
          /\ UNCHANGED <<master, call, create, shm, numb, buf>>
  /\ UNCHANGED <<semAlive, segs>>

InfoReturns(p) ==
  /\ pc[p] = "scan" /\ call[p].op = "info"
  /\ slot[p] = NumSlots
  /\ sem' = Raised({MasterSem})
  /\ Detach(p)
  /\ Return(p)
  /\ UNCHANGED <<semAlive, entry, segs>>

(* Mutant: the loop over the slots stops one short.                        *)
RemoveSemaphores_Early(p) ==
  /\ pc[p] = "scan" /\ call[p].op = "cleanup"
  /\ slot[p] = NumSlots - 1
  /\ semAlive' = FALSE
  /\ Goto(p, "rm_master")
  /\ UNCHANGED <<sem, master, entry, segs, locals>>

(* The semaphore set goes first: whoever waits on it is sent away.         *)
RemoveSemaphores(p) ==
  /\ pc[p] = "scan" /\ call[p].op = "cleanup"
  /\ slot[p] = NumSlots
  /\ semAlive' = FALSE
  /\ Goto(p, "rm_master")
  /\ UNCHANGED <<sem, master, entry, segs, locals>>

RemoveMaster(p) ==
  /\ pc[p] = "rm_master"
  /\ keyed' = FALSE
  /\ mapped' = mapped \ {p}
  /\ Return(p)
  /\ UNCHANGED <<kernelSem, entry, segs>>

-----------------------------------------------------------------------------
(* What a process does by itself once it has made a call.                  *)
Step(p) ==
  \/ FindMaster(p) \/ AttachMaster(p) \/ AttachMasterFault(p)
  \/ LockMaster(p) \/ LockMasterFails(p)
  \/ FindSlot(p) \/ PickFreeSlot(p) \/ NoSuchSlot(p)
  \/ LockSlot(p) \/ LockSlotFails(p)
  \/ CreateSegment(p) \/ CreateSegmentFails(p) \/ SetEntry(p) \/ SnapSlot(p)
  \/ AttachSegment(p) \/ AttachSegmentFails(p)
  \/ FillHeader(p) \/ CheckHeader(p) \/ RefuseMisfit(p) \/ ReadHeader(p)
  \/ CopyFirstHalf(p) \/ CopySecondHalf(p) \/ ReleaseSnapshot(p)
  \/ CountSubscribers(p) \/ PublishToSubscribers(p) \/ PublishToNobody(p)
  \/ PublishFails(p) \/ Acknowledged(p)
  \/ SnapSubscription(p) \/ Subscribe(p) \/ SubscribeFails(p)
  \/ LockSnapshot(p) \/ LockSnapshotFails(p)
  \/ FindSlotToFree(p) \/ ScanUsed(p) \/ ScanFree(p)
  \/ LockUsed(p) \/ LockUsedIgnored(p) \/ InfoRead(p) \/ InfoFault(p)
  \/ RemoveSegment(p) \/ ClearEntry(p) \/ InfoReturns(p)
  \/ RemoveSemaphores(p) \/ RemoveMaster(p)

Next == \E p \in Proc : Begin(p) \/ Step(p)

Spec == Init /\ [][Next]_vars

(* A process that is not blocked runs, and the kernel serves a semaphore   *)
(* in the order of arrival: one that can go on again and again does.       *)
FairSpec == Spec /\ \A p \in Proc : SF_vars(Step(p))

-----------------------------------------------------------------------------
(* Properties.                                                             *)

Label == {"idle", "attach_master", "shmat_master", "lock_master", "lkup_slot",
          "lock_slot", "shmget_slot", "set_entry", "snap_slot", "shmat_slot",
          "header", "memcpy", "memcpy_rest", "release", "getncnt", "publish",
          "ack", "subscribe", "sub_wait", "lock_snapshot", "scan", "lock_used",
          "info_read", "rmid", "clear", "rm_master", "fault"}

SharedTypeOK ==
  /\ sem \in [SemNum -> 0 .. SEMVMX]
  /\ semAlive \in BOOLEAN
  /\ keyed \in BOOLEAN
  /\ mapped \subseteq Proc
  /\ entry \in [Slot -> [slot_shmid : ShmId \cup {NoShm}, desc : Id \cup {NoDesc}]]

SegsTypeOK ==
  /\ segSlot \in [ShmId -> Slot \cup {NoSlot}]
  /\ segKeyed \in [ShmId -> BOOLEAN]
  /\ att \in [ShmId -> SUBSET Proc]
  /\ kept \in [ShmId -> SUBSET Proc]
  /\ mem \in [ShmId -> Content]

LocalsTypeOK ==
  /\ pc \in [Proc -> Label]
  /\ call \in [Proc -> CallRecord]
  /\ slot \in [Proc -> 0 .. NumSlots]
  /\ create \in [Proc -> BOOLEAN]
  /\ shm \in [Proc -> ShmId \cup {NoShm}]
  /\ numb \in [Proc -> Int]
  /\ buf \in [Proc -> Content]

(* Every variable stays in its type; the contents of the segments are      *)
(* those the writes of this code can leave.                                *)
TypeOK == SharedTypeOK /\ SegsTypeOK /\ LocalsTypeOK

(* Between lock_master and unlock_master.                                  *)
HoldsMaster(p) ==
  pc[p] \in {"lkup_slot", "lock_slot", "shmget_slot", "set_entry", "snap_slot",
             "scan", "lock_used", "info_read", "rmid", "clear", "rm_master"}

(* Between lock_slot or lock_snaphot and the unlock of slot s.             *)
HoldsSlot(p, s) ==
  /\ slot[p] = s
  /\ pc[p] \in {"shmget_slot", "set_entry", "snap_slot", "shmat_slot", "header",
                "memcpy", "memcpy_rest", "release", "info_read", "rmid", "clear"}

(* In a segment: the payload or the header is being moved.                 *)
InSegment(p) == pc[p] \in {"header", "memcpy", "memcpy_rest", "release"}

(* Two processes are never in the slot table at once, whatever semop       *)
(* answers: every caller of lock_master gives up when it fails.            *)
MasterExclusive == \A p, q \in Proc : HoldsMaster(p) /\ HoldsMaster(q) => p = q

(* Two processes are never in one slot at once: writers and readers hold   *)
(* its semaphore over the copy, and free and info take it before they      *)
(* touch the segment (svipc.i:186 and 220, "semaphore protected").         *)
SlotExclusive ==
  \A p, q \in Proc : \A s \in Slot : HoldsSlot(p, s) /\ HoldsSlot(q, s) => p = q

(* A read returns one array that was written, header and payload together, *)
(* never a mixture of two writes nor a segment not yet filled              *)
(* (svipc.i:222, "guarantees consistency with external writers").          *)
ReadWhole ==
  \A p \in Proc : pc[p] = "release" /\ call[p].op = "read" =>
    \E a \in Array : /\ Fits(a, buf[p])
                     /\ buf[p].lo = a.data /\ buf[p].hi = a.data

(* While a call that does not subscribe is in a segment, the table still   *)
(* gives that segment under the name of the call: neither shm_free nor     *)
(* shm_cleanup takes it away, nor is the slot given to another name.       *)
NoUseAfterFree ==
  \A p \in Proc : InSegment(p) /\ call[p].subscribe = "no" =>
    /\ entry[slot[p]] = [slot_shmid |-> shm[p], desc |-> call[p].id]
    /\ segKeyed[shm[p]]

(* Nobody being in the table, its entries and the kernel's segments are    *)
(* one and the same: every entry in use names a segment that is not marked *)
(* for removal, and no such segment is forgotten.                          *)
TableCoherent ==
  (\A p \in Proc : ~HoldsMaster(p)) =>
    /\ \A s \in Slot : /\ entry[s].slot_shmid = NoShm <=> entry[s].desc = NoDesc
                       /\ entry[s].slot_shmid # NoShm =>
                            /\ segKeyed[entry[s].slot_shmid]
                            /\ segSlot[entry[s].slot_shmid] = s
    /\ \A i \in ShmId : segKeyed[i] => entry[segSlot[i]].slot_shmid = i

(* Two slots never have the same name: lookup and creation are one         *)
(* critical section.                                                       *)
UniqueNames ==
  \A s, t \in Slot : entry[s].desc = entry[t].desc /\ entry[s].desc # NoDesc => s = t

(* shm_cleanup leaves nothing that can be found by its key.                *)
CleanupComplete == ~keyed => /\ ~semAlive
                             /\ \A i \in ShmId : ~segKeyed[i]

(* With one publisher and subscribers that do not give up, the handshake   *)
(* semaphores are always back at zero: each publication is consumed by     *)
(* those it was made for and leaves nothing to the next subscriber.        *)
HandshakeDrained == \A s \in Slot : semAlive => sem[HandSem(s)] = 0

(* A subscriber blocks until a broadcast: it never finds one left over     *)
(* (svipc.i:216, "will block until reception of a broadcast").             *)
SubscriberBlocks ==
  [][\A p \in Proc : pc[p] = "subscribe" => pc'[p] # "lock_snapshot"]_vars

(* Every call that does not subscribe returns, or its process died of      *)
(* shmat's answer: scans, single calls and a cleanup never wait for each   *)
(* other in a circle.                                                      *)
CallsReturn ==
  \A p \in Proc : pc[p] = "attach_master" /\ call[p].subscribe = "no"
                  ~> pc[p] \in {"idle", "fault"}

(* A publisher is never left waiting for its subscribers.                  *)
PublisherReturns == \A p \in Proc : pc[p] = "ack" ~> pc[p] = "idle"

(* A subscriber that a publication woke goes on to a result.               *)
WokenReturns == \A p \in Proc : pc[p] = "lock_snapshot" ~> pc[p] = "idle"

(* After a cleanup the kernel gives everything back, once the calls under  *)
(* way are over.                                                           *)
CleanupReclaims ==
  ~keyed ~> (mapped = {} /\ \A i \in ShmId : ~Exists(i))
==============================================================================
