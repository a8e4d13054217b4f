# A TLA+ verification of yp-svipc

yp-svipc gives yorick and python programs the System V interprocess objects:
a pool of shared memory slots with publish and subscribe, pools of counting
semaphores, message queues. The library is C (`src/common`), with one binding
for each language (`src/yorick`, `src/python`). There is no server: the
protocol between the processes is in how each of them uses the kernel's
semaphores and segments, and that is what these modules model.

## 1. Inventory

| component | state | operations | who it interacts with |
|---|---|---|---|
| shared memory pool (`svipc_shm.c`) | in the kernel: a set of `2*numslots+1` semaphores, the master segment, one segment per slot; in the master segment: the table `sse[]` of `(slot_shmid, desc)` | `shm_write`, `shm_read`, `shm_free`, `shm_info`, `shm_cleanup` | all processes that hold the key |
| publish and subscribe (`svipc_shm.c:338-419`) | one handshake semaphore per slot | subscribing `shm_read`, publishing `shm_write` | the slot locks |
| creation of the pool (`svipc_shm.c:853-963, 1160-1198`) | the same objects, half made or half removed, under one key | `shm_init`, `shm_cleanup` | every call that comes early or late |
| references (`svipc_shm.c:679-757, 1213-1297`, `Y_shm_var`, `Y_shm_unvar`) | the list `segtable` of a session, its attachments | `shm_var`, `shm_unvar` | the pool |
| semaphore pool (`svipc_sem.c`, `svipc_misc.c:86-127`) | one semaphore set | `sem_init` (also reset and info), `sem_cleanup`, `sem_take`, `sem_give` | a replacement of `semtimedop` off Linux |
| message queue (`svipc_msq.c`) | one queue | `msq_init`, `msq_cleanup`, `msq_snd`, `msq_rcv`, `msq_info` | |
| bindings (`yorick_svipc.c`, `svipc_module.c`) | arrays of the language | conversions to and from messages and slots | all of the above |
| affinity, `ftok`, counts (`svipc_misc.c`) | none | one system call each | |
| demos, build files | | | |

What makes this code hard:

- **Interleaving.** There are two levels of locks in the pool (master, slot) and
  a handshake. Locks are handed over: a reader or writer locks the master, then
  the slot, then drops the master and only then attaches the segment; a
  subscriber drops the master before it waits and works with a snapshot.
- **Failure.** Every system call may fail; `semop` fails with EINTR when a
  signal arrives, `shmget` and `shmat` when resources run out, everything when
  somebody cleans up. Some failures are looked at, some are not.
- **Time.** A subscription or a `sem_take` may have a time limit. The answer may
  come just when the time is up.
- **Lifetime.** Segments, queues and semaphore sets are removed while others use
  them. A key then means another object than the identifier found before.
- **Two languages** write and read one format.

What makes each part correct:

- *pool*: the two kinds of lock exclude; the table and the kernel's segments
  agree; a name has one slot; a read is one array that was written; nothing
  is used once taken away; every call returns; a cleanup gives everything back.
  Together: the pool is a map from names to arrays, and each call one step on it.
- *creation*: whoever is in the table has the semaphores of that pool, and is
  alone, from the first moment it can be found; a set and its master come and go
  together; every call returns.
- *bindings*: an array read is one that was written, in whichever language.
- *publish and subscribe*: a subscriber returns after a broadcast made while it
  waited; a publication leaves nothing to later subscribers; neither side hangs.
- *references*: the list agrees with what is attached; a variable is bound to
  the slot it was asked for.
- *semaphores*: a take is all or nothing, at one instant; a time limit holds;
  polling and the kernel's own wait cannot be told apart.
- *messages*: what arrives is what was sent; nobody waits for what cannot come.

`PROJECT.json` lists the hazards line by line ("hazards") with the properties
that are aimed at each.

## 2. Modules

    SlotArray      header of a segment, the fit of an array
      SlotStore    what a pool promises (abstract)
      ShmPool      the pool, publish and subscribe
        PoolStore         ShmPool implements SlotStore
          MCShmPool       instances
      Bindings     arrays of yorick and python, to slots and messages and back
        PoolBindings      ShmPool between the two languages
          MCPoolBindings  an instance
        MsgQueue          the queue between the two languages
          MCMsgQueue      an instance
    ShmLifecycle   shm_init and shm_cleanup against each other and every other call
      MCShmLifecycle      an instance
    Semaphores     what a semaphore pool promises (abstract)
      SemPool      how it does it; implements Semaphores
        MCSemPool         an instance
    SegTable       shm_var, shm_unvar
      MCSegTable          instances

The theorems are in modules of their own:

    ShmPoolProofs        types and the two exclusions of ShmPool
      ShmTableProofs     table, segments, whole reads, handshake
        PoolStoreProofs  reads of both languages; ShmPool implements SlotStore
    ShmLifecycleProofs   ShmLifecycle
    SemPoolProofs        SemPool implements Semaphores
    ListFacts            functions defined step by step, a sequence without an element
      SegTableProofs     SegTable
      MsgQueueProofs     MsgQueue

### ShmPool

One action is the code between two points where another process can tell the
difference: a semaphore operation, a kernel object made, found or removed, a
table entry stored, a part of a segment moved. `pc[p]` names the point, mostly
after the function about to be called:

| label | code |
|---|---|
| `attach_master`, `shmat_master`, `lock_master` | `acquire_master` (494), `attach_master` (180), `lock_master` (209) |
| `lkup_slot`, `lock_slot`, `shmget_slot`, `set_entry`, `snap_slot`, `shmat_slot` | `acquire_slot` (524-652) |
| `subscribe`, `sub_wait`, `lock_snapshot` | `acquire_slot` with a time (565-588), `subscribe_snapshot` (338) |
| `header`, `memcpy`, `memcpy_rest`, `release` | bodies of `svipc_shm_write` (967) and `svipc_shm_read` (1071) |
| `getncnt`, `publish`, `ack` | `publish_snapshot` (381) |
| `scan`, `lock_used`, `info_read`, `rmid`, `clear`, `rm_master` | `svipc_shm_free`, `svipc_shm_info`, `svipc_shm_cleanup`, `free_slot` (466) |
| `fault` | the process has died of a bad address |

State: `sem` and `semAlive` are the semaphore set (0 the master, then one lock
and one handshake per slot, in the order `svipc_shm_init` gives them); `keyed`
and `mapped` the master segment; `entry` the table; `segSlot`, `segKeyed`,
`att`, `kept`, `mem` the slot segments: the slot whose key made it, whether it
can still be found, who has it attached, who returned without detaching, what
it contains. The rest are the locals of a call.

Abstractions: a payload is a value in two halves, because `memcpy` is not
atomic (two are enough to see a mixture). Names fit `desc`. A time limit is
"timed" or "forever". An identifier is not used again while a process or the
table remembers it, as the kernel's sequence numbers ensure. `semop(+n)`
completes the blocked decrements it satisfies before it returns, as on Linux;
therefore a publisher that finds the handshake back at zero need not be
scheduled with its subscribers. Keys of two pools do not collide (the slots of
key `k` use the keys `k+1 .. k+numslots`).

### SlotStore and PoolStore

`SlotStore` is what the documentation's "semaphore protected and guarantees
consistency" amounts to: a map from names to arrays, on which a write, a read or
a free takes effect at one instant between its call and its return, or fails for
one of three reasons (no such name, no slot left, an array that does not fit).
Two things of the code are visible in it. The write of a new name takes a slot
first (`Reserve`), and while that slot has no array yet, reads and frees of the
name wait. And a write that does not create keeps the dimensions it finds
(`Write` replaces the payload only).

`PoolStore` says where in the code the instant is. A write takes effect under the
slot lock when the header is filled or found to fit, although `memcpy` is still
to come (and publishing after it); a read when it has copied everything; a free when it clears the entry
of the table. In between, `StoreOf` looks through the segments: a segment whose
creator has not filled its header has no array, one that is being copied into
already has the new one. That this works needs both locks, the marker -1 in
`typeID`, and the order in which master and slot lock are taken and given back.

`Info` has no answer in the abstract store, because the listing of `shm_info` is
not one instant: it locks one slot after the other. Only its locks are modelled.
Cleanup, signals and memory shortage are outside the refinement: with them
the calls fail for other reasons, and `torn_read` shows that with signals the
promise is not kept. So are subscribing reads: one answers from the segment it
noted before it waited, whatever has become of the name since.

### SlotArray and Bindings

`Fits` is the test `svipc_shm_write` makes before overwriting: type, rank and
*number of elements* (not dimensions). `Bindings` has what the two languages put
in a message or a slot: `HeaderInts` is the loop that copies the dimensions,
which in python reads 64-bit integers as if they were ints; `Decode` what the
receiver of a message makes of it; `Y_shm_write`, `Y_shm_read` and their python
counterparts the arrays handed to `svipc_shm_write` (none where the binding
refuses: types without a code, scalars in yorick) and made of what
`svipc_shm_read` answers. `PoolBindings` puts `ShmPool` between the two: `Source`
are the arrays a program writes, `SlotArrays` what reaches the library, `Answer`
what a reader's program gets.

### ShmLifecycle

A pool is two kernel objects under one key, the semaphore set and the master
segment, which holds the identifier of the set. The n-th set and the master
made with it have the number n; 0 is the identifier in a master full of zeros.
`svipc_shm_init` is taken one system call or store at a time (`semget`, each
`SETVAL`, `shmget`, `shmat` with `memset`, the identifiers, `numslots`, each
entry). `acquire_master` is `shmget`, `shmat`, the read of the identifier
(`CallSemop`) and the wait on that set (`LockMaster`), so that the identifier may be
stored while a call waits on the set it read before; `unlock_master` reads it anew.
Inside the table a call only looks, or enters a slot in the first free entry, or
(cleanup) clears them. Any process may init or clean up at any time, and `semget`,
`shmget` and `shmat` may fail. `broken` remembers the pools whose init failed after
it had made the set. `Lost` is an attachment whose process forgot it (the error
returns of `svipc_shm_cleanup`, 1182-1194).

*The identifier 0.* Between 929 and 942 the master can be found but is not filled,
and a call that comes so early takes 0 for the identifier of the semaphores. No
check in the code stops it, and 0 is an ordinary identifier: the kernel gives it
to the first set made in an IPC namespace, and not again. `ZeroSet` says whose that
set is:

- `First`: it is the first set made under the key. An early call is then let in,
  with whatever `numslots` the master has, and an early cleanup removes the set
  before init is done; where 941 has not run either, it also takes 0 for the
  identifier of the master, which may be that of another segment, of this one, or
  of none (`RemoveMaster`, `RemoveMasterFails`). Once that set is removed 0 leads
  nowhere, and so it does for the later pools under the key.
- `Other`: it is the set of another pool (of slots or of semaphores) and still
  there. An early call locks that one, and if init stores the identifiers
  meanwhile, unlocks this one.
- `None`: nobody's, or it is gone. An early call fails.

The other pool is reduced to its set: the semaphore 0 starts at 1 and nobody but
the early calls uses it. The stores of 939 to 943 are taken in the order of the
source; the size of the table is the same for every init under the key;
signals are left to `ShmPool`. A pool whose identifier is stored is entered by
anybody who comes, though `numslots` and the entries may still be missing: no
property says otherwise, and a write may be lost by it (section 3, further defects).

### SemPool and Semaphores

`SemPool` has both `semtimedop`s: `native` is chosen once, in `Init`. With it, a
take with a limit blocks in the kernel; without it, it polls (`Poll`, `Sleep`),
the time left counted in quanta of `SVIPC_USLEEP_QUANTUM`. A call works on the
pool it found (`found`), which may have been removed and replaced. `Semaphores`
is what a caller may rely on, without any of that: a take answers 0 when it got
all it asked for, at one instant, and -1 when the time is up and not enough was
there, on a signal, or when its pool is gone. The refinement mapping computes
`want` from `call`, `found` and `pc`; `pool`, `val` and `status` are themselves.

### SegTable

One session, which is sequential, and the other processes reduced to what
`ShmPool` lets them do to a slot: write it anew or free it, under its lock. The
list is a sequence; `seg_rem` leaves the last of several items in the list and
`svipc_shm_detach` blanks it, so that the blank item stays.

### MsgQueue

The calls of `svipc_msq.c` between the binding's conversion before and after.
The kernel's part is external: bytes on the queue against `msg_qbytes`,
selection by type (0, positive, negative). A message also carries the array it
was made from, for the properties only.

## 3. Runs

Twelve runs; the larger ones take one to three minutes with two workers.

| run | bounds | shows |
|---|---|---|
| `pool_rw` | 3 processes, 1 slot, 2 names, 2 arrays | types, both exclusions, whole reads, no use after free, and that the pool implements `SlotStore`, with plain writes, reads, frees and listings |
| `pool_faults` | 2 processes, 2 slots, signals, no memory, cleanup | master lock, table, names, completeness of cleanup under every failure at once |
| `pool_live` | a yorick and a python process, 1 slot, 3 names, arrays of rank 0 to 2, one publishes, one subscribes, cleanup | every call returns; a cleanup gives everything back; a read, subscribing or not, answers an array written in either language |
| `pubsub` | 1 publisher who frees, 2 subscribers, 1 slot | handshake: safety and liveness |
| `sempool` | 1 owner, 2 others, 2 semaphores, waits of 0, 1, 2 quanta and for ever, 2 pools | implementation of `Semaphores`; time limits; nobody stuck |
| `segtable` | 2 variables, 3 names, 4 segments, 3 addresses, list of 4 | list against attachments |
| `lifecycle` | 2 processes that make and remove, 1 that uses, 1 slot, 3 pools under the key, the first with identifier 0, no memory | exclusion from the start; whoever is in the table has its semaphores; a quiet key has a whole pool or none; every call returns |
| `messages` | 2 yorick, 1 python, 5 arrays, 40 bytes, 2 queues | what arrives was sent; nobody stuck |
| `torn_read` | 3 processes, signals | *violated*: a read of a half filled segment |
| `stale_broadcast` | publisher, 2 subscribers with a limit | *violated*: a read without a broadcast |
| `stale_binding` | 2 variables, 3 names | *violated*: an old segment is bound |
| `foreign_set` | as `lifecycle` with 2 pools, but another pool's set has identifier 0 | *violated*: two processes in the table |

Why the bounds are enough to mean something:

- *Processes.* A torn read needs one process to write, one to read and one to
  take the lock away: three. A second subscriber is needed for a publication
  meant for one to reach another.
- *Slots and names.* Two names compete for one slot in `pool_rw`, so that a slot
  is freed and recreated under another name while others still know its old
  segment. Two slots and two names in `pool_faults`, so that a name could be
  given two slots, and a scan holds one slot after the other.
- *Segments.* One more identifier than can exist at once, because the kernel
  gives no identifier again that a process still remembers.
- *Semaphores.* `SEMVMX` is above what the tokens of the instance can reach,
  except in `sempool`, where 3 makes gives fail, and in `pool_faults` and
  `torn_read`, where an interrupted `shm_free` raises a lock it never took and
  the largest value is where that stops.
- *Messages.* 40 bytes hold a matrix (24 bytes) and a vector or a scalar (15, 16)
  but not two matrices, so that senders block; `Large` (44) can never fit and
  must be refused, as must `Complex`, whose type has no code, and yorick's scalar.
- *Arrays.* In `pool_live` one name is written by both languages with a vector each,
  one by yorick with a matrix, one by python with a scalar, so that a slot that is
  recreated under another name also changes type and rank. Arrays of a type
  without a code, and yorick's scalar, are refused before they reach the pool.
- *Pools under a key.* Two makers are needed for an init to meet the cleanup of
  another process half way; with three pools a process may still hold on to the
  first while the second is removed and the third made. The first has the
  identifier 0, so that early calls are let into it; from the second on 0 leads
  nowhere, so that they fail there. (With no such pool at all, with two slots, or
  with makers who also write, the invariants hold as well; they are proved.)
- `MaxPools`, `MaxQueues`, `MaxItems`, `MaxWait`, `MaxCount` bound the objects made
  one after the other, the list (it keeps blank items), time, and counts.

Deadlock is checked except in `pool_faults`, `pool_live` and `lifecycle` and in the
runs that end in a violation: there a process may die with locks in its hands
(in `lifecycle` all may die of what `shmat` answers), or the pool be gone and every
call with it. In `pool_rw`, `pubsub`, `sempool`, `segtable` and `messages` its absence
is part of the result. (A process that waits for a broadcast is not a deadlock
as long as the publisher may still call.)

Symmetry (segments, addresses; in `pool_rw` also processes and names, who all
make the same calls) is used where everything checked is a safety property that
does not tell the permuted values apart: invariants, and in `pool_rw` the refinement
`ImplementsStore`, an action property of symmetric expressions, which is also
proved.

### Fairness

- `ShmPool!FairSpec`: strong fairness of each process's own steps (`Step(p)`, not
  `Begin(p)`: nobody has to make a call). A process that is not blocked is
  scheduled. A blocked `semop` is enabled and disabled as the semaphore comes and
  goes; that one which can go on again and again does go on is what Linux does,
  which serves the waiters of a semaphore in order of arrival. `Signals` is
  FALSE in the runs that use it, so that fairness never forces a failure.
- `ShmLifecycle!FairSpec`: the same, for the master lock is the same. Failures of
  `NoMemory` are steps of the process, and fairness may be satisfied by them; but
  `CallsReturn` does not need them, since each has a successful step beside it
  that ends no later in a return.
- `SemPool!FairSpec`, `MsgQueue!FairSpec`: weak fairness of each process's steps.
  Nothing is claimed of a taker against competitors, only of what stays
  possible. Signals interrupt nobody by fairness in `MsgQueue` (`Interrupted` is
  not in `Step`); in `sempool` a signal may end a wait, and the properties do not
  need it to: they speak of waits for what is there, or on what is gone, where
  `BlockFails` is not enabled.

### Findings

Four runs end in a violation, each of a sentence of the documentation:

1. `torn_read`. `free_slot` and `svipc_shm_info` do not look at what `lock_slot`
   returns. After EINTR they go on and then *raise* a lock they never took; from
   then on two processes are let into the slot.
2. `stale_broadcast`. Waiters are counted and woken in two steps. A subscriber with
   a time limit, as in this run, leaves the token behind; whoever subscribes next
   finds it, with or without a limit.
3. `stale_binding`. `segtable` is searched by name only. (A comment at
   `svipc_shm.c:98` knows of the missing key, not of the freed slot.) The run has
   one key, and shows the freed slot.
4. `foreign_set`. A call finds the master before `svipc_shm_init` has filled it, reads
   0, and locks the semaphore 0 of whichever set has that identifier; init stores
   the identifiers; the next call locks the pool's own, and both are in the table.
   This is the race the fixme at 919 suspects. It goes on: the first call reads
   the identifier again to unlock and raises the lock of the pool, which reaches 2
   if nobody has it (`TypeOK` is violated with these constants too), and nobody
   gives the other pool its lock back (nor does `CallsReturn` hold).

Further defects the models contain but no run is made of:

- `acquire_master` tests for NULL, but `shmat` says `(void*)-1` (499): a cleanup
  between `shmget` and `shmat` makes the call dereference it (`AttachMasterFault`, in
  `ShmPool` and `ShmLifecycle`).
- If the set being made has the identifier 0, a cleanup that comes before 941 is let
  in, removes the set (1180), and then some other segment, or none, in place of the
  master (1188). Init goes on and returns 0; what it leaves is a master without a
  set, on which every call fails. The next init fails too (its `shmget` finds the
  master) and leaves a set. `WholePool` names the exception: stated without it,
  `lifecycle` violates it.
- A refused write stays attached to the segment (1049): `RefuseMisfit` and `kept`.
- If `shmat` fails in the write that created a segment, the entry stays and its
  segment reads as a scalar of type char (633). Every later write is then
  refused as a misfit, with the attachment that stays: with `NoMemory`,
  `CleanupReclaims` does not hold, and `pool_live` is therefore run without.
- The test of the size multiplies the dimensions: an array of another shape is
  accepted and gets the old dimensions (1043; `ChangeLog:42-44` says otherwise).
- Two publishers of one slot may count the same subscriber; the second then
  waits for an acknowledgement that does not come (388). `pubsub` has one
  publisher.
- Python copies the dimensions of a matrix as if `npy_intp` were `int`
  (`svipc_module.c:220, 694`): 2 rows and 3 columns go out as 2 and 0.
  `HeaderInts` has it; with a matrix in python's hands `DeliveredIntact` and
  `ReadBack` are violated, and the runs of both therefore keep it to one dimension.
- A write that comes while `svipc_shm_init` clears the entries (947) is lost: its
  name is erased, its segment stays under the key of the slot, and every later
  write that picks the slot fails. Storing `numslots` last would exclude it.
- `svipc_shm_init` leaves the set it has made when `shmget` or `shmat` fails (929-937),
  and `svipc_shm_cleanup` removes the set first and the master after it (1180,
  1188): an init in between finds the key of the set free and the old master in
  place. In both cases a set remains without a master, every later init answers
  that it exists, and no cleanup can reach it: only `ipcrm` helps. `WholePool` is
  stated for pools without such a past.
- `svipc_shm_cleanup` returns without detaching the master when `semctl` or `shmctl`
  fails (1182-1194). `RemoveMasterFails` has it (`Lost`).
- A name of 80 characters or more is cut to 79 (619) but compared over 80 (262):
  it is entered again by each write and found by no read. The empty name is
  found in every free slot.
- `ping.i` and `pong.py` publish before they subscribe for the answer: if the other
  side is not back in `shm_read` in time, both wait for ever (`ping.i:52`).
- Two variables bound to one slot share its attachment; unbinding one leaves the
  other dangling.
- `msq_rcv` of python returns an array over a buffer it has freed (785).

## 4. Theorems

All of them hold for any number of processes, slots, names, arrays, pools,
semaphores, and any assignment of calls to processes. They rest on the named
assumptions on the constants, which TLC evaluates on every run
(`PoolAssumption`, `BindingAssumption`, `QueueAssumption` and so on: finitely
many processes, `SEMVMX` at least 1, the special values none of the ordinary
ones, what the calls look like), and on the hypotheses named in the table.

| module | theorem | statement | where |
|---|---|---|---|
| `ShmPoolProofs` | `TypeCorrect` | `Spec => []TypeOK` | |
| | `MasterExclusion` | `Spec => []MasterExclusive` | |
| | `SlotExclusion` | `Spec => []SlotExclusive` | no signals |
| `ShmTableProofs` | `CoherentTable` | `Spec => []TableCoherent` | |
| | `NamesUnique` | `Spec => []UniqueNames` | |
| | `CleanupCompletes` | `Spec => []CleanupComplete` | |
| | `SegmentsStay` | `Spec => []NoUseAfterFree` | no signals |
| | `ReadsWhole` | `Spec => []ReadWhole` | no signals, enough memory |
| | `HandshakesDrained` | `Spec => []HandshakeDrained` | no signals, one publisher, patient subscribers |
| | `SubscribersBlock` | `Spec => SubscriberBlocks` (an action property) | the same |
| `PoolStoreProofs` | `StoreImplemented` | `Spec => ImplementsStore` | no signals, enough memory, plain calls |
| | `ReadsBack` | `Spec => []ReadBack` | no signals, enough memory, hypotheses on the arrays |
| `ShmLifecycleProofs` | `LifecycleTypes` | `Spec => []TypeOK` | no foreign set 0 |
| | `OneProcessInTable` | `Spec => []OneInTable` | no foreign set 0 |
| | `TablesHaveTheirSemaphores` | `Spec => []OwnSemaphores` | no foreign set 0 |
| | `WholePools` | `Spec => []WholePool` | no foreign set 0 |
| `SemPoolProofs` | `SemTypes` | `Spec => []TypeOK` | |
| | `SemaphoresImplemented` | `Spec => ImplementsSemaphores` | |
| `SegTableProofs` | `SegTypes` | `Spec => []TypeOK` | |
| | `ListInStep` | `Spec => []AttachedListed` | |
| | `NamesOnce` | `Spec => []OneItemPerName` | |
| `MsgQueueProofs` | `QueueTypes` | `Spec => []TypeOK` | |
| | `NoHopelessSender` | `Spec => []BlockedSenderFits` | |
| | `MessagesIntact` | `Spec => []DeliveredIntact` | python sends vectors and does not receive |

### The hypotheses

They leave out what the code gets wrong or does not promise: each names
a behaviour of the program, but `Handed` and `PayloadsWritten`, which only say what
the constants stand for.

- *No signals* (`Signals = FALSE`): `torn_read` shows the exclusion of a slot lost
  to an interrupted `semop`.
- *Enough memory* (`NoMemory = FALSE`): the write whose `shmat` fails leaves an entry
  whose segment nobody will fill (section 3, further defects).
- *One publisher* (`OnePublisher`), *patient subscribers* (`PatientSubscribers`, no
  time limit): `stale_broadcast` shows the token a subscriber leaves that gives up
  between the counting and the publication, and two publishers may count the
  same subscriber.
- *Plain calls* (`PlainCalls`): nobody removes the pool, nobody subscribes.
  Publishing is allowed, though the run `pool_rw` has none (it would take too long).
- *No foreign set 0* (`ZeroSet # Other`): the set with the identifier 0 is not that
  of another pool. It may be the first set made under the key, so that early calls
  do get into its table. `foreign_set` shows the exclusion lost without it.
- *Hypotheses on the arrays* of `ReadsBack`: what is written is what a language
  hands over (`Handed`) and is a payload at all (`PayloadsWritten`: `NoData` is what a
  segment holds before anything is copied); python writes one dimension at most
  (`PythonWritesVectors`), because of `npy_intp`; arrays that fit each other and are
  written under one name have one shape (`OneShape`), because a write keeps the
  dimensions it finds. The instance of `pool_live` satisfies all four.
- *Python sends vectors and does not receive* (`PythonSendsVectors`,
  `YorickReceives`): the same, and the buffer that is freed before it is read.

### The arguments

**Exclusion.** Neither exclusion is inductive: it says nothing of the semaphore.
`MasterInv` and `SlotInv` say that while the set exists *the value of the
semaphore and the holders add up to at most one*: the semaphore is 0 or 1; if it
is 1 nobody holds the lock; and two holders are one process. A step that
acquires finds the value 1, hence no holder, and leaves 0; a step that releases
was the only holder. `LockUsedIgnored` is the one step that enters the labels of
a slot holder without the semaphore. It is enabled on a removed set, or by a
signal. A removed set is ruled out by `AtTable(p) => semAlive`: whoever is in the
table and not in the last step of a cleanup finds the set alive, since only a
holder of the master lock removes it. The master lock has no such step, which
is why `MasterExclusion` needs no hypothesis.

**The table.** `TableCoherent` speaks of the moments when nobody is changing the
table. `TableInv` speaks of every moment, by saying for each label in the middle
of a change what is not in step yet: a segment under its key that is not in the
table is about to be entered (`set_entry`), an entry whose segment is gone about
to be cleared (`clear`). `Creating(p)`, that the slot is free and that nobody has
the name, holds from `lkup_slot` to `set_entry` because the master lock is kept.
`UniqueNames` and `CleanupComplete` are parts of it or follow.

**The segments.** `SegInv` says that what a call without a subscription works on
is still in the table under its name, and keyed: to be taken away, an entry
needs the slot lock the call has. That gives `NoUseAfterFree`.

**The contents.** A segment in use holds one array, or one process is in the
middle of writing to it (`ContentInv`). The writer of a new segment has its slot
lock from before the entry is made until the payload is complete, so that a
reader, who has the same lock, meets neither. `CopyLocal` follows the copy through
its two halves.

**The handshake.** `HandInv`: the handshake semaphores are zero, and a publisher
about to raise one has counted no more than are waiting. The second part stays
true only if no subscriber leaves in between (patience) and nobody else takes
those counted (one publisher).

**The origin of what is read.** `OriginInv` adds to the contents that an array in
a segment was written under the name of its slot, and that a call which remembers
a segment remembers it under that name, also while it waits for a broadcast and the
slot goes to another name: an identifier is not used again while remembered.

**The store.** For the refinement `StoreInv` says where plain calls come, and that a
free that has found its slot finds the same name there until it clears it. Each of
the 46 actions is then either a step of `SlotStore` or leaves store, phases
and answers alone. `ArrayKept` is the lemma most steps rest on: an array changes
only by a step on its own segment or of its own writer. `CopyFirstHalf` and
`CopySecondHalf` change the segment but not the array, since `ArrayOf` sees the
new payload from the start; that nobody else writes to the segment (`AloneIn`)
makes the choice in `ArrayOf` unique. The store is full exactly when no slot is free:
names and used slots are in bijection (`NamesCount`).

**Creation.** `PoolInv` has six parts. `Types`: variables and what each process
remembers, among it that the identifier it has read is 0 or that of its pool.
`Numbered`: pools are numbered as they are made, and a set under the key is that of
the last. `Makers`: a pool is made by one process, which alone knows it until it
has a master. `Keys`: a set
under the key is being made, broken, or that of the master under the key; a master
without its set is about to be removed, or was of the pool with the set 0. `Locks`:
the sum of the exclusion argument, over all pools that ever were, since a late
process may still hold on to an old one. `Values`: what init has set stays set.

`LocksOwnSet` is the step at which the early calls matter: whoever gets a lock
gets that of the pool it has found. If it read the identifier there, that is the
set of this pool. If it read 0, and 0 is the first set under the key, that set
is still there; so no other has been made, and the pool it has found is that
one. That 0 is not the set of another pool is all that is used about it. The same
goes for the unlock, with the identifier that is in the master by then
(`ReachesOwnSet`): 0 and the number of the first set are the same set.

**Semaphores.** `SemInv` says what a waiting take knows: it has found a pool, and its
time is unlimited exactly if its call is. With it each step maps to one step of
`Semaphores` or none: `Poll` that finds too little, `Sleep` with time left, `Block`
to none; the take to the instant of its decrement; `GiveUp` to the end of time.

**The list.** `Attached`: addresses with a segment and items with an address are in
bijection. `shm_unvar` is the hard step: `seg_rem` takes an item out of the middle
or leaves the last one, which is then blanked; which item is found is
`FirstItem`, the least of a set of positions (`LeastExists`).

**The queue.** `QueueInv`: everything on the queue is a message some process may
send, the bytes add up to at most `QBytes`, and who has passed `msgctl` has a
message an empty queue would take. `BytesAppend` and `BytesRemove` are about the
sum over the queue, `TotalNumberNat` about the product over the dimensions.

Induction over data is done in `ListFacts` without the library's theorems,
whose operator parameters the provers cannot instantiate: `SetInduction` is
induction over the natural numbers with the property given as a *set*, obtained
from the well-foundedness of finite sets under inclusion, and `NatStepwise` gives the
function that a step by step definition defines.

The proofs go label by label: each invariant is a conjunction of named
parts, each action gets a step, and under it one step for each part it can
disturb. Lemmas that only save repetition (`Others`, `ReturnOthers`, `Quiet`,
`Stutters`) say what a step of one process leaves alone in the others.

## 5. Only model-checked

- Every liveness property (`CallsReturn` of two modules, `CleanupReclaims`, `PublisherReturns`,
  `WokenReturns`, `TimedTakeReturns`, `NobodyStuck` twice) and the absence of
  deadlock: fairness and ENABLED are out of the proof system's reach here.
- The four violations.

Every invariant, action property and refinement of the passing runs is proved.

## 6. Not modelled

- `sem_info` and `msq_info` only read; `shm_info` is modelled because it takes locks,
  not for what it prints.
- The replacement `semtimedop` under subscriptions: a polling subscriber is not
  counted by GETNCNT and would miss publications. `ShmPool` is the pool on Linux.
- Names that do not fit `desc`, and pools whose keys are so close that the keys of
  their slots (`key+slot+1`) meet.
- The width of `sem_op` (short), `msgmax`, strides of numpy arrays, heap memory.
- Threads of one python process: the binding keeps the interpreter's lock while
  it waits in the kernel, so that a process is one sequence of calls.
- Deaths of a process other than by the code's own doing: the locks are taken
  without SEM_UNDO, so that nothing survives the death of a holder.
- `svipc_misc.c` (affinity, `ftok`, number of processors): no state.
- Demos and build files.

## 7. Plan

In this order; 1 to 7 are done.

1. `SlotArray`, `ShmPool`, `MCShmPool`: the pool with its runs.
2. `ShmPoolProofs`: types and exclusion.
3. `Semaphores`, `SemPool`: both waits against one abstract pool.
4. `SegTable`; `Bindings`, `MsgQueue`.
5. `ShmLifecycle`: `svipc_shm_init` against early calls and cleanup.
6. `SlotStore`, `PoolStore`: the pool as a map; `PoolBindings`: the pool between the
   two languages.
7. Proofs of every safety property and of both refinements: `ShmTableProofs`,
   `PoolStoreProofs`, `ShmLifecycleProofs`, `SemPoolProofs`, `SegTableProofs`,
   `MsgQueueProofs`.
8. More in `SlotStore`: subscribing reads, with an answer from the past; memory
   shortage, as a write that fails and leaves the name behind.
9. The pool with polling subscribers (a constant of `ShmPool`), and the protocol
   of `ping.i` and `pong.py` over it.
