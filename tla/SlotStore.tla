------------------------------ MODULE SlotStore ------------------------------
(***************************************************************************)
(* What the shared-memory pool promises those who call shm_write,          *)
(* shm_read, shm_free and shm_info (src/common/svipc_shm.c): it is a map   *)
(* from names to arrays, and each call takes effect at one instant between *)
(* its beginning and its return, or has no effect and fails for a reason.  *)
(* No segment, lock, attachment or partial copy shows.                     *)
(***************************************************************************)
EXTENDS SlotArray, FiniteSets

CONSTANTS
  Proc,      \* the processes that use the pool
  NumSlots,  \* how many names may be in use at once
  Call,      \* the calls each process may make
  NoCall,    \* the call of a process that is not in one
  NoData     \* no payload

VARIABLES
  call,      \* the call each process is in
  phase,     \* "idle", "called" (no effect yet) or "done"
  store,     \* the arrays by name; its domain are the names in use
  got        \* what a read has found

vars == <<call, phase, store, got>>

(* A name whose first array is not there yet.                              *)
New == [typeID |-> NewSegment, number |-> <<>>, data |-> NoData]

Init ==
  /\ call = [p \in Proc |-> NoCall]
  /\ phase = [p \in Proc |-> "idle"]
  /\ store = [id \in {} |-> New]
  /\ got = [p \in Proc |-> New]

Begin(p) ==
  /\ phase[p] = "idle"
  /\ \E c \in Call[p] : call' = [call EXCEPT ![p] = c]
  /\ phase' = [phase EXCEPT ![p] = "called"]
  /\ UNCHANGED <<store, got>>

In(p, op) == phase[p] = "called" /\ call[p].op = op
Named(p) == call[p].id \in DOMAIN store
Full == Cardinality(DOMAIN store) = NumSlots

Return(p) ==
  /\ phase' = [phase EXCEPT ![p] = "idle"]
  /\ call' = [call EXCEPT ![p] = NoCall]
  /\ got' = [got EXCEPT ![p] = New]

(* A write of a new name takes a slot first; reads and frees of it wait.   *)
Reserve(p) ==
  /\ In(p, "write") /\ ~Named(p) /\ ~Full
  /\ store' = [id \in DOMAIN store \cup {call[p].id} |->
                 IF id = call[p].id THEN New ELSE store[id]]
  /\ UNCHANGED <<call, phase, got>>

(* The first array decides type and dimensions; the next ones replace the  *)
(* payload.                                                                *)
Write(p) ==
  LET id == call[p].id
      a == call[p].arr IN
  /\ In(p, "write") /\ Named(p)
  /\ store[id] = New \/ Fits(a, store[id])
  /\ store' = [store EXCEPT ![id] =
                 IF @ = New THEN a ELSE [@ EXCEPT !.data = a.data]]
  /\ phase' = [phase EXCEPT ![p] = "done"]
  /\ UNCHANGED <<call, got>>

Read(p) ==
  /\ In(p, "read") /\ Named(p) /\ store[call[p].id] # New
  /\ got' = [got EXCEPT ![p] = store[call[p].id]]
  /\ phase' = [phase EXCEPT ![p] = "done"]
  /\ UNCHANGED <<call, store>>

Free(p) ==
  /\ In(p, "free") /\ Named(p) /\ store[call[p].id] # New
  /\ store' = [id \in DOMAIN store \ {call[p].id} |-> store[id]]
  /\ Return(p)

Done(p) == phase[p] = "done" /\ Return(p) /\ UNCHANGED store
Info(p) == In(p, "info") /\ Return(p) /\ UNCHANGED store

(* The only reasons to fail: no such name, no slot left, a misfit.         *)
Fail(p) ==
  /\ \/ (In(p, "read") \/ In(p, "free")) /\ ~Named(p)
     \/ In(p, "write") /\ ~Named(p) /\ Full
     \/ /\ In(p, "write") /\ Named(p)
        /\ store[call[p].id] # New /\ ~Fits(call[p].arr, store[call[p].id])
  /\ Return(p)
  /\ UNCHANGED store

Next == \E p \in Proc :
  \/ Begin(p) \/ Reserve(p) \/ Write(p) \/ Read(p) \/ Free(p)
  \/ Done(p) \/ Info(p) \/ Fail(p)

Spec == Init /\ [][Next]_vars
==============================================================================
