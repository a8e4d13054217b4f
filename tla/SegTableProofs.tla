---------------------------- MODULE SegTableProofs ----------------------------
(***************************************************************************)
(* Theorems about SegTable, for any number of pools, names, variables and  *)
(* addresses: types and the values of the slot locks, one item per name,   *)
(* and the list of attached segments in step with what is attached.        *)
(***************************************************************************)
EXTENDS SegTable, ListFacts, TLAPS
LOCAL INSTANCE SequencesExt

-----------------------------------------------------------------------------
(* The inductive invariant.                                                *)

Types ==
  /\ slotSeg \in [Slot -> Seg \cup {NoSeg}]
  /\ mapping \in [Addr -> Seg \cup {NoSeg}]
  /\ segtable \in Seq(Item) /\ Len(segtable) <= MaxItems
  /\ var \in [Var -> Addr \cup {Null}]
  /\ pc \in {"idle", "lkupid", "bind"}
  /\ call \in [var : Var, slot : Slot]
  /\ sg \in 0 .. MaxItems
  /\ cleanup \in BOOLEAN

(* A slot lock is only taken in between, by the shm_var that attached.     *)
Locks == lock = [s \in Slot |-> IF pc = "bind" /\ cleanup /\ s = call.slot THEN 0 ELSE 1]

(* The item shm_var has found or added.                                    *)
Binding ==
  pc = "bind" => /\ sg \in DOMAIN segtable
                 /\ segtable[sg].addr # Null

(* An item is blank altogether or not at all, and shm_unvar can find every *)
(* segment by its address but the one that is being bound.                 *)
Items ==
  \A k \in DOMAIN segtable :
    /\ segtable[k].id = Blank <=> segtable[k].addr = Null
    /\ segtable[k].pdata = segtable[k].addr \/ (pc = "bind" /\ sg = k /\ segtable[k].pdata = Null)

(* What is attached, and only that, is in the list, once.                  *)
Attached ==
  /\ \A a \in Addr : mapping[a] # NoSeg => \E k \in DOMAIN segtable : segtable[k].addr = a
  /\ \A k \in DOMAIN segtable : segtable[k].addr # Null => mapping[segtable[k].addr] # NoSeg
  /\ \A j, k \in DOMAIN segtable :
       segtable[j].addr = segtable[k].addr /\ segtable[j].addr # Null => j = k

SegTableInv == Types /\ Locks /\ Binding /\ Items /\ Attached /\ OneItemPerName

-----------------------------------------------------------------------------
(* The operators.                                                          *)

(* A list that has the name finds it.                                      *)
LEMMA NameMissing ==
  ASSUME Types, NEW id, seg_lkupid(id) = {}
  PROVE  \A k \in DOMAIN segtable : segtable[k].id # id
<1> SUFFICES ASSUME NEW k \in DOMAIN segtable, segtable[k].id = id PROVE FALSE
  OBVIOUS
<1>1. {j \in DOMAIN segtable : segtable[j].id = id} \in SUBSET Nat
  BY DEF Types
<1> QED BY <1>1, LeastExists DEF seg_lkupid, FirstItem

(* What the list holds.                                                    *)
LEMMA ItemTypes ==
  ASSUME Types
  PROVE  /\ DOMAIN segtable = 1 .. Len(segtable) /\ Len(segtable) \in Nat
         /\ \A k \in DOMAIN segtable :
              /\ segtable[k] \in Item
              /\ segtable[k].id \in Id \cup {Blank}
              /\ segtable[k].addr \in Addr \cup {Null}
              /\ segtable[k].pdata \in Addr \cup {Null}
<1>1. segtable \in Seq(Item)
  BY DEF Types
<1>2. DOMAIN segtable = 1 .. Len(segtable) /\ Len(segtable) \in Nat
  BY <1>1
<1>3. \A k \in DOMAIN segtable : segtable[k] \in Item
  BY <1>1, <1>2
<1> QED BY <1>2, <1>3 DEF Item

(* The slot of a call has a name.                                          *)
LEMMA CalledSlot ==
  ASSUME Types PROVE call.slot \in Slot /\ call.slot[2] \in Id /\ call.slot[2] # Blank
  BY SegAssumption DEF Types, Slot

-----------------------------------------------------------------------------
(* The invariant is inductive.                                             *)

(* A step that leaves the list and what is attached as they are, outside   *)
(* the binding.                                                            *)
LEMMA ListAside ==
  ASSUME SegTableInv, UNCHANGED <<segtable, mapping>>, Types', Locks', Binding',
         pc # "bind" \/ UNCHANGED <<pc, sg>>
  PROVE  SegTableInv'
  BY DEF SegTableInv, Items, Attached, OneItemPerName

(* shm_var appends an item for a segment it has attached.                  *)
LEMMA AttachNewInv == SegTableInv /\ AttachNew => SegTableInv'
<1> SUFFICES ASSUME SegTableInv, AttachNew PROVE SegTableInv'
  OBVIOUS
<1> USE SegAssumption
<1> DEFINE n == Len(segtable) + 1
           id == call.slot[2]
<1>1. PICK a \in Addr :
        /\ mapping[a] = NoSeg
        /\ mapping' = [mapping EXCEPT ![a] = slotSeg[call.slot]]
        /\ segtable' = Append(segtable, [id |-> id, addr |-> a, pdata |-> Null])
  BY DEF AttachNew
<1>2. /\ pc = "lkupid" /\ pc' = "bind" /\ sg' = n /\ cleanup' = TRUE
      /\ lock' = [lock EXCEPT ![call.slot] = @ - 1] /\ lock[call.slot] > 0
      /\ UNCHANGED <<slotSeg, var, call>>
      /\ slotSeg[call.slot] \in Seg /\ Len(segtable) < MaxItems
  BY CalledSlot DEF AttachNew, SegTableInv, Types
<1>3. id \in Id /\ id # Blank /\ call.slot \in Slot
  BY CalledSlot DEF SegTableInv
<1>4. [id |-> id, addr |-> a, pdata |-> Null] \in Item
  BY <1>3 DEF Item
<1>5. /\ segtable' \in Seq(Item) /\ Len(segtable') = n /\ DOMAIN segtable' = 1 .. n
      /\ n \in Nat \ {0} /\ n <= MaxItems
      /\ segtable'[n] = [id |-> id, addr |-> a, pdata |-> Null]
      /\ \A k \in 1 .. n : k # n => k \in DOMAIN segtable /\ segtable'[k] = segtable[k]
      /\ \A k \in DOMAIN segtable : k \in 1 .. n /\ k # n
  BY <1>1, <1>2, <1>4 DEF SegTableInv, Types
<1>6. \A k \in DOMAIN segtable : segtable[k].addr # a /\ segtable[k].id # id
  <2>1. seg_lkupid(id) = {}
    BY DEF AttachNew
  <2> QED BY <1>1, <2>1, NameMissing DEF SegTableInv, Attached
<1>7. mapping' \in [Addr -> Seg \cup {NoSeg}] /\ mapping'[a] # NoSeg
      /\ \A b \in Addr : b # a => mapping'[b] = mapping[b]
  BY <1>1, <1>2 DEF SegTableInv, Types
<1> HIDE DEF n, id
<1>8. Types'
  BY <1>2, <1>5, <1>7 DEF SegTableInv, Types
<1>9. Locks'
  BY <1>2, <1>3 DEF SegTableInv, Locks
<1>10. Binding'
  BY <1>2, <1>5 DEF Binding
<1>11. Items'
  BY <1>2, <1>3, <1>5 DEF SegTableInv, Items
<1>12. Attached'
  <2>1. (\A b \in Addr : mapping[b] # NoSeg => \E k \in DOMAIN segtable : segtable[k].addr = b)'
    BY <1>5, <1>7 DEF SegTableInv, Attached
  <2>2. ASSUME NEW k \in 1 .. n, segtable'[k].addr # Null PROVE mapping'[segtable'[k].addr] # NoSeg
    <3>1. CASE k = n
      BY <1>5, <1>7, <3>1
    <3>2. CASE k # n
      <4>1. /\ segtable'[k] = segtable[k] /\ k \in DOMAIN segtable
            /\ segtable[k].addr \in Addr /\ segtable[k].addr # a
        BY <1>5, <1>6, <2>2, <3>2, ItemTypes DEF SegTableInv
      <4> QED BY <1>7, <2>2, <4>1 DEF SegTableInv, Attached
    <3> QED BY <3>1, <3>2
  <2>3. (\A j, k \in DOMAIN segtable :
           segtable[j].addr = segtable[k].addr /\ segtable[j].addr # Null => j = k)'
    BY <1>5, <1>6 DEF SegTableInv, Attached
  <2> QED BY <1>5, <2>1, <2>2, <2>3 DEF Attached
<1>13. OneItemPerName'
  BY <1>5, <1>6 DEF SegTableInv, OneItemPerName
<1> QED BY <1>8, <1>9, <1>10, <1>11, <1>12, <1>13 DEF SegTableInv

(* shm_var notes the address in the item and binds the variable.           *)
LEMMA BindInv == SegTableInv /\ Bind => SegTableInv'
<1> SUFFICES ASSUME SegTableInv, Bind PROVE SegTableInv'
  OBVIOUS
<1> USE SegAssumption
<1>1. /\ pc = "bind" /\ pc' = "idle" /\ sg' = 0 /\ cleanup' = FALSE
      /\ segtable' = [segtable EXCEPT ![sg].pdata = segtable[sg].addr]
      /\ lock' = IF cleanup THEN [lock EXCEPT ![call.slot] = @ + 1] ELSE lock
      /\ var' = [var EXCEPT ![call.var] = segtable[sg].addr]
      /\ UNCHANGED <<slotSeg, mapping, call>>
  BY DEF Bind
<1>2. sg \in DOMAIN segtable /\ segtable[sg] \in Item /\ call.slot \in Slot
      /\ segtable[sg].addr \in Addr
  BY <1>1, ItemTypes, CalledSlot DEF SegTableInv, Binding
<1>3. /\ segtable' \in Seq(Item) /\ Len(segtable') = Len(segtable)
      /\ DOMAIN segtable' = DOMAIN segtable
      /\ \A k \in DOMAIN segtable : k # sg => segtable'[k] = segtable[k]
      /\ segtable'[sg] = [segtable[sg] EXCEPT !.pdata = segtable[sg].addr]
  <2>1. [segtable[sg] EXCEPT !.pdata = segtable[sg].addr] \in Item
    BY <1>2 DEF Item
  <2>2. segtable' = [segtable EXCEPT ![sg] = [segtable[sg] EXCEPT !.pdata = segtable[sg].addr]]
    BY <1>1
  <2>3. segtable \in Seq(Item)
    BY DEF SegTableInv, Types
  <2> QED BY <1>2, <2>1, <2>2, <2>3
<1>4. /\ segtable'[sg].id = segtable[sg].id /\ segtable'[sg].addr = segtable[sg].addr
      /\ segtable'[sg].pdata = segtable[sg].addr
  BY <1>2, <1>3 DEF Item
<1>5. \A k \in DOMAIN segtable :
        segtable'[k].id = segtable[k].id /\ segtable'[k].addr = segtable[k].addr
  BY <1>3, <1>4
<1>6. Types'
  <2>1. var' \in [Var -> Addr \cup {Null}]
    BY <1>1, <1>2 DEF SegTableInv, Types
  <2>2. segtable' \in Seq(Item) /\ Len(segtable') <= MaxItems
    BY <1>3 DEF SegTableInv, Types
  <2>3. UNCHANGED <<slotSeg, mapping, call>>
    BY <1>1
  <2>4. pc' \in {"idle", "lkupid", "bind"}
    BY <1>1
  <2>5. sg' \in 0 .. MaxItems
    BY <1>1
  <2>6. cleanup' \in BOOLEAN
    BY <1>1
  <2> QED BY <2>1, <2>2, <2>3, <2>4, <2>5, <2>6 DEF SegTableInv, Types
<1>7. Locks'
  BY <1>1, <1>2 DEF SegTableInv, Locks
<1>8. Items'
  BY <1>1, <1>3, <1>4, <1>5 DEF SegTableInv, Items
<1>9. Attached' /\ OneItemPerName'
  BY <1>1, <1>3, <1>5 DEF SegTableInv, Attached, OneItemPerName
<1> QED BY <1>1, <1>6, <1>7, <1>8, <1>9 DEF SegTableInv, Binding

(* shm_unvar unlinks the item of the address, or blanks it.                *)
LEMMA UnvarInv == ASSUME NEW v \in Var PROVE SegTableInv /\ Unvar(v) => SegTableInv'
<1> SUFFICES ASSUME SegTableInv, Unvar(v) PROVE SegTableInv'
  OBVIOUS
<1> USE SegAssumption
<1>1. PICK k \in seg_lkupdata(var[v]) :
        /\ segtable' = seg_rem(segtable, k)
        /\ mapping' = [mapping EXCEPT ![segtable[k].addr] = NoSeg]
  BY DEF Unvar
<1> DEFINE a == segtable[k].addr
<1>2. /\ pc = "idle" /\ var[v] # Null /\ var' = [var EXCEPT ![v] = Null]
      /\ UNCHANGED <<slotSeg, lock, pc, call, sg, cleanup>>
  BY DEF Unvar, pool
<1>3. k \in DOMAIN segtable /\ segtable[k].pdata = var[v]
  BY DEF seg_lkupdata, FirstItem
<1>4. a \in Addr /\ a # Null /\ k \in 1 .. Len(segtable) /\ Len(segtable) \in Nat
      /\ segtable \in Seq(Item)
  BY <1>2, <1>3, ItemTypes DEF SegTableInv, Items, Types
<1>5. /\ mapping' \in [Addr -> Seg \cup {NoSeg}] /\ mapping'[a] = NoSeg
      /\ \A b \in Addr : b # a => mapping'[b] = mapping[b]
  BY <1>1, <1>4 DEF SegTableInv, Types
<1>6. Locks' /\ Binding'
  BY <1>2 DEF SegTableInv, Locks, Binding
<1>7. CASE k = Len(segtable) /\ k > 1
  <2>1. segtable' = [segtable EXCEPT ![k] = [id |-> Blank, addr |-> Null, pdata |-> Null]]
    BY <1>1, <1>7 DEF seg_rem
  <2>2. [id |-> Blank, addr |-> Null, pdata |-> Null] \in Item
    BY DEF Item
  <2>3. /\ segtable' \in Seq(Item) /\ Len(segtable') = Len(segtable)
        /\ DOMAIN segtable' = DOMAIN segtable
        /\ segtable'[k] = [id |-> Blank, addr |-> Null, pdata |-> Null]
        /\ \A j \in DOMAIN segtable : j # k => segtable'[j] = segtable[j]
    BY <1>3, <1>4, <2>1, <2>2
  <2>4. Types'
    BY <1>2, <1>5, <2>3 DEF SegTableInv, Types
  <2>5. Items' /\ OneItemPerName'
    BY <1>2, <2>3 DEF SegTableInv, Items, OneItemPerName
  <2>6. Attached'
    <3>1. ASSUME NEW b \in Addr, mapping'[b] # NoSeg
          PROVE  \E j \in DOMAIN segtable' : segtable'[j].addr = b
      BY <1>5, <2>3, <3>1 DEF SegTableInv, Attached
    <3>2. ASSUME NEW j \in DOMAIN segtable, segtable'[j].addr # Null
          PROVE  mapping'[segtable'[j].addr] # NoSeg
      <4>1. j # k /\ segtable'[j] = segtable[j] /\ segtable[j].addr \in Addr
        BY <2>3, <3>2, ItemTypes DEF SegTableInv
      <4>2. segtable[j].addr # a
        BY <1>3, <1>4, <4>1 DEF SegTableInv, Attached
      <4> QED BY <1>5, <3>2, <4>1, <4>2 DEF SegTableInv, Attached
    <3>3. (\A i, j \in DOMAIN segtable :
             segtable[i].addr = segtable[j].addr /\ segtable[i].addr # Null => i = j)'
      BY <2>3 DEF SegTableInv, Attached
    <3> QED BY <2>3, <3>1, <3>2, <3>3 DEF Attached
  <2> QED BY <1>6, <2>4, <2>5, <2>6 DEF SegTableInv
<1>8. CASE ~(k = Len(segtable) /\ k > 1)
  <2> DEFINE n == Len(segtable) - 1
             old(j) == IF j < k THEN j ELSE j + 1
  <2>1. segtable' = RemoveAt(segtable, k)
    BY <1>1, <1>8 DEF seg_rem
  <2>2. /\ segtable' \in Seq(Item) /\ Len(segtable') = n /\ DOMAIN segtable' = 1 .. n
        /\ \A j \in 1 .. n : segtable'[j] = IF j < k THEN segtable[j] ELSE segtable[j + 1]
    <3>1. /\ RemoveAt(segtable, k) \in Seq(Item) /\ Len(RemoveAt(segtable, k)) = n
          /\ \A j \in 1 .. n : RemoveAt(segtable, k)[j] =
                                 IF j < k THEN segtable[j] ELSE segtable[j + 1]
      BY <1>4, RemovedAt DEF RemoveAt, Without
    <3> QED BY <2>1, <3>1, LenProperties
  <2>3. \A j \in 1 .. n : /\ segtable'[j] = segtable[old(j)]
                          /\ old(j) \in DOMAIN segtable /\ old(j) # k
    BY <1>4, <2>2
  <2>4. \A i, j \in 1 .. n : old(i) = old(j) => i = j
    BY <1>4
  <2>5. \A i \in DOMAIN segtable : i # k => \E j \in 1 .. n : old(j) = i
    <3> SUFFICES ASSUME NEW i \in DOMAIN segtable, i # k PROVE \E j \in 1 .. n : old(j) = i
      OBVIOUS
    <3>1. i \in 1 .. Len(segtable)
      BY <1>4
    <3>2. CASE i < k
      BY <1>4, <3>1, <3>2
    <3>3. CASE ~(i < k)
      <4>1. i - 1 \in 1 .. n /\ old(i - 1) = i
        BY <1>4, <3>1, <3>3
      <4> QED BY <4>1
    <3> QED BY <3>2, <3>3
  <2> HIDE DEF old
  <2>6. Types'
    BY <1>2, <1>4, <1>5, <2>2 DEF SegTableInv, Types
  <2>7. Items' /\ OneItemPerName'
    <3>1. Items'
      BY <1>2, <2>2, <2>3 DEF SegTableInv, Items
    <3>2. OneItemPerName'
      BY <2>2, <2>3, <2>4 DEF SegTableInv, OneItemPerName
    <3> QED BY <3>1, <3>2
  <2>8. Attached'
    <3>1. ASSUME NEW b \in Addr, mapping'[b] # NoSeg
          PROVE  \E j \in 1 .. n : segtable'[j].addr = b
      <4>1. b # a /\ mapping[b] # NoSeg
        BY <1>5, <3>1
      <4>2. PICK i \in DOMAIN segtable : segtable[i].addr = b
        BY <4>1 DEF SegTableInv, Attached
      <4>3. i # k
        BY <4>1, <4>2
      <4> QED BY <2>3, <2>5, <4>2, <4>3
    <3>2. ASSUME NEW j \in 1 .. n, segtable'[j].addr # Null
          PROVE  mapping'[segtable'[j].addr] # NoSeg
      <4>1. segtable[old(j)].addr \in Addr
        BY <2>3, <3>2, ItemTypes DEF SegTableInv
      <4>2. segtable[old(j)].addr # a
        BY <1>3, <1>4, <2>3, <4>1 DEF SegTableInv, Attached
      <4> QED BY <1>5, <2>3, <3>2, <4>1, <4>2 DEF SegTableInv, Attached
    <3>3. (\A i, j \in DOMAIN segtable :
             segtable[i].addr = segtable[j].addr /\ segtable[i].addr # Null => i = j)'
      BY <2>2, <2>3, <2>4 DEF SegTableInv, Attached
    <3> QED BY <2>2, <3>1, <3>2, <3>3 DEF Attached
  <2> QED BY <1>6, <2>6, <2>7, <2>8 DEF SegTableInv
<1> QED BY <1>7, <1>8

(* Every step preserves the invariant.                                     *)
LEMMA SegTableNext == SegTableInv /\ [Next]_vars => SegTableInv'
<1> SUFFICES ASSUME SegTableInv, [Next]_vars PROVE SegTableInv'
  OBVIOUS
<1> USE SegAssumption
<1>1. CASE CallVar
  BY <1>1, ListAside DEF CallVar, pool, SegTableInv, Types, Locks, Binding
<1>2. CASE AttachKnown
  <2>1. sg' \in DOMAIN segtable /\ segtable[sg'].id = call.slot[2]
    BY <1>2 DEF AttachKnown, seg_lkupid, FirstItem
  <2>2. segtable[sg'].addr # Null /\ sg' \in 0 .. MaxItems
    BY <2>1, ItemTypes, CalledSlot DEF SegTableInv, Items, Types
  <2> QED BY <1>2, <2>1, <2>2, ListAside DEF AttachKnown, pool, SegTableInv,
     Types, Locks,
          Binding
<1>3. CASE AttachNew
  BY <1>3, AttachNewInv
<1>4. CASE AttachFails
  BY <1>4, ListAside DEF AttachFails, pool, SegTableInv, Types, Locks, Binding
<1>5. CASE Bind
  BY <1>5, BindInv
<1>6. ASSUME NEW v \in Var, Unvar(v) PROVE SegTableInv'
  BY <1>6, UnvarInv
<1>7. ASSUME NEW v \in Var, UnvarFails(v) PROVE SegTableInv'
  BY <1>7, ListAside DEF UnvarFails, vars, pool, SegTableInv, Types, Locks,
     Binding
<1>8. ASSUME NEW s \in Slot, OthersWrite(s) PROVE SegTableInv'
  BY <1>8, ListAside DEF OthersWrite, SegTableInv, Types, Locks, Binding
<1>9. ASSUME NEW s \in Slot, OthersFree(s) PROVE SegTableInv'
  BY <1>9, ListAside DEF OthersFree, SegTableInv, Types, Locks, Binding
<1>10. CASE UNCHANGED vars
  BY <1>10, ListAside DEF vars, pool, SegTableInv, Types, Locks, Binding
<1> QED
  BY <1>1, <1>2, <1>3, <1>4, <1>5, <1>6, <1>7, <1>8, <1>9, <1>10 DEF Next

(* The invariant holds initially.                                          *)
LEMMA SegTableInit == Init => SegTableInv
<1> SUFFICES ASSUME Init PROVE SegTableInv
  OBVIOUS
<1>1. segtable = <<>> /\ DOMAIN segtable = {} /\ Len(segtable) = 0 /\ segtable \in Seq(Item)
  BY DEF Init
<1>2. Types
  <2>1. segtable \in Seq(Item) /\ Len(segtable) <= MaxItems /\ sg \in 0 .. MaxItems
    BY <1>1, SegAssumption DEF Init
  <2>2. /\ slotSeg \in [Slot -> Seg \cup {NoSeg}] /\ mapping \in [Addr -> Seg \cup {NoSeg}]
        /\ var \in [Var -> Addr \cup {Null}]
    BY DEF Init
  <2>3. pc \in {"idle", "lkupid", "bind"} /\ cleanup \in BOOLEAN /\ call \in [var : Var, slot : Slot]
    BY DEF Init
  <2> QED BY <2>1, <2>2, <2>3 DEF Types
<1>3. Locks
  BY DEF Init, Locks
<1> QED BY <1>1, <1>2, <1>3 DEF Init, SegTableInv, Binding, Items, Attached,
   OneItemPerName

-----------------------------------------------------------------------------
(* Every variable keeps its type, in particular each slot lock stays       *)
(* between 0 and 1: what shm_var raises it had taken.                      *)
THEOREM SegTypes == Spec => []TypeOK
<1>1. SegTableInv => TypeOK
  BY DEF SegTableInv, Types, Locks, TypeOK
<1> QED BY SegTableInit, SegTableNext, <1>1, PTL DEF Spec

(* The list has exactly what the session has attached, whatever the order  *)
(* of shm_var and shm_unvar: unlinking an item never takes another one out *)
(* nor leaves one of a segment that is gone.                               *)
THEOREM ListInStep == Spec => []AttachedListed
<1>1. SegTableInv => AttachedListed
  BY DEF SegTableInv, Items, Attached, AttachedListed
<1> QED BY SegTableInit, SegTableNext, <1>1, PTL DEF Spec

(* A name is never attached twice, however many variables are bound to it. *)
THEOREM NamesOnce == Spec => []OneItemPerName
<1>1. SegTableInv => OneItemPerName
  BY DEF SegTableInv
<1> QED BY SegTableInit, SegTableNext, <1>1, PTL DEF Spec
===============================================================================
