---------------------------- MODULE MsgQueueProofs ----------------------------
(***************************************************************************)
(* Theorems about MsgQueue, for any processes, arrays, calls and size of   *)
(* the queue: the queue never holds more than msg_qbytes, a sender that is *)
(* blocked has a message that fits, and what is received is what was sent. *)
(***************************************************************************)
EXTENDS MsgQueue, ListFacts
LOCAL INSTANCE SequencesExt

-----------------------------------------------------------------------------
(* The inductive invariant.                                                *)

(* What a call to msq_snd that the binding lets through puts on the queue. *)
MessageOf(p, c) == [mtype |-> c.mtype, body |-> Encode(Lang[p], c.arr), sent |-> c.arr]
Sends(p) == {c \in Call[p] : c.op = "snd" /\ Sendable(Lang[p], c.arr)}
QMessage == UNION {{MessageOf(p, c) : c \in Sends(p)} : p \in Proc}

Types ==
  /\ msgq \in {NoQueue} \cup Queue
  /\ made \in 0 .. MaxQueues
  /\ queue \in Seq(QMessage)
  /\ pc \in [Proc -> {"idle", "msgget", "stat", "msgop", "blocked"}]
  /\ call \in [Proc -> CallRecord]
  /\ found \in [Proc -> {NoQueue} \cup Queue]
  /\ DOMAIN got = Proc

(* A process is in one of its calls, has found a queue once it is past     *)
(* msgget, sends what may be sent, and past msgctl what may fit.           *)
InCall(p) ==
  /\ pc[p] # "idle" => call[p] \in Call[p]
  /\ found[p] = NoQueue <=> pc[p] \in {"idle", "msgget"}
  /\ pc[p] \in {"stat", "msgop", "blocked"} /\ call[p].op = "snd" =>
       Sendable(Lang[p], call[p].arr)
  /\ pc[p] \in {"msgop", "blocked"} /\ call[p].op = "snd" =>
       MsgSize(Message(p)) <= QBytes

QueueInv ==
  /\ Types
  /\ Bytes(queue) <= QBytes
  /\ \A p \in Proc : InCall(p)

-----------------------------------------------------------------------------
(* The sizes of messages and of the queue.                                 *)

(* The number of elements of an array is a natural number.                 *)
LEMMA TotalNumberNat ==
  ASSUME NEW number \in Seq(Nat) PROVE TotalNumber(number) \in Nat
<1> DEFINE n == Len(number)
           Eq(f) == f = [k \in 0 .. n |-> IF k = 0 THEN 1 ELSE number[k] * f[k - 1]]
           step == [k \in 1 .. n |-> [t \in Nat |-> number[k] * t]]
           total == CHOOSE f : Eq(f)
<1>1. \E f : Eq(f)
  <2>1. step \in [1 .. n -> [Nat -> Nat]] /\ n \in Nat /\ 1 \in Nat
    <3>1. ASSUME NEW k \in 1 .. n PROVE [t \in Nat |-> number[k] * t] \in [Nat -> Nat]
      <4>1. number[k] \in Nat
        OBVIOUS
      <4> QED BY <4>1
    <3>2. \A k \in 1 .. n : step[k] = [t \in Nat |-> number[k] * t]
      OBVIOUS
    <3> DEFINE F == [Nat -> Nat]
    <3>3. \A k \in 1 .. n : step[k] \in F
      BY <3>1, <3>2
    <3>4. step = [k \in 1 .. n |-> step[k]]
      OBVIOUS
    <3>5. step \in [1 .. n -> F]
      <4> HIDE DEF step, F, n
      <4> QED BY <3>3, <3>4
    <3>6. n \in Nat
      OBVIOUS
    <3> HIDE DEF step, n
    <3> QED BY <3>5, <3>6 DEF F
  <2>2a. \A s \in [1 .. n -> [Nat -> Nat]] : \E f \in [0 .. n -> Nat] :
          f[0] = 1 /\ \A k \in 1 .. n : f[k] = s[k][f[k - 1]]
    <3> SUFFICES ASSUME NEW s \in [1 .. n -> [Nat -> Nat]] PROVE \E f \in [0 .. n -> Nat] :
          f[0] = 1 /\ \A k \in 1 .. n : f[k] = s[k][f[k - 1]]
      OBVIOUS
    <3> HIDE DEF step, n
    <3> QED BY <2>1, NatStepwise
  <2>2. PICK f \in [0 .. n -> Nat] :
          f[0] = 1 /\ \A k \in 1 .. n : f[k] = step[k][f[k - 1]]
    <3> HIDE DEF step, n
    <3> QED BY <2>1, <2>2a
  <2>3. ASSUME NEW k \in 1 .. n PROVE f[k] = number[k] * f[k - 1]
    <3>1. f[k - 1] \in Nat
      OBVIOUS
    <3>3. step[k][f[k - 1]] = number[k] * f[k - 1]
      BY <3>1
    <3> HIDE DEF step
    <3> QED BY <2>2, <3>3
  <2>4. \A k \in 0 .. n : f[k] = IF k = 0 THEN 1 ELSE number[k] * f[k - 1]
    <3> HIDE DEF step
    <3> QED BY <2>2, <2>3
  <2>5. Eq(f)
    BY <2>4
  <2> QED BY <2>5
<1>2. Eq(total)
  <2> HIDE DEF Eq
  <2> QED BY <1>1
<1>3. total[0] = 1 /\ \A k \in 1 .. n : total[k] = number[k] * total[k - 1]
  <2> HIDE DEF total
  <2> QED BY <1>2
<1>4. TotalNumber(number) = total[n]
  BY DEF TotalNumber
<1>5. {k \in Nat : k <= n => total[k] \in Nat} = Nat
  <2> DEFINE K == {k \in Nat : k <= n => total[k] \in Nat}
  <2>1. 0 \in K
    <3> HIDE DEF total
    <3> QED BY <1>3
  <2>2. ASSUME NEW k \in Nat, k \in K PROVE k + 1 \in K
    <3> SUFFICES ASSUME k + 1 <= n PROVE total[k + 1] \in Nat
      OBVIOUS
    <3>1. total[k] \in Nat /\ number[k + 1] \in Nat
      BY <2>2
    <3> HIDE DEF total
    <3>2. total[k + 1] = number[k + 1] * total[k]
      BY <1>3
    <3> QED BY <3>1, <3>2
  <2> HIDE DEF K
  <2>3. Nat \subseteq K
    BY <2>1, <2>2, SetInduction
  <2> QED BY <2>3 DEF K
<1>6. n \in Nat
  OBVIOUS
<1>7. total[n] \in Nat
  <2> HIDE DEF total, n
  <2> QED BY <1>5, <1>6
<1> QED BY <1>4, <1>7

(* What is on the queue is of a type and a size msgsnd takes.              *)
LEMMA SizeNat ==
  ASSUME NEW m \in QMessage
  PROVE  /\ MsgSize(m.body) \in Nat
         /\ m.mtype \in Type /\ m.sent \in Array /\ Supported(m.body)
<1> USE QueueAssumption
<1>0. PICK p \in Proc : \E c \in Sends(p) : m = MessageOf(p, c)
  BY DEF QMessage
<1>1. PICK c \in Sends(p) : m = MessageOf(p, c)
  BY <1>0
<1>2. c \in Call[p] /\ c.op = "snd" /\ Supported(c.arr)
  BY <1>1 DEF Sends, Sendable
<1>3. c.arr \in Array /\ c.mtype \in Type
  BY <1>2
<1>4. c.arr.typeID \in 0 .. 5 /\ c.arr.number \in Seq(Nat)
  BY <1>2, <1>3 DEF Supported
<1>5. /\ m.body.typeID \in 0 .. 5 /\ m.body.count \in Nat
      /\ Len(m.body.number) \in Nat
      /\ m.mtype = c.mtype /\ m.sent = c.arr
  <2>1. m.body.number = HeaderInts(Lang[p], c.arr)
        /\ m.body.count = TotalNumber(c.arr.number) /\ m.body.typeID = c.arr.typeID
        /\ m.mtype = c.mtype /\ m.sent = c.arr
    BY <1>1 DEF MessageOf, Encode
  <2>2. Len(HeaderInts(Lang[p], c.arr)) \in Nat
    <3>1. CASE Lang[p] = "yorick"
      BY <3>1, <1>4 DEF HeaderInts
    <3>2. CASE Lang[p] # "yorick"
      <4> DEFINE n == Len(c.arr.number)
                 F(k) == IF (k - 1) % IntpInts = 0
                         THEN c.arr.number[1 + (k - 1) \div IntpInts] ELSE 0
      <4>1. n \in Nat
        BY <1>4
      <4>2. HeaderInts(Lang[p], c.arr) = [k \in 1 .. n |-> F(k)]
        BY <3>2 DEF HeaderInts
      <4> HIDE DEF F, n
      <4>3. Len([k \in 1 .. n |-> F(k)]) = n
        BY <4>1
      <4> QED BY <4>1, <4>2, <4>3
    <3> QED BY <3>1, <3>2
  <2> QED BY <1>4, <2>1, <2>2, TotalNumberNat
<1>6. ElementSize[1 + m.body.typeID] \in Nat
  BY <1>5 DEF ElementSize
<1>7. m.body.count * ElementSize[1 + m.body.typeID] \in Nat
  BY <1>5, <1>6
<1>8. MsgSize(m.body) \in Nat
  <2> DEFINE payload == m.body.count * ElementSize[1 + m.body.typeID]
  <2>1. payload \in Nat
    BY <1>7
  <2>2. MsgSize(m.body) = 4 * (2 + Len(m.body.number)) + payload
    BY DEF MsgSize
  <2> HIDE DEF payload
  <2> QED BY <1>5, <2>1, <2>2
<1> QED BY <1>3, <1>5, <1>8 DEF Supported

(* The bytes of the first messages of a queue: what Bytes adds up.         *)
Totals(q) ==
  CHOOSE total : total = [k \in 0 .. Len(q) |->
                            IF k = 0 THEN 0 ELSE total[k - 1] + MsgSize(q[k].body)]

(* There is such a function: each total has the next size added to it.     *)
LEMMA TotalsAddUp ==
  ASSUME NEW q \in Seq(QMessage)
  PROVE  /\ Bytes(q) = Totals(q)[Len(q)]
         /\ Totals(q)[0] = 0
         /\ \A k \in 1 .. Len(q) : Totals(q)[k] = Totals(q)[k - 1] + MsgSize(q[k].body)
<1> DEFINE n == Len(q)
           size(k) == MsgSize(q[k].body)
           Eq(f) == f = [k \in 0 .. n |-> IF k = 0 THEN 0 ELSE f[k - 1] + size(k)]
           step == [k \in 1 .. n |-> [t \in Nat |-> t + size(k)]]
<1>1. n \in Nat /\ \A k \in 1 .. n : size(k) \in Nat
  BY SizeNat
<1>2. \E f : Eq(f)
  <2> HIDE DEF n, size
  <2>1. step \in [1 .. n -> [Nat -> Nat]]
    <3>1. \A k \in 1 .. n : [t \in Nat |-> t + size(k)] \in [Nat -> Nat]
      BY <1>1
    <3>2. \A k \in 1 .. n : step[k] = [t \in Nat |-> t + size(k)]
      OBVIOUS
    <3> DEFINE F == [Nat -> Nat]
    <3>3. \A k \in 1 .. n : step[k] \in F
      BY <3>1, <3>2
    <3>4. step = [k \in 1 .. n |-> step[k]]
      OBVIOUS
    <3>5. step \in [1 .. n -> F]
      <4> HIDE DEF step, F
      <4> QED BY <3>3, <3>4
    <3> HIDE DEF step
    <3> QED BY <3>5 DEF F
  <2>2. \A s \in [1 .. n -> [Nat -> Nat]] : \E f \in [0 .. n -> Nat] :
          f[0] = 0 /\ \A k \in 1 .. n : f[k] = s[k][f[k - 1]]
    <3> SUFFICES ASSUME NEW s \in [1 .. n -> [Nat -> Nat]]
                 PROVE \E f \in [0 .. n -> Nat] :
                         f[0] = 0 /\ \A k \in 1 .. n : f[k] = s[k][f[k - 1]]
      OBVIOUS
    <3> HIDE DEF step
    <3> QED BY <1>1, NatStepwise
  <2>3. PICK f \in [0 .. n -> Nat] :
          f[0] = 0 /\ \A k \in 1 .. n : f[k] = step[k][f[k - 1]]
    <3> HIDE DEF step
    <3> QED BY <2>1, <2>2
  <2>4. ASSUME NEW k \in 1 .. n PROVE f[k] = f[k - 1] + size(k)
    <3>1. f[k - 1] \in Nat
      BY <1>1
    <3>2. step[k][f[k - 1]] = f[k - 1] + size(k)
      BY <3>1
    <3> HIDE DEF step
    <3> QED BY <2>3, <3>2
  <2>5. \A k \in 0 .. n : f[k] = IF k = 0 THEN 0 ELSE f[k - 1] + size(k)
    <3> HIDE DEF step
    <3> QED BY <1>1, <2>3, <2>4
  <2>6. Eq(f)
    BY <2>5
  <2> QED BY <2>6
<1>3. Totals(q) = CHOOSE f : Eq(f)
  BY DEF Totals
<1>4. Eq(Totals(q))
  <2> HIDE DEF Eq
  <2> QED BY <1>2, <1>3
<1>5. Bytes(q) = Totals(q)[Len(q)]
  BY DEF Bytes, Totals
<1>6. /\ Totals(q)[0] = 0
      /\ \A k \in 1 .. n : Totals(q)[k] = Totals(q)[k - 1] + size(k)
  <2> DEFINE T == Totals(q)
  <2>1. T = [k \in 0 .. n |-> IF k = 0 THEN 0 ELSE T[k - 1] + size(k)]
    BY <1>4
  <2> HIDE DEF T, size, n
  <2>2. T[0] = 0 /\ \A k \in 1 .. n : T[k] = T[k - 1] + size(k)
    BY <1>1, <2>1
  <2> QED BY <2>2 DEF T
<1> QED BY <1>5, <1>6

(* What is on the queue takes no less than nothing.                        *)
LEMMA TotalsNat ==
  ASSUME NEW q \in Seq(QMessage) PROVE \A k \in 0 .. Len(q) : Totals(q)[k] \in Nat
<1> DEFINE n == Len(q)
           T == Totals(q)
           K == {k \in Nat : k <= n => T[k] \in Nat}
<1>1. n \in Nat /\ \A k \in 1 .. n : MsgSize(q[k].body) \in Nat
  BY SizeNat
<1>2. T[0] = 0 /\ \A k \in 1 .. n : T[k] = T[k - 1] + MsgSize(q[k].body)
  BY TotalsAddUp
<1> HIDE DEF n, T
<1>3. 0 \in K
  BY <1>2
<1>4. ASSUME NEW k \in Nat, k \in K PROVE k + 1 \in K
  <2> SUFFICES ASSUME k + 1 <= n PROVE T[k + 1] \in Nat
    OBVIOUS
  <2>1. T[k] \in Nat /\ k + 1 \in 1 .. n
    BY <1>1, <1>4
  <2>2. T[k + 1] = T[k] + MsgSize(q[k + 1].body) /\ MsgSize(q[k + 1].body) \in Nat
    BY <1>1, <1>2, <2>1
  <2> QED BY <2>1, <2>2
<1>5. Nat \subseteq K
  <2> HIDE DEF K
  <2> QED BY <1>3, <1>4, SetInduction
<1> QED BY <1>1, <1>5 DEF n, T

(* Two queues that begin with the same messages add up to the same there.  *)
LEMMA TotalsPrefix ==
  ASSUME NEW q \in Seq(QMessage), NEW r \in Seq(QMessage), NEW l \in Nat,
         l <= Len(q), l <= Len(r), \A k \in 1 .. l : q[k] = r[k]
  PROVE  \A k \in 0 .. l : Totals(q)[k] = Totals(r)[k]
<1> DEFINE K == {k \in Nat : k <= l => Totals(q)[k] = Totals(r)[k]}
<1>1. 0 \in K
  BY TotalsAddUp
<1>2. ASSUME NEW k \in Nat, k \in K PROVE k + 1 \in K
  <2> SUFFICES ASSUME k + 1 <= l PROVE Totals(q)[k + 1] = Totals(r)[k + 1]
    OBVIOUS
  <2>1. k + 1 \in 1 .. Len(q) /\ k + 1 \in 1 .. Len(r) /\ q[k + 1] = r[k + 1]
        /\ (k + 1) - 1 = k
    OBVIOUS
  <2>2. Totals(q)[k + 1] = Totals(q)[k] + MsgSize(q[k + 1].body)
    BY <2>1, TotalsAddUp
  <2>3. Totals(r)[k + 1] = Totals(r)[k] + MsgSize(r[k + 1].body)
    BY <2>1, TotalsAddUp
  <2> QED BY <1>2, <2>1, <2>2, <2>3
<1>3. Nat \subseteq K
  <2> HIDE DEF K
  <2> QED BY <1>1, <1>2, SetInduction
<1> QED BY <1>3

(* msgsnd adds the size of its message, msgrcv takes that of its own away. *)
LEMMA BytesEmpty == Bytes(<<>>) = 0
<1>1. <<>> \in Seq(QMessage) /\ Len(<<>>) = 0
  OBVIOUS
<1> QED BY <1>1, TotalsAddUp

(* msgsnd.                                                                 *)
LEMMA BytesAppend ==
  ASSUME NEW q \in Seq(QMessage), NEW m \in QMessage
  PROVE  Bytes(Append(q, m)) = Bytes(q) + MsgSize(m.body)
<1> DEFINE r == Append(q, m)
           n == Len(q)
<1>1. /\ r \in Seq(QMessage) /\ Len(r) = n + 1 /\ n \in Nat
      /\ r[n + 1] = m /\ \A k \in 1 .. n : r[k] = q[k]
  OBVIOUS
<1> HIDE DEF r
<1>2. Totals(r)[n] = Totals(q)[n]
  <2>1. \A k \in 0 .. n : Totals(r)[k] = Totals(q)[k]
    BY <1>1, TotalsPrefix
  <2> QED BY <1>1, <2>1
<1>3. Totals(r)[n + 1] = Totals(r)[n] + MsgSize(m.body)
  <2>1. n + 1 \in 1 .. Len(r) /\ (n + 1) - 1 = n
    BY <1>1
  <2> QED BY <1>1, <2>1, TotalsAddUp
<1>4. Bytes(r) = Totals(r)[n + 1] /\ Bytes(q) = Totals(q)[n]
  BY <1>1, TotalsAddUp
<1> QED BY <1>2, <1>3, <1>4 DEF r

(* msgrcv, wherever the message is.                                        *)
LEMMA BytesRemove ==
  ASSUME NEW q \in Seq(QMessage), NEW k \in 1 .. Len(q)
  PROVE  Bytes(RemoveAt(q, k)) = Bytes(q) - MsgSize(q[k].body)
<1> DEFINE r == RemoveAt(q, k)
           n == Len(q)
           size == MsgSize(q[k].body)
<1>1. /\ r \in Seq(QMessage) /\ Len(r) = n - 1 /\ n \in Nat
      /\ \A j \in 1 .. n - 1 : r[j] = IF j < k THEN q[j] ELSE q[j + 1]
  <2>1. r = Without(q, k)
    BY DEF RemoveAt, Without
  <2> HIDE DEF r
  <2> QED BY <2>1, RemovedAt
<1> HIDE DEF r
<1>2. size \in Nat
  BY SizeNat
<1>3. Totals(r)[k - 1] = Totals(q)[k - 1]
  <2>1. /\ k - 1 \in Nat /\ k - 1 <= Len(q) /\ k - 1 <= Len(r)
    BY <1>1
  <2>2. \A j \in 1 .. k - 1 : r[j] = q[j]
    <3> SUFFICES ASSUME NEW j \in 1 .. k - 1 PROVE r[j] = q[j]
      OBVIOUS
    <3>1. j \in 1 .. n - 1 /\ j < k
      BY <1>1
    <3> QED BY <1>1, <3>1
  <2>3. \A j \in 0 .. k - 1 : Totals(r)[j] = Totals(q)[j]
    BY <1>1, <2>1, <2>2, TotalsPrefix
  <2> QED BY <2>1, <2>3
<1> DEFINE K == {j \in Nat : k - 1 + j <= n - 1 =>
                               Totals(r)[k - 1 + j] = Totals(q)[k + j] - size}
<1>4. 0 \in K
  <2>1. Totals(q)[k] = Totals(q)[k - 1] + size
    BY TotalsAddUp
  <2>2. Totals(q)[k - 1] \in Nat
    BY TotalsNat
  <2>3. Totals(q)[k + 0] = Totals(q)[k] /\ Totals(r)[k - 1 + 0] = Totals(r)[k - 1]
    OBVIOUS
  <2> HIDE DEF size
  <2> QED BY <1>2, <1>3, <2>1, <2>2, <2>3
<1>5. ASSUME NEW j \in Nat, j \in K PROVE j + 1 \in K
  <2> SUFFICES ASSUME k - 1 + (j + 1) <= n - 1
               PROVE  Totals(r)[k - 1 + (j + 1)] = Totals(q)[k + (j + 1)] - size
    OBVIOUS
  <2> DEFINE i == k + j
  <2>1. /\ i \in 1 .. n - 1 /\ i + 1 \in 1 .. n /\ i - 1 \in 0 .. n - 1
        /\ k - 1 + j = i - 1 /\ k - 1 + (j + 1) = i /\ k + (j + 1) = i + 1
        /\ k - 1 + j <= n - 1 /\ (i + 1) - 1 = i /\ ~(i < k)
    BY <1>1
  <2>2. Totals(r)[i - 1] = Totals(q)[i] - size
    BY <1>5, <2>1
  <2>3. r[i] = q[i + 1]
    BY <1>1, <2>1
  <2>4. Totals(r)[i] = Totals(r)[i - 1] + MsgSize(q[i + 1].body)
    BY <1>1, <2>1, <2>3, TotalsAddUp
  <2>5. Totals(q)[i + 1] = Totals(q)[i] + MsgSize(q[i + 1].body)
    BY <2>1, TotalsAddUp
  <2>6. Totals(q)[i] \in Nat /\ MsgSize(q[i + 1].body) \in Nat
    <3>1. i \in 0 .. Len(q) /\ q[i + 1] \in QMessage
      BY <1>1, <2>1
    <3> QED BY <3>1, TotalsNat, SizeNat
  <2> HIDE DEF size, i
  <2>7. Totals(r)[i] = Totals(q)[i + 1] - size
    BY <1>2, <2>2, <2>4, <2>5, <2>6
  <2> QED BY <2>1, <2>7
<1>6. Nat \subseteq K
  <2> HIDE DEF K
  <2> QED BY <1>4, <1>5, SetInduction
<1>7. Totals(r)[n - 1] = Totals(q)[n] - size
  <2>1. n - k \in Nat /\ k - 1 + (n - k) = n - 1 /\ k + (n - k) = n
    BY <1>1
  <2>2. n - k \in K
    BY <1>6, <2>1
  <2> HIDE DEF size
  <2> QED BY <2>1, <2>2
<1>8. Bytes(r) = Totals(r)[n - 1] /\ Bytes(q) = Totals(q)[n]
  BY <1>1, TotalsAddUp
<1> QED BY <1>7, <1>8 DEF r

-----------------------------------------------------------------------------
(* The steps.                                                              *)

(* A process is not concerned by the step of another.                      *)
LEMMA SameCall ==
  ASSUME NEW q \in Proc, InCall(q),
         pc'[q] = pc[q], call'[q] = call[q], found'[q] = found[q]
  PROVE  InCall(q)'
  BY DEF InCall, Message

(* A step that goes to l without touching the call.                        *)
LEMMA GoesTo ==
  ASSUME NEW p \in Proc, NEW l \in {"msgop", "blocked"}, QueueInv, Goto(p, l),
         pc[p] \in {"stat", "msgop"}, UNCHANGED <<msgq, made, queue, call, found>>,
         DOMAIN got' = Proc,
         call[p].op = "snd" => MsgSize(Message(p)) <= QBytes
  PROVE  QueueInv'
<1>1. pc' = [pc EXCEPT ![p] = l] /\ pc \in [Proc -> {"idle", "msgget", "stat", "msgop", "blocked"}]
  BY DEF Goto, QueueInv, Types
<1>2. Types'
  BY <1>1 DEF QueueInv, Types
<1>3. (Bytes(queue) <= QBytes)'
  BY DEF QueueInv
<1>4. ASSUME NEW q \in Proc PROVE InCall(q)'
  <2>1. InCall(q) /\ InCall(p)
    BY DEF QueueInv
  <2>2. CASE q # p
    BY <1>1, <2>1, <2>2, SameCall
  <2>3. CASE q = p
    <3>1. pc'[p] = l /\ call'[p] = call[p] /\ found'[p] = found[p] /\ (Message(p))' = Message(p)
      BY <1>1 DEF Message
    <3> QED BY <2>1, <2>3, <3>1 DEF InCall
  <2> QED BY <2>2, <2>3
<1> QED BY <1>2, <1>3, <1>4 DEF QueueInv

(* A call that returns, whatever it has done to the queue.                 *)
LEMMA Returns ==
  ASSUME NEW p \in Proc, QueueInv, Return(p), DOMAIN got' = Proc,
         msgq' \in {NoQueue} \cup Queue, made' \in 0 .. MaxQueues,
         queue' \in Seq(QMessage), (Bytes(queue) <= QBytes)'
  PROVE  QueueInv'
<1>1. /\ pc' = [pc EXCEPT ![p] = "idle"]
      /\ call' = [call EXCEPT ![p] = NoCall]
      /\ found' = [found EXCEPT ![p] = NoQueue]
  BY DEF Return, Goto
<1>2. NoCall \in CallRecord /\ NoCall.op = "none"
  BY DEF NoCall, CallRecord
<1>3. Types'
  <2>1. call' \in [Proc -> CallRecord]
    BY <1>1, <1>2 DEF QueueInv, Types
  <2>2. pc' \in [Proc -> {"idle", "msgget", "stat", "msgop", "blocked"}]
    BY <1>1 DEF QueueInv, Types
  <2>3. found' \in [Proc -> {NoQueue} \cup Queue]
    BY <1>1 DEF QueueInv, Types
  <2> QED BY <2>1, <2>2, <2>3 DEF Types
<1>4. ASSUME NEW q \in Proc PROVE InCall(q)'
  <2>1. CASE q # p
    <3>1. pc'[q] = pc[q] /\ call'[q] = call[q] /\ found'[q] = found[q] /\ InCall(q)
      BY <1>1, <2>1 DEF QueueInv, Types
    <3> QED BY <3>1, SameCall
  <2>2. CASE q = p
    <3>1. pc'[p] = "idle" /\ found'[p] = NoQueue
      BY <1>1 DEF QueueInv, Types
    <3> QED BY <2>2, <3>1 DEF InCall
  <2> QED BY <2>1, <2>2
<1> QED BY <1>3, <1>4 DEF QueueInv

(* The calls that end without touching the queue.                          *)
Unserved(p) ==
  \/ QueueExists(p) \/ RefuseArray(p) \/ NoQueueFound(p) \/ TooBig(p)
  \/ QueueGone(p) \/ NoWait(p) \/ Interrupted(p)

(* Each step keeps the invariant: a call that ends unserved,               *)
LEMMA UnservedInv == ASSUME NEW p \in Proc PROVE QueueInv /\ Unserved(p) => QueueInv'
<1> SUFFICES ASSUME QueueInv, Unserved(p) PROVE QueueInv'
  OBVIOUS
<1>1. Return(p) /\ UNCHANGED <<msgq, made, queue, got>>
  BY DEF Unserved, QueueExists, RefuseArray, NoQueueFound, TooBig, QueueGone,
     NoWait, Interrupted
<1>2. /\ DOMAIN got' = Proc /\ msgq' \in {NoQueue} \cup Queue /\ made' \in 0 .. MaxQueues
      /\ queue' \in Seq(QMessage) /\ (Bytes(queue) <= QBytes)'
  BY <1>1 DEF QueueInv, Types
<1> QED BY <1>1, <1>2, Returns

(* a call that begins,                                                     *)
LEMMA BeginInv == ASSUME NEW p \in Proc PROVE QueueInv /\ Begin(p) => QueueInv'
<1> SUFFICES ASSUME QueueInv, Begin(p) PROVE QueueInv'
  OBVIOUS
<1>1. PICK c \in Call[p] : call' = [call EXCEPT ![p] = c]
  BY DEF Begin
<1>2. /\ pc' = [pc EXCEPT ![p] = "msgget"] /\ pc[p] = "idle"
      /\ got' = [got EXCEPT ![p] = Nothing]
      /\ UNCHANGED <<msgq, made, queue, found>>
  BY DEF Begin, Goto
<1>3. c \in CallRecord
  BY QueueAssumption
<1>4. Types'
  <2>1. call' \in [Proc -> CallRecord]
    BY <1>1, <1>3 DEF QueueInv, Types
  <2>2. pc' \in [Proc -> {"idle", "msgget", "stat", "msgop", "blocked"}]
    BY <1>2 DEF QueueInv, Types
  <2> QED BY <1>2, <2>1, <2>2 DEF QueueInv, Types
<1>5. ASSUME NEW q \in Proc PROVE InCall(q)'
  <2>1. CASE q # p
    <3>1. pc'[q] = pc[q] /\ call'[q] = call[q] /\ found'[q] = found[q] /\ InCall(q)
      BY <1>1, <1>2, <2>1 DEF QueueInv, Types
    <3> QED BY <3>1, SameCall
  <2>2. CASE q = p
    <3>1. pc'[p] = "msgget" /\ found'[p] = found[p] /\ call'[p] = c /\ InCall(p)
      BY <1>1, <1>2 DEF QueueInv, Types
    <3> QED BY <1>2, <2>2, <3>1 DEF InCall
  <2> QED BY <2>1, <2>2
<1> QED BY <1>2, <1>4, <1>5 DEF QueueInv

(* msgget that makes the queue,                                            *)
LEMMA CreateInv == ASSUME NEW p \in Proc PROVE QueueInv /\ CreateQueue(p) => QueueInv'
<1> SUFFICES ASSUME QueueInv, CreateQueue(p) PROVE QueueInv'
  OBVIOUS
<1>1. /\ Return(p) /\ UNCHANGED <<queue, got>>
      /\ made < MaxQueues /\ made' = made + 1 /\ msgq' = made + 1
  BY DEF CreateQueue
<1>2. made \in 0 .. MaxQueues /\ MaxQueues \in Nat
  BY QueueAssumption DEF QueueInv, Types
<1>3. made' \in 0 .. MaxQueues /\ msgq' \in {NoQueue} \cup Queue
  BY <1>1, <1>2 DEF Queue
<1>4. DOMAIN got' = Proc /\ queue' \in Seq(QMessage) /\ (Bytes(queue) <= QBytes)'
  BY <1>1 DEF QueueInv, Types
<1> QED BY <1>1, <1>3, <1>4, Returns

(* msgctl that removes it,                                                 *)
LEMMA RemoveInv == ASSUME NEW p \in Proc PROVE QueueInv /\ RemoveQueue(p) => QueueInv'
<1> SUFFICES ASSUME QueueInv, RemoveQueue(p) PROVE QueueInv'
  OBVIOUS
<1>1. Return(p) /\ UNCHANGED <<made, got>> /\ msgq' = NoQueue /\ queue' = <<>>
  BY DEF RemoveQueue
<1>2. (Bytes(queue) <= QBytes)'
  <2>1. Bytes(queue)' = Bytes(<<>>)
    BY <1>1
  <2> QED BY <2>1, BytesEmpty, QueueAssumption
<1>3. /\ DOMAIN got' = Proc /\ msgq' \in {NoQueue} \cup Queue /\ made' \in 0 .. MaxQueues
      /\ queue' \in Seq(QMessage)
  BY <1>1 DEF QueueInv, Types
<1> QED BY <1>1, <1>2, <1>3, Returns

(* msgget that finds it,                                                   *)
LEMMA FindInv == ASSUME NEW p \in Proc PROVE QueueInv /\ FindQueue(p) => QueueInv'
<1> SUFFICES ASSUME QueueInv, FindQueue(p) PROVE QueueInv'
  OBVIOUS
<1>1. /\ pc[p] = "msgget" /\ msgq # NoQueue
      /\ call[p].op = "snd" => Sendable(Lang[p], call[p].arr)
      /\ pc' = [pc EXCEPT ![p] = "stat"]
      /\ found' = [found EXCEPT ![p] = msgq]
      /\ UNCHANGED <<msgq, made, queue, call, got>>
  BY DEF FindQueue, Goto
<1>2. Types'
  <2>1. found' \in [Proc -> {NoQueue} \cup Queue]
    BY <1>1 DEF QueueInv, Types
  <2>2. pc' \in [Proc -> {"idle", "msgget", "stat", "msgop", "blocked"}]
    BY <1>1 DEF QueueInv, Types
  <2> QED BY <1>1, <2>1, <2>2 DEF QueueInv, Types
<1>3. ASSUME NEW q \in Proc PROVE InCall(q)'
  <2>1. CASE q # p
    <3>1. pc'[q] = pc[q] /\ call'[q] = call[q] /\ found'[q] = found[q] /\ InCall(q)
      BY <1>1, <2>1 DEF QueueInv, Types
    <3> QED BY <3>1, SameCall
  <2>2. CASE q = p
    <3>1. pc'[p] = "stat" /\ found'[p] = msgq /\ call'[p] = call[p] /\ InCall(p)
      BY <1>1 DEF QueueInv, Types
    <3> QED BY <1>1, <2>2, <3>1 DEF InCall
  <2> QED BY <2>1, <2>2
<1> QED BY <1>1, <1>2, <1>3 DEF QueueInv

(* msgctl that reads its size,                                             *)
LEMMA StatInv == ASSUME NEW p \in Proc PROVE QueueInv /\ Stat(p) => QueueInv'
<1> SUFFICES ASSUME QueueInv, Stat(p) PROVE QueueInv'
  OBVIOUS
<1>1. /\ pc[p] = "stat" /\ Goto(p, "msgop")
      /\ call[p].op = "snd" => MsgSize(Message(p)) <= QBytes
      /\ UNCHANGED <<msgq, made, queue, call, found, got>>
  BY DEF Stat
<1>2. DOMAIN got' = Proc
  BY <1>1 DEF QueueInv, Types
<1> QED BY <1>1, <1>2, GoesTo

(* msgsnd or msgrcv that waits,                                            *)
LEMMA BlockInv == ASSUME NEW p \in Proc PROVE QueueInv /\ Block(p) => QueueInv'
<1> SUFFICES ASSUME QueueInv, Block(p) PROVE QueueInv'
  OBVIOUS
<1>1. /\ pc[p] = "msgop" /\ Goto(p, "blocked")
      /\ UNCHANGED <<msgq, made, queue, call, found, got>>
  BY DEF Block
<1>2. DOMAIN got' = Proc /\ (call[p].op = "snd" => MsgSize(Message(p)) <= QBytes)
  BY <1>1 DEF QueueInv, Types, InCall
<1> QED BY <1>1, <1>2, GoesTo

(* What msgsnd puts on the queue is one of the messages.                   *)
LEMMA SendInv == ASSUME NEW p \in Proc PROVE QueueInv /\ Send(p) => QueueInv'
<1> SUFFICES ASSUME QueueInv, Send(p) PROVE QueueInv'
  OBVIOUS
<1>1. /\ pc[p] \in {"msgop", "blocked"} /\ call[p].op = "snd"
      /\ Bytes(queue) + MsgSize(Message(p)) <= QBytes
      /\ queue' = Append(queue, Outgoing(p))
      /\ Return(p) /\ UNCHANGED <<msgq, made, got>>
  BY DEF Send, HasRoom
<1>2. call[p] \in Sends(p)
  BY <1>1 DEF QueueInv, InCall, Sends
<1>3. Outgoing(p) = MessageOf(p, call[p]) /\ Outgoing(p).body = Message(p)
  BY DEF Outgoing, MessageOf, Message
<1>4. Outgoing(p) \in QMessage
  BY <1>2, <1>3 DEF QMessage
<1>5. queue \in Seq(QMessage)
  BY DEF QueueInv, Types
<1>6. queue' \in Seq(QMessage)
  BY <1>1, <1>4, <1>5
<1>7. (Bytes(queue) <= QBytes)'
  <2>1. Bytes(Append(queue, Outgoing(p))) = Bytes(queue) + MsgSize(Message(p))
    BY <1>3, <1>4, <1>5, BytesAppend
  <2>2. Bytes(queue)' = Bytes(Append(queue, Outgoing(p)))
    BY <1>1
  <2> QED BY <1>1, <2>1, <2>2
<1>8. DOMAIN got' = Proc /\ msgq' \in {NoQueue} \cup Queue /\ made' \in 0 .. MaxQueues
  BY <1>1 DEF QueueInv, Types
<1> QED BY <1>1, <1>6, <1>7, <1>8, Returns

(* What msgrcv takes.                                                      *)
LEMMA ReceiveTakes ==
  ASSUME NEW p \in Proc, QueueInv, Receive(p)
  PROVE  \E k \in 1 .. Len(queue) :
           /\ queue' = RemoveAt(queue, k) /\ queue[k] \in QMessage
           /\ \E a \in Decode(Lang[p], queue[k].body) :
                got' = [got EXCEPT ![p] = [received |-> a, sent |-> queue[k].sent]]
<1>1. PICK k \in FirstOf(Matching(call[p].mtype)) :
        /\ queue' = RemoveAt(queue, k)
        /\ \E a \in Decode(Lang[p], queue[k].body) :
             got' = [got EXCEPT ![p] = [received |-> a, sent |-> queue[k].sent]]
  BY DEF Receive
<1>2. k \in DOMAIN queue
  BY DEF FirstOf, Matching
<1>3. queue \in Seq(QMessage)
  BY DEF QueueInv, Types
<1>4. k \in 1 .. Len(queue) /\ queue[k] \in QMessage
  BY <1>2, <1>3
<1> QED BY <1>1, <1>4

(* msgrcv that answers.                                                    *)
LEMMA ReceiveInv == ASSUME NEW p \in Proc PROVE QueueInv /\ Receive(p) => QueueInv'
<1> SUFFICES ASSUME QueueInv, Receive(p) PROVE QueueInv'
  OBVIOUS
<1>1. PICK k \in 1 .. Len(queue) :
        /\ queue' = RemoveAt(queue, k) /\ queue[k] \in QMessage
        /\ \E a \in Decode(Lang[p], queue[k].body) :
             got' = [got EXCEPT ![p] = [received |-> a, sent |-> queue[k].sent]]
  BY ReceiveTakes
<1>2. queue \in Seq(QMessage) /\ DOMAIN got = Proc
  BY DEF QueueInv, Types
<1>3. queue' \in Seq(QMessage)
  <2>1. queue' = Without(queue, k)
    BY <1>1 DEF RemoveAt, Without
  <2> QED BY <1>2, <2>1, RemovedAt
<1>4. (Bytes(queue) <= QBytes)'
  <2>1. Bytes(RemoveAt(queue, k)) = Bytes(queue) - MsgSize(queue[k].body)
    BY <1>2, BytesRemove
  <2>2. Bytes(queue)' = Bytes(RemoveAt(queue, k))
    BY <1>1
  <2>3. Bytes(queue) \in Nat
    BY <1>2, TotalsAddUp, TotalsNat
  <2>4. MsgSize(queue[k].body) \in Nat /\ Bytes(queue) <= QBytes /\ QBytes \in Nat
    BY <1>1, SizeNat, QueueAssumption DEF QueueInv
  <2> QED BY <2>1, <2>2, <2>3, <2>4
<1>5. DOMAIN got' = Proc
  BY <1>1, <1>2
<1>6. Return(p) /\ msgq' \in {NoQueue} \cup Queue /\ made' \in 0 .. MaxQueues
  BY DEF Receive, QueueInv, Types
<1> QED BY <1>3, <1>4, <1>5, <1>6, Returns

(* The invariant holds from the start                                      *)
LEMMA QueueInit == Init => QueueInv
<1> SUFFICES ASSUME Init PROVE QueueInv
  OBVIOUS
<1> USE DEF Init
<1>1. NoCall \in CallRecord
  BY DEF NoCall, CallRecord
<1>2. Types
  <2>1. call \in [Proc -> CallRecord]
    BY <1>1
  <2>2. queue \in Seq(QMessage)
    OBVIOUS
  <2> QED BY <2>1, <2>2, QueueAssumption DEF Types
<1>3. Bytes(queue) <= QBytes
  BY BytesEmpty, QueueAssumption
<1>4. ASSUME NEW p \in Proc PROVE InCall(p)
  BY DEF InCall
<1> QED BY <1>2, <1>3, <1>4 DEF QueueInv

(* and after each step.                                                    *)
LEMMA QueueNext == QueueInv /\ [Next]_vars => QueueInv'
<1> SUFFICES ASSUME QueueInv, [Next]_vars PROVE QueueInv'
  OBVIOUS
<1>1. CASE UNCHANGED vars
  BY <1>1 DEF QueueInv, Types, InCall, Message, vars
<1>2. ASSUME NEW p \in Proc, Begin(p) \/ Step(p) \/ Interrupted(p) PROVE QueueInv'
  <2>1. CASE Unserved(p)
    BY <2>1, UnservedInv
  <2>2. CASE Begin(p) \/ CreateQueue(p) \/ RemoveQueue(p)
    BY <2>2, BeginInv, CreateInv, RemoveInv
  <2>3. CASE FindQueue(p) \/ Stat(p) \/ Block(p)
    BY <2>3, FindInv, StatInv, BlockInv
  <2>4. CASE Send(p) \/ Receive(p)
    BY <2>4, SendInv, ReceiveInv
  <2> QED BY <1>2, <2>1, <2>2, <2>3, <2>4 DEF Step, Unserved
<1> QED BY <1>1, <1>2 DEF Next

(* It therefore holds always.                                              *)
LEMMA QueueSafe == Spec => []QueueInv
  BY QueueInit, QueueNext, PTL DEF Spec

-----------------------------------------------------------------------------
(* The theorems.                                                           *)

(* Types; the queue holds no more than msg_qbytes; a call past msgget has  *)
(* found a queue (svipc_msq_snd, svipc_msq_rcv).                           *)
THEOREM QueueTypes == Spec => []TypeOK
<1>1. QueueInv => TypeOK
  <2> SUFFICES ASSUME QueueInv PROVE TypeOK
    OBVIOUS
  <2>1. ASSUME NEW k \in DOMAIN queue
        PROVE  queue[k].mtype \in Type /\ queue[k].sent \in Array /\ Supported(queue[k].body)
    <3>1. queue[k] \in QMessage
      BY DEF QueueInv, Types
    <3> QED BY <3>1, SizeNat
  <2>2. \A p \in Proc : found[p] = NoQueue <=> pc[p] \in {"idle", "msgget"}
    BY DEF QueueInv, InCall
  <2> QED BY <2>1, <2>2 DEF TypeOK, QueueInv, Types
<1> QED BY <1>1, QueueSafe, PTL

(* Who waits for room in svipc_msq_snd has a message that an empty queue   *)
(* would take: msgctl(IPC_STAT) has ruled the others out.                  *)
THEOREM NoHopelessSender == Spec => []BlockedSenderFits
<1>1. QueueInv => BlockedSenderFits
  BY DEF QueueInv, InCall, BlockedSenderFits
<1> QED BY <1>1, QueueSafe, PTL

(* What the two languages can exchange: python sends an array of one       *)
(* dimension at most, of which the header has the size, and does not       *)
(* receive, for what it receives is in a buffer that has been freed.       *)
PythonSendsVectors ==
  \A p \in Proc : Lang[p] = "python" =>
    \A c \in Call[p] : c.op = "snd" => Len(c.arr.number) <= 1
YorickReceives ==
  \A p \in Proc : Lang[p] = "python" => \A c \in Call[p] : c.op # "rcv"

(* The header that msgsnd sends has the dimensions of the array.           *)
LEMMA WholeHeader ==
  ASSUME PythonSendsVectors, NEW p \in Proc, NEW c \in Sends(p)
  PROVE  HeaderInts(Lang[p], c.arr) = c.arr.number
<1> USE QueueAssumption
<1>1. c \in Call[p] /\ c.op = "snd" /\ c.arr \in Array
  BY DEF Sends
<1>2. c.arr.number \in Seq(Nat)
  BY <1>1
<1>3. CASE Lang[p] = "yorick"
  BY <1>3 DEF HeaderInts
<1>4. CASE Lang[p] # "yorick"
  <2>1. Lang[p] = "python"
    BY <1>4
  <2> DEFINE s == c.arr.number
             F(k) == IF (k - 1) % IntpInts = 0 THEN s[1 + (k - 1) \div IntpInts] ELSE 0
  <2>2. HeaderInts(Lang[p], c.arr) = [k \in 1 .. Len(s) |-> F(k)]
    BY <1>4 DEF HeaderInts
  <2>3. s \in Seq(Nat) /\ Len(s) <= 1
    BY <1>1, <1>2, <2>1 DEF PythonSendsVectors
  <2>4. F(1) = s[1]
    <3>1. 0 % IntpInts = 0 /\ 0 \div IntpInts = 0
      OBVIOUS
    <3> QED BY <3>1
  <2> HIDE DEF F, s
  <2>5. \A k \in 1 .. Len(s) : k = 1
    BY <2>3
  <2>6. [k \in 1 .. Len(s) |-> F(k)] = [k \in 1 .. Len(s) |-> s[k]]
    BY <2>4, <2>5
  <2>7. s = [k \in 1 .. Len(s) |-> s[k]]
    BY <2>3
  <2> QED BY <2>2, <2>6, <2>7 DEF s
<1> QED BY <1>3, <1>4

(* Yorick makes of a message the array it was made from.                   *)
LEMMA DecodesToSent ==
  ASSUME PythonSendsVectors, NEW m \in QMessage, NEW a \in Decode("yorick", m.body)
  PROVE  a = m.sent
<1>1. PICK p \in Proc : \E c \in Sends(p) : m = MessageOf(p, c)
  BY DEF QMessage
<1>2. PICK c \in Sends(p) : m = MessageOf(p, c)
  BY <1>1
<1> DEFINE arr == c.arr
<1>3. /\ m.sent = arr /\ m.body.typeID = arr.typeID /\ m.body.data = arr.data
      /\ m.body.number = arr.number /\ m.body.count = TotalNumber(arr.number)
  <2>1. HeaderInts(Lang[p], c.arr) = c.arr.number
    BY WholeHeader
  <2> QED BY <1>2, <2>1 DEF MessageOf, Encode
<1>4. a \in [typeID : {arr.typeID}, number : {arr.number}, data : {arr.data}]
  BY <1>3 DEF Decode
<1>5. arr \in [typeID : Nat, number : Seq(Nat), data : {arr.data}]
  BY QueueAssumption DEF Sends
<1> HIDE DEF arr
<1>6. a = [typeID |-> arr.typeID, number |-> arr.number, data |-> arr.data]
  BY <1>4
<1>7. arr = [typeID |-> arr.typeID, number |-> arr.number, data |-> arr.data]
  BY <1>5
<1> QED BY <1>3, <1>6, <1>7

(* What is received is what was sent, whoever sends, removes the queue or  *)
(* makes it anew in between, as long as python keeps to what the header    *)
(* can carry (svipc_module.c:627, "Sends the content of the variable").    *)
THEOREM MessagesIntact ==
  ASSUME PythonSendsVectors, YorickReceives
  PROVE  Spec => []DeliveredIntact
<1>1. Init => DeliveredIntact
  BY DEF Init, DeliveredIntact, Nothing
<1>2. QueueInv /\ DeliveredIntact /\ [Next]_vars => DeliveredIntact'
  <2> SUFFICES ASSUME QueueInv, DeliveredIntact, [Next]_vars PROVE DeliveredIntact'
    OBVIOUS
  <2>1. CASE UNCHANGED got
    BY <2>1 DEF DeliveredIntact
  <2>2. ASSUME NEW p \in Proc, Begin(p) PROVE DeliveredIntact'
    <3>1. got' = [got EXCEPT ![p] = Nothing] /\ DOMAIN got = Proc
      BY <2>2 DEF Begin, QueueInv, Types
    <3> QED BY <3>1 DEF DeliveredIntact, Nothing
  <2>3. ASSUME NEW p \in Proc, Receive(p) PROVE DeliveredIntact'
    <3>1. PICK k \in 1 .. Len(queue) :
            /\ queue[k] \in QMessage
            /\ \E a \in Decode(Lang[p], queue[k].body) :
                 got' = [got EXCEPT ![p] = [received |-> a, sent |-> queue[k].sent]]
      BY <2>3, ReceiveTakes
    <3>2. PICK a \in Decode(Lang[p], queue[k].body) :
            got' = [got EXCEPT ![p] = [received |-> a, sent |-> queue[k].sent]]
      BY <3>1
    <3>3. Lang[p] = "yorick"
      <4>1. pc[p] # "idle" /\ call[p].op = "rcv"
        BY <2>3 DEF Receive
      <4>2. call[p] \in Call[p]
        BY <4>1 DEF QueueInv, InCall
      <4> QED BY <4>1, <4>2, QueueAssumption DEF YorickReceives
    <3>4. a = queue[k].sent
      BY <3>1, <3>3, DecodesToSent
    <3>5. DOMAIN got = Proc
      BY DEF QueueInv, Types
    <3> QED BY <3>2, <3>4, <3>5 DEF DeliveredIntact
  <2>4. CASE UNCHANGED vars
    BY <2>1, <2>4 DEF vars
  <2>5. ASSUME NEW p \in Proc, Step(p) \/ Interrupted(p), ~Receive(p) PROVE UNCHANGED got
    BY <2>5 DEF Step, Interrupted, CreateQueue, QueueExists, RemoveQueue,
       RefuseArray, FindQueue,
             NoQueueFound, Stat, TooBig, QueueGone, Send, Block, NoWait
  <2> QED BY <2>1, <2>2, <2>3, <2>4, <2>5 DEF Next
<1> QED BY <1>1, <1>2, QueueSafe, PTL DEF Spec
=============================================================================
