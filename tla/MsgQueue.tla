------------------------------- MODULE MsgQueue -------------------------------
(***************************************************************************)
(* The message queue of svipc (src/common/svipc_msq.c) and the arrays the  *)
(* two languages send through it (Bindings).                               *)
(*                                                                         *)
(* A call looks the queue up by its key, asks the kernel how big it may    *)
(* be, and then sends or receives; between these steps others may remove   *)
(* the queue and make a new one.                                           *)
(***************************************************************************)
EXTENDS Bindings, FiniteSets
LOCAL INSTANCE SequencesExt

CONSTANTS
  Proc,       \* the processes that use the queue
  Lang,       \* the language of each
  Array,      \* the arrays that are sent
  NoArray,    \* no array
  Type,       \* message types
  QBytes,     \* msg_qbytes: the bytes a queue may hold
  MaxQueues,  \* bound: the queues made under the key, one after the other
  Call        \* the calls each process may make

NoQueue == 0
Queue == 1 .. MaxQueues

CallRecord == [op : {"init", "cleanup", "snd", "rcv", "none"}, mtype : Int,
               arr : Array \cup {NoArray}, nowait : BOOLEAN]
NoCall == [op |-> "none", mtype |-> 0, arr |-> NoArray, nowait |-> FALSE]

ASSUME QueueAssumption ==
  /\ Lang \in [Proc -> {"yorick", "python"}]
  /\ IntpInts \in Nat \ {0}
  /\ Type \subseteq Nat \ {0} /\ QBytes \in Nat /\ MaxQueues \in Nat
  /\ NoArray \notin Array
  /\ \A a \in Array : a \in [typeID : Nat, number : Seq(Nat), data : {a.data}]
  /\ \A p \in Proc : \A c \in Call[p] :
       /\ c \in CallRecord /\ c.op # "none"
       /\ c.op = "snd" => c.arr \in Array /\ c.mtype \in Type

VARIABLES
  msgq,    \* the queue found under the key
  made,    \* how many queues have been made
  queue,   \* its messages, the oldest first
  pc,      \* where each process is
  call,    \* the call it is in
  found,   \* local: msgqid
  got      \* what it last received, and what had been sent

vars == <<msgq, made, queue, pc, call, found, got>>

Nothing == [received |-> NoArray, sent |-> NoArray]

Goto(p, l) == pc' = [pc EXCEPT ![p] = l]
Return(p) ==
  /\ Goto(p, "idle")
  /\ call' = [call EXCEPT ![p] = NoCall]
  /\ found' = [found EXCEPT ![p] = NoQueue]

(* What the call puts on the queue; the array it was made from is kept     *)
(* along for the properties.                                               *)
Message(p) == Encode(Lang[p], call[p].arr)
Outgoing(p) == [mtype |-> call[p].mtype, body |-> Message(p), sent |-> call[p].arr]

Bytes(q) ==
  LET total[k \in 0 .. Len(q)] ==
        IF k = 0 THEN 0 ELSE total[k - 1] + MsgSize(q[k].body)
  IN  total[Len(q)]
HasRoom(p) == Bytes(queue) + MsgSize(Message(p)) <= QBytes

(* msgrcv: the first message, the first of a type, or the first of the     *)
(* lowest type up to -mtype.                                               *)
Matching(t) ==
  {k \in DOMAIN queue :
     \/ t = 0
     \/ t > 0 /\ queue[k].mtype = t
     \/ /\ t < 0 /\ queue[k].mtype <= -t
        /\ \A j \in DOMAIN queue : queue[k].mtype <= queue[j].mtype}
FirstOf(K) == {k \in K : \A j \in K : k <= j}

Init ==
  /\ msgq = NoQueue
  /\ made = 0
  /\ queue = <<>>
  /\ pc = [p \in Proc |-> "idle"]
  /\ call = [p \in Proc |-> NoCall]
  /\ found = [p \in Proc |-> NoQueue]
  /\ got = [p \in Proc |-> Nothing]

Begin(p) ==
  /\ pc[p] = "idle"
  /\ \E c \in Call[p] : call' = [call EXCEPT ![p] = c]
  /\ Goto(p, "msgget")
  /\ got' = [got EXCEPT ![p] = Nothing]
  /\ UNCHANGED <<msgq, made, queue, found>>

-----------------------------------------------------------------------------
(* svipc_msq_init and svipc_msq_cleanup.                                   *)

CreateQueue(p) ==
  /\ pc[p] = "msgget" /\ call[p].op = "init"
  /\ msgq = NoQueue /\ made < MaxQueues
  /\ made' = made + 1
  /\ msgq' = made + 1
  /\ Return(p)
  /\ UNCHANGED <<queue, got>>

(* There is one already (EEXIST), or the kernel has none left (ENOSPC).    *)
QueueExists(p) ==
  /\ pc[p] = "msgget" /\ call[p].op = "init"
  /\ msgq # NoQueue \/ made = MaxQueues
  /\ Return(p)
  /\ UNCHANGED <<msgq, made, queue, got>>

RemoveQueue(p) ==
  /\ pc[p] = "stat" /\ call[p].op = "cleanup"
  /\ found[p] = msgq
  /\ msgq' = NoQueue
  /\ queue' = <<>>
  /\ Return(p)
  /\ UNCHANGED <<made, got>>

-----------------------------------------------------------------------------
(* svipc_msq_snd and svipc_msq_rcv.                                        *)

(* The binding refuses before it calls svipc_msq_snd.                      *)
RefuseArray(p) ==
  /\ pc[p] = "msgget" /\ call[p].op = "snd"
  /\ ~Sendable(Lang[p], call[p].arr)
  /\ Return(p)
  /\ UNCHANGED <<msgq, made, queue, got>>

FindQueue(p) ==
  /\ pc[p] = "msgget" /\ call[p].op # "init"
  /\ call[p].op = "snd" => Sendable(Lang[p], call[p].arr)
  /\ msgq # NoQueue
  /\ found' = [found EXCEPT ![p] = msgq]
  /\ Goto(p, "stat")
  /\ UNCHANGED <<msgq, made, queue, call, got>>

(* Mutant: what msgget answers is not looked at.                           *)
NoQueueFound_Ignored(p) ==
  /\ pc[p] = "msgget" /\ call[p].op # "init"
  /\ call[p].op = "snd" => Sendable(Lang[p], call[p].arr)
  /\ msgq = NoQueue
  /\ Goto(p, "stat")
  /\ UNCHANGED <<msgq, made, queue, call, found, got>>

NoQueueFound(p) ==
  /\ pc[p] = "msgget" /\ call[p].op # "init"
  /\ call[p].op = "snd" => Sendable(Lang[p], call[p].arr)
  /\ msgq = NoQueue
  /\ Return(p)
  /\ UNCHANGED <<msgq, made, queue, got>>

(* Mutant: msg_qbytes is not looked at.                                    *)
Stat_Anyway(p) ==
  /\ pc[p] = "stat" /\ call[p].op \in {"snd", "rcv"}
  /\ found[p] = msgq
  /\ Goto(p, "msgop")
  /\ UNCHANGED <<msgq, made, queue, call, found, got>>

(* msgctl(IPC_STAT): a message that can never fit is not tried.            *)
Stat(p) ==
  /\ pc[p] = "stat" /\ call[p].op \in {"snd", "rcv"}
  /\ found[p] = msgq
  /\ call[p].op = "snd" => MsgSize(Message(p)) <= QBytes
  /\ Goto(p, "msgop")
  /\ UNCHANGED <<msgq, made, queue, call, found, got>>

TooBig(p) ==
  /\ pc[p] = "stat" /\ call[p].op = "snd"
  /\ found[p] = msgq
  /\ MsgSize(Message(p)) > QBytes
  /\ Return(p)
  /\ UNCHANGED <<msgq, made, queue, got>>

(* Mutant: the blocked call is made again when it fails.                   *)
QueueGone_Retried(p) ==
  /\ pc[p] \in {"stat", "msgop", "blocked"}
  /\ found[p] # msgq
  /\ IF pc[p] = "blocked" THEN UNCHANGED <<pc, call, found>> ELSE Return(p)
  /\ UNCHANGED <<msgq, made, queue, got>>

(* The queue was removed since it was found: EINVAL, or EIDRM if blocked.  *)
QueueGone(p) ==
  /\ pc[p] \in {"stat", "msgop", "blocked"}
  /\ found[p] # msgq
  /\ Return(p)
  /\ UNCHANGED <<msgq, made, queue, got>>

Send(p) ==
  /\ pc[p] \in {"msgop", "blocked"} /\ call[p].op = "snd"
  /\ found[p] = msgq /\ HasRoom(p)
  /\ queue' = Append(queue, Outgoing(p))
  /\ Return(p)
  /\ UNCHANGED <<msgq, made, got>>

(* The kernel hands a message over; the binding makes an array of it.      *)
Receive(p) ==
  /\ pc[p] \in {"msgop", "blocked"} /\ call[p].op = "rcv"
  /\ found[p] = msgq
  /\ \E k \in FirstOf(Matching(call[p].mtype)) :
       /\ queue' = RemoveAt(queue, k)
       /\ \E a \in Decode(Lang[p], queue[k].body) :
            got' = [got EXCEPT ![p] = [received |-> a, sent |-> queue[k].sent]]
  /\ Return(p)
  /\ UNCHANGED <<msgq, made>>

CanGo(p) == IF call[p].op = "snd" THEN HasRoom(p)
            ELSE Matching(call[p].mtype) # {}

Block(p) ==
  /\ pc[p] = "msgop"
  /\ found[p] = msgq /\ ~CanGo(p) /\ ~call[p].nowait
  /\ Goto(p, "blocked")
  /\ UNCHANGED <<msgq, made, queue, call, found, got>>

NoWait(p) ==
  /\ pc[p] = "msgop"
  /\ found[p] = msgq /\ ~CanGo(p) /\ call[p].nowait
  /\ Return(p)
  /\ UNCHANGED <<msgq, made, queue, got>>

(* A signal: the call fails, nothing was sent or received.                 *)
Interrupted(p) ==
  /\ pc[p] = "blocked"
  /\ found[p] = msgq /\ ~CanGo(p)
  /\ Return(p)
  /\ UNCHANGED <<msgq, made, queue, got>>

-----------------------------------------------------------------------------
Step(p) ==
  \/ CreateQueue(p) \/ QueueExists(p) \/ RemoveQueue(p)
  \/ RefuseArray(p) \/ FindQueue(p) \/ NoQueueFound(p)
  \/ Stat(p) \/ TooBig(p) \/ QueueGone(p)
  \/ Send(p) \/ Receive(p) \/ Block(p) \/ NoWait(p)

Next == \E p \in Proc : Begin(p) \/ Step(p) \/ Interrupted(p)

Spec == Init /\ [][Next]_vars

(* A process that can go on goes on.  No signal need ever arrive.          *)
FairSpec == Spec /\ \A p \in Proc : WF_vars(Step(p))

-----------------------------------------------------------------------------
(* Every variable stays in its type, the queue within msg_qbytes, and no   *)
(* call goes on without having found a queue.                              *)
TypeOK ==
  /\ msgq \in {NoQueue} \cup Queue
  /\ made \in 0 .. MaxQueues
  /\ \A k \in DOMAIN queue : /\ queue[k].mtype \in Type
                             /\ queue[k].sent \in Array
                             /\ Supported(queue[k].body)
  /\ Bytes(queue) <= QBytes
  /\ pc \in [Proc -> {"idle", "msgget", "stat", "msgop", "blocked"}]
  /\ call \in [Proc -> CallRecord]
  /\ found \in [Proc -> {NoQueue} \cup Queue]
  /\ \A p \in Proc : found[p] = NoQueue <=> pc[p] \in {"idle", "msgget"}

(* What is received is what was sent: the same type, the same dimensions,  *)
(* all of the data, from whichever language (svipc_module.c:627, "Sends    *)
(* the content of the variable").                                          *)
DeliveredIntact == \A p \in Proc : got[p].received = got[p].sent

(* A sender that waits for room waits for something that can come: an      *)
(* empty queue would take its message.                                     *)
BlockedSenderFits ==
  \A p \in Proc : pc[p] = "blocked" /\ call[p].op = "snd" =>
                    MsgSize(Message(p)) <= QBytes

(* Nobody waits for ever on a queue that is gone, nor for a message that   *)
(* is there, nor for room that is there.                                   *)
NobodyStuck ==
  \A p \in Proc : []<>~(pc[p] = "blocked" /\ (found[p] # msgq \/ CanGo(p)))
===============================================================================
