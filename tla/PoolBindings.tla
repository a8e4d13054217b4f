----------------------------- MODULE PoolBindings -----------------------------
(***************************************************************************)
(* ShmPool as the two languages use it: what is written are arrays of      *)
(* yorick or python, and what a read answers is an array of the reader's   *)
(* language (Bindings).                                                    *)
(***************************************************************************)
EXTENDS ShmPool, Bindings

CONSTANTS
  Lang,    \* the language of each process
  Source   \* the arrays each process writes, by name

ASSUME BindingAssumption ==
  /\ Lang \in [Proc -> {"yorick", "python"}]
  /\ IntpInts \in Nat \ {0}
  /\ \A p \in Proc :
       /\ DOMAIN Source[p] = Id
       /\ \A id \in Id : \A a \in Source[p][id] :
            a \in [typeID : Nat, number : Seq(Nat), data : {a.data}]

(* What a process hands to svipc_shm_write when it writes name id.         *)
SlotArrays(p, id) ==
  UNION {IF Lang[p] = "yorick" THEN Y_shm_write(a) ELSE python_svipc_shm_write(a)
         : a \in Source[p][id]}

(* What svipc_shm_read has copied, as the reader gets it.                  *)
Answer(p) ==
  IF Lang[p] = "yorick" THEN Y_shm_read(buf[p]) ELSE python_svipc_shm_read(buf[p])

(* A read of a name, subscribing or not, answers an array some process of  *)
(* either language wrote under that name, with its type, dimensions and    *)
(* payload: whoever frees, cleans up or writes meanwhile (svipc.i:214-215, *)
(* svipc_module.c:241-244).                                                *)
ReadBack ==
  \A p \in Proc : pc[p] = "release" /\ call[p].op = "read" =>
    /\ Answer(p) # {}
    /\ Answer(p) \subseteq UNION {Source[q][call[p].id] : q \in Proc}
===============================================================================
