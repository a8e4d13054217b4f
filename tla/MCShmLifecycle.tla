---------------------------- MODULE MCShmLifecycle ----------------------------
(***************************************************************************)
(* Nobody owns the pool: two processes make and remove it, while a third   *)
(* uses it.                                                                *)
(***************************************************************************)
EXTENDS ShmLifecycle
CONSTANTS maker1, maker2, user

Calls == [p \in Proc |-> IF p = user THEN {"look", "write"} ELSE {"init", "cleanup"}]
===============================================================================
