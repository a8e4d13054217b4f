------------------------------ MODULE MCSegTable ------------------------------
(***************************************************************************)
(* A small instance of SegTable; segments and addresses are                *)
(* interchangeable.                                                        *)
(***************************************************************************)
EXTENDS SegTable, TLC
Symmetric == Permutations(Seg) \cup Permutations(Addr)
===============================================================================
