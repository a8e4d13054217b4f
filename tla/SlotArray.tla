------------------------------ MODULE SlotArray ------------------------------
(***************************************************************************)
(* The header of a slot segment and the test svipc_shm_write makes before  *)
(* it overwrites one (src/common/svipc_shm.c, src/common/svipc_shm.h).     *)
(*                                                                         *)
(* An array handed to shm_write is a record [typeID, number, data]: the    *)
(* type, the number of elements along each dimension, and the payload,     *)
(* which is only ever compared.  A segment holds the same header and two   *)
(* halves of payload, because memcpy is not atomic.                        *)
(***************************************************************************)
EXTENDS Integers, Sequences

(* The number of elements of an array with these dimensions: the loop over *)
(* a->number in svipc_shm_write, and over the stored dimensions likewise.  *)
TotalNumber(number) ==
  LET total[k \in 0 .. Len(number)] == IF k = 0 THEN 1 ELSE number[k] * total[k - 1]
  IN  total[Len(number)]

(* typeID of a segment whose header is still to be filled.                 *)
NewSegment == -1

(* The content of a segment as shmget returns it: all bytes zero, which    *)
(* reads as SVIPC_CHAR (0) with no dimensions.                             *)
Zeroed(zero) == [typeID |-> 0, number |-> <<>>, lo |-> zero, hi |-> zero]

(* A segment read as one array; torn stands for a mixture of two payloads. *)
Joined(m, torn) == [typeID |-> m.typeID, number |-> m.number,
                    data |-> IF m.lo = m.hi THEN m.lo ELSE torn]

(* The consistency test of svipc_shm_write on an existing segment m: same  *)
(* type, same rank, same number of elements.                               *)
Fits(a, m) ==
  /\ a.typeID = m.typeID
  /\ Len(a.number) = Len(m.number)
  /\ TotalNumber(a.number) = TotalNumber(m.number)
==============================================================================
