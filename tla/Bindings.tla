------------------------------- MODULE Bindings -------------------------------
(***************************************************************************)
(* How yorick (src/yorick/yorick_svipc.c) and python                       *)
(* (src/python/svipc_module.c) turn their arrays into messages and back,   *)
(* and into the slots of shared memory and back.                           *)
(*                                                                         *)
(* A message carries a type, the number of dimensions, that many C ints,   *)
(* and count elements of payload.  A receiver only has the ints to tell    *)
(* how many elements there are: with any other number than the sender      *)
(* copied, what it makes of the payload is garbled.                        *)
(***************************************************************************)
EXTENDS SlotArray

CONSTANTS
  Garbled,   \* a payload cut short, run over, or overwritten
  IntpInts   \* the C ints in an npy_intp: 2 where pointers have 64 bits

(* Bytes of an element of SVIPC_CHAR, SHORT, INT, LONG, FLOAT, DOUBLE.     *)
ElementSize == <<1, 2, 4, 8, 4, 8>>
Supported(a) == a.typeID \in 0 .. 5

(* Yorick refuses to send a scalar, python does not.                       *)
Sendable(lang, a) == Supported(a) /\ (lang = "yorick" => a.number # <<>>)

(* Mutant: the dimensions in the order the other language stores them.     *)
HeaderInts_Reversed(lang, a) ==
  [k \in 1 .. Len(a.number) |-> a.number[Len(a.number) + 1 - k]]

(* The ints of the header.  Yorick copies the dimensions one by one;       *)
(* python reads the array of npy_intp as if it were one of ints, and finds *)
(* each dimension followed by the zeros of its upper half (little endian). *)
HeaderInts(lang, a) ==
  IF lang = "yorick" THEN a.number
  ELSE [k \in 1 .. Len(a.number) |->
          IF (k - 1) % IntpInts = 0 THEN a.number[1 + (k - 1) \div IntpInts] ELSE 0]

Encode(lang, a) ==
  [typeID |-> a.typeID, number |-> HeaderInts(lang, a),
   data |-> a.data, count |-> TotalNumber(a.number)]

(* msgsz, in bytes: typeID, countdims, the ints, the payload.              *)
MsgSize(m) == 4 * (2 + Len(m.number)) + m.count * ElementSize[1 + m.typeID]

(* The arrays a receiver may end up with.  Python's points into the        *)
(* message buffer, which is freed before it is returned.                   *)
Decode(lang, m) ==
  LET whole == IF TotalNumber(m.number) = m.count THEN m.data ELSE Garbled
  IN  [typeID : {m.typeID}, number : {m.number},
       data : IF lang = "yorick" THEN {whole} ELSE {whole, Garbled}]

-----------------------------------------------------------------------------
(* The same for the slots of shared memory: the slot_array each language   *)
(* hands to svipc_shm_write (none when it refuses), and the array it makes *)
(* of what svipc_shm_read answers.                                         *)

Y_shm_write(a) ==
  IF a.number = <<>> \/ ~Supported(a) THEN {}
  ELSE {[a EXCEPT !.number = HeaderInts("yorick", a)]}

(* The dimensions are an npy_intp array copied with the size of an int     *)
(* array. The library multiplies what it finds to know how much to copy.   *)
python_svipc_shm_write(a) ==
  LET number == HeaderInts("python", a) IN
  IF ~Supported(a) THEN {}
  ELSE {[typeID |-> a.typeID, number |-> number,
         data |-> IF TotalNumber(number) = TotalNumber(a.number)
                  THEN a.data ELSE Garbled]}

(* Yorick copies the buffer of svipc_shm_read into an array of its own.    *)
Y_shm_read(m) == {a \in {Joined(m, Garbled)} : Supported(a)}

(* Python makes the buffer the array and owns it from then on: unlike the  *)
(* one of msq_rcv it is not freed behind it.                               *)
python_svipc_shm_read(m) == {a \in {Joined(m, Garbled)} : Supported(a)}
===============================================================================
