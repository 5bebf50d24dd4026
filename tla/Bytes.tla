-------------------------------- MODULE Bytes --------------------------------
(***************************************************************************)
(* Bytes of registers, as the sets of the bits that are set in them.       *)
(***************************************************************************)
EXTENDS Integers, FiniteSetsExt

Byte   == SUBSET (0..7)
BitsOf == [v \in 0..255 |-> {b \in 0..7 : (v \div 2 ^ b) % 2 = 1}]
Value(bits) == MapThenSumSet(LAMBDA b : 2 ^ b, bits)
=============================================================================
