---------------------------------- MODULE RefBits ----------------------------------
(* Strings of bits in bytes, as the reference code handles them: bit 0 is the least  *)
(* significant bit of the first byte.                                                *)
EXTENDS Integers

CONSTANT ByteBits       \* 8 in the code

ASSUME ByteAssumption == ByteBits \in Nat \ {0}

(* The bits of the bytes that n bits take.                                           *)
InBytes(n) == ((n + ByteBits - 1) \div ByteBits) * ByteBits
====================================================================================
