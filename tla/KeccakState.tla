------------------------------ MODULE KeccakState ------------------------------
(* The state of the software permutation and its three operations (keccakf1600.c)*)
(* A byte is the set of the terms xored into it, so xor is symmetric difference   *)
(* and two bytes are equal exactly when they are as formulas.  The permutation is *)
(* a free constructor: a state lists, for each permutation and for the time after *)
(* the last one, what was xored into it.                                          *)
EXTENDS Integers, Sequences

CONSTANTS
    StateBytes,         \* 200 in the code
    FixedBytes,         \* the bytes that are not the message's: the next two, the
                        \* padding bytes, those of cSHAKE's separation block
    EndByte,            \* the last padding bit, 0x80
    Unknown             \* what a byte that was never written holds

(* A message byte is the term that numbers it.                                    *)
Term == Nat \cup FixedBytes
PadBytes == FixedBytes \ {EndByte, Unknown}

ASSUME StateAssumption ==
    /\ StateBytes \in Nat
    /\ FixedBytes \cap Nat = {}
    /\ {EndByte, Unknown} \subseteq FixedBytes /\ EndByte # Unknown

StateIndex == 0 .. StateBytes - 1
Contents == [StateIndex -> SUBSET Term]
Zero == [j \in StateIndex |-> {}]
Garbage == [j \in StateIndex |-> {Unknown}]

Xor(a, b) == (a \ b) \cup (b \ a)

(* data is a function on 0 .. length - 1.                                         *)
StateXORBytes(s, data, offset, length) ==
    [s EXCEPT ![Len(s)] = [j \in StateIndex |->
        IF j \in offset .. offset + length - 1 THEN Xor(@[j], data[j - offset])
        ELSE @[j]]]

StateExtractBytes(s, offset, length) ==
    [i \in 1 .. length |-> [of |-> s, byte |-> offset + i - 1]]

(* The message, from byte number from.                                            *)
MessageBytes(from, length) == [i \in 0 .. length - 1 |-> {from + i}]

StatePermute(s) == Append(s, Zero)
================================================================================
