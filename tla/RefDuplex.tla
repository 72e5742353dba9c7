--------------------------------- MODULE RefDuplex ---------------------------------
(* The reference duplex object (KeccakDuplex.c): each call absorbs one block, made   *)
(* of a short input and the padding, and returns the first bits of the state.  Its   *)
(* rate need not be whole bytes or lanes.  The permutation is free: a state is the   *)
(* list of the blocks absorbed.                                                      *)
EXTENDS RefBits, Sequences, FiniteSetsExt

CONSTANTS
    LaneBits,           \* 64 in the code
    DuplexRates, InLens, OutLens,   \* the rates and lengths that callers use
    MaxCalls            \* bound on the calls since InitDuplex

(* InitDuplex also takes the rate 1, whose rho_max is 2^32 - 1: see the README.      *)
ASSUME DuplexAssumption ==
    /\ LaneBits \in Nat \ {0} /\ LaneBits % ByteBits = 0
    /\ \A r \in DuplexRates : r \in Nat /\ r >= 2
    /\ InLens \subseteq Nat

VARIABLES
    r, rho_max,         \* duplexState
    state,
    out                 \* what the last call wrote for its caller, <<>> a zero bit

(* History variable: the inputs of the calls that were accepted.                     *)
VARIABLE inputs

duplexVars == <<r, rho_max, state, out, inputs>>

RhoMax_RateLessOne(rate) == rate - 1        \* mutant: room for one bit of padding
RhoMax(rate) == rate - 2

DuplexInit == \E rate \in DuplexRates :
    r = rate /\ rho_max = RhoMax(rate) /\ state = <<>> /\ out = <<>> /\ inputs = <<>>

InitDuplex(rate) ==
    /\ r' = rate /\ rho_max' = RhoMax(rate)
    /\ state' = <<>> /\ inputs' = <<>>
    /\ UNCHANGED out
------------------------------------------------------------------------------------
(* The block is a local array: what follows the bytes of the input is cleared up to  *)
(* the last lane that is absorbed, and holds what was on the stack if it is not.     *)
Absorbed == ((r + LaneBits - 1) \div LaneBits) * LaneBits
Cleared == Absorbed

PaddedBlock(in, inBitLen, stack) ==
    LET bytes == [b \in 0 .. Absorbed - 1 |->
                    IF b < InBytes(inBitLen) THEN in[b] ELSE IF b < Cleared THEN 0 ELSE stack]
    IN  [bytes EXCEPT ![inBitLen] = 1, ![r - 1] = 1]
DuplexRefuses(in, inBitLen, outBitLen) ==
    \/ inBitLen > rho_max
    \/ \E b \in inBitLen .. InBytes(inBitLen) - 1 : in[b] = 1
    \/ outBitLen > r

Duplexing(in, inBitLen, outBitLen) ==
    IF DuplexRefuses(in, inBitLen, outBitLen)
    THEN UNCHANGED duplexVars
    ELSE /\ \E stack \in {0, 1} : state' = Append(state, PaddedBlock(in, inBitLen, stack))
         /\ out' = [b \in 0 .. InBytes(outBitLen) - 1 |->
                      IF b < outBitLen THEN <<Len(state'), b>> ELSE <<>>]
         /\ inputs' = Append(inputs, [b \in 0 .. inBitLen - 1 |-> in[b]])
         /\ UNCHANGED <<r, rho_max>>

DuplexNext ==
    \/ \E rate \in DuplexRates : InitDuplex(rate)
    \/ /\ Len(inputs) < MaxCalls
       /\ \E inBitLen \in InLens, outBitLen \in OutLens :
            \E in \in [0 .. InBytes(inBitLen) - 1 -> {0, 1}] :
                Duplexing(in, inBitLen, outBitLen)
DuplexSpec == DuplexInit /\ [][DuplexNext]_duplexVars
------------------------------------------------------------------------------------
(* The blocks alone tell the inputs of all calls: each is its input, 1, zeros and a  *)
(* 1 that ends the rate.  No bit of the capacity is touched, although the rate may   *)
(* end within a lane and within a byte.                                              *)
InputOf(block) ==
    [b \in 0 .. Max({c \in 0 .. r - 2 : block[c] = 1}) - 1 |-> block[b]]
BlocksTellInputs ==
    /\ Len(state) = Len(inputs)
    /\ \A k \in 1 .. Len(state) :
         /\ state[k][r - 1] = 1
         /\ \A b \in r .. Absorbed - 1 : state[k][b] = 0
         /\ \E c \in 0 .. r - 2 : state[k][c] = 1
         /\ InputOf(state[k]) = inputs[k]
====================================================================================
