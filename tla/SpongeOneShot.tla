------------------------------ MODULE SpongeOneShot ------------------------------
(* The other functions of fips202.c: keccak_absorb on a state the function or its   *)
(* caller prepared, then whole blocks of output by keccak_squeezeblocks, then the   *)
(* bytes that are left out of one more block.  Each function names the rate again   *)
(* in each of its calls.  A step is one turn of a loop, or one of the pieces        *)
(* between two loops.                                                               *)
EXTENDS Sponge

CONSTANTS
    SHAKE128_RATE, SHAKE256_RATE, SHA3_256_RATE, SHA3_384_RATE, SHA3_512_RATE,
    ShakePad, Sha3Pad, CShakePad,       \* 0x1F, 0x06, 0x04
    Sha3_256Bytes, Sha3_384Bytes, Sha3_512Bytes,        \* 32, 48, 64
    SepBytes,           \* bytes of cSHAKE's separation block, 8 in the code
    SepByte(_, _),      \* its bytes; the first argument is the rate it encodes
    Functions,          \* the functions the caller may call
    MaxInput, MaxAsked  \* bounds of the model: bytes of the message, and of the output

Rates == {SHAKE128_RATE, SHAKE256_RATE, SHA3_256_RATE, SHA3_384_RATE, SHA3_512_RATE}
ASSUME OneShotAssumption ==
    /\ Rates \subseteq 1 .. StateBytes
    /\ {ShakePad, Sha3Pad, CShakePad} \subseteq PadBytes
    /\ SepBytes \in Nat
    /\ \A rate \in Rates : SepBytes <= rate
    /\ \A rate \in Rates, i \in 0 .. SepBytes - 1 : SepByte(rate, i) \in FixedBytes
    /\ {Sha3_256Bytes, Sha3_384Bytes, Sha3_512Bytes} \subseteq Nat
    /\ Sha3_256Bytes < SHA3_256_RATE /\ Sha3_384Bytes < SHA3_384_RATE
    /\ Sha3_512Bytes < SHA3_512_RATE
    /\ MaxInput \in Nat /\ MaxAsked \in Nat

VARIABLES
    fn,         \* the function called
    state,
    at,
    taken,      \* the pointer m, bytes of the message behind it
    inlen,      \* length of the message
    left,       \* outlen: bytes of the output that are still to come
    asked       \* the caller's outlen

(* History variables: the padded state, and the output.                             *)
VARIABLES padded, output

oneShotVars == <<fn, state, at, taken, inlen, left, asked, padded, output>>
----------------------------------------------------------------------------------
(* How a function prepares the state: zeroed, for cSHAKE with a separation block    *)
(* absorbed and permuted; what an array holds that is not initialised may be zero   *)
(* or anything else.                                                                *)
Zeroed == {<<Zero>>}
Uninitialised == {<<Zero>>, <<Garbage>>}
Separated(rate) ==
    {StatePermute(StateXORBytes(<<Zero>>, [i \in 0 .. SepBytes - 1 |-> {SepByte(rate, i)}],
                                0, SepBytes))}

(* Each function: the size of its buffer t, the rates given to keccak_absorb and to *)
(* keccak_squeezeblocks, the padding byte, the state before the message, and the    *)
(* lengths of output: what the caller asks for, whole blocks (the _absorb and       *)
(* _squeezeblocks pairs), or the digest.                                            *)
Uniform(rate, pad, prepared, lengths) ==
    [t |-> rate, absorb |-> rate, squeeze |-> rate, pad |-> pad,
     prepared |-> prepared, lengths |-> lengths]
Any == 0 .. MaxAsked
Blocks(rate) == {n \in Any : n % rate = 0}

shake128 == Uniform(SHAKE128_RATE, ShakePad, Zeroed, Any)
shake128_absorb == Uniform(SHAKE128_RATE, ShakePad, Zeroed, Blocks(SHAKE128_RATE))
shake256_Squeeze128 ==          \* mutant: squeezed at the rate of shake128
    [Uniform(SHAKE256_RATE, ShakePad, Zeroed, Any) EXCEPT !.squeeze = SHAKE128_RATE]
shake256 == Uniform(SHAKE256_RATE, ShakePad, Zeroed, Any)
shake256_absorb == Uniform(SHAKE256_RATE, ShakePad, Zeroed, Blocks(SHAKE256_RATE))
cshake128_simple == Uniform(SHAKE128_RATE, CShakePad, Separated(SHAKE128_RATE), Any)
cshake256_simple == Uniform(SHAKE256_RATE, CShakePad, Separated(SHAKE256_RATE), Any)
sha3_256 == Uniform(SHA3_256_RATE, Sha3Pad, Zeroed, {Sha3_256Bytes})
sha3_384 == Uniform(SHA3_384_RATE, Sha3Pad, Uninitialised, {Sha3_384Bytes})
sha3_512 == Uniform(SHA3_512_RATE, Sha3Pad, Zeroed, {Sha3_512Bytes})

Fips202 ==
    [shake128 |-> shake128, shake128_absorb |-> shake128_absorb, shake256 |-> shake256,
     shake256_absorb |-> shake256_absorb, cshake128_simple |-> cshake128_simple,
     cshake256_simple |-> cshake256_simple, sha3_256 |-> sha3_256, sha3_384 |-> sha3_384,
     sha3_512 |-> sha3_512]
F == Fips202[fn]

ASSUME FunctionsAssumption == Functions \subseteq DOMAIN Fips202

OneShotInit ==
    /\ fn \in Functions
    /\ state \in F.prepared
    /\ inlen \in 0 .. MaxInput
    /\ left \in F.lengths /\ asked = left
    /\ at = "absorb"
    /\ taken = 0
    /\ padded = <<>> /\ output = <<>>

(* keccak_absorb.                                                                   *)
FullBlock_Strict == inlen - taken > F.absorb    \* mutant: > for >=
FullBlock == inlen - taken >= F.absorb

AbsorbWhole ==
    /\ at = "absorb" /\ FullBlock
    /\ state' = StatePermute(StateXORBytes(state, MessageBytes(taken, F.absorb), 0, F.absorb))
    /\ taken' = taken + F.absorb
    /\ UNCHANGED <<fn, at, inlen, left, asked, padded, output>>

LastBlock ==
    [i \in 0 .. F.absorb - 1 |->
        (CASE i < inlen - taken -> {taken + i}
           [] i = inlen - taken -> {F.pad}
           [] OTHER -> {})
        \cup (IF i = F.absorb - 1 THEN {EndByte} ELSE {})]

AbsorbLast ==
    /\ at = "absorb" /\ ~ FullBlock
    /\ state' = StateXORBytes(state, LastBlock, 0, F.absorb)
    /\ padded' = state'
    /\ at' = "squeeze"
    /\ UNCHANGED <<fn, taken, inlen, left, asked, output>>

(* keccak_squeezeblocks, for outlen / rate blocks, also in several calls.           *)
SqueezeWhole ==
    /\ at = "squeeze" /\ left >= F.squeeze
    /\ state' = StatePermute(state)
    /\ output' = output \o StateExtractBytes(StatePermute(state), 0, F.squeeze)
    /\ left' = left - F.squeeze
    /\ UNCHANGED <<fn, at, taken, inlen, asked, padded>>

(* One more block into t, and the bytes left from it; none if none are left.        *)
SqueezeRest ==
    /\ at = "squeeze" /\ left < F.squeeze
    /\ IF left > 0
       THEN /\ state' = StatePermute(state)
            /\ output' = output \o
                 SubSeq(StateExtractBytes(StatePermute(state), 0, F.squeeze), 1, left)
       ELSE UNCHANGED <<state, output>>
    /\ left' = 0
    /\ at' = "returned"
    /\ UNCHANGED <<fn, taken, inlen, asked, padded>>

OneShotNext == AbsorbWhole \/ AbsorbLast \/ SqueezeWhole \/ SqueezeRest

OneShotSpec == OneShotInit /\ [][OneShotNext]_oneShotVars
----------------------------------------------------------------------------------
(* The states before the message.                                                   *)
SepBlocks == IF fn \in {"cshake128_simple", "cshake256_simple"} THEN 1 ELSE 0
OfMessage == SubSeq(padded, SepBlocks + 1, Len(padded))

(* The state to squeeze from depends on the message, the separation block and the   *)
(* padding only: keccak_absorb "starts by zeroeing the state" (fips202.c:26).       *)
StartsFromZero ==
    at # "absorb" =>
        /\ HoldsPadded(F.t, F.pad, OfMessage, inlen)
        /\ SepBlocks = 1 =>
             padded[1] = [j \in StateIndex |->
                             IF j < SepBytes THEN {SepByte(F.t, j)} ELSE {}]

(* A call returns the beginning of the stream of that state, of the length asked    *)
(* for, whatever function of the family gives it: this is the stream the            *)
(* incremental functions give (SpongeInc).                                          *)
ReturnsStream ==
    at = "returned" =>
        /\ Len(output) = asked
        /\ IsStream(F.t, padded, Len(state) - Len(padded), output)
==================================================================================
