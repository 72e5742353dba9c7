-------------------------------- MODULE SpongeInc --------------------------------
(* The incremental functions of fips202.c (shake128_inc_* and the like) on one      *)
(* context: the message comes in pieces of any length, the output is taken in       *)
(* pieces of any length, and s_inc[25] remembers the place in the block between     *)
(* calls.  A step is one turn of a call's loop.                                     *)
EXTENDS Sponge

CONSTANTS
    Rate,               \* 168, 136, 104 or 72 in the code
    PadByte,            \* the domain bits with the first padding bit: 0x1F or 0x06
    DigestBytes,        \* output of the SHA-3 functions, less than their rate
    MaxMessage,         \* bounds of the model: bytes of a message
    MaxOutput           \* and of its output

ASSUME IncAssumption ==
    /\ Rate \in 1 .. StateBytes
    /\ PadByte \in PadBytes
    /\ DigestBytes \in 1 .. Rate
    /\ MaxMessage \in Nat /\ MaxOutput \in Nat

VARIABLES
    s,          \* s_inc[0 .. 24]
    pos,        \* s_inc[25]: bytes absorbed into the block, later bytes left in it
    pc,         \* "idle" between calls, or the loop that runs
    mlen,       \* message bytes the call has still to absorb
    outlen,     \* output bytes the call has still to squeeze
    phase       \* where the caller is in the protocol: "absorb", "squeeze", "done"

(* History variables: bytes absorbed, the padded state, the output so far.          *)
VARIABLES absorbed, final, out

vars == <<s, pos, pc, mlen, outlen, phase, absorbed, final, out>>

----------------------------------------------------------------------------------
Init ==
    /\ s = <<Zero>> /\ pos = 0
    /\ pc = "idle" /\ mlen = 0 /\ outlen = 0
    /\ phase = "absorb"
    /\ absorbed = 0 /\ final = <<Zero>> /\ out = <<>>

(* keccak_inc_init, on a context in any state between two calls.                    *)
IncInit ==
    /\ pc = "idle"
    /\ s' = <<Zero>> /\ pos' = 0
    /\ phase' = "absorb"
    /\ absorbed' = 0 /\ final' = <<Zero>> /\ out' = <<>>
    /\ UNCHANGED <<pc, mlen, outlen>>

(* keccak_inc_absorb: whole blocks first.                                           *)
CallAbsorb(len) ==
    /\ pc = "idle" /\ phase = "absorb"
    /\ pc' = "absorb"
    /\ mlen' = len
    /\ UNCHANGED <<s, pos, outlen, phase, absorbed, final, out>>

FillsBlock_Strict == mlen + pos > Rate      \* mutant: > for >=
FillsBlock == mlen + pos >= Rate

AbsorbBlock ==
    /\ pc = "absorb" /\ FillsBlock
    /\ s' = StatePermute(StateXORBytes(s, MessageBytes(absorbed, Rate - pos), pos, Rate - pos))
    /\ mlen' = mlen - (Rate - pos)
    /\ absorbed' = absorbed + (Rate - pos)
    /\ pos' = 0
    /\ UNCHANGED <<pc, outlen, phase, final, out>>

AbsorbRest ==
    /\ pc = "absorb" /\ ~ FillsBlock
    /\ s' = StateXORBytes(s, MessageBytes(absorbed, mlen), pos, mlen)
    /\ pos' = pos + mlen
    /\ absorbed' = absorbed + mlen
    /\ mlen' = 0
    /\ pc' = "idle"
    /\ UNCHANGED <<outlen, phase, final, out>>

(* keccak_inc_finalize.                                                             *)
Padding_Overwritten == [i \in 0 .. Rate - 1 |->  \* mutant: = for |=
    IF i = Rate - 1 THEN {EndByte} ELSE IF i = pos THEN {PadByte} ELSE {}]
Padding == [i \in 0 .. Rate - 1 |->
    (IF i = pos THEN {PadByte} ELSE {}) \cup (IF i = Rate - 1 THEN {EndByte} ELSE {})]
Padded == StateXORBytes(s, Padding, 0, Rate)

Finalize ==
    /\ pc = "idle" /\ phase = "absorb"
    /\ s' = Padded /\ final' = Padded
    /\ pos' = 0
    /\ phase' = "squeeze"
    /\ UNCHANGED <<pc, mlen, outlen, absorbed, out>>

(* sha3_*_inc_finalize: one block is squeezed, and the digest is its first bytes.   *)
Digest_Unpermuted == StateExtractBytes(Padded, 0, DigestBytes)      \* mutant
Digest == StateExtractBytes(StatePermute(Padded), 0, DigestBytes)

FinalizeDigest ==
    /\ pc = "idle" /\ phase = "absorb"
    /\ s' = StatePermute(Padded) /\ final' = Padded
    /\ pos' = 0
    /\ out' = Digest
    /\ phase' = "done"
    /\ UNCHANGED <<pc, mlen, outlen, absorbed>>

(* keccak_inc_squeeze: the bytes left from the call before, then block by block.    *)
AtMost(n, limit) == IF n < limit THEN n ELSE limit

CallSqueeze(len) ==
    /\ pc = "idle" /\ phase = "squeeze"
    /\ LET left == AtMost(len, pos)
       IN  /\ out' = out \o StateExtractBytes(s, Rate - pos, left)
           /\ pos' = pos - left
           /\ outlen' = len - left
    /\ pc' = "squeeze"
    /\ UNCHANGED <<s, mlen, phase, absorbed, final>>

LeftInBlock_Used(len) == len         \* mutant: the bytes used, not those left
LeftInBlock(len) == Rate - len

SqueezeBlock ==
    /\ pc = "squeeze" /\ outlen > 0
    /\ LET len == AtMost(outlen, Rate)
       IN  /\ s' = StatePermute(s)
           /\ out' = out \o StateExtractBytes(StatePermute(s), 0, len)
           /\ outlen' = outlen - len
           /\ pos' = LeftInBlock(len)
    /\ UNCHANGED <<pc, mlen, phase, absorbed, final>>

SqueezeReturns ==
    /\ pc = "squeeze" /\ outlen = 0
    /\ pc' = "idle"
    /\ UNCHANGED <<s, pos, mlen, outlen, phase, absorbed, final, out>>

(* The callers: shake128_inc_* and shake256_inc_* squeeze as often as they like,    *)
(* sha3_*_inc_* end with the digest.                                                *)
ShakeCalls == Finalize \/ \E len \in 0 .. MaxOutput - Len(out) : CallSqueeze(len)
Sha3Calls == FinalizeDigest

Next ==
    \/ IncInit
    \/ \E len \in 0 .. MaxMessage - absorbed : CallAbsorb(len)
    \/ AbsorbBlock \/ AbsorbRest
    \/ ShakeCalls \/ Sha3Calls
    \/ SqueezeBlock \/ SqueezeReturns

Spec == Init /\ [][Next]_vars
----------------------------------------------------------------------------------
OutByte == [of : Seq(Contents), byte : StateIndex]
TypeOK ==
    /\ s \in Seq(Contents) /\ s # <<>>
    /\ pos \in 0 .. Rate - 1
    /\ pc \in {"idle", "absorb", "squeeze"}
    /\ mlen \in Nat /\ outlen \in Nat
    /\ phase \in {"absorb", "squeeze", "done"}
    /\ absorbed \in Nat
    /\ final \in Seq(Contents) /\ final # <<>>
    /\ out \in Seq(OutByte)

(* However the message is split, the state holds the bytes given so far, each once  *)
(* and at its place, and the position is the one behind the last; so it is below    *)
(* the rate, as finalize relies on (fips202.c:153).                                 *)
AbsorbsMessage ==
    phase = "absorb" =>
        HoldsMessage(Rate, s, absorbed) /\ absorbed = (Len(s) - 1) * Rate + pos

(* What is squeezed from is the whole message, padded once.                         *)
HashesMessage == phase # "absorb" => HoldsPadded(Rate, PadByte, final, absorbed)

(* However the output is taken, it is the stream of the padded state: no byte is    *)
(* skipped or given twice at the end of a call or of a block, and no permutation is *)
(* run before a byte of it is asked for.                                            *)
OutputIsStream ==
    phase = "squeeze" =>
        LET q == Len(s) - Len(final)
        IN  /\ q >= 0 /\ s = Squeezed(final, q)
            /\ Len(out) = q * Rate - pos
            /\ IsStream(Rate, final, q, out)

(* The digest is the beginning of that stream.                                      *)
DigestIsPrefix ==
    phase = "done" => Len(out) = DigestBytes /\ IsStream(Rate, final, 1, out)
==================================================================================
