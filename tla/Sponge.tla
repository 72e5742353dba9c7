--------------------------------- MODULE Sponge ---------------------------------
(* What the sponge functions of fips202.c compute, with no position, loop or call: *)
(* byte k * rate + j of the padded message is xored into byte j of the state after *)
(* k permutations, and byte k * rate + j of the output is byte j after k + 1 more. *)
EXTENDS KeccakState

(* s has absorbed n bytes of a message and nothing else.                           *)
MessageByte(rate, k, j, n) ==
    IF j < rate /\ (k - 1) * rate + j < n THEN {(k - 1) * rate + j} ELSE {}
HoldsMessage(rate, s, n) ==
    /\ (Len(s) - 1) * rate <= n /\ n < Len(s) * rate
    /\ \A k \in 1 .. Len(s) : \A j \in StateIndex : s[k][j] = MessageByte(rate, k, j, n)

(* The same with the padding: its first byte follows the message, its last bit     *)
(* ends the block.                                                                 *)
PaddingByte(rate, pad, k, j, n, last) ==
    (IF j < rate /\ (k - 1) * rate + j = n THEN {pad} ELSE {})
      \cup (IF k = last /\ j = rate - 1 THEN {EndByte} ELSE {})
HoldsPadded(rate, pad, s, n) ==
    /\ (Len(s) - 1) * rate <= n /\ n < Len(s) * rate
    /\ \A k \in 1 .. Len(s) : \A j \in StateIndex :
         s[k][j] = MessageByte(rate, k, j, n) \cup PaddingByte(rate, pad, k, j, n, Len(s))

(* The state after q permutations of the padded state f, and its bytes.            *)
Squeezed(f, q) == [k \in 1 .. Len(f) + q |-> IF k <= Len(f) THEN f[k] ELSE Zero]
IsStream(rate, f, q, out) ==
    \A i \in 1 .. Len(out) : \E p \in 1 .. q :
        /\ (p - 1) * rate < i /\ i <= p * rate
        /\ out[i] = [of |-> Squeezed(f, p), byte |-> i - 1 - (p - 1) * rate]
=================================================================================
