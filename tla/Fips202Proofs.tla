------------------------------- MODULE Fips202Proofs -------------------------------
(* Proofs about the sponge functions of fips202.c: for every rate and state size,   *)
(* every message in any pieces and every sequence of squeezes, a context holds the  *)
(* message and gives its stream; and so does a state that a function absorbs and    *)
(* squeezes in one call.                                                            *)
EXTENDS SpongeInc, SpongeOneShot, TLAPS

USE DEF StateIndex, Contents

(* A rate is a positive number that fits into the state.                            *)
LEMMA RateIsNat ==
    ASSUME NEW rate \in 1 .. StateBytes
    PROVE  rate \in Nat \ {0} /\ rate <= StateBytes /\ StateBytes \in Nat
BY StateAssumption

LEMMA RateFits == Rate \in 1 .. StateBytes /\ Rate \in Nat \ {0} /\ PadByte \in PadBytes
BY StateAssumption, IncAssumption

(* Block k begins at byte (k - 1) * rate; blocks do not overlap.                    *)
LEMMA BlockStart ==
    ASSUME NEW rate \in Nat, NEW k \in Nat \ {0}
    PROVE  /\ (k - 1) * rate \in Nat
           /\ (k + 1 - 1) * rate = (k - 1) * rate + rate
           /\ k * rate = (k - 1) * rate + rate
<1>1. \A a, b \in Nat : a * b \in Nat OBVIOUS
<1>2. k - 1 \in Nat OBVIOUS
<1>3. k * rate = (k - 1) * rate + rate BY <1>2
<1> QED BY <1>1, <1>2, <1>3

LEMMA BlocksApart ==
    ASSUME NEW rate \in Nat, NEW k \in Nat \ {0}, NEW l \in Nat, k < l
    PROVE  (k - 1) * rate + rate <= (l - 1) * rate
<1> DEFINE d == l - k - 1
<1>1. d \in Nat /\ l - 1 = (k - 1) + (d + 1) OBVIOUS
<1>2. k - 1 \in Nat OBVIOUS
<1>3. \A a, b, c \in Nat : (a + (b + 1)) * c = a * c + b * c + c OBVIOUS
<1>4. d * rate \in Nat
    <2>1. \A a, b \in Nat : a * b \in Nat OBVIOUS
    <2> QED BY <2>1, <1>1
<1>5. (l - 1) * rate = (k - 1) * rate + d * rate + rate BY <1>1, <1>2, <1>3
<1>6. (k - 1) * rate \in Nat BY BlockStart
<1> HIDE DEF d
<1> QED BY <1>4, <1>5, <1>6
----------------------------------------------------------------------------------
(* Zero is a block's contents.                                                      *)
LEMMA ZeroType == Zero \in Contents
BY DEF Zero

(* What xor does to a state: the last entry only, and there only the bytes named.   *)
XorEffect(t, u, data, offset, length) ==
    /\ u \in Seq(Contents) /\ u # <<>> /\ Len(u) = Len(t)
    /\ \A k \in 1 .. Len(t) - 1 : u[k] = t[k]
    /\ \A j \in StateIndex :
         u[Len(t)][j] = IF j \in offset .. offset + length - 1
                        THEN Xor(t[Len(t)][j], data[j - offset])
                        ELSE t[Len(t)][j]

LEMMA XorBytes ==
    ASSUME NEW t \in Seq(Contents), t # <<>>, NEW offset \in Nat, NEW length \in Nat,
           NEW data \in [0 .. length - 1 -> SUBSET Term]
    PROVE  XorEffect(t, StateXORBytes(t, data, offset, length), data, offset, length)
<1> DEFINE L == Len(t)
           new == [j \in StateIndex |-> IF j \in offset .. offset + length - 1
                                        THEN Xor(t[L][j], data[j - offset])
                                        ELSE t[L][j]]
<1>1. L \in Nat \ {0} /\ t[L] \in Contents OBVIOUS
<1>2. new \in Contents
    <2>1. ASSUME NEW j \in StateIndex, j \in offset .. offset + length - 1
          PROVE  Xor(t[L][j], data[j - offset]) \subseteq Term
        <3>1. t[L][j] \subseteq Term BY <1>1
        <3>2. j - offset \in 0 .. length - 1 BY <2>1
        <3>3. data[j - offset] \subseteq Term BY <3>2
        <3> QED BY <3>1, <3>3 DEF Xor
    <2>2. \A j \in StateIndex : t[L][j] \subseteq Term BY <1>1
    <2> QED BY <2>1, <2>2
<1>3. StateXORBytes(t, data, offset, length) = [t EXCEPT ![L] = new]
    BY DEF StateXORBytes
<1> HIDE DEF new
<1>4. [t EXCEPT ![L] = new] \in Seq(Contents) /\ Len([t EXCEPT ![L] = new]) = L
    BY <1>1, <1>2
<1>5. [t EXCEPT ![L] = new] # <<>> BY <1>1, <1>4
<1>6. [t EXCEPT ![L] = new][L] = new /\ \A k \in 1 .. L - 1 : [t EXCEPT ![L] = new][k] = t[k]
    BY <1>1
<1> QED BY <1>1, <1>3, <1>4, <1>5, <1>6 DEF new, XorEffect

(* What the permutation does to it.                                                 *)
LEMMA Permute ==
    ASSUME NEW t \in Seq(Contents)
    PROVE  /\ StatePermute(t) \in Seq(Contents) /\ StatePermute(t) # <<>>
           /\ Len(StatePermute(t)) = Len(t) + 1
           /\ \A k \in 1 .. Len(t) : StatePermute(t)[k] = t[k]
           /\ StatePermute(t)[Len(t) + 1] = Zero
BY ZeroType DEF StatePermute
----------------------------------------------------------------------------------
(* Absorbing bytes n .. n + len - 1 at the place of byte n: the block in front of   *)
(* it keeps its part of the message, and the block takes its part of the new bytes. *)
LEMMA BlockIsFull ==
    ASSUME NEW rate \in 1 .. StateBytes, NEW k \in Nat \ {0}, NEW n \in Nat, k * rate <= n,
           NEW m \in Nat, n <= m, NEW j \in StateIndex
    PROVE  MessageByte(rate, k, j, n) = MessageByte(rate, k, j, m)
<1> DEFINE b == (k - 1) * rate
<1>1. rate \in Nat /\ j \in Nat /\ b \in Nat /\ b + rate <= n BY RateIsNat, BlockStart
<1>2. j < rate => b + j < n /\ b + j < m BY <1>1
<1> QED BY <1>2 DEF MessageByte

BlockEffect(rate, k, n, p, len, m, j) ==
    MessageByte(rate, k, j, m) =
      IF j \in p .. p + len - 1
      THEN Xor(MessageByte(rate, k, j, n), MessageBytes(n, len)[j - p])
      ELSE MessageByte(rate, k, j, n)

LEMMA BlockTakes ==
    ASSUME NEW rate \in 1 .. StateBytes, NEW k \in Nat \ {0}, NEW n \in Nat,
           NEW p \in 0 .. rate - 1, n = (k - 1) * rate + p,
           NEW len \in Nat, p + len <= rate, NEW m, m = n + len, NEW j \in StateIndex
    PROVE  BlockEffect(rate, k, n, p, len, m, j)
<1> DEFINE b == (k - 1) * rate
<1>1. b \in Nat /\ rate \in Nat \ {0} /\ j \in Nat /\ p \in Nat /\ p < rate
    BY RateIsNat, BlockStart
<1>2. n = b + p OBVIOUS
<1>3. CASE j \in p .. p + len - 1
    <2>1. MessageByte(rate, k, j, n) = {} BY <1>1, <1>2, <1>3 DEF MessageByte
    <2>2. MessageBytes(n, len)[j - p] = {b + j}
        <3>1. j - p \in 0 .. len - 1 /\ n + (j - p) = b + j BY <1>1, <1>2, <1>3
        <3> HIDE DEF b
        <3> QED BY <3>1 DEF MessageBytes
    <2>3. j < rate /\ b + j < m BY <1>1, <1>2, <1>3
    <2>4. MessageByte(rate, k, j, m) = {b + j} BY <2>3 DEF MessageByte
    <2> QED BY <1>3, <2>1, <2>2, <2>4 DEF Xor, BlockEffect
<1>4. CASE j \notin p .. p + len - 1
    <2>1. j < rate => ((b + j < n) <=> (b + j < m)) BY <1>1, <1>2, <1>4
    <2> QED BY <1>4, <2>1 DEF MessageByte, BlockEffect
<1> QED BY <1>3, <1>4

(* A block that takes no more bytes of the message takes the padding.               *)
LEMMA PaddingApart ==
    ASSUME NEW rate \in 1 .. StateBytes, NEW pad \in PadBytes, NEW k \in Nat \ {0}, NEW n \in Nat,
           NEW last \in Nat, NEW j \in StateIndex
    PROVE  MessageByte(rate, k, j, n) \cap PaddingByte(rate, pad, k, j, n, last) = {}
<1>1. MessageByte(rate, k, j, n) \subseteq Nat
    <2>1. (k - 1) * rate + j \in Nat BY RateIsNat, BlockStart
    <2> QED BY <2>1 DEF MessageByte
<1>2. PaddingByte(rate, pad, k, j, n, last) \subseteq FixedBytes
    BY StateAssumption DEF PaddingByte, PadBytes
<1> QED BY <1>1, <1>2, StateAssumption

LEMMA NoPadding ==
    ASSUME NEW rate \in 1 .. StateBytes, NEW pad, NEW k \in Nat \ {0}, NEW last, k # last,
           NEW n \in Nat, k * rate <= n, NEW j \in StateIndex
    PROVE  PaddingByte(rate, pad, k, j, n, last) = {}
<1> DEFINE b == (k - 1) * rate
<1>1. rate \in Nat /\ j \in Nat /\ b \in Nat /\ b + rate <= n BY RateIsNat, BlockStart
<1>2. j < rate => b + j # n BY <1>1
<1> QED BY <1>2 DEF PaddingByte

(* All the blocks of a state.                                                       *)
BlockHolds(t, k, n) == \A j \in StateIndex : t[k][j] = MessageByte(Rate, k, j, n)

AbsorbEffect(t, m, u) ==
    /\ u \in Seq(Contents) /\ u # <<>> /\ Len(u) = Len(t)
    /\ \A k \in 1 .. Len(t) : BlockHolds(u, k, m)

LEMMA AbsorbBytes ==
    ASSUME NEW t \in Seq(Contents), t # <<>>, NEW n \in Nat, NEW p \in 0 .. Rate - 1,
           NEW len \in Nat, p + len <= Rate,
           n = (Len(t) - 1) * Rate + p,
           \A k \in 1 .. Len(t) : BlockHolds(t, k, n)
    PROVE  AbsorbEffect(t, n + len, StateXORBytes(t, MessageBytes(n, len), p, len))
<1> DEFINE L == Len(t)
           data == MessageBytes(n, len)
           u == StateXORBytes(t, data, p, len)
           m == n + len
<1>1. L \in Nat \ {0} /\ (L - 1) * Rate \in Nat BY BlockStart, RateFits
<1>2. data \in [0 .. len - 1 -> SUBSET Term] BY DEF MessageBytes, Term
<1>3. p \in Nat /\ m \in Nat /\ n <= m /\ m = n + len /\ n = (L - 1) * Rate + p
    BY RateFits
<1>4. XorEffect(t, u, data, p, len)
    <2> HIDE DEF data
    <2> QED BY <1>2, <1>3, XorBytes
<1> HIDE DEF u, data, m
<1>5. ASSUME NEW k \in 1 .. L - 1 PROVE BlockHolds(u, k, m)
    <2>1. k \in Nat \ {0} /\ k < L /\ k \in 1 .. Len(t) BY <1>1
    <2>2. k * Rate <= n
        <3>1. k * Rate = (k - 1) * Rate + Rate BY <2>1, RateFits, BlockStart
        <3>2. (k - 1) * Rate + Rate <= (L - 1) * Rate BY <1>1, <2>1, RateFits, BlocksApart
        <3>3. (L - 1) * Rate <= n BY <1>1, <1>3
        <3>4. (k - 1) * Rate + Rate \in Nat BY <2>1, RateFits, BlockStart
        <3> QED BY <3>1, <3>2, <3>3, <3>4, <1>1, <1>3
    <2>3. \A j \in StateIndex : MessageByte(Rate, k, j, n) = MessageByte(Rate, k, j, m)
        BY <2>1, <2>2, <1>3, RateFits, BlockIsFull
    <2>4. u[k] = t[k] BY <1>4 DEF XorEffect
    <2> QED BY <2>1, <2>3, <2>4 DEF BlockHolds
<1>6. BlockHolds(u, L, m)
    <2> SUFFICES ASSUME NEW j \in StateIndex PROVE u[L][j] = MessageByte(Rate, L, j, m)
        BY DEF BlockHolds
    <2>1. t[L][j] = MessageByte(Rate, L, j, n) BY <1>1 DEF BlockHolds
    <2>2. u[L][j] = IF j \in p .. p + len - 1 THEN Xor(t[L][j], data[j - p]) ELSE t[L][j]
        BY <1>4 DEF XorEffect
    <2>3. BlockEffect(Rate, L, n, p, len, m, j)
        <3> HIDE DEF L
        <3> QED BY <1>1, <1>3, RateFits, BlockTakes
    <2> QED BY <2>1, <2>2, <2>3 DEF data, BlockEffect
<1>7. \A k \in 1 .. L : BlockHolds(u, k, m) BY <1>5, <1>6, <1>1
<1>8. u \in Seq(Contents) /\ u # <<>> /\ Len(u) = L BY <1>4 DEF XorEffect
<1> QED BY <1>7, <1>8 DEF AbsorbEffect, u, data, m

(* A block that holds its part of the message holds it in HoldsMessage's sense.     *)
LEMMA MessageBlocks ==
    ASSUME TypeOK, AbsorbsMessage, phase = "absorb"
    PROVE  /\ Len(s) \in Nat \ {0}
           /\ absorbed = (Len(s) - 1) * Rate + pos
           /\ \A k \in 1 .. Len(s) : BlockHolds(s, k, absorbed)
BY DEF TypeOK, AbsorbsMessage, HoldsMessage, BlockHolds

(* The padding goes behind the message and to the end of its last block.            *)
LEMMA PaddedHolds ==
    ASSUME TypeOK, AbsorbsMessage, phase = "absorb"
    PROVE  /\ Padded \in Seq(Contents) /\ Padded # <<>>
           /\ HoldsPadded(Rate, PadByte, Padded, absorbed)
<1> DEFINE L == Len(s)
           b == (L - 1) * Rate
           n == absorbed
<1>1. s \in Seq(Contents) /\ s # <<>> /\ pos \in 0 .. Rate - 1 BY DEF TypeOK
<1>2. L \in Nat \ {0} /\ n = b + pos /\ \A k \in 1 .. L : BlockHolds(s, k, n)
    BY MessageBlocks
<1>3. b \in Nat /\ Rate \in Nat \ {0} /\ L * Rate = b + Rate BY <1>2, BlockStart, RateFits
<1>4. Padding \in [0 .. Rate - 1 -> SUBSET Term]
    BY RateFits, StateAssumption DEF Padding, Term, PadBytes
<1>5. XorEffect(s, Padded, Padding, 0, Rate) BY <1>1, <1>3, <1>4, XorBytes DEF Padded
<1>6. /\ Padded \in Seq(Contents) /\ Padded # <<>> /\ Len(Padded) = L
      /\ \A k \in 1 .. L - 1 : Padded[k] = s[k]
      /\ \A j \in StateIndex :
           Padded[L][j] = IF j \in 0 .. Rate - 1 THEN Xor(s[L][j], Padding[j]) ELSE s[L][j]
    <2>1. \A j \in 0 .. Rate - 1 : j - 0 = j /\ 0 + Rate - 1 = Rate - 1 BY <1>3
    <2>2. 0 + Rate - 1 = Rate - 1 BY <1>3
    <2> QED BY <1>5, <2>1, <2>2 DEF XorEffect
<1>7. ASSUME NEW k \in 1 .. L - 1, NEW j \in StateIndex
      PROVE  Padded[k][j] = MessageByte(Rate, k, j, n) \cup PaddingByte(Rate, PadByte, k, j, n, L)
    <2>1. k \in Nat \ {0} /\ k # L /\ k < L /\ n \in Nat BY <1>1, <1>2, <1>3
    <2>2. k * Rate <= n
        <3>1. k * Rate = (k - 1) * Rate + Rate /\ (k - 1) * Rate + Rate \in Nat
            BY <2>1, RateFits, BlockStart
        <3>2. (k - 1) * Rate + Rate <= b BY <1>2, <2>1, RateFits, BlocksApart
        <3> QED BY <3>1, <3>2, <1>1, <1>2, <1>3
    <2>3. PaddingByte(Rate, PadByte, k, j, n, L) = {} BY <2>1, <2>2, RateFits, NoPadding
    <2>4. Padded[k][j] = MessageByte(Rate, k, j, n) BY <1>2, <1>6 DEF BlockHolds
    <2> QED BY <2>3, <2>4
<1>8. ASSUME NEW j \in StateIndex
      PROVE  Padded[L][j] = MessageByte(Rate, L, j, n) \cup PaddingByte(Rate, PadByte, L, j, n, L)
    <2>1. s[L][j] = MessageByte(Rate, L, j, n) BY <1>2 DEF BlockHolds
    <2>2. j \in Nat BY StateAssumption
    <2>3. CASE j \in 0 .. Rate - 1
        <3> DEFINE m == MessageByte(Rate, L, j, n)
        <3>1. b + j = n <=> j = pos BY <2>2, <1>1, <1>2, <1>3
        <3>2. j < Rate BY <2>3, <1>3
        <3>3. PaddingByte(Rate, PadByte, L, j, n, L) =
                (IF j = pos THEN {PadByte} ELSE {}) \cup (IF j = Rate - 1 THEN {EndByte} ELSE {})
            BY <3>1, <3>2 DEF PaddingByte
        <3>4. Padding[j] = PaddingByte(Rate, PadByte, L, j, n, L) BY <3>3, <2>3 DEF Padding
        <3>5. m \cap PaddingByte(Rate, PadByte, L, j, n, L) = {}
            BY <1>1, <1>2, <1>3, RateFits, PaddingApart
        <3> HIDE DEF m
        <3>6. Xor(m, Padding[j]) = m \cup PaddingByte(Rate, PadByte, L, j, n, L)
            BY <3>5, <3>4 DEF Xor
        <3> QED BY <1>6, <2>1, <2>3, <3>6 DEF m
    <2>4. CASE j \notin 0 .. Rate - 1
        <3>1. PaddingByte(Rate, PadByte, L, j, n, L) = {} BY <2>2, <2>4, <1>3 DEF PaddingByte
        <3> QED BY <1>6, <2>1, <2>4, <3>1
    <2> QED BY <2>3, <2>4
<1>9. \A k \in 1 .. L : \A j \in StateIndex :
         Padded[k][j] = MessageByte(Rate, k, j, n) \cup PaddingByte(Rate, PadByte, k, j, n, L)
    BY <1>2, <1>7, <1>8
<1>10. (L - 1) * Rate <= n /\ n < L * Rate BY <1>1, <1>2, <1>3
<1> QED BY <1>6, <1>9, <1>10 DEF HoldsPadded
----------------------------------------------------------------------------------
(* The join of two sequences over a set is one, as long as both together.           *)
LEMMA JoinType ==
    ASSUME NEW S, NEW a \in Seq(S), NEW c \in Seq(S)
    PROVE  a \o c \in Seq(S) /\ Len(a \o c) = Len(a) + Len(c)
OBVIOUS

(* Squeezing permutes the padded state and reads it.                                *)
LEMMA SqueezedType ==
    ASSUME NEW f \in Seq(Contents), f # <<>>, NEW q \in Nat
    PROVE  /\ Squeezed(f, q) \in Seq(Contents) /\ Squeezed(f, q) # <<>>
           /\ Len(Squeezed(f, q)) = Len(f) + q
           /\ StatePermute(Squeezed(f, q)) = Squeezed(f, q + 1)
<1> DEFINE g == Squeezed(f, q)
<1>1. Len(f) \in Nat \ {0} OBVIOUS
<1>2. \A k \in 1 .. Len(f) + q : g[k] \in Contents BY <1>1, ZeroType DEF Squeezed
<1>3. g \in Seq(Contents) /\ Len(g) = Len(f) + q /\ g # <<>>
    BY <1>1, <1>2 DEF Squeezed
<1>4. StatePermute(g) = Squeezed(f, q + 1)
    <2>1. StatePermute(g) \in Seq(Contents) /\ Len(StatePermute(g)) = Len(f) + q + 1
        BY <1>3, Permute, <1>1
    <2>2. Squeezed(f, q + 1) \in Seq(Contents) /\ Len(Squeezed(f, q + 1)) = Len(f) + q + 1
        <3>1. \A k \in 1 .. Len(f) + (q + 1) : Squeezed(f, q + 1)[k] \in Contents
            BY <1>1, ZeroType DEF Squeezed
        <3> QED BY <1>1, <3>1 DEF Squeezed
    <2>3. ASSUME NEW k \in 1 .. Len(f) + q + 1
          PROVE  StatePermute(g)[k] = Squeezed(f, q + 1)[k]
        <3>1. CASE k <= Len(f) + q
            <4>1. k \in 1 .. Len(g) BY <3>1, <1>1, <1>3
            <4>2. StatePermute(g)[k] = g[k]
                <5> HIDE DEF g
                <5> QED BY <4>1, <1>3, Permute
            <4> QED BY <4>2, <3>1, <1>1 DEF Squeezed
        <3>2. CASE k = Len(f) + q + 1
            <4>1. StatePermute(g)[k] = Zero BY <3>2, <1>3, Permute
            <4> QED BY <4>1, <3>2, <1>1 DEF Squeezed
        <3> QED BY <3>1, <3>2, <1>1
    <2> QED BY <2>1, <2>2, <2>3
<1> QED BY <1>3, <1>4

(* Reading on where the stream stopped continues it.                                *)
StreamEffect(rate, f, q, new, count) ==
    new \in Seq(OutByte) /\ Len(new) = count /\ IsStream(rate, f, q, new)

LEMMA StreamGrows ==
    ASSUME NEW rate \in 1 .. StateBytes, NEW f \in Seq(Contents), f # <<>>, NEW q \in Nat \ {0}, NEW o \in Seq(OutByte),
           IsStream(rate, f, q, o), NEW from \in 0 .. rate, NEW len \in Nat, from + len <= rate,
           Len(o) = (q - 1) * rate + from
    PROVE  StreamEffect(rate, f, q, o \o StateExtractBytes(Squeezed(f, q), from, len),
                        (q - 1) * rate + from + len)
<1> DEFINE e == StateExtractBytes(Squeezed(f, q), from, len)
           b == (q - 1) * rate
           new == o \o e
<1>1. rate \in Nat \ {0} /\ rate <= StateBytes /\ StateBytes \in Nat /\ b \in Nat
    BY RateIsNat, BlockStart
<1>2. ASSUME NEW i \in 1 .. len
      PROVE  e[i] = [of |-> Squeezed(f, q), byte |-> from + i - 1] /\ e[i] \in OutByte
    <2>1. from + i - 1 \in StateIndex BY <1>1
    <2>2. Squeezed(f, q) \in Seq(Contents) BY SqueezedType
    <2> QED BY <2>1, <2>2 DEF StateExtractBytes, OutByte
<1>3. e \in Seq(OutByte) /\ Len(e) = len
    <2>1. e = [i \in 1 .. len |-> [of |-> Squeezed(f, q), byte |-> from + i - 1]]
        BY DEF StateExtractBytes
    <2>2. e \in [1 .. len -> OutByte] BY <1>2, <2>1
    <2> HIDE DEF e
    <2> QED BY <2>2
<1> HIDE DEF e
<1>4. new \in Seq(OutByte) /\ Len(new) = Len(o) + len
    <2> QED BY <1>3, JoinType
<1>5. ASSUME NEW i \in 1 .. Len(new)
      PROVE  \E p \in 1 .. q :
                /\ (p - 1) * rate < i /\ i <= p * rate
                /\ new[i] = [of |-> Squeezed(f, p), byte |-> i - 1 - (p - 1) * rate]
    <2>1. CASE i <= Len(o)
        <3>1. new[i] = o[i] /\ i \in 1 .. Len(o) BY <2>1, <1>3
        <3> QED BY <3>1 DEF IsStream
    <2>2. CASE i > Len(o)
        <3>1. i - Len(o) \in 1 .. len /\ Len(o) = b + from BY <2>2, <1>4, <1>1
        <3>2. new[i] = e[i - Len(o)] BY <2>2, <1>3, <1>4
        <3>3. from + (i - Len(o)) - 1 = i - 1 - b BY <3>1, <1>1
        <3>4. new[i] = [of |-> Squeezed(f, q), byte |-> i - 1 - b]
            BY <3>1, <3>2, <3>3, <1>2
        <3>5. q * rate = b + rate BY BlockStart
        <3>6. b < i /\ i <= q * rate BY <3>1, <3>5, <1>1
        <3>7. q \in 1 .. q OBVIOUS
        <3> QED BY <3>4, <3>6, <3>7
    <2>3. i <= Len(o) \/ i > Len(o) BY <1>4
    <2> QED BY <2>1, <2>2, <2>3
<1>6. Len(new) = b + from + len BY <1>4
<1>7. IsStream(rate, f, q, new) BY <1>5 DEF IsStream
<1> QED BY <1>4, <1>6, <1>7 DEF e, StreamEffect
----------------------------------------------------------------------------------
(* The inductive invariant: besides the properties, which loop runs in which phase, *)
(* that a squeeze that runs on has used up its block, and that nothing is squeezed  *)
(* from a message that is not finished.                                             *)
Protocol ==
    /\ pc = "absorb" => phase = "absorb"
    /\ pc = "squeeze" => phase = "squeeze" /\ (outlen > 0 => pos = 0)
    /\ phase = "absorb" => out = <<>>

IInv == TypeOK /\ AbsorbsMessage /\ HashesMessage /\ OutputIsStream /\ DigestIsPrefix /\ Protocol

(* A fresh state has absorbed the empty message.                                    *)
LEMMA EmptyMessage ==
    /\ <<Zero>> \in Seq(Contents) /\ <<Zero>> # <<>> /\ Len(<<Zero>>) = 1
    /\ HoldsMessage(Rate, <<Zero>>, 0)
    /\ 0 = (Len(<<Zero>>) - 1) * Rate + 0
<1>1. Rate \in Nat \ {0} /\ (1 - 1) * Rate = 0 /\ 1 * Rate = Rate BY RateFits
<1>2. <<Zero>> \in Seq(Contents) /\ <<Zero>> # <<>> /\ Len(<<Zero>>) = 1 /\ <<Zero>>[1] = Zero
    BY ZeroType
<1>3. ASSUME NEW j \in StateIndex PROVE MessageByte(Rate, 1, j, 0) = {} /\ Zero[j] = {}
    BY <1>1, StateAssumption DEF MessageByte, Zero
<1>4. \A k \in 1 .. 1 : \A j \in StateIndex : <<Zero>>[k][j] = MessageByte(Rate, k, j, 0)
    <2>1. \A k \in 1 .. 1 : k = 1 OBVIOUS
    <2> QED BY <2>1, <1>2, <1>3
<1>5. (Len(<<Zero>>) - 1) * Rate = 0 /\ Len(<<Zero>>) * Rate = Rate BY <1>1, <1>2
<1>6. HoldsMessage(Rate, <<Zero>>, 0)
    <2> DEFINE t == <<Zero>>
    <2>1. /\ Len(t) = 1 /\ (Len(t) - 1) * Rate = 0 /\ Len(t) * Rate = Rate
          /\ \A k \in 1 .. 1 : \A j \in StateIndex : t[k][j] = MessageByte(Rate, k, j, 0)
        BY <1>2, <1>4, <1>5
    <2> HIDE DEF t
    <2>2. HoldsMessage(Rate, t, 0) BY <2>1, <1>1 DEF HoldsMessage
    <2> QED BY <2>2 DEF t
<1> QED BY <1>2, <1>5, <1>6

LEMMA InitHolds == Init => IInv
<1> SUFFICES ASSUME Init PROVE IInv OBVIOUS
<1>1. Rate \in Nat \ {0} BY RateFits
<1>2. AbsorbsMessage BY EmptyMessage DEF Init, AbsorbsMessage
<1>3. TypeOK BY EmptyMessage, <1>1 DEF Init, TypeOK
<1> QED BY <1>2, <1>3
    DEF Init, IInv, HashesMessage, OutputIsStream, DigestIsPrefix, Protocol

(* What of the invariant concerns a context that still absorbs.                     *)
LEMMA Absorbing ==
    ASSUME TypeOK', phase' = "absorb", out' = <<>>, pc' # "squeeze",
           HoldsMessage(Rate, s', absorbed'), absorbed' = (Len(s') - 1) * Rate + pos'
    PROVE  IInv'
BY DEF IInv, AbsorbsMessage, HashesMessage, OutputIsStream, DigestIsPrefix, Protocol

LEMMA IncInitKeeps == IInv /\ IncInit => IInv'
<1> SUFFICES ASSUME IInv, IncInit PROVE IInv' OBVIOUS
<1>1. Rate \in Nat \ {0} BY RateFits
<1>2. TypeOK' BY EmptyMessage, <1>1 DEF IInv, IncInit, TypeOK
<1>3. HoldsMessage(Rate, s', absorbed') /\ absorbed' = (Len(s') - 1) * Rate + pos'
    BY EmptyMessage DEF IncInit
<1>4. phase' = "absorb" /\ out' = <<>> /\ pc' # "squeeze" BY DEF IncInit
<1> QED BY <1>2, <1>3, <1>4, Absorbing

LEMMA CallAbsorbKeeps ==
    ASSUME IInv, NEW len \in 0 .. MaxMessage - absorbed, CallAbsorb(len) PROVE IInv'
<1>1. len \in Nat BY IncAssumption DEF IInv, TypeOK
<1>2. TypeOK' BY <1>1 DEF IInv, CallAbsorb, TypeOK
<1>3. HoldsMessage(Rate, s', absorbed') /\ absorbed' = (Len(s') - 1) * Rate + pos'
    BY DEF IInv, AbsorbsMessage, CallAbsorb
<1>4. phase' = "absorb" /\ out' = <<>> /\ pc' # "squeeze" BY DEF CallAbsorb, IInv, Protocol
<1> QED BY <1>2, <1>3, <1>4, Absorbing

LEMMA AbsorbBlockKeeps == IInv /\ AbsorbBlock => IInv'
<1> SUFFICES ASSUME IInv, AbsorbBlock PROVE IInv' OBVIOUS
<1> DEFINE L == Len(s)
           len == Rate - pos
           u == StateXORBytes(s, MessageBytes(absorbed, len), pos, len)
<1>1. /\ s \in Seq(Contents) /\ s # <<>> /\ pos \in 0 .. Rate - 1 /\ mlen \in Nat
      /\ absorbed \in Nat /\ pc = "absorb" /\ phase = "absorb" /\ mlen + pos >= Rate
    BY DEF IInv, TypeOK, Protocol, AbsorbBlock, FillsBlock
<1>2. /\ L \in Nat \ {0} /\ absorbed = (L - 1) * Rate + pos
      /\ \A k \in 1 .. L : BlockHolds(s, k, absorbed)
    BY <1>1, MessageBlocks DEF IInv
<1>3. /\ Rate \in Nat \ {0} /\ (L - 1) * Rate \in Nat /\ L * Rate = (L - 1) * Rate + Rate
      /\ (L + 1) * Rate = L * Rate + Rate /\ L + 1 - 1 = L
    BY <1>2, RateFits, BlockStart
<1>4. len \in Nat /\ pos + len <= Rate /\ absorbed + len = L * Rate BY <1>1, <1>2, <1>3
<1>5. AbsorbEffect(s, absorbed + len, u)
    <2> HIDE DEF len
    <2> QED BY <1>1, <1>2, <1>4, AbsorbBytes DEF u
<1>6. /\ u \in Seq(Contents) /\ u # <<>> /\ Len(u) = L
      /\ \A k \in 1 .. L : BlockHolds(u, k, L * Rate)
    BY <1>4, <1>5 DEF AbsorbEffect
<1>7. /\ s' = StatePermute(u) /\ mlen' = mlen - len /\ absorbed' = L * Rate /\ pos' = 0
      /\ pc' = pc /\ outlen' = outlen /\ phase' = phase /\ final' = final /\ out' = out
    BY <1>4 DEF AbsorbBlock
<1> HIDE DEF u, len
<1>8. /\ s' \in Seq(Contents) /\ s' # <<>> /\ Len(s') = L + 1
      /\ \A k \in 1 .. L : s'[k] = u[k]
      /\ s'[L + 1] = Zero
    BY <1>6, <1>7, Permute
<1>9. ASSUME NEW k \in 1 .. L + 1, NEW j \in StateIndex
      PROVE  s'[k][j] = MessageByte(Rate, k, j, L * Rate)
    <2>1. CASE k \in 1 .. L BY <2>1, <1>6, <1>8 DEF BlockHolds
    <2>2. CASE k = L + 1
        <3>1. j \in Nat /\ (k - 1) * Rate = L * Rate BY <2>2, <1>3, StateAssumption
        <3>2. MessageByte(Rate, k, j, L * Rate) = {} BY <3>1, <1>3 DEF MessageByte
        <3>3. Zero[j] = {} BY DEF Zero
        <3> QED BY <2>2, <3>2, <3>3, <1>8
    <2> QED BY <2>1, <2>2, <1>2
<1>10. HoldsMessage(Rate, s', absorbed') /\ absorbed' = (Len(s') - 1) * Rate + pos'
    BY <1>3, <1>7, <1>8, <1>9 DEF HoldsMessage
<1>11. mlen' \in Nat BY <1>1, <1>3, <1>7 DEF len
<1>12. TypeOK' BY <1>3, <1>7, <1>8, <1>11 DEF IInv, TypeOK
<1>13. out' = <<>> BY <1>1, <1>7 DEF IInv, Protocol
<1> QED BY <1>1, <1>7, <1>10, <1>12, <1>13, Absorbing

LEMMA AbsorbRestKeeps == IInv /\ AbsorbRest => IInv'
<1> SUFFICES ASSUME IInv, AbsorbRest PROVE IInv' OBVIOUS
<1> DEFINE L == Len(s)
           u == StateXORBytes(s, MessageBytes(absorbed, mlen), pos, mlen)
           n == absorbed + mlen
<1>1. /\ s \in Seq(Contents) /\ s # <<>> /\ pos \in 0 .. Rate - 1 /\ mlen \in Nat
      /\ absorbed \in Nat /\ pc = "absorb" /\ phase = "absorb" /\ ~ (mlen + pos >= Rate)
    BY DEF IInv, TypeOK, Protocol, AbsorbRest, FillsBlock
<1>2. /\ L \in Nat \ {0} /\ absorbed = (L - 1) * Rate + pos
      /\ \A k \in 1 .. L : BlockHolds(s, k, absorbed)
    BY <1>1, MessageBlocks DEF IInv
<1>3. Rate \in Nat \ {0} /\ (L - 1) * Rate \in Nat /\ L * Rate = (L - 1) * Rate + Rate
    BY <1>2, RateFits, BlockStart
<1>4. pos + mlen <= Rate BY <1>1, <1>3
<1>5. /\ u \in Seq(Contents) /\ u # <<>> /\ Len(u) = L
      /\ \A k \in 1 .. L : BlockHolds(u, k, n)
    <2>1. AbsorbEffect(s, n, u) BY <1>1, <1>2, <1>4, AbsorbBytes
    <2> HIDE DEF u
    <2> QED BY <2>1 DEF AbsorbEffect
<1>6. /\ s' = u /\ mlen' = 0 /\ absorbed' = n /\ pos' = pos + mlen
      /\ pc' = "idle" /\ outlen' = outlen /\ phase' = phase /\ final' = final /\ out' = out
    BY DEF AbsorbRest
<1> HIDE DEF u
<1>7. n = (L - 1) * Rate + (pos + mlen) /\ pos + mlen \in 0 .. Rate - 1 /\ n \in Nat
    BY <1>1, <1>2, <1>3
<1>8. HoldsMessage(Rate, u, n) BY <1>3, <1>5, <1>7 DEF HoldsMessage, BlockHolds
<1>9. TypeOK' BY <1>5, <1>6, <1>7 DEF IInv, TypeOK
<1>10. out' = <<>> BY <1>1, <1>6 DEF IInv, Protocol
<1> QED BY <1>1, <1>5, <1>6, <1>7, <1>8, <1>9, <1>10, Absorbing
----------------------------------------------------------------------------------
(* The stream before anything is squeezed, and the state then.                      *)
LEMMA StreamStarts ==
    ASSUME NEW rate, NEW f \in Seq(Contents), f # <<>>
    PROVE  Squeezed(f, 0) = f /\ IsStream(rate, f, 0, <<>>) /\ IsStream(rate, f, 1, <<>>)
<1>1. Len(f) \in Nat /\ Len(f) + 0 = Len(f) OBVIOUS
<1>2. Squeezed(f, 0) = f
    <2>1. Squeezed(f, 0) \in Seq(Contents) /\ Len(Squeezed(f, 0)) = Len(f)
        BY SqueezedType, <1>1
    <2>2. \A k \in 1 .. Len(f) : Squeezed(f, 0)[k] = f[k] BY <1>1 DEF Squeezed
    <2> QED BY <2>1, <2>2
<1> QED BY <1>2 DEF IsStream

(* Output that is of the first q blocks is of the first q + 1.                      *)
LEMMA StreamWeakens ==
    ASSUME NEW rate, NEW f, NEW q \in Nat, NEW o, IsStream(rate, f, q, o)
    PROVE  IsStream(rate, f, q + 1, o)
<1>1. \A p \in 1 .. q : p \in 1 .. q + 1 OBVIOUS
<1> QED BY <1>1 DEF IsStream

LEMMA FinalizeKeeps == IInv /\ Finalize => IInv'
<1> SUFFICES ASSUME IInv, Finalize PROVE IInv' OBVIOUS
<1>1. phase = "absorb" /\ out = <<>> /\ pc = "idle" /\ TypeOK /\ AbsorbsMessage
    BY DEF Finalize, IInv, Protocol
<1>2. Padded \in Seq(Contents) /\ Padded # <<>> /\ HoldsPadded(Rate, PadByte, Padded, absorbed)
    BY <1>1, PaddedHolds
<1>3. /\ s' = Padded /\ final' = Padded /\ pos' = 0 /\ phase' = "squeeze" /\ pc' = "idle"
      /\ mlen' = mlen /\ outlen' = outlen /\ absorbed' = absorbed /\ out' = <<>>
    BY <1>1 DEF Finalize
<1> DEFINE f == Padded
<1>4. f = Squeezed(f, 0) /\ IsStream(Rate, f, 0, <<>>) BY <1>2, StreamStarts
<1> HIDE DEF f
<1>5. Len(f) \in Nat /\ Len(f) - Len(f) = 0 BY <1>2 DEF f
<1>6. Rate \in Nat \ {0} /\ 0 * Rate = 0 BY RateFits
<1>7. OutputIsStream'
    <2>1. s' = f /\ final' = f BY <1>3 DEF f
    <2>2. Len(s') - Len(final') = 0 BY <2>1, <1>5
    <2>3. Len(out') = 0 * Rate - pos' BY <1>3, <1>6
    <2> QED BY <2>1, <2>2, <2>3, <1>3, <1>4 DEF OutputIsStream
<1>8. TypeOK' BY <1>1, <1>2, <1>3, <1>6 DEF TypeOK
<1> QED BY <1>2, <1>3, <1>7, <1>8
    DEF IInv, AbsorbsMessage, HashesMessage, DigestIsPrefix, Protocol

LEMMA FinalizeDigestKeeps == IInv /\ FinalizeDigest => IInv'
<1> SUFFICES ASSUME IInv, FinalizeDigest PROVE IInv' OBVIOUS
<1>1. phase = "absorb" /\ pc = "idle" /\ TypeOK /\ AbsorbsMessage
    BY DEF FinalizeDigest, IInv
<1>2. Padded \in Seq(Contents) /\ Padded # <<>> /\ HoldsPadded(Rate, PadByte, Padded, absorbed)
    BY <1>1, PaddedHolds
<1>3. /\ s' = StatePermute(Padded) /\ final' = Padded /\ pos' = 0 /\ phase' = "done"
      /\ pc' = "idle" /\ mlen' = mlen /\ outlen' = outlen /\ absorbed' = absorbed
      /\ out' = StateExtractBytes(StatePermute(Padded), 0, DigestBytes)
    BY <1>1 DEF FinalizeDigest, Digest
<1> DEFINE f == Padded
           e == StateExtractBytes(Squeezed(f, 1), 0, DigestBytes)
<1>4. f = Squeezed(f, 0) /\ IsStream(Rate, f, 1, <<>>) BY <1>2, StreamStarts
<1>5. StatePermute(f) = Squeezed(f, 1) /\ StatePermute(f) \in Seq(Contents) /\ StatePermute(f) # <<>>
    BY <1>2, <1>4, SqueezedType, Permute
<1>6. /\ Rate \in Nat \ {0} /\ (1 - 1) * Rate = 0 /\ DigestBytes \in Nat
      /\ 0 + DigestBytes <= Rate /\ 0 + 0 + DigestBytes = DigestBytes
    BY RateFits, IncAssumption
<1>7. <<>> \in Seq(OutByte) /\ Len(<<>>) = 0 /\ 1 \in Nat \ {0} OBVIOUS
<1> HIDE DEF f
<1>8. StreamEffect(Rate, f, 1, <<>> \o e, (1 - 1) * Rate + 0 + DigestBytes)
    <2>1. f \in Seq(Contents) /\ f # <<>> BY <1>2 DEF f
    <2>2. 0 \in 0 .. Rate /\ Len(<<>>) = (1 - 1) * Rate + 0 BY <1>6, <1>7
    <2> QED BY <2>1, <2>2, <1>4, <1>6, <1>7, RateFits, StreamGrows
<1>9. <<>> \o e = out'
    <2>1. out' = e BY <1>3, <1>5 DEF f
    <2>2. e = [i \in 1 .. DigestBytes |-> [of |-> Squeezed(f, 1), byte |-> 0 + i - 1]]
        BY DEF StateExtractBytes
    <2>3. e \in Seq({e[i] : i \in 1 .. DigestBytes})
        <3>1. e \in [1 .. DigestBytes -> {e[i] : i \in 1 .. DigestBytes}] BY <2>2
        <3> QED BY <3>1, <1>6
    <2> HIDE DEF e
    <2>4. <<>> \o e = e BY <2>3
    <2> QED BY <2>1, <2>4
<1>10. DigestIsPrefix' BY <1>3, <1>6, <1>8, <1>9 DEF DigestIsPrefix, f, StreamEffect
<1>11. TypeOK' BY <1>1, <1>2, <1>3, <1>5, <1>6, <1>8, <1>9 DEF TypeOK, f, StreamEffect
<1> QED BY <1>2, <1>3, <1>10, <1>11
    DEF IInv, AbsorbsMessage, HashesMessage, OutputIsStream, Protocol

LEMMA CallSqueezeKeeps ==
    ASSUME IInv, NEW len \in 0 .. MaxOutput - Len(out), CallSqueeze(len) PROVE IInv'
<1> DEFINE f == final
           q == Len(s) - Len(final)
           rest == AtMost(len, pos)
           e == StateExtractBytes(s, Rate - pos, rest)
<1>1. /\ phase = "squeeze" /\ TypeOK /\ out \in Seq(OutByte) /\ pos \in 0 .. Rate - 1
      /\ f \in Seq(Contents) /\ f # <<>> /\ s \in Seq(Contents)
      /\ q >= 0 /\ s = Squeezed(f, q) /\ Len(out) = q * Rate - pos /\ IsStream(Rate, f, q, out)
    BY DEF CallSqueeze, IInv, TypeOK, OutputIsStream
<1>2. /\ s' = s /\ final' = f /\ phase' = phase /\ mlen' = mlen /\ absorbed' = absorbed
      /\ pc' = "squeeze" /\ out' = out \o e /\ pos' = pos - rest /\ outlen' = len - rest
    BY DEF CallSqueeze
<1>3. Len(s) \in Nat /\ Len(f) \in Nat /\ Len(out) \in Nat BY <1>1
<1>4. q \in Nat /\ len \in Nat /\ Rate \in Nat \ {0}
    <2>1. len \in Nat BY <1>3, IncAssumption
    <2> QED BY <1>1, <1>3, <2>1, RateFits
<1>5. rest \in Nat /\ rest <= pos /\ rest <= len /\ (len - rest > 0 => pos - rest = 0)
    BY <1>1, <1>4 DEF AtMost
<1> HIDE DEF f, q, rest, e
<1>6. StreamEffect(Rate, f, q, out \o e, q * Rate - (pos - rest))
    <2>1. CASE q = 0
        <3>1. q * Rate = 0 BY <2>1, <1>4
        <3>2. pos = 0 /\ Len(out) = 0 BY <3>1, <1>1, <1>3
        <3>3. rest = 0 BY <3>2, <1>5
        <3>4. e = <<>> BY <3>3 DEF e, StateExtractBytes
        <3>5. out \o e = out
            <4>1. \A S, a : a \in Seq(S) => a \o <<>> = a OBVIOUS
            <4> QED BY <3>4, <4>1, <1>1
        <3> QED BY <3>1, <3>2, <3>3, <3>5, <1>1 DEF StreamEffect
    <2>2. CASE q # 0
        <3>1. q \in Nat \ {0} BY <2>2, <1>4
        <3>2. q * Rate = (q - 1) * Rate + Rate /\ (q - 1) * Rate \in Nat
            BY <3>1, <1>4, BlockStart
        <3> DEFINE from == Rate - pos
        <3>3. from \in 0 .. Rate /\ from + rest <= Rate BY <1>1, <1>4, <1>5
        <3>4. Len(out) = (q - 1) * Rate + from BY <3>2, <1>1, <1>4
        <3>5. (q - 1) * Rate + from + rest = q * Rate - (pos - rest) BY <3>2, <1>1, <1>4, <1>5
        <3>6. e = StateExtractBytes(Squeezed(f, q), from, rest) BY <1>1 DEF e
        <3> HIDE DEF from
        <3> QED BY <3>1, <3>3, <3>4, <3>5, <3>6, <1>1, <1>5, RateFits, StreamGrows
    <2> QED BY <2>1, <2>2
<1>7. OutputIsStream' BY <1>1, <1>2, <1>6 DEF OutputIsStream, StreamEffect, f, q
<1>8. pos - rest \in 0 .. Rate - 1 /\ len - rest \in Nat BY <1>1, <1>4, <1>5
<1>9. TypeOK' BY <1>1, <1>2, <1>6, <1>8 DEF TypeOK, StreamEffect, f
<1>10. Protocol' BY <1>1, <1>2, <1>5 DEF Protocol
<1> QED BY <1>1, <1>2, <1>7, <1>9, <1>10
    DEF IInv, AbsorbsMessage, HashesMessage, DigestIsPrefix, f

LEMMA SqueezeBlockKeeps == IInv /\ SqueezeBlock => IInv'
<1> SUFFICES ASSUME IInv, SqueezeBlock PROVE IInv' OBVIOUS
<1> DEFINE f == final
           q == Len(s) - Len(final)
           len == AtMost(outlen, Rate)
           e == StateExtractBytes(StatePermute(s), 0, len)
<1>1. /\ pc = "squeeze" /\ phase = "squeeze" /\ pos = 0 /\ TypeOK /\ out \in Seq(OutByte)
      /\ outlen \in Nat /\ outlen > 0
      /\ f \in Seq(Contents) /\ f # <<>> /\ s \in Seq(Contents)
      /\ q >= 0 /\ s = Squeezed(f, q) /\ Len(out) = q * Rate - pos /\ IsStream(Rate, f, q, out)
    BY DEF SqueezeBlock, IInv, TypeOK, OutputIsStream, Protocol
<1>2. /\ s' = StatePermute(s) /\ final' = f /\ phase' = phase /\ mlen' = mlen
      /\ absorbed' = absorbed /\ pc' = pc /\ out' = out \o e
      /\ outlen' = outlen - len /\ pos' = Rate - len
    BY DEF SqueezeBlock, LeftInBlock
<1>3. Len(s) \in Nat /\ Len(f) \in Nat BY <1>1
<1>4. q \in Nat /\ q + 1 \in Nat \ {0} /\ Rate \in Nat \ {0} BY <1>1, <1>3, RateFits
<1>5. /\ len \in 1 .. Rate /\ len <= outlen /\ (outlen - len > 0 => Rate - len = 0)
    BY <1>1, <1>4 DEF AtMost
<1>6. /\ StatePermute(s) = Squeezed(f, q + 1)
      /\ StatePermute(s) \in Seq(Contents) /\ StatePermute(s) # <<>>
      /\ Len(StatePermute(s)) = Len(s) + 1
    <2> HIDE DEF f, q
    <2>1. StatePermute(Squeezed(f, q)) = Squeezed(f, q + 1) BY <1>1, <1>4, SqueezedType
    <2>2. StatePermute(s) = Squeezed(f, q + 1) BY <2>1, <1>1
    <2> QED BY <2>2, <1>1, Permute
<1>7. Len(s') - Len(f) = q + 1 BY <1>2, <1>3, <1>6
<1> HIDE DEF f, q, len, e
<1>8. (q + 1) * Rate = (q + 1 - 1) * Rate + Rate /\ q + 1 - 1 = q /\ q * Rate \in Nat
    <2>1. \A a, b \in Nat : a * b \in Nat OBVIOUS
    <2> QED BY <1>4, <2>1, BlockStart
<1>9. StreamEffect(Rate, f, q + 1, out \o e, (q + 1) * Rate - (Rate - len))
    <2>1. PICK r \in Nat \ {0} : r = q + 1 BY <1>4
    <2>2. IsStream(Rate, f, q + 1, out) BY <1>1, <1>4, StreamWeakens
    <2>3. IsStream(Rate, f, r, out) BY <2>1, <2>2
    <2>4. r - 1 = q BY <1>4, <2>1
    <2>5. (r - 1) * Rate + 0 = q * Rate BY <1>8, <2>4
    <2>6. Len(out) = (r - 1) * Rate + 0 BY <1>1, <1>8, <2>5
    <2>7. 0 \in 0 .. Rate /\ len \in Nat /\ 0 + len <= Rate BY <1>4, <1>5
    <2>8. StreamEffect(Rate, f, r, out \o StateExtractBytes(Squeezed(f, r), 0, len),
                       (r - 1) * Rate + 0 + len)
        BY <1>1, <2>1, <2>3, <2>6, <2>7, RateFits, StreamGrows
    <2>9. e = StateExtractBytes(Squeezed(f, r), 0, len) BY <1>6, <2>1 DEF e
    <2>10. (r - 1) * Rate + 0 + len = (q + 1) * Rate - (Rate - len)
        BY <1>4, <1>5, <1>8, <2>4
    <2> QED BY <2>1, <2>8, <2>9, <2>10
<1>10. OutputIsStream'
    <2>1. Len(s') - Len(final') = q + 1 /\ q + 1 >= 0 BY <1>2, <1>4, <1>7
    <2>2. s' = Squeezed(final', q + 1) BY <1>2, <1>6
    <2>3. Len(out') = (q + 1) * Rate - pos' /\ IsStream(Rate, final', q + 1, out')
        BY <1>2, <1>9 DEF StreamEffect
    <2> QED BY <2>1, <2>2, <2>3 DEF OutputIsStream
<1>11. Rate - len \in 0 .. Rate - 1 /\ outlen - len \in Nat BY <1>1, <1>4, <1>5
<1>12. TypeOK' BY <1>1, <1>2, <1>6, <1>9, <1>11 DEF TypeOK, StreamEffect, f
<1>13. Protocol' BY <1>1, <1>2, <1>5 DEF Protocol
<1> QED BY <1>1, <1>2, <1>10, <1>12, <1>13
    DEF IInv, AbsorbsMessage, HashesMessage, DigestIsPrefix, f

LEMMA SqueezeReturnsKeeps == IInv /\ SqueezeReturns => IInv'
BY DEF IInv, SqueezeReturns, TypeOK, AbsorbsMessage, HashesMessage, OutputIsStream,
       DigestIsPrefix, Protocol
----------------------------------------------------------------------------------
LEMMA StepKeeps == IInv /\ [Next]_vars => IInv'
<1> SUFFICES ASSUME IInv, [Next]_vars PROVE IInv' OBVIOUS
<1>1. CASE \E len \in 0 .. MaxMessage - absorbed : CallAbsorb(len) BY <1>1, CallAbsorbKeeps
<1>2. CASE \E len \in 0 .. MaxOutput - Len(out) : CallSqueeze(len) BY <1>2, CallSqueezeKeeps
<1>3. CASE IncInit \/ AbsorbBlock \/ AbsorbRest \/ Finalize \/ FinalizeDigest
    BY <1>3, IncInitKeeps, AbsorbBlockKeeps, AbsorbRestKeeps, FinalizeKeeps, FinalizeDigestKeeps
<1>4. CASE SqueezeBlock \/ SqueezeReturns BY <1>4, SqueezeBlockKeeps, SqueezeReturnsKeeps
<1>5. CASE UNCHANGED vars
    BY <1>5 DEF vars, IInv, TypeOK, AbsorbsMessage, HashesMessage, OutputIsStream,
                DigestIsPrefix, Protocol
<1> QED BY <1>1, <1>2, <1>3, <1>4, <1>5 DEF Next, ShakeCalls, Sha3Calls

LEMMA Inductive == Spec => []IInv
BY InitHolds, StepKeeps, PTL DEF Spec

(* The context's words stay in their ranges: the position stays below the rate, so  *)
(* no write of a byte leaves the state (fips202.c:119-216).                         *)
THEOREM IncTypeCorrect == Spec => []TypeOK
BY Inductive, PTL DEF IInv

(* The state holds the message given so far, however it was split                   *)
(* (keccak_inc_absorb).                                                             *)
THEOREM MessageAbsorbed == Spec => []AbsorbsMessage
BY Inductive, PTL DEF IInv

(* The state squeezed from is the padded message (keccak_inc_finalize).             *)
THEOREM MessagePadded == Spec => []HashesMessage
BY Inductive, PTL DEF IInv

(* The output is the stream of that state, however it is taken                      *)
(* (keccak_inc_squeeze).                                                            *)
THEOREM OutputStreams == Spec => []OutputIsStream
BY Inductive, PTL DEF IInv

(* The SHA-3 digest is the beginning of the stream (sha3_*_inc_finalize).           *)
THEOREM DigestStreams == Spec => []DigestIsPrefix
BY Inductive, PTL DEF IInv
----------------------------------------------------------------------------------
(* The functions that absorb and squeeze in one call: the bytes a variable may hold,*)
OneShotTypes ==
    /\ fn \in Functions /\ at \in {"absorb", "squeeze", "returned"}
    /\ taken \in Nat /\ inlen \in Nat /\ left \in Nat /\ asked \in Nat
    /\ state \in Seq(Contents) /\ state # <<>>
    /\ padded \in Seq(Contents)
    /\ output \in Seq(OutByte)

(* that whole blocks are behind the separation block, each with its message bytes,  *)
SeparationBlock(rate) ==
    [j \in StateIndex |-> IF j < SepBytes THEN {SepByte(rate, j)} ELSE {}]

AbsorbsBlocks ==
    at = "absorb" =>
        /\ output = <<>> /\ asked = left
        /\ taken <= inlen
        /\ Len(state) > SepBlocks
        /\ taken = (Len(state) - SepBlocks - 1) * F.t
        /\ SepBlocks = 1 => state[1] = SeparationBlock(F.t)
        /\ fn # "sha3_384" =>
             \A k \in 1 .. Len(state) - SepBlocks : \A j \in StateIndex :
               state[SepBlocks + k][j] = MessageByte(F.t, k, j, taken)

(* that they are padded once,                                                       *)
PadsMessage ==
    at # "absorb" => padded # <<>> /\ (fn # "sha3_384" => StartsFromZero)

(* and that the output is what was squeezed so far.                                 *)
SqueezesBlocks ==
    at # "absorb" =>
        LET q == Len(state) - Len(padded)
        IN  /\ q >= 0 /\ state = Squeezed(padded, q) /\ IsStream(F.t, padded, q, output)
            /\ at = "squeeze" => Len(output) = q * F.t /\ asked = Len(output) + left
            /\ at = "returned" => Len(output) = asked

OneShotIInv == OneShotTypes /\ AbsorbsBlocks /\ PadsMessage /\ SqueezesBlocks

(* What the table of the functions says of the one called: the rates agree.         *)
RatesAgree ==
    /\ F.t \in Rates /\ F.absorb = F.t /\ F.squeeze = F.t /\ F.pad \in PadBytes
    /\ F.lengths \subseteq Nat
    /\ SepBlocks \in {0, 1}
    /\ SepBlocks = 1 => F.prepared = Separated(F.t)
    /\ SepBlocks = 0 => F.prepared \subseteq Uninitialised
    /\ SepBlocks = 0 /\ fn # "sha3_384" => F.prepared = Zeroed

IsUniform(rate, pad, prepared) ==
    /\ F.t = rate /\ F.absorb = rate /\ F.squeeze = rate /\ F.pad = pad
    /\ F.prepared = prepared /\ F.lengths \subseteq Nat

LEMMA UniformIs ==
    ASSUME NEW rate, NEW pad, NEW prepared, NEW lengths, lengths \subseteq Nat,
           F = Uniform(rate, pad, prepared, lengths)
    PROVE  IsUniform(rate, pad, prepared)
BY DEF IsUniform, Uniform

LEMMA FunctionRates == ASSUME fn \in Functions PROVE RatesAgree
<1>1. fn \in DOMAIN Fips202 BY FunctionsAssumption
<1>2. {ShakePad, Sha3Pad, CShakePad} \subseteq PadBytes BY OneShotAssumption
<1>3. Any \subseteq Nat /\ \A rate : Blocks(rate) \subseteq Nat BY DEF Any, Blocks
<1>4. {Sha3_256Bytes} \subseteq Nat /\ {Sha3_384Bytes} \subseteq Nat /\ {Sha3_512Bytes} \subseteq Nat
    BY OneShotAssumption
<1>5. Zeroed \subseteq Uninitialised BY DEF Zeroed, Uninitialised
<1> HIDE DEF StateIndex, Contents
<1>6. CASE fn = "shake128"
    <2>1. F = Uniform(SHAKE128_RATE, ShakePad, Zeroed, Any)
        BY <1>6 DEF F, Fips202, shake128
    <2>2. IsUniform(SHAKE128_RATE, ShakePad, Zeroed) BY <2>1, <1>3, <1>4, UniformIs
    <2>3. SepBlocks = 0 BY <1>6 DEF SepBlocks
    <2> QED BY <1>2, <1>5, <1>6, <2>2, <2>3 DEF RatesAgree, IsUniform, Rates
<1>7. CASE fn = "shake128_absorb"
    <2>1. F = Uniform(SHAKE128_RATE, ShakePad, Zeroed, Blocks(SHAKE128_RATE))
        BY <1>7 DEF F, Fips202, shake128_absorb
    <2>2. IsUniform(SHAKE128_RATE, ShakePad, Zeroed) BY <2>1, <1>3, <1>4, UniformIs
    <2>3. SepBlocks = 0 BY <1>7 DEF SepBlocks
    <2> QED BY <1>2, <1>5, <1>7, <2>2, <2>3 DEF RatesAgree, IsUniform, Rates
<1>8. CASE fn = "shake256"
    <2>1. F = Uniform(SHAKE256_RATE, ShakePad, Zeroed, Any)
        BY <1>8 DEF F, Fips202, shake256
    <2>2. IsUniform(SHAKE256_RATE, ShakePad, Zeroed) BY <2>1, <1>3, <1>4, UniformIs
    <2>3. SepBlocks = 0 BY <1>8 DEF SepBlocks
    <2> QED BY <1>2, <1>5, <1>8, <2>2, <2>3 DEF RatesAgree, IsUniform, Rates
<1>9. CASE fn = "shake256_absorb"
    <2>1. F = Uniform(SHAKE256_RATE, ShakePad, Zeroed, Blocks(SHAKE256_RATE))
        BY <1>9 DEF F, Fips202, shake256_absorb
    <2>2. IsUniform(SHAKE256_RATE, ShakePad, Zeroed) BY <2>1, <1>3, <1>4, UniformIs
    <2>3. SepBlocks = 0 BY <1>9 DEF SepBlocks
    <2> QED BY <1>2, <1>5, <1>9, <2>2, <2>3 DEF RatesAgree, IsUniform, Rates
<1>10. CASE fn = "cshake128_simple"
    <2>1. F = Uniform(SHAKE128_RATE, CShakePad, Separated(SHAKE128_RATE), Any)
        BY <1>10 DEF F, Fips202, cshake128_simple
    <2>2. IsUniform(SHAKE128_RATE, CShakePad, Separated(SHAKE128_RATE)) BY <2>1, <1>3, <1>4, UniformIs
    <2>3. SepBlocks = 1 BY <1>10 DEF SepBlocks
    <2> QED BY <1>2, <1>5, <1>10, <2>2, <2>3 DEF RatesAgree, IsUniform, Rates
<1>11. CASE fn = "cshake256_simple"
    <2>1. F = Uniform(SHAKE256_RATE, CShakePad, Separated(SHAKE256_RATE), Any)
        BY <1>11 DEF F, Fips202, cshake256_simple
    <2>2. IsUniform(SHAKE256_RATE, CShakePad, Separated(SHAKE256_RATE)) BY <2>1, <1>3, <1>4, UniformIs
    <2>3. SepBlocks = 1 BY <1>11 DEF SepBlocks
    <2> QED BY <1>2, <1>5, <1>11, <2>2, <2>3 DEF RatesAgree, IsUniform, Rates
<1>12. CASE fn = "sha3_256"
    <2>1. F = Uniform(SHA3_256_RATE, Sha3Pad, Zeroed, {Sha3_256Bytes})
        BY <1>12 DEF F, Fips202, sha3_256
    <2>2. IsUniform(SHA3_256_RATE, Sha3Pad, Zeroed) BY <2>1, <1>3, <1>4, UniformIs
    <2>3. SepBlocks = 0 BY <1>12 DEF SepBlocks
    <2> QED BY <1>2, <1>5, <1>12, <2>2, <2>3 DEF RatesAgree, IsUniform, Rates
<1>13. CASE fn = "sha3_384"
    <2>1. F = Uniform(SHA3_384_RATE, Sha3Pad, Uninitialised, {Sha3_384Bytes})
        BY <1>13 DEF F, Fips202, sha3_384
    <2>2. IsUniform(SHA3_384_RATE, Sha3Pad, Uninitialised) BY <2>1, <1>3, <1>4, UniformIs
    <2>3. SepBlocks = 0 BY <1>13 DEF SepBlocks
    <2> QED BY <1>2, <1>5, <1>13, <2>2, <2>3 DEF RatesAgree, IsUniform, Rates
<1>14. CASE fn = "sha3_512"
    <2>1. F = Uniform(SHA3_512_RATE, Sha3Pad, Zeroed, {Sha3_512Bytes})
        BY <1>14 DEF F, Fips202, sha3_512
    <2>2. IsUniform(SHA3_512_RATE, Sha3Pad, Zeroed) BY <2>1, <1>3, <1>4, UniformIs
    <2>3. SepBlocks = 0 BY <1>14 DEF SepBlocks
    <2> QED BY <1>2, <1>5, <1>14, <2>2, <2>3 DEF RatesAgree, IsUniform, Rates
<1> QED BY <1>1, <1>6, <1>7, <1>8, <1>9, <1>10, <1>11, <1>12, <1>13, <1>14 DEF Fips202

LEMMA RatesFit == \A rate \in Rates : rate \in 1 .. StateBytes /\ rate \in Nat \ {0} /\ SepBytes <= rate
BY OneShotAssumption, StateAssumption

(* The state cSHAKE prepares: the separation block, permuted.                       *)
LEMMA SeparatedState ==
    ASSUME NEW rate \in Rates, NEW t \in Separated(rate)
    PROVE  t \in Seq(Contents) /\ Len(t) = 2 /\ t[1] = SeparationBlock(rate) /\ t[2] = Zero
<1> DEFINE z == <<Zero>>
           data == [i \in 0 .. SepBytes - 1 |-> {SepByte(rate, i)}]
           u == StateXORBytes(z, data, 0, SepBytes)
<1>1. z \in Seq(Contents) /\ z # <<>> /\ Len(z) = 1 /\ z[1] = Zero BY ZeroType
<1>2. data \in [0 .. SepBytes - 1 -> SUBSET Term] BY OneShotAssumption DEF Term
<1>3. SepBytes \in Nat /\ SepBytes <= rate /\ 0 \in Nat BY OneShotAssumption
<1>4. t = StatePermute(u) BY DEF Separated
<1>5. XorEffect(z, u, data, 0, SepBytes)
    <2> HIDE DEF z, data
    <2> QED BY <1>1, <1>2, <1>3, XorBytes
<1>6. ASSUME NEW j \in StateIndex PROVE u[1][j] = SeparationBlock(rate)[j]
    <2>1. Zero[j] = {} /\ j \in Nat BY StateAssumption DEF Zero
    <2>2. u[1][j] = IF j \in 0 .. SepBytes - 1 THEN Xor({}, data[j]) ELSE {}
        <3>1. \A i \in 0 .. SepBytes - 1 : i - 0 = i OBVIOUS
        <3>2. 0 + SepBytes - 1 = SepBytes - 1 BY <1>3
        <3> HIDE DEF u, data, z
        <3> QED BY <1>1, <1>5, <2>1, <3>1, <3>2 DEF XorEffect
    <2>3. j < SepBytes <=> j \in 0 .. SepBytes - 1 BY <1>3, <2>1
    <2> HIDE DEF u
    <2> QED BY <2>2, <2>3 DEF Xor, SeparationBlock
<1>7. u \in Seq(Contents) /\ Len(u) = 1 BY <1>1, <1>5 DEF XorEffect
<1> HIDE DEF u
<1>8. u[1] \in Contents BY <1>7
<1>9. u[1] = SeparationBlock(rate) BY <1>6, <1>8 DEF SeparationBlock
<1>10. StatePermute(u)[1] = u[1] /\ Len(StatePermute(u)) = 2 /\ StatePermute(u)[2] = Zero
    <2>1. 1 \in 1 .. Len(u) /\ Len(u) + 1 = 2 BY <1>7
    <2>2. Len(StatePermute(u)) = Len(u) + 1 /\ StatePermute(u)[Len(u) + 1] = Zero BY <1>7, Permute
    <2>3. StatePermute(u)[1] = u[1] BY <1>7, <2>1, Permute
    <2> QED BY <2>1, <2>2, <2>3
<1>11. StatePermute(u) \in Seq(Contents) BY <1>7, Permute
<1> QED BY <1>4, <1>9, <1>10, <1>11

LEMMA PreparedState ==
    ASSUME fn \in Functions, state \in F.prepared
    PROVE  /\ state \in Seq(Contents) /\ Len(state) = SepBlocks + 1
           /\ SepBlocks = 1 => state[1] = SeparationBlock(F.t)
           /\ fn # "sha3_384" => state[SepBlocks + 1] = Zero
<1>1. RatesAgree BY FunctionRates
<1>2. CASE SepBlocks = 1
    <2>1. state \in Separated(F.t) /\ F.t \in Rates BY <1>1, <1>2 DEF RatesAgree
    <2> QED BY <1>2, <2>1, SeparatedState
<1>3. CASE SepBlocks = 0
    <2>1. Unknown \in Term BY StateAssumption DEF Term
    <2>2. Garbage \in Contents BY <2>1 DEF Garbage
    <2>3. state \in Uninitialised /\ (fn # "sha3_384" => state \in Zeroed)
        BY <1>1, <1>3 DEF RatesAgree
    <2>4. state = <<Zero>> \/ state = <<Garbage>> BY <2>3 DEF Uninitialised
    <2>5. state \in Seq(Contents) /\ Len(state) = 1
        <3>1. \A c \in Contents : <<c>> \in Seq(Contents) /\ Len(<<c>>) = 1
            <4> HIDE DEF Contents
            <4> QED OBVIOUS
        <3> QED BY <2>2, <2>4, <3>1, ZeroType
    <2>6. fn # "sha3_384" => state[1] = Zero
        <3>1. fn # "sha3_384" => state = <<Zero>> BY <2>3 DEF Zeroed
        <3>2. <<Zero>>[1] = Zero OBVIOUS
        <3> QED BY <3>1, <3>2
    <2> QED BY <1>3, <2>5, <2>6
<1> QED BY <1>1, <1>2, <1>3 DEF RatesAgree

LEMMA OneShotInitHolds == OneShotInit => OneShotIInv
<1> SUFFICES ASSUME OneShotInit PROVE OneShotIInv OBVIOUS
<1>1. /\ fn \in Functions /\ state \in F.prepared /\ inlen \in 0 .. MaxInput /\ left \in F.lengths
      /\ asked = left /\ at = "absorb" /\ taken = 0 /\ padded = <<>> /\ output = <<>>
    BY DEF OneShotInit
<1>2. RatesAgree /\ F.t \in Nat \ {0} /\ SepBlocks \in Nat
    BY <1>1, FunctionRates, RatesFit DEF RatesAgree
<1>3. /\ state \in Seq(Contents) /\ Len(state) = SepBlocks + 1
      /\ SepBlocks = 1 => state[1] = SeparationBlock(F.t)
      /\ fn # "sha3_384" => state[SepBlocks + 1] = Zero
    BY <1>1, PreparedState
<1>4. inlen \in Nat /\ taken <= inlen BY <1>1, OneShotAssumption
<1>5. left \in Nat BY <1>1, <1>2 DEF RatesAgree
<1>6. OneShotTypes BY <1>1, <1>2, <1>3, <1>4, <1>5 DEF OneShotTypes
<1>7. Len(state) - SepBlocks = 1 /\ (Len(state) - SepBlocks - 1) * F.t = 0 BY <1>2, <1>3
<1>8. ASSUME NEW j \in StateIndex PROVE MessageByte(F.t, 1, j, 0) = {} /\ Zero[j] = {}
    <2>1. j \in Nat /\ (1 - 1) * F.t = 0 BY <1>2, StateAssumption
    <2> QED BY <2>1 DEF MessageByte, Zero
<1>9. fn # "sha3_384" =>
        \A k \in 1 .. Len(state) - SepBlocks : \A j \in StateIndex :
          state[SepBlocks + k][j] = MessageByte(F.t, k, j, taken)
    <2>1. \A k \in 1 .. 1 : k = 1 OBVIOUS
    <2> QED BY <1>1, <1>3, <1>7, <1>8, <2>1
<1>10. AbsorbsBlocks BY <1>1, <1>2, <1>3, <1>4, <1>7, <1>9 DEF AbsorbsBlocks
<1> QED BY <1>1, <1>6, <1>10 DEF OneShotIInv, PadsMessage, SqueezesBlocks
----------------------------------------------------------------------------------
(* A block of message bytes: those before it are full.                              *)
LEMMA EarlierBlocks ==
    ASSUME NEW rate \in 1 .. StateBytes, NEW K \in Nat \ {0}, NEW k \in 1 .. K - 1
    PROVE  k \in Nat \ {0} /\ k < K /\ k * rate <= (K - 1) * rate
<1>1. rate \in Nat BY RateIsNat
<1>2. k * rate = (k - 1) * rate + rate BY <1>1, BlockStart
<1> QED BY <1>1, <1>2, BlocksApart

LEMMA AbsorbWholeKeeps == OneShotIInv /\ AbsorbWhole => OneShotIInv'
<1> SUFFICES ASSUME OneShotIInv, AbsorbWhole PROVE OneShotIInv' OBVIOUS
<1> DEFINE r == F.t
           K == Len(state) - SepBlocks
           data == MessageBytes(taken, r)
           u == StateXORBytes(state, data, 0, r)
<1>1. /\ OneShotTypes /\ AbsorbsBlocks /\ at = "absorb" /\ inlen - taken >= r
      /\ r \in 1 .. StateBytes /\ r \in Nat \ {0} /\ SepBlocks \in {0, 1}
      /\ state' = StatePermute(u) /\ taken' = taken + r
    <2>1. RatesAgree BY FunctionRates DEF OneShotIInv, OneShotTypes
    <2>2. r \in Rates /\ F.absorb = r /\ SepBlocks \in {0, 1} BY <2>1 DEF RatesAgree
    <2> QED BY <2>2, RatesFit DEF OneShotIInv, AbsorbWhole, FullBlock
<1>2. /\ fn' = fn /\ at' = at /\ inlen' = inlen /\ left' = left /\ asked' = asked
      /\ padded' = padded /\ output' = output /\ F' = F /\ SepBlocks' = SepBlocks
    BY DEF AbsorbWhole, F, SepBlocks
<1>3. /\ state \in Seq(Contents) /\ state # <<>> /\ taken \in Nat /\ inlen \in Nat
      /\ output = <<>> /\ asked = left /\ Len(state) > SepBlocks /\ taken = (K - 1) * r
      /\ SepBlocks = 1 => state[1] = SeparationBlock(r)
      /\ fn # "sha3_384" => \A k \in 1 .. K : \A j \in StateIndex :
                              state[SepBlocks + k][j] = MessageByte(r, k, j, taken)
    BY <1>1 DEF OneShotTypes, AbsorbsBlocks
<1>4. K \in Nat \ {0} /\ Len(state) \in Nat /\ Len(state) = SepBlocks + K BY <1>1, <1>3
<1>5. data \in [0 .. r - 1 -> SUBSET Term] BY <1>1, <1>3 DEF MessageBytes, Term
<1> HIDE DEF data
<1>6. XorEffect(state, u, data, 0, r) BY <1>1, <1>3, <1>5, XorBytes
<1>7. u \in Seq(Contents) /\ u # <<>> /\ Len(u) = SepBlocks + K BY <1>4, <1>6 DEF XorEffect
<1> HIDE DEF u
<1>8. /\ state' \in Seq(Contents) /\ state' # <<>> /\ Len(state') = SepBlocks + K + 1
      /\ \A i \in 1 .. SepBlocks + K : state'[i] = u[i]
      /\ state'[SepBlocks + K + 1] = Zero
    BY <1>1, <1>7, Permute
<1> HIDE DEF K, r
<1>9. taken' = K * r /\ taken' <= inlen /\ taken' \in Nat /\ taken + r = taken'
    <2>1. K * r = (K - 1) * r + r BY <1>1, <1>4, BlockStart
    <2> QED BY <2>1, <1>1, <1>3
<1>10. SepBlocks = 1 => state'[1] = SeparationBlock(r)
    <2> SUFFICES ASSUME SepBlocks = 1 PROVE state'[1] = SeparationBlock(r) OBVIOUS
    <2>1. 1 \in 1 .. Len(state) - 1 /\ 1 \in 1 .. SepBlocks + K BY <1>4
    <2>2. u[1] = state[1] BY <1>6, <2>1 DEF XorEffect
    <2> QED BY <1>3, <1>8, <2>1, <2>2
<1>11. ASSUME fn # "sha3_384", NEW k \in 1 .. K + 1, NEW j \in StateIndex
       PROVE  state'[SepBlocks + k][j] = MessageByte(r, k, j, taken')
    <2>1. CASE k < K
        <3>1. k \in 1 .. K - 1 /\ k \in 1 .. K BY <1>4, <2>1
        <3>2. k \in Nat \ {0} /\ k * r <= taken BY <1>1, <1>3, <1>4, <3>1, EarlierBlocks
        <3>3. taken <= taken' BY <1>1, <1>3, <1>9
        <3>4. MessageByte(r, k, j, taken) = MessageByte(r, k, j, taken')
            BY <3>2, <3>3, <1>1, <1>3, <1>9, BlockIsFull
        <3>5. SepBlocks + k \in 1 .. Len(state) - 1 /\ SepBlocks + k \in 1 .. SepBlocks + K
            BY <1>1, <1>4, <3>1
        <3>6. state'[SepBlocks + k] = state[SepBlocks + k]
            BY <1>6, <1>8, <3>5 DEF XorEffect
        <3> QED BY <1>3, <1>11, <3>1, <3>4, <3>6
    <2>2. CASE k = K
        <3>1. BlockEffect(r, K, taken, 0, r, taken', j)
            <4>1. 0 \in 0 .. r - 1 /\ taken = (K - 1) * r + 0 /\ 0 + r <= r BY <1>1, <1>3
            <4> QED BY <4>1, <1>1, <1>3, <1>4, <1>9, BlockTakes
        <3>2. K \in 1 .. K /\ SepBlocks + K \in 1 .. SepBlocks + K BY <1>1, <1>4
        <3>3. state[SepBlocks + K][j] = MessageByte(r, K, j, taken) BY <1>3, <1>11, <3>2
        <3>4. u[SepBlocks + K][j] = IF j \in 0 .. 0 + r - 1
                                    THEN Xor(state[SepBlocks + K][j], data[j - 0])
                                    ELSE state[SepBlocks + K][j]
            BY <1>4, <1>6 DEF XorEffect
        <3> QED BY <1>8, <2>2, <3>1, <3>2, <3>3, <3>4 DEF BlockEffect, data
    <2>3. CASE k = K + 1
        <3>1. j \in Nat /\ (k - 1) * r = taken' BY <2>3, <1>4, <1>9, StateAssumption
        <3>2. MessageByte(r, k, j, taken') = {} BY <3>1, <1>9 DEF MessageByte
        <3>3. Zero[j] = {} BY DEF Zero
        <3>4. SepBlocks + k = SepBlocks + K + 1 BY <2>3, <1>1, <1>4
        <3> QED BY <3>2, <3>3, <3>4, <1>8
    <2> QED BY <1>4, <2>1, <2>2, <2>3
<1>12. AbsorbsBlocks'
    <2>1. Len(state') - SepBlocks = K + 1 /\ Len(state') - SepBlocks - 1 = K /\ Len(state') > SepBlocks
        BY <1>1, <1>4, <1>8
    <2>2. F'.t = r BY <1>2 DEF r
    <2> QED BY <1>2, <1>3, <1>9, <1>10, <1>11, <2>1, <2>2 DEF AbsorbsBlocks
<1>13. OneShotTypes' BY <1>1, <1>2, <1>8, <1>9 DEF OneShotTypes
<1> QED BY <1>1, <1>2, <1>12, <1>13 DEF OneShotIInv, PadsMessage, SqueezesBlocks

(* keccak_absorb's last block: what is left of the message, and the padding.        *)
LastByte(r, pad, n, m, j) ==
    IF j < r
    THEN (CASE j < m - n -> {n + j} [] j = m - n -> {pad} [] OTHER -> {})
         \cup (IF j = r - 1 THEN {EndByte} ELSE {})
    ELSE {}

LastBlockEffect(r, pad, K, n, m, j) ==
    LastByte(r, pad, n, m, j) = MessageByte(r, K, j, m) \cup PaddingByte(r, pad, K, j, m, K)

LEMMA LastBlockHolds ==
    ASSUME NEW r \in 1 .. StateBytes, NEW pad \in PadBytes, NEW K \in Nat \ {0}, NEW n \in Nat,
           NEW m \in Nat, n = (K - 1) * r, n <= m, m < n + r, NEW j \in StateIndex
    PROVE  LastBlockEffect(r, pad, K, n, m, j)
<1> USE DEF LastBlockEffect, LastByte
<1>1. j \in Nat /\ r \in Nat \ {0} BY RateIsNat
<1>2. CASE ~ (j < r)
    <2>1. j # r - 1 BY <1>1, <1>2
    <2> QED BY <1>2, <2>1 DEF MessageByte, PaddingByte
<1>3. CASE j < r
    <2>1. (j < m - n <=> n + j < m) /\ (j = m - n <=> n + j = m) BY <1>1
    <2>2. CASE j < m - n
        <3>1. MessageByte(r, K, j, m) = {n + j} BY <1>3, <2>1, <2>2 DEF MessageByte
        <3>2. n + j # m BY <1>1, <2>2
        <3> QED BY <1>3, <2>2, <3>1, <3>2 DEF PaddingByte
    <2>3. CASE j = m - n
        <3>1. n + j = m /\ ~ (n + j < m) /\ ~ (j < m - n) BY <1>1, <2>3
        <3> QED BY <1>3, <2>3, <3>1 DEF MessageByte, PaddingByte
    <2>4. CASE ~ (j < m - n) /\ j # m - n
        <3>1. ~ (n + j < m) /\ n + j # m BY <2>1, <2>4
        <3> QED BY <1>3, <2>4, <3>1 DEF MessageByte, PaddingByte
    <2> QED BY <2>2, <2>3, <2>4
<1> QED BY <1>2, <1>3

(* The rest of a sequence, and the beginning of the bytes of a state.               *)
LEMMA RestOf ==
    ASSUME NEW S, NEW t \in Seq(S), NEW d \in Nat, d < Len(t)
    PROVE  /\ Len(SubSeq(t, d + 1, Len(t))) = Len(t) - d
           /\ \A k \in 1 .. Len(t) - d : SubSeq(t, d + 1, Len(t))[k] = t[d + k]
<1> DEFINE L == Len(t)
           R == SubSeq(t, d + 1, L)
<1>1. L \in Nat /\ d + 1 \in Nat \ {0} /\ L - (d + 1) + 1 = L - d /\ L - d \in Nat OBVIOUS
<1> HIDE DEF L
<1>2. R = [k \in 1 .. L - (d + 1) + 1 |-> t[d + 1 + k - 1]] BY <1>1
<1>3. Len(R) = L - d BY <1>1, <1>2
<1>4. ASSUME NEW k \in 1 .. L - d PROVE R[k] = t[d + k]
    <2>1. d + 1 + k - 1 = d + k /\ k \in 1 .. L - (d + 1) + 1 BY <1>1
    <2> QED BY <1>2, <2>1
<1> HIDE DEF R
<1> QED BY <1>3, <1>4 DEF R, L

LEMMA ExtractPrefix ==
    ASSUME NEW p, NEW r \in Nat, NEW len \in 0 .. r
    PROVE  SubSeq(StateExtractBytes(p, 0, r), 1, len) = StateExtractBytes(p, 0, len)
<1> DEFINE b(i) == [of |-> p, byte |-> 0 + i - 1]
           S == {b(i) : i \in 1 .. r}
           t == [i \in 1 .. r |-> b(i)]
<1>1. StateExtractBytes(p, 0, r) = t /\ StateExtractBytes(p, 0, len) = [i \in 1 .. len |-> b(i)]
    BY DEF StateExtractBytes
<1>2. t \in Seq(S) /\ Len(t) = r
    <2>1. t \in [1 .. r -> S] OBVIOUS
    <2> HIDE DEF t, S
    <2>2. t \in Seq(S) BY <2>1
    <2>3. DOMAIN t = 1 .. r BY <2>1
    <2>4. DOMAIN t = 1 .. Len(t) /\ Len(t) \in Nat BY <2>2
    <2> QED BY <2>2, <2>3, <2>4
<1> HIDE DEF b, S
<1>3. \A i \in 1 .. len : 1 + i - 1 = i /\ i \in 1 .. r /\ t[i] = b(i) OBVIOUS
<1> HIDE DEF t
<1>4. SubSeq(t, 1, len) = [i \in 1 .. len |-> t[i]]
    <2>1. len - 1 + 1 = len OBVIOUS
    <2> QED BY <1>2, <1>3, <2>1
<1> QED BY <1>1, <1>3, <1>4

LEMMA AbsorbLastKeeps == OneShotIInv /\ AbsorbLast => OneShotIInv'
<1> SUFFICES ASSUME OneShotIInv, AbsorbLast PROVE OneShotIInv' OBVIOUS
<1> DEFINE r == F.t
           K == Len(state) - SepBlocks
           u == StateXORBytes(state, LastBlock, 0, r)
<1>1. /\ OneShotTypes /\ AbsorbsBlocks /\ at = "absorb" /\ ~ (inlen - taken >= r)
      /\ r \in 1 .. StateBytes /\ r \in Nat \ {0} /\ SepBlocks \in {0, 1} /\ F.absorb = r
      /\ F.pad \in PadBytes /\ state' = u /\ padded' = u /\ at' = "squeeze"
    <2>1. RatesAgree BY FunctionRates DEF OneShotIInv, OneShotTypes
    <2>2. r \in Rates /\ F.absorb = r /\ SepBlocks \in {0, 1} /\ F.pad \in PadBytes
        BY <2>1 DEF RatesAgree
    <2> QED BY <2>2, RatesFit DEF OneShotIInv, AbsorbLast, FullBlock
<1>2. /\ fn' = fn /\ taken' = taken /\ inlen' = inlen /\ left' = left /\ asked' = asked
      /\ output' = output /\ F' = F /\ SepBlocks' = SepBlocks
    BY DEF AbsorbLast, F, SepBlocks
<1>3. /\ state \in Seq(Contents) /\ state # <<>> /\ taken \in Nat /\ inlen \in Nat
      /\ output = <<>> /\ asked = left /\ Len(state) > SepBlocks /\ taken = (K - 1) * r
      /\ taken <= inlen /\ left \in Nat
      /\ SepBlocks = 1 => state[1] = SeparationBlock(r)
      /\ fn # "sha3_384" => \A k \in 1 .. K : \A j \in StateIndex :
                              state[SepBlocks + k][j] = MessageByte(r, k, j, taken)
    BY <1>1 DEF OneShotTypes, AbsorbsBlocks
<1>4. K \in Nat \ {0} /\ Len(state) \in Nat /\ Len(state) = SepBlocks + K BY <1>1, <1>3
<1>5. LastBlock \in [0 .. r - 1 -> SUBSET Term]
    <2> DEFINE b(i) == CASE i < inlen - taken -> {taken + i}
                         [] i = inlen - taken -> {F.pad}
                         [] OTHER -> {}
    <2>1. ASSUME NEW i \in 0 .. r - 1 PROVE b(i) \subseteq Term
        <3>1. taken + i \in Nat BY <1>1, <1>3
        <3>2. F.pad \in Term BY <1>1 DEF PadBytes, Term
        <3>3. CASE i < inlen - taken BY <3>3, <3>1 DEF Term
        <3>4. CASE i = inlen - taken
            <4>1. ~ (i < inlen - taken) BY <3>4, <1>1, <1>3
            <4> QED BY <3>4, <4>1, <3>2
        <3>5. CASE ~ (i < inlen - taken) /\ i # inlen - taken BY <3>5
        <3> QED BY <3>3, <3>4, <3>5
    <2>2. EndByte \in Term BY StateAssumption DEF Term
    <2>3. LastBlock = [i \in 0 .. r - 1 |-> b(i) \cup (IF i = r - 1 THEN {EndByte} ELSE {})]
        BY <1>1 DEF LastBlock
    <2> HIDE DEF b
    <2>4. \A i \in 0 .. r - 1 : b(i) \cup (IF i = r - 1 THEN {EndByte} ELSE {}) \in SUBSET Term
        BY <2>1, <2>2
    <2> QED BY <2>3, <2>4
<1>6. XorEffect(state, u, LastBlock, 0, r) BY <1>1, <1>3, <1>5, XorBytes
<1>7. /\ u \in Seq(Contents) /\ u # <<>> /\ Len(u) = SepBlocks + K
      /\ \A k \in 1 .. SepBlocks + K - 1 : u[k] = state[k]
    <2> HIDE DEF u, K
    <2>1. Len(state) - 1 = SepBlocks + K - 1 BY <1>1, <1>4
    <2> QED BY <1>4, <1>6, <2>1 DEF XorEffect
<1> DEFINE of == SubSeq(u, SepBlocks + 1, Len(u))
<1>8. OfMessage' = of BY <1>1, <1>2 DEF OfMessage
<1> HIDE DEF u
<1>9. Len(of) = K /\ \A k \in 1 .. K : of[k] = u[SepBlocks + k]
    <2> HIDE DEF K
    <2>1. SepBlocks \in Nat /\ SepBlocks < Len(u) /\ Len(u) - SepBlocks = K BY <1>1, <1>4, <1>7
    <2> QED BY <2>1, <1>7, RestOf
<1> HIDE DEF of, K, r
<1>10. (K - 1) * r <= inlen /\ inlen < K * r /\ inlen < taken + r
    <2>1. K * r = (K - 1) * r + r BY <1>1, <1>4, BlockStart
    <2> QED BY <2>1, <1>1, <1>3
<1>11. ASSUME fn # "sha3_384", NEW k \in 1 .. K, NEW j \in StateIndex
       PROVE  of[k][j] = MessageByte(r, k, j, inlen) \cup PaddingByte(r, F.pad, k, j, inlen, K)
    <2>1. state[SepBlocks + k][j] = MessageByte(r, k, j, taken) BY <1>3, <1>11
    <2>2. CASE k # K
        <3>1. k \in 1 .. K - 1 BY <1>4, <2>2
        <3>2. k \in Nat \ {0} /\ k * r <= taken BY <1>1, <1>3, <1>4, <3>1, EarlierBlocks
        <3>3. k * r \in Nat
            <4>1. \A a, c \in Nat : a * c \in Nat OBVIOUS
            <4> QED BY <4>1, <3>2, <1>1
        <3>4. k * r <= inlen BY <3>2, <3>3, <1>3
        <3>5. MessageByte(r, k, j, taken) = MessageByte(r, k, j, inlen)
            BY <3>2, <1>1, <1>3, BlockIsFull
        <3>6. PaddingByte(r, F.pad, k, j, inlen, K) = {}
            BY <2>2, <3>2, <3>4, <1>1, <1>3, NoPadding
        <3>7. SepBlocks + k \in 1 .. SepBlocks + K - 1 BY <1>1, <1>4, <3>1
        <3> QED BY <1>7, <1>9, <2>1, <3>5, <3>6, <3>7
    <2>3. CASE k = K
        <3>1. j \in Nat BY StateAssumption
        <3>2. u[SepBlocks + K][j] = IF j \in 0 .. 0 + r - 1
                                    THEN Xor(state[SepBlocks + K][j], LastBlock[j - 0])
                                    ELSE state[SepBlocks + K][j]
            BY <1>4, <1>6 DEF XorEffect
        <3>3. j - 0 = j /\ (j \in 0 .. 0 + r - 1 <=> j < r) /\ (j < r => j \in 0 .. r - 1)
            BY <1>1, <3>1
        <3>4. state[SepBlocks + K][j] = {}
            <4>1. MessageByte(r, K, j, taken) = {} BY <1>3, <3>1 DEF MessageByte
            <4> QED BY <2>1, <2>3, <4>1
        <3>5. of[K][j] = IF j < r THEN LastBlock[j] ELSE {}
            <4>1. of[K] = u[SepBlocks + K] BY <1>4, <1>9
            <4>2. \A c : Xor({}, c) = c BY DEF Xor
            <4> QED BY <4>1, <4>2, <3>2, <3>3, <3>4
        <3>6. j < r => LastBlock[j] = (CASE j < inlen - taken -> {taken + j}
                                         [] j = inlen - taken -> {F.pad}
                                         [] OTHER -> {})
                                      \cup (IF j = r - 1 THEN {EndByte} ELSE {})
            BY <1>1, <3>3 DEF LastBlock
        <3>7. of[K][j] = LastByte(r, F.pad, taken, inlen, j) BY <3>5, <3>6 DEF LastByte
        <3>8. LastBlockEffect(r, F.pad, K, taken, inlen, j)
            BY <1>1, <1>3, <1>4, <1>10, LastBlockHolds
        <3> QED BY <2>3, <3>7, <3>8 DEF LastBlockEffect
    <2> QED BY <2>2, <2>3
<1>12. F'.t = r /\ F'.pad = F.pad BY <1>2 DEF r
<1>13. fn # "sha3_384" => HoldsPadded(r, F.pad, of, inlen)
    BY <1>9, <1>10, <1>11 DEF HoldsPadded
<1>14. SepBlocks = 1 => padded'[1] = SeparationBlock(r)
    <2> SUFFICES ASSUME SepBlocks = 1 PROVE padded'[1] = SeparationBlock(r) OBVIOUS
    <2>1. 1 \in 1 .. SepBlocks + K - 1 BY <1>4
    <2> QED BY <1>1, <1>3, <1>7, <2>1 DEF u
<1>15. PadsMessage'
    <2>1. padded' # <<>> BY <1>1, <1>7 DEF u
    <2>2. fn' # "sha3_384" => StartsFromZero'
        BY <1>2, <1>8, <1>12, <1>13, <1>14 DEF StartsFromZero, SeparationBlock
    <2> QED BY <2>1, <2>2 DEF PadsMessage
<1>16. SqueezesBlocks'
    <2>1. padded' \in Seq(Contents) /\ padded' # <<>> /\ state' = padded' BY <1>1, <1>7 DEF u
    <2>2. Len(state') - Len(padded') = 0 BY <2>1
    <2>3. state' = Squeezed(padded', 0) /\ IsStream(r, padded', 0, <<>>) BY <2>1, StreamStarts
    <2>4. Len(output') = 0 * r /\ asked' = Len(output') + left' BY <1>1, <1>2, <1>3
    <2> QED BY <1>1, <1>2, <1>3, <1>12, <2>2, <2>3, <2>4 DEF SqueezesBlocks
<1>17. OneShotTypes'
    <2>1. state' \in Seq(Contents) /\ state' # <<>> /\ padded' \in Seq(Contents)
        BY <1>1, <1>7 DEF u
    <2> QED BY <1>1, <1>2, <2>1 DEF OneShotTypes
<1> QED BY <1>1, <1>15, <1>16, <1>17 DEF OneShotIInv, AbsorbsBlocks
----------------------------------------------------------------------------------
(* One more permutation, and the first len bytes of the state.                      *)
LEMMA OneMoreBlock ==
    ASSUME OneShotIInv, at = "squeeze", NEW len \in 0 .. F.t
    PROVE  LET q == Len(state) - Len(padded)
               e == StateExtractBytes(StatePermute(state), 0, len)
           IN  /\ q \in Nat /\ F.t \in Nat \ {0} /\ Len(output) = q * F.t /\ asked = Len(output) + left
               /\ padded \in Seq(Contents) /\ padded # <<>> /\ state = Squeezed(padded, q)
               /\ StatePermute(state) \in Seq(Contents) /\ StatePermute(state) # <<>>
               /\ Len(StatePermute(state)) - Len(padded) = q + 1
               /\ StatePermute(state) = Squeezed(padded, q + 1)
               /\ StreamEffect(F.t, padded, q + 1, output \o e, q * F.t + len)
               /\ (q + 1) * F.t = q * F.t + F.t /\ q * F.t \in Nat
<1> DEFINE r == F.t
           f == padded
           q == Len(state) - Len(f)
           e == StateExtractBytes(StatePermute(state), 0, len)
<1>1. /\ r \in 1 .. StateBytes /\ r \in Nat \ {0}
      /\ f \in Seq(Contents) /\ f # <<>> /\ state \in Seq(Contents) /\ output \in Seq(OutByte)
      /\ q >= 0 /\ state = Squeezed(f, q) /\ IsStream(r, f, q, output)
      /\ Len(output) = q * r /\ asked = Len(output) + left
    <2>1. RatesAgree BY FunctionRates DEF OneShotIInv, OneShotTypes
    <2>2. r \in Rates BY <2>1 DEF RatesAgree
    <2> QED BY <2>2, RatesFit DEF OneShotIInv, OneShotTypes, PadsMessage, SqueezesBlocks
<1>2. Len(state) \in Nat /\ Len(f) \in Nat /\ q \in Nat /\ len \in Nat /\ len <= r BY <1>1
<1> HIDE DEF f, r
<1>3. /\ StatePermute(state) \in Seq(Contents) /\ StatePermute(state) # <<>>
      /\ Len(StatePermute(state)) = Len(state) + 1
    BY <1>1, Permute
<1>4. Len(StatePermute(state)) - Len(f) = q + 1 BY <1>2, <1>3
<1> HIDE DEF q
<1>5. StatePermute(state) = Squeezed(f, q + 1)
    <2>1. StatePermute(Squeezed(f, q)) = Squeezed(f, q + 1) BY <1>1, <1>2, SqueezedType
    <2> QED BY <2>1, <1>1
<1>6. (q + 1) * r = q * r + r /\ q * r \in Nat
    <2>1. \A a, b \in Nat : a * b \in Nat OBVIOUS
    <2>2. q + 1 \in Nat \ {0} /\ q + 1 - 1 = q BY <1>2
    <2> QED BY <1>1, <1>2, <2>1, <2>2, BlockStart
<1>7. StreamEffect(r, f, q + 1, output \o e, q * r + len)
    <2>1. PICK p \in Nat \ {0} : p = q + 1 BY <1>2
    <2>2. IsStream(r, f, p, output) BY <1>1, <1>2, <2>1, StreamWeakens
    <2>3. p - 1 = q BY <1>2, <2>1
    <2>4. Len(output) = (p - 1) * r + 0 BY <1>1, <1>6, <2>3
    <2>5. 0 \in 0 .. r /\ 0 + len <= r BY <1>1, <1>2
    <2>6. StreamEffect(r, f, p, output \o StateExtractBytes(Squeezed(f, p), 0, len), (p - 1) * r + 0 + len)
        BY <1>1, <1>2, <2>2, <2>4, <2>5, StreamGrows
    <2>7. e = StateExtractBytes(Squeezed(f, p), 0, len) BY <1>5, <2>1
    <2>8. (p - 1) * r + 0 + len = q * r + len BY <1>2, <1>6, <2>3
    <2> QED BY <2>1, <2>6, <2>7, <2>8
<1> QED BY <1>1, <1>2, <1>3, <1>4, <1>5, <1>6, <1>7 DEF f, r, q

LEMMA SqueezeWholeKeeps == OneShotIInv /\ SqueezeWhole => OneShotIInv'
<1> SUFFICES ASSUME OneShotIInv, SqueezeWhole PROVE OneShotIInv' OBVIOUS
<1> DEFINE r == F.t
           f == padded
           q == Len(state) - Len(f)
           p == StatePermute(state)
           e == StateExtractBytes(p, 0, r)
<1>1. /\ OneShotTypes /\ PadsMessage /\ at = "squeeze" /\ left >= r
      /\ r \in Nat \ {0} /\ r \in 0 .. r
      /\ state' = p /\ output' = output \o e /\ left' = left - r
    <2>1. RatesAgree BY FunctionRates DEF OneShotIInv, OneShotTypes
    <2>2. r \in Rates /\ F.squeeze = r BY <2>1 DEF RatesAgree
    <2>3. r \in Nat \ {0} BY <2>2, RatesFit
    <2> QED BY <2>2, <2>3 DEF OneShotIInv, SqueezeWhole
<1>2. /\ fn' = fn /\ at' = at /\ taken' = taken /\ inlen' = inlen /\ asked' = asked
      /\ padded' = f /\ F' = F /\ SepBlocks' = SepBlocks
    BY DEF SqueezeWhole, F, SepBlocks
<1>3. /\ q \in Nat /\ Len(output) = q * r /\ asked = Len(output) + left
      /\ p \in Seq(Contents) /\ p # <<>> /\ Len(p) - Len(f) = q + 1 /\ p = Squeezed(f, q + 1)
      /\ StreamEffect(r, f, q + 1, output \o e, q * r + r)
      /\ (q + 1) * r = q * r + r /\ q * r \in Nat
    BY <1>1, OneMoreBlock
<1> HIDE DEF r, q, p, e
<1>4. left \in Nat /\ left - r \in Nat BY <1>1 DEF OneShotTypes
<1>5. output' \in Seq(OutByte) /\ Len(output') = q * r + r /\ IsStream(r, f, q + 1, output')
    BY <1>1, <1>3 DEF StreamEffect
<1>6. SqueezesBlocks'
    <2>1. Len(state') - Len(padded') = q + 1 /\ q + 1 >= 0 /\ at' = "squeeze" /\ F'.t = r
        BY <1>1, <1>2, <1>3 DEF r
    <2>2. asked' = Len(output') + left' BY <1>1, <1>2, <1>3, <1>4, <1>5
    <2>3. Len(output') = (q + 1) * r BY <1>3, <1>5
    <2>4. state' = Squeezed(padded', q + 1) /\ IsStream(r, padded', q + 1, output')
        BY <1>1, <1>2, <1>3, <1>5
    <2> QED BY <2>1, <2>2, <2>3, <2>4 DEF SqueezesBlocks
<1>7. PadsMessage'
    BY <1>1, <1>2 DEF PadsMessage, StartsFromZero, OfMessage
<1>8. OneShotTypes' BY <1>1, <1>2, <1>3, <1>4, <1>5 DEF OneShotTypes
<1> QED BY <1>1, <1>2, <1>6, <1>7, <1>8 DEF OneShotIInv, AbsorbsBlocks

LEMMA SqueezeRestKeeps == OneShotIInv /\ SqueezeRest => OneShotIInv'
<1> SUFFICES ASSUME OneShotIInv, SqueezeRest PROVE OneShotIInv' OBVIOUS
<1> DEFINE r == F.t
           f == padded
           q == Len(state) - Len(f)
           p == StatePermute(state)
           e == StateExtractBytes(p, 0, left)
<1>1. /\ OneShotTypes /\ PadsMessage /\ SqueezesBlocks /\ at = "squeeze" /\ left < r
      /\ r \in Nat \ {0} /\ left \in Nat /\ left' = 0 /\ at' = "returned"
      /\ F.squeeze = r
    <2>1. RatesAgree BY FunctionRates DEF OneShotIInv, OneShotTypes
    <2>2. r \in Rates /\ F.squeeze = r BY <2>1 DEF RatesAgree
    <2>3. r \in Nat \ {0} BY <2>2, RatesFit
    <2> QED BY <2>2, <2>3 DEF OneShotIInv, OneShotTypes, SqueezeRest
<1>2. /\ fn' = fn /\ taken' = taken /\ inlen' = inlen /\ asked' = asked
      /\ padded' = f /\ F' = F /\ SepBlocks' = SepBlocks
    BY DEF SqueezeRest, F, SepBlocks
<1>3. left \in 0 .. r BY <1>1
<1>4. /\ q \in Nat /\ Len(output) = q * r /\ asked = Len(output) + left
      /\ p \in Seq(Contents) /\ p # <<>> /\ Len(p) - Len(f) = q + 1 /\ p = Squeezed(f, q + 1)
      /\ StreamEffect(r, f, q + 1, output \o e, q * r + left) /\ q * r \in Nat
      /\ state = Squeezed(f, q)
    BY <1>1, <1>3, OneMoreBlock
<1>5. F'.t = r /\ output \in Seq(OutByte) /\ state \in Seq(Contents) /\ state # <<>>
    BY <1>1, <1>2 DEF OneShotTypes
<1>6. CASE left = 0
    <2>1. state' = state /\ output' = output BY <1>6 DEF SqueezeRest
    <2>2. Len(output') = asked' BY <1>1, <1>2, <1>4, <1>6, <2>1
    <2>3. SqueezesBlocks' BY <1>1, <1>2, <2>1, <2>2 DEF SqueezesBlocks
    <2>4. PadsMessage' BY <1>1, <1>2 DEF PadsMessage, StartsFromZero, OfMessage
    <2>5. OneShotTypes' BY <1>1, <1>2, <2>1 DEF OneShotTypes
    <2> QED BY <1>1, <2>3, <2>4, <2>5 DEF OneShotIInv, AbsorbsBlocks
<1>7. CASE left > 0
    <2>1. state' = p /\ output' = output \o SubSeq(StateExtractBytes(p, 0, r), 1, left)
        BY <1>1, <1>7 DEF SqueezeRest
    <2>2. SubSeq(StateExtractBytes(p, 0, r), 1, left) = e
        <3> HIDE DEF r, p, q
        <3> QED BY <1>1, <1>3, ExtractPrefix
    <2> HIDE DEF r, q, p, e
    <2>3. output' \in Seq(OutByte) /\ Len(output') = q * r + left /\ IsStream(r, f, q + 1, output')
        BY <1>4, <2>1, <2>2 DEF StreamEffect
    <2>4. SqueezesBlocks'
        <3>1. Len(state') - Len(padded') = q + 1 /\ q + 1 >= 0 BY <1>2, <1>4, <2>1
        <3>2. Len(output') = asked' BY <1>2, <1>4, <2>3
        <3>3. state' = Squeezed(padded', q + 1) /\ IsStream(r, padded', q + 1, output')
            BY <1>2, <1>4, <2>1, <2>3
        <3> QED BY <1>1, <1>5, <3>1, <3>2, <3>3 DEF SqueezesBlocks
    <2>5. PadsMessage' BY <1>1, <1>2 DEF PadsMessage, StartsFromZero, OfMessage
    <2>6. OneShotTypes' BY <1>1, <1>2, <1>4, <2>1, <2>3 DEF OneShotTypes
    <2> QED BY <1>1, <2>4, <2>5, <2>6 DEF OneShotIInv, AbsorbsBlocks
<1> QED BY <1>1, <1>6, <1>7
----------------------------------------------------------------------------------
LEMMA OneShotStepKeeps == OneShotIInv /\ [OneShotNext]_oneShotVars => OneShotIInv'
<1> SUFFICES ASSUME OneShotIInv, [OneShotNext]_oneShotVars PROVE OneShotIInv' OBVIOUS
<1>1. CASE AbsorbWhole \/ AbsorbLast BY <1>1, AbsorbWholeKeeps, AbsorbLastKeeps
<1>2. CASE SqueezeWhole \/ SqueezeRest BY <1>2, SqueezeWholeKeeps, SqueezeRestKeeps
<1>3. CASE UNCHANGED oneShotVars
    BY <1>3 DEF oneShotVars, OneShotIInv, OneShotTypes, AbsorbsBlocks, PadsMessage,
                SqueezesBlocks, StartsFromZero, OfMessage, SepBlocks, F
<1> QED BY <1>1, <1>2, <1>3 DEF OneShotNext

LEMMA OneShotInductive == OneShotSpec => []OneShotIInv
BY OneShotInitHolds, OneShotStepKeeps, PTL DEF OneShotSpec

(* Every function of fips202.c but sha3_384, which leaves its state uninitialised   *)
(* (fips202.c:687), squeezes from a state that depends on its message, its padding  *)
(* byte and its separation block only (keccak_absorb).                              *)
THEOREM MessageFromZero == OneShotSpec => [](fn # "sha3_384" => StartsFromZero)
<1>1. OneShotIInv => (fn # "sha3_384" => StartsFromZero)
    BY DEF OneShotIInv, PadsMessage, StartsFromZero
<1> QED BY <1>1, OneShotInductive, PTL

(* Every function returns the beginning of the stream of that state, as long as     *)
(* what the caller asked for (keccak_squeezeblocks and the functions' last block).  *)
THEOREM StreamReturned == OneShotSpec => []ReturnsStream
<1>1. OneShotIInv => ReturnsStream
    BY DEF OneShotIInv, SqueezesBlocks, ReturnsStream
<1> QED BY <1>1, OneShotInductive, PTL
==================================================================================
