------------------------------- MODULE KeccakF1600 -------------------------------
(* The permutation, bit by bit, in the three ways the repository computes it: the  *)
(* reference (KeccakF-1600-reference.c), two rounds unrolled in one loop body      *)
(* (keccakf1600.c), and the combinational round of the accelerator                 *)
(* (keccak_round.vhd).  A state is 25 lanes, lane x + 5y; a lane is the set of its *)
(* one bits.                                                                       *)
EXTENDS Integers, Sequences

nrRounds == 24
Lane == 0 .. 24
Bits == 0 .. 63
State == [Lane -> SUBSET Bits]

index(x, y) == (x % 5) + 5 * (y % 5)
Xor(a, b) == (a \ b) \cup (b \ a)
Not(a) == Bits \ a
ROL64(a, offset) == {(i + offset) % 64 : i \in a}

Parity(A, x) == Xor(Xor(Xor(Xor(A[x], A[x + 5]), A[x + 10]), A[x + 15]), A[x + 20])
----------------------------------------------------------------------------------
(* The reference.  Tables are filled by KeccakInitialize.                          *)

LFSR86540(s) ==
    Xor({i + 1 : i \in s \ {7}}, IF 7 \in s THEN {0, 4, 5, 6} ELSE {})
LFSRsteps[s \in SUBSET (0 .. 7), n \in 0 .. 7] ==
    IF n = 0 THEN s ELSE LFSRsteps[LFSR86540(s), n - 1]
LFSRstate[r \in 0 .. nrRounds - 1] ==
    IF r = 0 THEN {0} ELSE LFSRsteps[LFSRstate[r - 1], 7]
KeccakRoundConstants ==
    [r \in 0 .. nrRounds - 1 |->
        {2^j - 1 : j \in {k \in 0 .. 6 : 0 \in LFSRsteps[LFSRstate[r], k]}}]

RhoWalk[t \in 0 .. 23] ==
    IF t = 0 THEN <<1, 0>>
    ELSE LET p == RhoWalk[t - 1] IN <<p[2], (2 * p[1] + 3 * p[2]) % 5>>
KeccakRhoOffsets ==
    [l \in Lane |->
        IF l = 0 THEN 0
        ELSE LET t == CHOOSE n \in 0 .. 23 : index(RhoWalk[n][1], RhoWalk[n][2]) = l
             IN (((t + 1) * (t + 2)) \div 2) % 64]

theta(A) ==
    LET C == [x \in 0 .. 4 |-> Parity(A, x)]
        D == [x \in 0 .. 4 |-> Xor(ROL64(C[(x + 1) % 5], 1), C[(x + 4) % 5])]
    IN [l \in Lane |-> Xor(A[l], D[l % 5])]

rho(A) == [l \in Lane |-> ROL64(A[l], KeccakRhoOffsets[l])]

(* A[index(y, 2x + 3y)] = tempA[index(x, y)], read from the target's side.         *)
PiSource ==
    [l \in Lane |-> CHOOSE k \in Lane : index(k \div 5, 2 * (k % 5) + 3 * (k \div 5)) = l]
pi(A) == [l \in Lane |-> A[PiSource[l]]]

chi_InPlace(A) ==                       \* mutant: lane 0 of the row already replaced
    [l \in Lane |->
        LET x == l % 5   y == l \div 5
            c0 == Xor(A[5 * y], Not(A[5 * y + 1]) \cap A[5 * y + 2])
        IN IF x = 3 THEN Xor(A[l], Not(A[l + 1]) \cap c0)
           ELSE Xor(A[l], Not(A[index(x + 1, y)]) \cap A[index(x + 2, y)])]
chi(A) ==
    [l \in Lane |->
        LET x == l % 5   y == l \div 5
        IN Xor(A[l], Not(A[index(x + 1, y)]) \cap A[index(x + 2, y)])]

iota(A, indexRound) == [A EXCEPT ![0] = Xor(@, KeccakRoundConstants[indexRound])]
----------------------------------------------------------------------------------
(* keccakf1600.c.  Its loop body is two rounds, from the lanes A to the lanes E    *)
(* and back, and each is written out plane by plane.  For each lane computed, the  *)
(* lane it comes from and how far that is rotated; the letters are the code's.     *)

KeccakF_RoundConstants == <<
    {0}, {1, 7, 15}, {1, 3, 7, 15, 63}, {15, 31, 63},
    {0, 1, 3, 7, 15}, {0, 31}, {0, 7, 15, 31, 63}, {0, 3, 15, 63},
    {1, 3, 7}, {3, 7}, {0, 3, 15, 31}, {1, 3, 31},
    {0, 1, 3, 7, 15, 31}, {0, 1, 3, 7, 63}, {0, 3, 7, 15, 63}, {0, 1, 15, 63},
    {1, 15, 63}, {7, 63}, {1, 3, 15}, {1, 3, 31, 63},
    {0, 7, 15, 31, 63}, {7, 15, 63}, {0, 31}, {3, 15, 31, 63} >>

PlanesAE == <<
    <<0, 0>>,  <<6, 44>>,  <<12, 43>>, <<18, 21>>, <<24, 14>>,    \* ba ge ki mo su
    <<3, 28>>, <<9, 20>>,  <<10, 3>>,  <<16, 45>>, <<22, 61>>,    \* bo gu ka me si
    <<1, 1>>,  <<7, 6>>,   <<13, 25>>, <<19, 8>>,  <<20, 18>>,    \* be gi ko mu sa
    <<4, 27>>, <<5, 36>>,  <<11, 10>>, <<17, 15>>, <<23, 56>>,    \* bu ga ke mi so
    <<2, 62>>, <<8, 55>>,  <<14, 39>>, <<15, 41>>, <<21, 2>> >>   \* bi go ku ma se

PlanesEA == <<
    <<0, 0>>,  <<6, 44>>,  <<12, 43>>, <<18, 21>>, <<24, 14>>,
    <<3, 28>>, <<9, 20>>,  <<10, 3>>,  <<16, 45>>, <<22, 61>>,
    <<1, 1>>,  <<7, 6>>,   <<13, 25>>, <<19, 8>>,  <<20, 18>>,
    <<4, 27>>, <<5, 36>>,  <<11, 10>>, <<17, 15>>, <<23, 56>>,
    <<2, 62>>, <<8, 55>>,  <<14, 39>>, <<15, 41>>, <<21, 2>> >>

(* prepareTheta and the lanes Da .. Du.                                            *)
ThetaEffect_Mirrored(A) ==              \* mutant: the columns left and right swapped
    LET BC == [x \in 0 .. 4 |-> Parity(A, x)]
    IN [x \in 0 .. 4 |-> Xor(BC[(x + 1) % 5], ROL64(BC[(x + 4) % 5], 1))]
ThetaEffect(A) ==
    LET BC == [x \in 0 .. 4 |-> Parity(A, x)]
    IN [x \in 0 .. 4 |-> Xor(BC[(x + 4) % 5], ROL64(BC[(x + 1) % 5], 1))]

UnrolledRound(A, round) ==
    LET planes == IF round % 2 = 0 THEN PlanesAE ELSE PlanesEA
        rc == KeccakF_RoundConstants[round + 1]
        D == ThetaEffect(A)
        BC == [l \in Lane |->
                 LET from == planes[l + 1][1]
                 IN ROL64(Xor(A[from], D[from % 5]), planes[l + 1][2])]
    IN [l \in Lane |->
          LET x == l % 5   y == 5 * (l \div 5)
              chied == Xor(BC[l], Not(BC[y + ((x + 1) % 5)]) \cap BC[y + ((x + 2) % 5)])
          IN IF l = 0 THEN Xor(chied, rc) ELSE chied]
----------------------------------------------------------------------------------
(* keccak_round.vhd, bit by bit; keccak_round_constants_gen.vhd has the constants. *)

sum_sheet_Short(s, x) ==                 \* mutant: a lane of the sheet left out
    {i \in Bits : (((i \in s[x]) # (i \in s[x + 5])) # (i \in s[x + 10])) # (i \in s[x + 15])}
sum_sheet(s, x) ==
    {i \in Bits : (((i \in s[x]) # (i \in s[x + 5])) # (i \in s[x + 10]))
                  # ((i \in s[x + 15]) # (i \in s[x + 20]))}

theta_out(s) ==
    LET sheet == [x \in 0 .. 4 |-> sum_sheet(s, x)]
    IN [l \in Lane |->
          LET x == l % 5
              left == sheet[IF x = 0 THEN 4 ELSE x - 1]
              right == sheet[IF x = 4 THEN 0 ELSE x + 1]
          IN {i \in Bits : ((i \in s[l]) # (i \in left))
                           # ((IF i = 0 THEN 63 ELSE i - 1) \in right)}]

RhoRotations == <<
    0, 1, 62, 28, 27,   36, 44, 6, 55, 20,   3, 10, 43, 25, 39,
    41, 45, 15, 21, 8,   18, 2, 61, 56, 14 >>
rho_out(s) == [l \in Lane |-> {i \in Bits : (i - RhoRotations[l + 1]) % 64 \in s[l]}]

PiTarget(l) == 5 * ((2 * (l % 5) + 3 * (l \div 5)) % 5) + (l \div 5)
pi_out(s) == [l \in Lane |-> s[CHOOSE k \in Lane : PiTarget(k) = l]]

chi_out(s) ==
    [l \in Lane |->
        LET x == l % 5   row == 5 * (l \div 5)
            next == CASE x <= 2 -> <<row + x + 1, row + x + 2>>
                      [] x = 3  -> <<row + 4, row>>
                      [] x = 4  -> <<row, row + 1>>
        IN {i \in Bits : (i \in s[l]) # (i \notin s[next[1]] /\ i \in s[next[2]])}]

RoundConstantCases == <<
    {0}, {1, 7, 15}, {1, 3, 7, 15, 63}, {15, 31, 63},
    {0, 1, 3, 7, 15}, {0, 31}, {0, 7, 15, 31, 63}, {0, 3, 15, 63},
    {1, 3, 7}, {3, 7}, {0, 3, 15, 31}, {1, 3, 31},
    {0, 1, 3, 7, 15, 31}, {0, 1, 3, 7, 63}, {0, 3, 7, 15, 63}, {0, 1, 15, 63},
    {1, 15, 63}, {7, 63}, {1, 3, 15}, {1, 3, 31, 63},
    {0, 7, 15, 31, 63}, {7, 15, 63}, {0, 31}, {3, 15, 31, 63} >>
round_constant_signal(round_number) ==
    IF round_number < 24 THEN RoundConstantCases[round_number + 1] ELSE {}

iota_out(s, round_number) ==
    [l \in Lane |->
        IF l = 0
        THEN {i \in Bits : (i \in s[0]) # (i \in round_constant_signal(round_number))}
        ELSE s[l]]
----------------------------------------------------------------------------------
(* The tables agree: closed formulas, which TLC evaluates.  The reference computes *)
(* its constants and offsets, the two others have them written out.                *)
ASSUME TablesAssumption ==
    /\ PiSource \in [Lane -> Lane]
    /\ KeccakRhoOffsets \in [Lane -> 0 .. 63]
    /\ KeccakRoundConstants \in [0 .. nrRounds - 1 -> SUBSET Bits]
    /\ \A l \in Lane :
        /\ PlanesAE[l + 1] = <<PiSource[l], KeccakRhoOffsets[PiSource[l]]>>
        /\ PlanesEA[l + 1] = <<PiSource[l], KeccakRhoOffsets[PiSource[l]]>>
        /\ RhoRotations[l + 1] = KeccakRhoOffsets[l]
        /\ \A k \in Lane : PiTarget(k) = l <=> k = PiSource[l]
    /\ \A r \in 0 .. nrRounds - 1 :
         /\ KeccakF_RoundConstants[r + 1] = KeccakRoundConstants[r]
         /\ RoundConstantCases[r + 1] = KeccakRoundConstants[r]
----------------------------------------------------------------------------------
(* The state as 200 bytes, least significant byte of a lane first.                 *)
ByteIndex == 0 .. 199
fromWordsToBytes(A) ==
    [n \in ByteIndex |-> {b \in 0 .. 7 : 8 * (n % 8) + b \in A[n \div 8]}]
fromBytesToWords_BigEndian(bytes) ==    \* mutant: the first byte on top
    [l \in Lane |-> UNION {{8 * (7 - j) + b : b \in bytes[8 * l + j]} : j \in 0 .. 7}]
fromBytesToWords(bytes) ==
    [l \in Lane |-> UNION {{8 * j + b : b \in bytes[8 * l + j]} : j \in 0 .. 7}]

StateXORBytes(A, data, offset, length) ==
    [l \in Lane |->
        Xor(A[l], UNION {{8 * (n % 8) + b : b \in data[n - offset]} :
                            n \in {m \in offset .. offset + length - 1 : m \div 8 = l}})]
StateExtractBytes(A, offset, length) ==
    [i \in 0 .. length - 1 |->
        {b \in 0 .. 7 : 8 * ((offset + i) % 8) + b \in A[(offset + i) \div 8]}]
==================================================================================
