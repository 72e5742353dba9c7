------------------------------ MODULE ReferenceProofs ------------------------------
(* What the reference code promises, for every value of the constants: that the three *)
(* implementations of a round, and of the order of bytes, are one (KeccakF1600,       *)
(* PermutationVectors), that the sponge hashes the padded message and returns its     *)
(* stream (RefSponge), that duplex blocks tell their inputs (RefDuplex), and that a   *)
(* generator of known answers writes those of its file, all of them if it returns     *)
(* success (GenKat).                                                                  *)
EXTENDS PermutationVectors, RefSponge, RefDuplex, GenKat, FiniteSetTheorems, TLAPS

(* Exclusive or does not depend on the order of its operands.                         *)
LEMMA XorComm == ASSUME NEW a, NEW b PROVE Xor(a, b) = Xor(b, a)
  BY DEF Xor

LEMMA XorBits == ASSUME NEW a \in SUBSET Bits, NEW b \in SUBSET Bits
                 PROVE  Xor(a, b) \in SUBSET Bits
  BY DEF Xor

LEMMA RotBits == ASSUME NEW a \in SUBSET Bits, NEW n \in 0 .. 63
                 PROVE  ROL64(a, n) \in SUBSET Bits
  BY DEF ROL64, Bits

(* What the arithmetic of lane numbers comes to.                                      *)
LEMMA LaneNumbers ==
  ASSUME NEW l \in Lane
  PROVE  /\ l % 5 \in 0 .. 4 /\ l \div 5 \in 0 .. 4 /\ l = 5 * (l \div 5) + (l % 5)
         /\ \A d \in 1 .. 4 :
              /\ ((l % 5) + d) % 5 \in 0 .. 4
              /\ index((l % 5) + d, l \div 5) = 5 * (l \div 5) + (((l % 5) + d) % 5)
              /\ index((l % 5) + d, l \div 5) \in Lane
<1>1. l % 5 \in 0 .. 4 /\ l \div 5 \in 0 .. 4 /\ l = 5 * (l \div 5) + (l % 5)
  BY DEF Lane
<1>2. ASSUME NEW d \in 1 .. 4, NEW x \in 0 .. 4, NEW y \in 0 .. 4
      PROVE  /\ (x + d) % 5 \in 0 .. 4
             /\ index(x + d, y) = 5 * y + ((x + d) % 5)
             /\ index(x + d, y) \in Lane
  BY DEF index, Lane
<1>. QED BY <1>1, <1>2

(* The parities of the columns, and of a state the lanes are sets of bits.            *)
LEMMA ParityBits == ASSUME NEW S \in State, NEW x \in 0 .. 4
                    PROVE  Parity(S, x) \in SUBSET Bits
<1>1. {x, x + 5, x + 10, x + 15, x + 20} \subseteq Lane
  BY DEF Lane
<1>2. S[x] \in SUBSET Bits /\ S[x + 5] \in SUBSET Bits /\ S[x + 10] \in SUBSET Bits
      /\ S[x + 15] \in SUBSET Bits /\ S[x + 20] \in SUBSET Bits
  BY <1>1 DEF State
<1>. QED BY <1>2, XorBits DEF Parity
------------------------------------------------------------------------------------
(* theta, the same in both programs up to the order of one exclusive or.              *)
LEMMA ThetaEffectIsD ==
  ASSUME NEW S \in State, NEW x \in 0 .. 4
  PROVE  /\ ThetaEffect(S)[x] =
              Xor(ROL64(Parity(S, (x + 1) % 5), 1), Parity(S, (x + 4) % 5))
         /\ ThetaEffect(S)[x] \in SUBSET Bits
<1>1. (x + 1) % 5 \in 0 .. 4 /\ (x + 4) % 5 \in 0 .. 4
  OBVIOUS
<1>2. ThetaEffect(S)[x] = Xor(Parity(S, (x + 4) % 5), ROL64(Parity(S, (x + 1) % 5), 1))
  BY <1>1 DEF ThetaEffect
<1>3. /\ Parity(S, (x + 1) % 5) \in SUBSET Bits
      /\ Parity(S, (x + 4) % 5) \in SUBSET Bits
  BY <1>1, ParityBits
<1>4. ROL64(Parity(S, (x + 1) % 5), 1) \in SUBSET Bits
  BY <1>3, RotBits
<1>. QED BY <1>2, <1>3, <1>4, XorComm, XorBits

LEMMA ThetaLane ==
  ASSUME NEW S \in State, NEW l \in Lane
  PROVE  theta(S)[l] = Xor(S[l], ThetaEffect(S)[l % 5]) /\ theta(S)[l] \in SUBSET Bits
<1>1. l % 5 \in 0 .. 4 /\ ((l % 5) + 1) % 5 \in 0 .. 4 /\ ((l % 5) + 4) % 5 \in 0 .. 4
  BY LaneNumbers
<1>2. theta(S)[l] = Xor(S[l], Xor(ROL64(Parity(S, ((l % 5) + 1) % 5), 1),
                                  Parity(S, ((l % 5) + 4) % 5)))
  BY <1>1 DEF theta
<1>3. S[l] \in SUBSET Bits
  BY DEF State
<1>. QED BY <1>1, <1>2, <1>3, ThetaEffectIsD, XorBits

(* rho, pi: the lane that the plane table names, rotated by what it says.             *)
Moved(S) == pi(rho(theta(S)))

LEMMA MovedLane ==
  ASSUME NEW S \in State, NEW l \in Lane
  PROVE  /\ Moved(S)[l] = ROL64(theta(S)[PiSource[l]], KeccakRhoOffsets[PiSource[l]])
         /\ Moved(S)[l] \in SUBSET Bits
<1>1. PiSource[l] \in Lane /\ KeccakRhoOffsets[PiSource[l]] \in 0 .. 63
  BY TablesAssumption
<1>2. theta(S)[PiSource[l]] \in SUBSET Bits
  BY <1>1, ThetaLane
<1>3. Moved(S)[l] = ROL64(theta(S)[PiSource[l]], KeccakRhoOffsets[PiSource[l]])
  BY <1>1 DEF Moved, pi, rho
<1>. QED BY <1>1, <1>2, <1>3, RotBits

(* A round of keccakf1600.c is a round of the reference, for every state and in both  *)
(* halves of the loop body.                                                           *)
THEOREM UnrolledRoundIsReference ==
  ASSUME NEW S \in State, NEW rd \in 0 .. nrRounds - 1
  PROVE  UnrolledRound(S, rd) = iota(chi(Moved(S)), rd)
<1>. DEFINE planes == IF rd % 2 = 0 THEN PlanesAE ELSE PlanesEA
            BC == [l \in Lane |-> ROL64(Xor(S[planes[l + 1][1]],
                                            ThetaEffect(S)[planes[l + 1][1] % 5]),
                                        planes[l + 1][2])]
            rc == KeccakF_RoundConstants[rd + 1]
            Chied(B, l) == Xor(B[l], Not(B[5 * (l \div 5) + (((l % 5) + 1) % 5)])
                                       \cap B[5 * (l \div 5) + (((l % 5) + 2) % 5)])
<1>1. ASSUME NEW l \in Lane PROVE BC[l] = Moved(S)[l]
  <2>1. planes[l + 1] = <<PiSource[l], KeccakRhoOffsets[PiSource[l]]>> /\ PiSource[l] \in Lane
    BY TablesAssumption
  <2>2. planes[l + 1][1] = PiSource[l] /\ planes[l + 1][2] = KeccakRhoOffsets[PiSource[l]]
    BY <2>1
  <2>3. theta(S)[PiSource[l]] = Xor(S[PiSource[l]], ThetaEffect(S)[PiSource[l] % 5])
    BY <2>1, ThetaLane
  <2>4. BC[l] = ROL64(theta(S)[PiSource[l]], KeccakRhoOffsets[PiSource[l]])
    BY <2>2, <2>3
  <2>. QED BY <2>4, MovedLane
<1>2. UnrolledRound(S, rd) = [l \in Lane |-> IF l = 0 THEN Xor(Chied(BC, l), rc)
                                            ELSE Chied(BC, l)]
  BY DEF UnrolledRound
<1>3. ASSUME NEW l \in Lane PROVE Chied(BC, l) = chi(Moved(S))[l]
  <2>. DEFINE n1 == 5 * (l \div 5) + (((l % 5) + 1) % 5)
              n2 == 5 * (l \div 5) + (((l % 5) + 2) % 5)
  <2>1. /\ index((l % 5) + 1, l \div 5) = n1 /\ n1 \in Lane
        /\ index((l % 5) + 2, l \div 5) = n2 /\ n2 \in Lane
    BY LaneNumbers
  <2>2. chi(Moved(S))[l] = Xor(Moved(S)[l], Not(Moved(S)[n1]) \cap Moved(S)[n2])
    BY <2>1 DEF chi
  <2>3. BC[l] = Moved(S)[l] /\ BC[n1] = Moved(S)[n1] /\ BC[n2] = Moved(S)[n2]
    BY <1>1, <2>1
  <2>4. Chied(BC, l) = Xor(BC[l], Not(BC[n1]) \cap BC[n2])
    OBVIOUS
  <2>. HIDE DEF n1, n2, BC, Chied
  <2>. QED BY <2>2, <2>3, <2>4
<1>4. rc = KeccakRoundConstants[rd]
  BY TablesAssumption
<1>5. iota(chi(Moved(S)), rd) = [l \in Lane |-> IF l = 0 THEN Xor(chi(Moved(S))[l], rc)
                                               ELSE chi(Moved(S))[l]]
  <2>1. DOMAIN chi(Moved(S)) = Lane /\ 0 \in Lane
    BY DEF chi, Lane
  <2>2. chi(Moved(S)) = [l \in Lane |-> chi(Moved(S))[l]]
    BY DEF chi
  <2>. HIDE DEF rc
  <2>. QED BY <1>4, <2>1, <2>2 DEF iota
<1>. HIDE DEF BC, rc, Chied
<1>. QED BY <1>2, <1>3, <1>5
------------------------------------------------------------------------------------
(* The accelerator's signals, one by one.                                             *)
LEMMA XorBit ==
  ASSUME NEW a, NEW b, NEW z
  PROVE  z \in Xor(a, b) <=> ((z \in a) # (z \in b))
  BY DEF Xor

LEMMA RotBit ==
  ASSUME NEW a \in SUBSET Bits, NEW n \in 0 .. 63, NEW z \in Bits
  PROVE  z \in ROL64(a, n) <=> (z - n) % 64 \in a
<1>1. ASSUME NEW j \in Bits PROVE z = (j + n) % 64 <=> j = (z - n) % 64
  BY DEF Bits
<1>2. (z - n) % 64 \in Bits
  BY DEF Bits
<1>3. z \in ROL64(a, n) <=> \E j \in a : z = (j + n) % 64
  BY DEF ROL64
<1>. QED BY <1>1, <1>2, <1>3

LEMMA XorGrouping ==
  ASSUME NEW a \in BOOLEAN, NEW d \in BOOLEAN, NEW e \in BOOLEAN
  PROVE  (a # (d # e)) <=> ((a # d) # e)
<1>1. CASE a = TRUE BY <1>1
<1>2. CASE a = FALSE BY <1>2
<1>. QED BY <1>1, <1>2

LEMMA SheetIsParity ==
  ASSUME NEW s \in State, NEW x \in 0 .. 4
  PROVE  sum_sheet(s, x) = Parity(s, x)
<1>1. ASSUME NEW z \in Bits PROVE z \in sum_sheet(s, x) <=> z \in Parity(s, x)
  <2>. DEFINE a == z \in s[x]
              b == z \in s[x + 5]
              c == z \in s[x + 10]
              d == z \in s[x + 15]
              e == z \in s[x + 20]
  <2>1. z \in sum_sheet(s, x) <=> (((a # b) # c) # (d # e))
    BY DEF sum_sheet
  <2>2. z \in Parity(s, x) <=> ((((a # b) # c) # d) # e)
    BY XorBit DEF Parity
  <2>3. ((a # b) # c) \in BOOLEAN /\ d \in BOOLEAN /\ e \in BOOLEAN
    OBVIOUS
  <2>. HIDE DEF a, b, c, d, e
  <2>4. (((a # b) # c) # (d # e)) <=> ((((a # b) # c) # d) # e)
    BY <2>3, XorGrouping
  <2>. QED BY <2>1, <2>2, <2>4
<1>. QED BY <1>1, ParityBits DEF sum_sheet

LEMMA ThetaOut == ASSUME NEW s \in State PROVE theta_out(s) = theta(s)
<1>1. ASSUME NEW l \in Lane PROVE theta_out(s)[l] = theta(s)[l]
  <2>. DEFINE x == l % 5
              left == Parity(s, (x + 4) % 5)
              right == Parity(s, (x + 1) % 5)
  <2>1. /\ x \in 0 .. 4 /\ (x + 1) % 5 \in 0 .. 4 /\ (x + 4) % 5 \in 0 .. 4
        /\ (IF x = 0 THEN 4 ELSE x - 1) = (x + 4) % 5
        /\ (IF x = 4 THEN 0 ELSE x + 1) = (x + 1) % 5
    BY LaneNumbers
  <2>2. /\ s[l] \in SUBSET Bits /\ left \in SUBSET Bits /\ right \in SUBSET Bits
        /\ ROL64(right, 1) \in SUBSET Bits
    BY <2>1, ParityBits, RotBits DEF State
  <2>3. theta_out(s)[l] =
          {z \in Bits : ((z \in s[l]) # (z \in sum_sheet(s, (x + 4) % 5)))
                         # ((IF z = 0 THEN 63 ELSE z - 1) \in sum_sheet(s, (x + 1) % 5))}
    <3>. HIDE DEF x, left, right
    <3>. QED BY <2>1 DEF theta_out, x
  <2>4. theta_out(s)[l] = {z \in Bits : ((z \in s[l]) # (z \in left))
                                        # ((IF z = 0 THEN 63 ELSE z - 1) \in right)}
    BY <2>1, <2>3, SheetIsParity
  <2>5. theta(s)[l] = Xor(s[l], Xor(ROL64(right, 1), left))
    BY <2>1 DEF theta
  <2>. HIDE DEF x, left, right
  <2>6. ASSUME NEW z \in Bits PROVE z \in theta_out(s)[l] <=> z \in theta(s)[l]
    <3>1. (IF z = 0 THEN 63 ELSE z - 1) = (z - 1) % 64
      BY DEF Bits
    <3>2. (IF z = 0 THEN 63 ELSE z - 1) \in right <=> z \in ROL64(right, 1)
      BY <3>1, <2>2, RotBit
    <3>. DEFINE a == z \in s[l]
                b == z \in left
                c == z \in ROL64(right, 1)
    <3>3. z \in theta_out(s)[l] <=> ((a # b) # c)
      BY <2>4, <3>2
    <3>4. z \in theta(s)[l] <=> (a # (c # b))
      BY <2>5, XorBit
    <3>5. a \in BOOLEAN /\ b \in BOOLEAN /\ c \in BOOLEAN
      OBVIOUS
    <3>. HIDE DEF a, b, c
    <3>6. (a # (b # c)) <=> ((a # b) # c)
      BY <3>5, XorGrouping
    <3>7. (a # (b # c)) <=> (a # (c # b))
      BY <3>5
    <3>. QED BY <3>3, <3>4, <3>6, <3>7
  <2>7. theta_out(s)[l] \in SUBSET Bits /\ theta(s)[l] \in SUBSET Bits
    BY <2>4, ThetaLane
  <2>. QED BY <2>6, <2>7
<1>2. theta_out(s) = [l \in Lane |-> theta_out(s)[l]]
  BY DEF theta_out
<1>3. theta(s) = [l \in Lane |-> theta(s)[l]]
  BY DEF theta
<1>. QED BY <1>1, <1>2, <1>3

LEMMA RhoOut == ASSUME NEW s \in State PROVE rho_out(s) = rho(s)
<1>1. ASSUME NEW l \in Lane PROVE rho_out(s)[l] = rho(s)[l]
  <2>. DEFINE n == KeccakRhoOffsets[l]
  <2>1. n \in 0 .. 63 /\ RhoRotations[l + 1] = n
    BY TablesAssumption
  <2>2. s[l] \in SUBSET Bits
    BY DEF State
  <2>3. rho_out(s)[l] = {z \in Bits : (z - n) % 64 \in s[l]}
    BY <2>1 DEF rho_out
  <2>4. rho(s)[l] = ROL64(s[l], n)
    BY DEF rho
  <2>. HIDE DEF n
  <2>. QED BY <2>1, <2>2, <2>3, <2>4, RotBit, RotBits
<1>. QED BY <1>1 DEF rho_out, rho

LEMMA PiOut == ASSUME NEW s \in State PROVE pi_out(s) = pi(s)
<1>1. ASSUME NEW l \in Lane PROVE (CHOOSE k \in Lane : PiTarget(k) = l) = PiSource[l]
  BY TablesAssumption
<1>. DEFINE from(l) == CHOOSE k \in Lane : PiTarget(k) = l
<1>2. pi_out(s) = [l \in Lane |-> s[from(l)]]
  BY DEF pi_out
<1>3. \A l \in Lane : from(l) = PiSource[l]
  BY <1>1
<1>. HIDE DEF from
<1>. QED BY <1>2, <1>3 DEF pi

LEMMA ChiOut == ASSUME NEW s \in State PROVE chi_out(s) = chi(s)
<1>1. ASSUME NEW l \in Lane PROVE chi_out(s)[l] = chi(s)[l]
  <2>. DEFINE x == l % 5
              row == 5 * (l \div 5)
              n1 == index(x + 1, l \div 5)
              n2 == index(x + 2, l \div 5)
              next == CASE x <= 2 -> <<row + x + 1, row + x + 2>>
                        [] x = 3  -> <<row + 4, row>>
                        [] x = 4  -> <<row, row + 1>>
  <2>1. /\ x \in 0 .. 4 /\ row \in Int
        /\ n1 \in Lane /\ n1 = row + ((x + 1) % 5)
        /\ n2 \in Lane /\ n2 = row + ((x + 2) % 5)
    BY LaneNumbers
  <2>2. chi_out(s)[l] = {z \in Bits : (z \in s[l]) # (z \notin s[next[1]] /\ z \in s[next[2]])}
    BY DEF chi_out
  <2>3. chi(s)[l] = Xor(s[l], Not(s[n1]) \cap s[n2])
    BY DEF chi
  <2>4. next[1] = n1 /\ next[2] = n2
    <3>. HIDE DEF x, row, n1, n2
    <3>1. CASE x <= 2
      <4>1. (x + 1) % 5 = x + 1 /\ (x + 2) % 5 = x + 2
        BY <2>1, <3>1
      <4>. QED BY <4>1, <2>1, <3>1
    <3>2. CASE x = 3
      BY <2>1, <3>2
    <3>3. CASE x = 4
      BY <2>1, <3>3
    <3>. QED BY <2>1, <3>1, <3>2, <3>3
  <2>5. s[l] \in SUBSET Bits /\ s[n1] \in SUBSET Bits /\ s[n2] \in SUBSET Bits
    BY <2>1 DEF State
  <2>. HIDE DEF x, row, n1, n2, next
  <2>. QED BY <2>2, <2>3, <2>4, <2>5 DEF Xor, Not
<1>. QED BY <1>1 DEF chi_out, chi

LEMMA IotaOut == ASSUME NEW s \in State, NEW rd \in 0 .. nrRounds - 1
                 PROVE  iota_out(s, rd) = iota(s, rd)
<1>. DEFINE rc == KeccakRoundConstants[rd]
<1>1. round_constant_signal(rd) = rc /\ rc \in SUBSET Bits
  BY TablesAssumption DEF round_constant_signal, nrRounds
<1>2. s[0] \in SUBSET Bits /\ 0 \in Lane
  BY DEF State, Lane
<1>3. {z \in Bits : (z \in s[0]) # (z \in rc)} = Xor(s[0], rc)
  <2>. HIDE DEF rc
  <2>. QED BY <1>1, <1>2 DEF Xor
<1>4. iota_out(s, rd) = [l \in Lane |-> IF l = 0 THEN Xor(s[0], rc) ELSE s[l]]
  <2>. HIDE DEF rc
  <2>. QED BY <1>1, <1>3 DEF iota_out
<1>. HIDE DEF rc
<1>. QED BY <1>4 DEF iota, State, rc
------------------------------------------------------------------------------------
(* Every step of a round maps states to states.                                       *)
LEMMA StepTypes ==
  ASSUME NEW s \in State
  PROVE  /\ theta(s) \in State /\ rho(s) \in State /\ pi(s) \in State /\ chi(s) \in State
         /\ \A rd \in 0 .. nrRounds - 1 : iota(s, rd) \in State
<1>1. theta(s) \in State
  <2>1. theta(s) = [l \in Lane |-> theta(s)[l]]
    BY DEF theta
  <2>. QED BY <2>1, ThetaLane DEF State
<1>2. rho(s) \in State
  <2>1. ASSUME NEW l \in Lane PROVE ROL64(s[l], KeccakRhoOffsets[l]) \in SUBSET Bits
    BY RotBits, TablesAssumption DEF State
  <2>. QED BY <2>1 DEF rho, State
<1>3. pi(s) \in State
  BY TablesAssumption DEF pi, State
<1>4. chi(s) \in State
  <2>1. ASSUME NEW l \in Lane, NEW a \in SUBSET Bits, NEW b \in SUBSET Bits
        PROVE  Xor(s[l], Not(a) \cap b) \in SUBSET Bits
    BY XorBits DEF State, Not
  <2>2. ASSUME NEW l \in Lane
        PROVE  /\ s[index((l % 5) + 1, l \div 5)] \in SUBSET Bits
               /\ s[index((l % 5) + 2, l \div 5)] \in SUBSET Bits
    BY LaneNumbers DEF State
  <2>. QED BY <2>1, <2>2 DEF chi, State
<1>5. ASSUME NEW rd \in 0 .. nrRounds - 1 PROVE iota(s, rd) \in State
  <2>1. s[0] \in SUBSET Bits
    BY DEF State, Lane
  <2>2. KeccakRoundConstants[rd] \in SUBSET Bits
    BY TablesAssumption
  <2>3. Xor(s[0], KeccakRoundConstants[rd]) \in SUBSET Bits
    BY <2>1, <2>2, XorBits
  <2>. QED BY <2>3 DEF iota, State
<1>. QED BY <1>1, <1>2, <1>3, <1>4, <1>5

(* Where the generator is in its round, seen from keccakf1600.c, which is at the      *)
(* round's beginning until its end.                                                   *)
InRound ==
    /\ step = 1 => A = sw
    /\ step = 2 => A = theta(sw)
    /\ step = 3 => A = rho(theta(sw))
    /\ step = 4 => A = Moved(sw)
    /\ step = 5 => A = chi(Moved(sw))
IInv == TypeOK /\ HardwareIsReference /\ InRound

LEMMA InitIInv == Init => IInv
  BY DEF Init, IInv, TypeOK, HardwareIsReference, InRound, ZeroState, State, nrRounds

LEMMA StepIInv == IInv /\ [Next]_vars => IInv'
<1>. SUFFICES ASSUME IInv, [Next]_vars PROVE IInv'
  OBVIOUS
<1>. USE DEF IInv, HardwareIsReference
<1>1. /\ A \in State /\ sw \in State /\ hw = A /\ step \in 1 .. 5
      /\ round \in 0 .. 2 * nrRounds - 1
  BY DEF TypeOK
<1>2. CASE Theta
  <2>1. step = 1 /\ A' = theta(A) /\ hw' = theta_out(hw) /\ step' = 2 /\ UNCHANGED <<round, sw>>
    BY <1>1, <1>2 DEF Theta, Apply, Steps
  <2>. QED BY <1>1, <2>1, StepTypes, ThetaOut DEF TypeOK, InRound
<1>3. CASE Rho
  <2>1. step = 2 /\ A' = rho(A) /\ hw' = rho_out(hw) /\ step' = 3 /\ UNCHANGED <<round, sw>>
    BY <1>1, <1>3 DEF Rho, Apply, Steps
  <2>. QED BY <1>1, <2>1, StepTypes, RhoOut DEF TypeOK, InRound
<1>4. CASE Pi
  <2>1. step = 3 /\ A' = pi(A) /\ hw' = pi_out(hw) /\ step' = 4 /\ UNCHANGED <<round, sw>>
    BY <1>1, <1>4 DEF Pi, Apply, Steps
  <2>. QED BY <1>1, <2>1, StepTypes, PiOut DEF TypeOK, InRound, Moved
<1>5. CASE Chi
  <2>1. step = 4 /\ A' = chi(A) /\ hw' = chi_out(hw) /\ step' = 5 /\ UNCHANGED <<round, sw>>
    BY <1>1, <1>5 DEF Chi, Apply, Steps
  <2>. QED BY <1>1, <2>1, StepTypes, ChiOut DEF TypeOK, InRound
<1>6. CASE Iota
  <2>. DEFINE rd == round % nrRounds
  <2>1. rd \in 0 .. nrRounds - 1 /\ (round + 1) % (2 * nrRounds) \in 0 .. 2 * nrRounds - 1
    BY <1>1 DEF nrRounds
  <2>2. /\ step = 5 /\ A' = iota(A, rd) /\ hw' = iota_out(hw, rd) /\ step' = 1
        /\ sw' = UnrolledRound(sw, rd) /\ round' = (round + 1) % (2 * nrRounds)
    BY <1>1, <1>6 DEF Iota, Steps
  <2>. HIDE DEF rd
  <2>3. A' \in State /\ hw' = A'
    BY <1>1, <2>1, <2>2, StepTypes, IotaOut
  <2>4. sw' = A'
    BY <1>1, <2>1, <2>2, UnrolledRoundIsReference DEF InRound
  <2>. QED BY <2>1, <2>2, <2>3, <2>4 DEF TypeOK, InRound
<1>7. CASE UNCHANGED vars
  BY <1>1, <1>7 DEF vars, TypeOK, InRound
<1>. QED BY <1>2, <1>3, <1>4, <1>5, <1>6, <1>7 DEF Next

(* The accelerator computes the reference's permutation, step for step.               *)
THEOREM HardwareIsReferenceAlways == Spec => []HardwareIsReference
<1>1. IInv => HardwareIsReference
  BY DEF IInv
<1>. QED BY InitIInv, StepIInv, <1>1, PTL DEF Spec

(* So does keccakf1600.c, round for round.                                            *)
THEOREM SoftwareIsReferenceAlways == Spec => []SoftwareIsReference
<1>1. IInv => SoftwareIsReference
  BY DEF IInv, InRound, SoftwareIsReference
<1>. QED BY InitIInv, StepIInv, <1>1, PTL DEF Spec

(* All three stay states, and the position stays in range.                            *)
THEOREM TypeOKAlways == Spec => []TypeOK
<1>1. IInv => TypeOK
  BY DEF IInv
<1>. QED BY InitIInv, StepIInv, <1>1, PTL DEF Spec
----------------------------------------------------------------------------------
(* Where a byte lies: its lane and its place in it.                                   *)
LEMMA BytePlaces ==
    /\ \A l \in Lane, j \in 0 .. 7 :
         8 * l + j \in ByteIndex /\ (8 * l + j) % 8 = j /\ (8 * l + j) \div 8 = l
    /\ \A n \in ByteIndex : n \div 8 \in Lane /\ n % 8 \in 0 .. 7 /\ n = 8 * (n \div 8) + (n % 8)
    /\ \A j, b \in 0 .. 7 : 8 * j + b \in Bits
    /\ \A z \in Bits : z \div 8 \in 0 .. 7 /\ z % 8 \in 0 .. 7 /\ z = 8 * (z \div 8) + (z % 8)
BY DEF Lane, ByteIndex, Bits

(* A bit of a state is a bit of the bytes of its lane.                                *)
LEMMA BytesOfLane ==
    ASSUME NEW S \in State, NEW l \in Lane
    PROVE  UNION {{8 * j + b : b \in fromWordsToBytes(S)[8 * l + j]} : j \in 0 .. 7} = S[l]
<1> DEFINE bytes == fromWordsToBytes(S)
           lane == UNION {{8 * j + b : b \in bytes[8 * l + j]} : j \in 0 .. 7}
<1>1. S[l] \subseteq Bits BY DEF State
<1>2. ASSUME NEW j \in 0 .. 7
      PROVE  bytes[8 * l + j] = {b \in 0 .. 7 : 8 * j + b \in S[l]}
    <2> DEFINE n == 8 * l + j
    <2>1. n \in ByteIndex /\ n % 8 = j /\ n \div 8 = l BY BytePlaces
    <2> HIDE DEF n
    <2>2. bytes[n] = {b \in 0 .. 7 : 8 * (n % 8) + b \in S[n \div 8]}
        BY <2>1 DEF fromWordsToBytes
    <2>3. bytes[n] = {b \in 0 .. 7 : 8 * j + b \in S[l]} BY <2>1, <2>2
    <2> QED BY <2>3 DEF n
<1> HIDE DEF bytes
<1>3. ASSUME NEW z \in lane PROVE z \in S[l]
    <2>1. PICK j \in 0 .. 7 : z \in {8 * j + b : b \in bytes[8 * l + j]} OBVIOUS
    <2>2. PICK b \in bytes[8 * l + j] : z = 8 * j + b BY <2>1
    <2> QED BY <1>2, <2>2
<1>4. ASSUME NEW z \in S[l] PROVE z \in lane
    <2> DEFINE j == z \div 8
               b == z % 8
    <2>1. j \in 0 .. 7 /\ b \in 0 .. 7 /\ z = 8 * j + b BY <1>1, BytePlaces
    <2> HIDE DEF j, b
    <2>2. b \in bytes[8 * l + j] BY <1>2, <2>1
    <2>3. z \in {8 * j + c : c \in bytes[8 * l + j]} BY <2>1, <2>2
    <2> QED BY <2>1, <2>3
<1> HIDE DEF lane
<1>5. lane = S[l] BY <1>3, <1>4
<1> QED BY <1>5 DEF lane, bytes

(* The reference reads back what it writes.                                           *)
LEMMA BytesReadBack ==
    ASSUME NEW S \in State PROVE fromBytesToWords(fromWordsToBytes(S)) = S
<1>1. \A l \in Lane : fromBytesToWords(fromWordsToBytes(S))[l] = S[l]
    BY BytesOfLane DEF fromBytesToWords
<1>2. fromBytesToWords(fromWordsToBytes(S))
        = [l \in Lane |-> fromBytesToWords(fromWordsToBytes(S))[l]]
    BY DEF fromBytesToWords
<1>3. S = [l \in Lane |-> S[l]] BY DEF State
<1> QED BY <1>1, <1>2, <1>3

(* keccakf1600.c extracts the same bytes ..                                           *)
LEMMA BytesExtracted ==
    ASSUME NEW S PROVE StateExtractBytes(S, 0, 200) = fromWordsToBytes(S)
<1>1. (0 .. 200 - 1) = ByteIndex BY DEF ByteIndex
<1>2. \A n \in ByteIndex : 0 + n = n BY DEF ByteIndex
<1>3. \A n \in ByteIndex : StateExtractBytes(S, 0, 200)[n] = fromWordsToBytes(S)[n]
    BY <1>1, <1>2 DEF StateExtractBytes, fromWordsToBytes
<1>4. StateExtractBytes(S, 0, 200) = [n \in ByteIndex |-> StateExtractBytes(S, 0, 200)[n]]
    BY <1>1 DEF StateExtractBytes
<1>5. fromWordsToBytes(S) = [n \in ByteIndex |-> fromWordsToBytes(S)[n]]
    BY DEF fromWordsToBytes
<1> QED BY <1>3, <1>4, <1>5

(* .. and xors them into the same lanes.                                              *)
LEMMA BytesXored ==
    ASSUME NEW S \in State
    PROVE  StateXORBytes(ZeroState, fromWordsToBytes(S), 0, 200) = S
<1> DEFINE bytes == fromWordsToBytes(S)
<1>1. ASSUME NEW l \in Lane PROVE StateXORBytes(ZeroState, bytes, 0, 200)[l] = S[l]
    <2> DEFINE places == {m \in 0 .. 0 + 200 - 1 : m \div 8 = l}
               xored == UNION {{8 * (n % 8) + b : b \in bytes[n - 0]} : n \in places}
               lane == UNION {{8 * j + b : b \in bytes[8 * l + j]} : j \in 0 .. 7}
    <2>1. StateXORBytes(ZeroState, bytes, 0, 200)[l] = Xor({}, xored)
        BY DEF StateXORBytes, ZeroState
    <2>2. \A n \in places : n - 0 = n /\ n % 8 \in 0 .. 7 /\ n = 8 * l + (n % 8)
        BY BytePlaces DEF ByteIndex
    <2>3. \A j \in 0 .. 7 :
            8 * l + j \in places /\ (8 * l + j) % 8 = j /\ (8 * l + j) - 0 = 8 * l + j
        BY BytePlaces DEF ByteIndex, Lane
    <2> HIDE DEF places, bytes
    <2>4. ASSUME NEW z \in xored PROVE z \in lane
        <3>1. PICK n \in places : z \in {8 * (n % 8) + b : b \in bytes[n - 0]} OBVIOUS
        <3> DEFINE j == n % 8
        <3>2. j \in 0 .. 7 /\ n = 8 * l + j /\ n - 0 = n BY <2>2
        <3> HIDE DEF j
        <3>3. z \in {8 * j + b : b \in bytes[8 * l + j]} BY <3>1, <3>2 DEF j
        <3> QED BY <3>2, <3>3
    <2>5. ASSUME NEW z \in lane PROVE z \in xored
        <3>1. PICK j \in 0 .. 7 : z \in {8 * j + b : b \in bytes[8 * l + j]} OBVIOUS
        <3> DEFINE n == 8 * l + j
        <3>2. n \in places /\ n % 8 = j /\ n - 0 = n BY <2>3
        <3> HIDE DEF n
        <3>3. z \in {8 * (n % 8) + b : b \in bytes[n - 0]} BY <3>1, <3>2 DEF n
        <3> QED BY <3>2, <3>3
    <2> HIDE DEF xored, lane
    <2>6. xored = lane BY <2>4, <2>5
    <2>7. lane = S[l] BY BytesOfLane DEF lane, bytes
    <2> QED BY <2>1, <2>6, <2>7 DEF Xor
<1>2. StateXORBytes(ZeroState, bytes, 0, 200)
        = [l \in Lane |-> StateXORBytes(ZeroState, bytes, 0, 200)[l]]
    BY DEF StateXORBytes
<1>3. S = [l \in Lane |-> S[l]] BY DEF State
<1> HIDE DEF bytes
<1>4. StateXORBytes(ZeroState, bytes, 0, 200) = S BY <1>1, <1>2, <1>3
<1> QED BY <1>4 DEF bytes

(* Reading, extracting and xoring mean the same bytes of every state the vectors pass *)
(* through, and of every other one.                                                   *)
THEOREM BytesAreOne == Spec => []ByteOrder
<1>1. TypeOK => ByteOrder
    BY BytesReadBack, BytesExtracted, BytesXored DEF TypeOK, ByteOrder
<1> QED BY <1>1, TypeOKAlways, PTL
----------------------------------------------------------------------------------
(* Quotient and remainder.                                                          *)
LEMMA DivMod ==
    ASSUME NEW a \in Nat, NEW m \in Nat \ {0}
    PROVE  a % m \in 0 .. m - 1 /\ a \div m \in Nat /\ a = (a \div m) * m + (a % m)
OBVIOUS

LEMMA DivModOf ==
    ASSUME NEW q \in Nat, NEW m \in Nat \ {0}, NEW b \in 0 .. m - 1
    PROVE  (q * m + b) % m = b /\ (q * m + b) \div m = q
OBVIOUS

LEMMA ProductType == \A a, b \in Nat : a * b \in Nat
OBVIOUS

LEMMA Distributes == \A a, b, c \in Nat : (a + b) * c = a * c + b * c
OBVIOUS

(* Whole bytes.                                                                     *)
LEMMA BytesAre ==
    ASSUME NEW n \in Nat
    PROVE  /\ InBytes(n) \in Nat /\ n <= InBytes(n)
           /\ n % ByteBits = 0 => InBytes(n) = n
           /\ n % ByteBits # 0 => InBytes(n) = n - (n % ByteBits) + ByteBits
<1> DEFINE q == n \div ByteBits
           m == n % ByteBits
<1>1. ByteBits \in Nat \ {0} BY ByteAssumption
<1>2. q \in Nat /\ m \in 0 .. ByteBits - 1 /\ n = q * ByteBits + m BY <1>1, DivMod
<1> HIDE DEF q, m
<1>3. CASE m = 0
    <2>1. n + ByteBits - 1 = q * ByteBits + (ByteBits - 1) BY <1>1, <1>2, <1>3
    <2>2. ByteBits - 1 \in 0 .. ByteBits - 1 BY <1>1
    <2>3. (q * ByteBits + (ByteBits - 1)) \div ByteBits = q BY <1>1, <1>2, <2>2, DivModOf
    <2>4. InBytes(n) = q * ByteBits BY <2>1, <2>3 DEF InBytes
    <2>5. InBytes(n) = n BY <1>1, <1>2, <1>3, <2>4, ProductType
    <2> QED BY <1>3, <2>5 DEF m
<1>4. CASE m # 0
    <2>1. (q + 1) * ByteBits = q * ByteBits + ByteBits BY <1>1, <1>2
    <2>2. n + ByteBits - 1 = (q + 1) * ByteBits + (m - 1) /\ q * ByteBits \in Nat
        BY <1>1, <1>2, <2>1, ProductType
    <2>3. m - 1 \in 0 .. ByteBits - 1 /\ q + 1 \in Nat BY <1>1, <1>2, <1>4
    <2>4. ((q + 1) * ByteBits + (m - 1)) \div ByteBits = q + 1 BY <1>1, <2>3, DivModOf
    <2>5. InBytes(n) = (q + 1) * ByteBits BY <2>2, <2>4 DEF InBytes
    <2>6. InBytes(n) = n - m + ByteBits BY <1>1, <1>2, <2>1, <2>2, <2>5
    <2> QED BY <1>1, <1>2, <1>4, <2>6 DEF m
<1> QED BY <1>3, <1>4

Whole(a) == a \in Nat /\ a % ByteBits = 0

LEMMA WholeIs == ASSUME NEW a \in Nat PROVE Whole(a) <=> \E q \in Nat : a = q * ByteBits
<1>1. ByteBits \in Nat \ {0} BY ByteAssumption
<1>2. ASSUME Whole(a) PROVE \E q \in Nat : a = q * ByteBits
    <2>1. a \div ByteBits \in Nat /\ a = (a \div ByteBits) * ByteBits + (a % ByteBits)
        BY <1>1, DivMod
    <2>2. (a \div ByteBits) * ByteBits \in Nat BY <1>1, <2>1, ProductType
    <2>3. a = (a \div ByteBits) * ByteBits BY <1>2, <2>1, <2>2 DEF Whole
    <2> QED BY <2>1, <2>3
<1>3. ASSUME NEW q \in Nat, a = q * ByteBits PROVE Whole(a)
    <2>1. 0 \in 0 .. ByteBits - 1 /\ q * ByteBits + 0 = a BY <1>1, <1>3
    <2>2. (q * ByteBits + 0) % ByteBits = 0 BY <1>1, <2>1, DivModOf
    <2> QED BY <2>1, <2>2 DEF Whole
<1> QED BY <1>2, <1>3

LEMMA WholeSum == ASSUME NEW a, NEW c, Whole(a), Whole(c) PROVE Whole(a + c)
<1>1. a \in Nat /\ c \in Nat /\ a + c \in Nat BY DEF Whole
<1>2. PICK p \in Nat : a = p * ByteBits BY <1>1, WholeIs
<1>3. PICK q \in Nat : c = q * ByteBits BY <1>1, WholeIs
<1>4. a + c = (p + q) * ByteBits BY <1>2, <1>3, ByteAssumption, Distributes
<1>5. p + q \in Nat OBVIOUS
<1> QED BY <1>1, <1>4, <1>5, WholeIs

LEMMA WholeBelow ==
    ASSUME NEW a, NEW c, Whole(a), Whole(c), a < c
    PROVE  a + ByteBits <= c /\ Whole(c - a)
<1>1. a \in Nat /\ c \in Nat /\ c - a \in Nat /\ ByteBits \in Nat \ {0}
    BY ByteAssumption DEF Whole
<1>2. PICK p \in Nat : a = p * ByteBits BY <1>1, WholeIs
<1>3. PICK q \in Nat : c = q * ByteBits BY <1>1, WholeIs
<1>4. p < q
    <2> SUFFICES ASSUME ~ (p < q) PROVE FALSE OBVIOUS
    <2>1. p - q \in Nat /\ p = q + (p - q) OBVIOUS
    <2>2. p * ByteBits = q * ByteBits + (p - q) * ByteBits BY <2>1, <1>1, Distributes
    <2>3. (p - q) * ByteBits \in Nat BY <2>1, <1>1, ProductType
    <2> QED BY <2>2, <2>3, <1>1, <1>2, <1>3
<1> DEFINE d == q - p - 1
<1>5. d \in Nat /\ q = p + (d + 1) /\ d + 1 \in Nat BY <1>4
<1> HIDE DEF d
<1>6. c = a + (d + 1) * ByteBits BY <1>1, <1>2, <1>3, <1>5, Distributes
<1>7. (d + 1) * ByteBits = d * ByteBits + ByteBits BY <1>1, <1>5
<1>8. d * ByteBits \in Nat BY <1>1, <1>5, ProductType
<1>9. c - a = (d + 1) * ByteBits /\ a + ByteBits <= c BY <1>1, <1>6, <1>7, <1>8
<1> QED BY <1>1, <1>5, <1>9, WholeIs

(* The part of remaining bits that a turn of Absorb's loop takes: whole bytes, and a *)
(* partial byte only if it is the last.                                             *)
TakesPart(room, remaining, part, partialByte, whole) ==
    /\ part \in Nat \ {0} /\ partialByte \in Nat /\ whole \in Nat /\ part = whole + partialByte
    /\ part <= room /\ part <= remaining /\ partialByte < ByteBits /\ Whole(whole)
    /\ partialByte # 0 => part = remaining /\ whole + ByteBits <= room
    /\ whole = room => partialByte = 0
    /\ whole # room => part < room

LEMMA PartOf ==
    ASSUME NEW room, Whole(room), room # 0, NEW remaining \in Nat \ {0},
           NEW part, part = (IF remaining > room THEN room ELSE remaining)
    PROVE  TakesPart(room, remaining, part, part % ByteBits, part - (part % ByteBits))
<1> DEFINE p == part % ByteBits
           w == part - p
<1>1. room \in Nat \ {0} /\ ByteBits \in Nat \ {0} BY ByteAssumption DEF Whole
<1>2. part \in Nat \ {0} /\ part <= room /\ part <= remaining BY <1>1
<1>3. p \in 0 .. ByteBits - 1 /\ part = (part \div ByteBits) * ByteBits + p
      /\ part \div ByteBits \in Nat
    BY <1>1, <1>2, DivMod
<1> HIDE DEF p
<1>4. w = (part \div ByteBits) * ByteBits /\ w \in Nat
    <2>1. (part \div ByteBits) * ByteBits \in Nat BY <1>1, <1>3, ProductType
    <2> QED BY <1>1, <1>2, <1>3, <2>1
<1>5. Whole(w) BY <1>3, <1>4, WholeIs
<1>6. p # 0 => part # room
    <2>1. part = room => p = 0 BY DEF Whole, p
    <2> QED BY <2>1
<1>7. p # 0 => part = remaining /\ w + ByteBits <= room
    <2>1. ASSUME p # 0 PROVE w < room BY <2>1, <1>1, <1>2, <1>3, <1>4
    <2> QED BY <1>1, <1>2, <1>5, <1>6, <2>1, WholeBelow
<1>8. part = w + p /\ p \in Nat /\ p < ByteBits BY <1>1, <1>2, <1>3
<1> HIDE DEF w
<1>9. w = room => p = 0 BY <1>1, <1>2, <1>4, <1>8
<1>10. w # room => part < room BY <1>1, <1>2, <1>4, <1>6, <1>8
<1> QED BY <1>2, <1>4, <1>5, <1>7, <1>8, <1>9, <1>10 DEF TakesPart, w, p
----------------------------------------------------------------------------------
(* A bit, and a block of them.                                                      *)
RefBit ==
    {Message(n) : n \in Nat} \cup {Zero, One, Unused}
      \cup {Output(c, n, b) : c \in Nat, n \in Nat, b \in Nat}

(* What the variables hold.                                                         *)
RefTypes ==
    /\ rate \in Nat \ {0} /\ rate % ByteBits = 0
    /\ blocks \in Seq([0 .. rate - 1 -> RefBit]) /\ queue \in [0 .. rate - 1 -> RefBit]
    /\ squeezed \in Nat /\ bitsInQueue \in Nat /\ bitsAvailable \in 0 .. rate
    /\ squeezing \in BOOLEAN /\ fixedOutputLength \in Nat
    /\ pc \in {"idle", "absorb", "squeeze"}
    /\ i \in Nat /\ length \in Nat /\ i <= length
    /\ data \in Seq(RefBit) /\ lastByte \in Seq(RefBit)
    /\ input \in Nat /\ output \in Seq(RefBit)

(* The bits a running Absorb has still to take are not yet in blocks and queue; the *)
(* rest of a partial byte in the queue is masked.                                   *)
Pending == IF pc = "absorb" THEN length - i ELSE 0

TakesBits ==
    ~ squeezing =>
        /\ squeezed = 0 /\ output = <<>> /\ pc # "squeeze"
        /\ bitsInQueue < rate
        /\ input - Pending = Len(blocks) * rate + bitsInQueue
        /\ \A k \in 1 .. Len(blocks) : \A b \in 0 .. rate - 1 :
             blocks[k][b] = Message((k - 1) * rate + b)
        /\ \A b \in 0 .. bitsInQueue - 1 : queue[b] = Message(Len(blocks) * rate + b)
        /\ \A b \in 0 .. rate - 1 :
             bitsInQueue <= b /\ b < InBytes(bitsInQueue) => queue[b] = Zero

(* What it takes them from, after the last byte of the message before Update's rest.*)
HasBits ==
    pc = "absorb" =>
        /\ ~ squeezing
        /\ length <= Len(data) /\ length <= input
        /\ \A k \in i + 1 .. length : data[k] = Message(input - length + k - 1)
        /\ \A k \in 1 .. Len(lastByte) : lastByte[k] = Message(input + k - 1)
        /\ i < length => bitsInQueue % ByteBits = 0

(* How far the squeezing is.                                                        *)
GivesBits ==
    squeezing =>
        /\ Len(output) = (squeezed + 1) * rate - bitsAvailable
        /\ \A b \in 0 .. rate - 1 : queue[b] = Output(Len(blocks), squeezed, b)

RefIInv == RefTypes /\ TakesBits /\ HasBits /\ PadsInput /\ GivesBits /\ OutputIsStream

----------------------------------------------------------------------------------
LEMMA BitIs ==
    /\ \A n \in Nat : Message(n) \in RefBit
    /\ Zero \in RefBit /\ One \in RefBit /\ Unused \in RefBit
    /\ \A c, n, b \in Nat : Output(c, n, b) \in RefBit
BY DEF RefBit

LEMMA NoBytes == InBytes(0) = 0
BY BytesAre, ByteAssumption

LEMMA InitIsRefIInv == RefInit => RefIInv
<1> SUFFICES ASSUME RefInit PROVE RefIInv OBVIOUS
<1>1. PICK h \in DOMAIN HashRates :
        rate = HashRates[h] /\ fixedOutputLength = h /\ rate \in Nat \ {0}
        /\ rate % ByteBits = 0 /\ h \in Nat
    BY SpongeAssumption DEF RefInit
<1>2. queue \in [0 .. rate - 1 -> RefBit]
    BY BitIs DEF RefInit, Fill
<1>3. <<>> \in Seq([0 .. rate - 1 -> RefBit]) /\ <<>> \in Seq(RefBit) /\ 0 \in 0 .. rate
    BY <1>1
<1>4. RefTypes
    <2>1. /\ fixedOutputLength \in Nat /\ blocks = <<>> /\ squeezed = 0 /\ bitsInQueue = 0
          /\ squeezing = FALSE /\ bitsAvailable = 0 /\ pc = "idle" /\ i = 0 /\ length = 0
          /\ data = <<>> /\ lastByte = <<>> /\ input = 0 /\ output = <<>>
        BY <1>1 DEF RefInit
    <2>2. rate \in Nat \ {0} /\ rate % ByteBits = 0 BY <1>1
    <2>3. blocks \in Seq([0 .. rate - 1 -> RefBit]) /\ output \in Seq(RefBit)
          /\ data \in Seq(RefBit) /\ lastByte \in Seq(RefBit)
        BY <1>3, <2>1
    <2>4. squeezing \in BOOLEAN BY <2>1
    <2>5. pc \in {"idle", "absorb", "squeeze"} BY <2>1
    <2>6. squeezed \in Nat /\ bitsInQueue \in Nat  BY <2>1
    <2>7. bitsAvailable \in 0 .. rate BY <2>1, <1>3
    <2>8. i \in Nat /\ length \in Nat /\ i <= length /\ input \in Nat BY <2>1
    <2> QED BY <1>2, <2>1, <2>2, <2>3, <2>4, <2>5, <2>6, <2>7, <2>8 DEF RefTypes
<1>5. TakesBits BY <1>1, NoBytes DEF RefInit, TakesBits, Pending
<1>6. HasBits /\ PadsInput /\ GivesBits /\ OutputIsStream
    BY DEF RefInit, HasBits, PadsInput, GivesBits, OutputIsStream
<1> QED BY <1>5, <1>6, <1>4 DEF RefIInv

LEMMA CallInitKeeps ==
    ASSUME RefIInv, NEW h \in DOMAIN HashRates, CallInit(h)
    PROVE  RefIInv'
<1>1. rate' = HashRates[h] /\ fixedOutputLength' = h /\ rate' \in Nat \ {0}
      /\ rate' % ByteBits = 0 /\ h \in Nat
    BY SpongeAssumption DEF CallInit, InitSponge
<1>2. queue' \in [0 .. rate' - 1 -> RefBit]
    BY BitIs, <1>1 DEF CallInit, InitSponge, Fill
<1>3. <<>> \in Seq([0 .. rate' - 1 -> RefBit]) /\ <<>> \in Seq(RefBit) /\ 0 \in 0 .. rate'
    BY <1>1
<1>4. RefTypes' BY <1>1, <1>2, <1>3 DEF CallInit, InitSponge, RefTypes, RefIInv
<1>5. TakesBits' BY <1>1, NoBytes DEF CallInit, InitSponge, TakesBits, Pending
<1>6. HasBits' /\ PadsInput' /\ GivesBits' /\ OutputIsStream'
    BY DEF CallInit, InitSponge, HasBits, PadsInput, GivesBits, OutputIsStream
<1> QED BY <1>5, <1>6, <1>4 DEF RefIInv
----------------------------------------------------------------------------------
(* The calls that only look at the phase.                                           *)
LEMMA SameSponge ==
    ASSUME RefIInv, UNCHANGED <<spongeVars, output>>, input' - Pending' = input - Pending,
           ~ squeezing => pc' # "squeeze", squeezing => UNCHANGED input
    PROVE  TakesBits' /\ PadsInput' /\ GivesBits' /\ OutputIsStream'
<1>1. TakesBits'
    BY DEF RefIInv, spongeVars, TakesBits
<1>2. PadsInput'
    BY DEF RefIInv, spongeVars, PadsInput, PaddedBit
<1>3. GivesBits' /\ OutputIsStream'
    BY DEF RefIInv, spongeVars, GivesBits, OutputIsStream
<1> QED BY <1>1, <1>2, <1>3

(* The next n bits of the message in d, and those of Update's last byte in rest.    *)
Brings(d, n, rest) ==
    /\ n \in Nat /\ d \in Seq(RefBit) /\ rest \in Seq(RefBit) /\ n <= Len(d)
    /\ \A k \in 1 .. n : d[k] = Message(input + k - 1)
    /\ \A k \in 1 .. Len(rest) : rest[k] = Message(input + n + k - 1)

LEMMA AbsorbKeeps ==
    ASSUME RefIInv, Pending = 0, UNCHANGED <<spongeVars, output>>,
           NEW n, NEW d, NEW rest, Brings(d, n, rest), Absorb(d, n, rest)
    PROVE  RefIInv'
<1> USE DEF RefIInv
<1>1. RefTypes'
    <2>1. UNCHANGED <<rate, blocks, squeezed, queue, bitsInQueue, fixedOutputLength,
                      squeezing, bitsAvailable, output>>
        BY DEF spongeVars
    <2>2. CASE Refused
        <3>1. pc' = "idle" /\ UNCHANGED <<i, length, data, lastByte, input>>
            BY <2>2 DEF Absorb
        <3> QED BY <2>1, <3>1 DEF RefTypes
    <2>3. CASE ~ Refused
        <3>1. /\ pc' = "absorb" /\ i' = 0 /\ length' = n /\ data' = d /\ lastByte' = rest
              /\ input' = input + n
            BY <2>3 DEF Absorb
        <3>2. n \in Nat /\ d \in Seq(RefBit) /\ rest \in Seq(RefBit) BY DEF Brings
        <3>3. input + n \in Nat /\ 0 \in Nat /\ 0 <= n BY <3>2 DEF RefTypes
        <3> QED BY <2>1, <3>1, <3>2, <3>3 DEF RefTypes
    <2> QED BY <2>2, <2>3
<1>2. HasBits'
    <2>1. CASE Refused
        <3>1. pc' = "idle" /\ UNCHANGED <<queue, bitsInQueue, i, length, data, lastByte>>
            BY <2>1 DEF Absorb, spongeVars
        <3> QED BY <3>1 DEF HasBits
    <2>2. CASE ~ Refused
        <3>1. /\ pc' = "absorb" /\ i' = 0 /\ length' = n /\ data' = d /\ lastByte' = rest
              /\ input' = input + n /\ bitsInQueue' = bitsInQueue /\ squeezing' = squeezing
            BY <2>2 DEF Absorb, spongeVars
        <3>2. bitsInQueue % ByteBits = 0 /\ ~ squeezing
            BY <2>2 DEF Refused
        <3>3. /\ n \in Nat /\ input \in Nat /\ input + n \in Nat
              /\ n <= Len(d) /\ n <= input + n
              /\ input + n - n = input /\ \A k : k \in 0 + 1 .. n <=> k \in 1 .. n
            BY DEF Brings, RefTypes
        <3>4. \A k \in 1 .. n : d[k] = Message(input + n - n + k - 1)
            BY <3>3 DEF Brings
        <3>5. \A k \in 1 .. Len(rest) : rest[k] = Message(input + n + k - 1)
            BY DEF Brings
        <3> HIDE DEF RefIInv
        <3> QED BY <3>1, <3>2, <3>3, <3>4, <3>5 DEF HasBits
    <2> QED BY <2>1, <2>2
<1>3. input \in Nat /\ input' - Pending' = input - Pending
    <2>1. input \in Nat /\ n \in Nat BY DEF RefTypes, Brings
    <2>2. CASE Refused
        <3>1. input' = input /\ pc' = "idle" BY <2>2 DEF Absorb
        <3>2. Pending' = 0 BY <3>1 DEF Pending
        <3> QED BY <2>1, <3>1, <3>2
    <2>3. CASE ~ Refused
        <3>1. input' = input + n /\ pc' = "absorb" /\ i' = 0 /\ length' = n BY <2>3 DEF Absorb
        <3>2. Pending' = n BY <2>1, <3>1 DEF Pending
        <3> QED BY <2>1, <3>1, <3>2
    <2> QED BY <2>2, <2>3
<1>4. pc' # "squeeze" /\ (squeezing => UNCHANGED input) BY DEF Absorb, Refused
<1>5. TakesBits' /\ PadsInput' /\ GivesBits' /\ OutputIsStream'
    BY <1>3, <1>4, SameSponge
<1> QED BY <1>1, <1>2, <1>5

LEMMA CallAbsorbKeeps ==
    ASSUME RefIInv, NEW n \in Chunks, CallAbsorb(n)
    PROVE  RefIInv'
<1>1. n \in Nat BY SpongeAssumption
<1>2. InBytes(n) \in Nat /\ n <= InBytes(n) BY <1>1, BytesAre
<1>3. input \in Nat /\ Pending = 0 BY DEF RefIInv, RefTypes, Pending, CallAbsorb
<1>4. FromLsb(n) \in Seq(RefBit) /\ Len(FromLsb(n)) = InBytes(n)
    <2>1. \A b \in 1 .. InBytes(n) :
            (IF b <= n THEN Message(input + b - 1) ELSE Unused) \in RefBit
        BY <1>2, <1>3, BitIs
    <2> QED BY <1>2, <2>1 DEF FromLsb
<1>5. \A k \in 1 .. n : FromLsb(n)[k] = Message(input + k - 1) BY <1>1, <1>2 DEF FromLsb
<1>6. <<>> \in Seq(RefBit) /\ Len(<<>>) = 0 OBVIOUS
<1>7. Brings(FromLsb(n), n, <<>>) BY <1>1, <1>2, <1>4, <1>5, <1>6 DEF Brings
<1>8. Absorb(FromLsb(n), n, <<>>) /\ UNCHANGED <<spongeVars, output>> BY DEF CallAbsorb
<1> QED BY <1>3, <1>7, <1>8, AbsorbKeeps

LEMMA CallUpdateKeeps ==
    ASSUME RefIInv, NEW n \in Chunks, CallUpdate(n)
    PROVE  RefIInv'
<1> DEFINE m == n % ByteBits
           whole == n - m
           d == FromMsb(n)
           rest == IF m = 0 THEN <<>> ELSE SubSeq(Aligned(d, n), 1, m)
<1>1. n \in Nat /\ ByteBits \in Nat \ {0} BY SpongeAssumption, ByteAssumption
<1>2. /\ InBytes(n) \in Nat /\ n <= InBytes(n)
      /\ m = 0 => InBytes(n) = n
      /\ m # 0 => InBytes(n) = whole + ByteBits
    BY <1>1, BytesAre
<1>3. m \in 0 .. ByteBits - 1 /\ whole \in Nat /\ whole + m = n
    <2>1. n % ByteBits \in 0 .. ByteBits - 1 /\ n \div ByteBits \in Nat
          /\ n = (n \div ByteBits) * ByteBits + (n % ByteBits)
        BY <1>1, DivMod
    <2>2. (n \div ByteBits) * ByteBits \in Nat BY <1>1, <2>1, ProductType
    <2> QED BY <1>1, <2>1, <2>2
<1>4. input \in Nat /\ Pending = 0 BY DEF RefIInv, RefTypes, Pending, CallUpdate
<1>5. Absorb(SubSeq(d, 1, whole), whole, rest) /\ UNCHANGED <<spongeVars, output>>
    BY DEF CallUpdate
<1>6. d = [b \in 1 .. InBytes(n) |->
             CASE b <= whole -> Message(input + b - 1)
               [] b > whole /\ b <= whole + (InBytes(n) - n) -> Unused
               [] OTHER -> Message(input + b - 1 - (InBytes(n) - n))]
    BY DEF FromMsb
<1> HIDE DEF m, d
<1>7. d \in Seq(RefBit) /\ Len(d) = InBytes(n)
    <2> DEFINE gap == InBytes(n) - n
               bit(b) == CASE b <= whole -> Message(input + b - 1)
                           [] b > whole /\ b <= whole + gap -> Unused
                           [] OTHER -> Message(input + b - 1 - gap)
    <2>1. gap \in Nat BY <1>1, <1>2
    <2>2. ASSUME NEW b \in 1 .. InBytes(n) PROVE bit(b) \in RefBit
        <3> HIDE DEF gap, whole
        <3>1. CASE b <= whole
            <4>1. bit(b) = Message(input + b - 1) BY <1>2, <1>3, <2>1, <3>1
            <4>2. input + b - 1 \in Nat BY <1>2, <1>4
            <4> QED BY <4>1, <4>2, BitIs
        <3>2. CASE b > whole /\ b <= whole + gap
            <4>1. bit(b) = Unused BY <1>2, <1>3, <2>1, <3>2
            <4> QED BY <4>1, BitIs
        <3>3. CASE b > whole + gap
            <4>1. bit(b) = Message(input + b - 1 - gap) BY <1>2, <1>3, <2>1, <3>3
            <4>2. input + b - 1 - gap \in Nat BY <1>2, <1>3, <1>4, <2>1, <3>3
            <4> QED BY <4>1, <4>2, BitIs
        <3> QED BY <1>2, <1>3, <2>1, <3>1, <3>2, <3>3
    <2>3. d = [b \in 1 .. InBytes(n) |-> bit(b)] BY <1>6
    <2> HIDE DEF bit
    <2> QED BY <1>2, <2>2, <2>3
<1>8. \A b \in 1 .. whole : d[b] = Message(input + b - 1)
    BY <1>1, <1>2, <1>3, <1>6
<1>9. \A b \in 1 .. whole : SubSeq(d, 1, whole)[b] = d[b]
    BY <1>2, <1>3, <1>7
<1>10. SubSeq(d, 1, whole) \in Seq(RefBit) /\ Len(SubSeq(d, 1, whole)) = whole
    BY <1>2, <1>3, <1>7
<1>11. rest \in Seq(RefBit) /\ \A k \in 1 .. Len(rest) : rest[k] = Message(input + whole + k - 1)
    <2>1. CASE m = 0 BY <2>1
    <2>2. CASE m # 0
        <3> DEFINE last == SubSeq(d, whole + 1, Len(d))
                   shift == ByteBits - m
        <3>1. InBytes(n) = whole + ByteBits /\ InBytes(n) - n = shift BY <1>1, <1>2, <1>3, <2>2
        <3>2. last \in Seq(RefBit) /\ Len(last) = ByteBits
            BY <1>1, <1>3, <1>7, <3>1
        <3>3. \A b \in 1 .. ByteBits : last[b] = d[whole + b]
            BY <1>1, <1>3, <1>7, <3>1
        <3>4. Aligned(d, n) = [b \in 1 .. Len(last) |->
                                 IF b + shift <= Len(last) THEN last[b + shift] ELSE Zero]
            BY DEF Aligned, m
        <3> HIDE DEF last
        <3>5. \A b \in 1 .. m : Aligned(d, n)[b] = d[whole + b + shift]
            BY <1>1, <1>3, <3>2, <3>3, <3>4
        <3>6. \A b \in 1 .. m : d[whole + b + shift] = Message(input + whole + b - 1)
            <4> TAKE b \in 1 .. m
            <4> DEFINE spot == whole + b + shift
            <4>1. shift \in Nat /\ spot \in 1 .. InBytes(n) /\ spot > whole + shift
                  /\ input + spot - 1 - shift = input + whole + b - 1
                BY <1>1, <1>3, <1>4, <3>1
            <4> HIDE DEF spot, shift, whole
            <4>2. ~ (spot <= whole) /\ ~ (spot > whole /\ spot <= whole + shift)
                BY <1>3, <4>1
            <4>3. d[spot] = Message(input + spot - 1 - shift) BY <1>6, <3>1, <4>1, <4>2
            <4> QED BY <4>1, <4>3 DEF spot
        <3>7. Aligned(d, n) \in Seq(RefBit) /\ Len(Aligned(d, n)) = ByteBits
            <4>1. \A b \in 1 .. ByteBits :
                    (IF b + shift <= ByteBits THEN last[b + shift] ELSE Zero) \in RefBit
                BY <1>1, <1>3, <3>2, BitIs
            <4> QED BY <1>1, <3>2, <3>4, <4>1
        <3>8. rest = SubSeq(Aligned(d, n), 1, m) BY <2>2
        <3>9. rest \in Seq(RefBit) /\ Len(rest) = m /\ \A b \in 1 .. m : rest[b] = Aligned(d, n)[b]
            BY <1>1, <1>3, <3>7, <3>8
        <3> QED BY <3>5, <3>6, <3>9
    <2> QED BY <2>1, <2>2
<1> HIDE DEF rest, whole
<1>12. Brings(SubSeq(d, 1, whole), whole, rest)
    BY <1>3, <1>8, <1>9, <1>10, <1>11 DEF Brings
<1> QED BY <1>4, <1>5, <1>12, AbsorbKeeps

LEMMA AbsorbReturnsKeeps ==
    ASSUME RefIInv, AbsorbReturns
    PROVE  RefIInv'
<1>1. Pending = 0 BY DEF AbsorbReturns, RefIInv, RefTypes, Pending
<1>2. CASE lastByte # <<>>
    <2>1. Absorb(lastByte, Len(lastByte), <<>>) /\ UNCHANGED <<spongeVars, output>>
        BY <1>2 DEF AbsorbReturns
    <2>2. \A k \in 1 .. Len(lastByte) : lastByte[k] = Message(input + k - 1)
        BY DEF AbsorbReturns, RefIInv, HasBits
    <2>3. lastByte \in Seq(RefBit) /\ Len(lastByte) \in Nat BY DEF RefIInv, RefTypes
    <2>4. <<>> \in Seq(RefBit) /\ Len(<<>>) = 0 OBVIOUS
    <2>5. Brings(lastByte, Len(lastByte), <<>>) BY <2>2, <2>3, <2>4 DEF Brings
    <2> QED BY <1>1, <2>1, <2>5, AbsorbKeeps
<1>3. CASE lastByte = <<>>
    <2>1. RefTypes' /\ HasBits'
        BY <1>3 DEF AbsorbReturns, RefIInv, RefTypes, HasBits, spongeVars
    <2>2. input' - Pending' = input - Pending /\ pc' # "squeeze" /\ UNCHANGED input
          /\ UNCHANGED <<spongeVars, output>>
        BY <1>1, <1>3 DEF AbsorbReturns, Pending
    <2>3. TakesBits' /\ PadsInput' /\ GivesBits' /\ OutputIsStream'
        BY <2>2, SameSponge
    <2> QED BY <2>1, <2>3 DEF RefIInv
<1> QED BY <1>2, <1>3

LEMMA SqueezeReturnsKeeps ==
    ASSUME RefIInv, SqueezeReturns
    PROVE  RefIInv'
<1>1. RefTypes' /\ HasBits'
    BY DEF SqueezeReturns, RefIInv, RefTypes, HasBits, spongeVars
<1>2. input' - Pending' = input - Pending /\ pc' # "squeeze" /\ UNCHANGED input
      /\ UNCHANGED <<spongeVars, output>>
    BY DEF SqueezeReturns, Pending
<1>3. TakesBits' /\ PadsInput' /\ GivesBits' /\ OutputIsStream'
    BY <1>2, SameSponge
<1> QED BY <1>1, <1>3 DEF RefIInv

----------------------------------------------------------------------------------
(* What a running Absorb has: the queue ends in whole bytes, and the bits of data    *)
(* from i on are the next of the message.                                            *)
LEMMA Running ==
    ASSUME RefIInv, pc = "absorb", i < length
    PROVE  /\ ~ squeezing /\ squeezed = 0 /\ output = <<>>
           /\ rate \in Nat \ {0} /\ Whole(rate) /\ Whole(bitsInQueue) /\ bitsInQueue < rate
           /\ i \in Nat /\ length \in Nat /\ length - i \in Nat \ {0} /\ input \in Nat
           /\ length <= Len(data) /\ length <= input
           /\ Len(blocks) \in Nat /\ Len(blocks) * rate \in Nat
           /\ input - length + i = Len(blocks) * rate + bitsInQueue
           /\ \A x \in 0 .. length - i - 1 :
                data[i + x + 1] = Message(Len(blocks) * rate + bitsInQueue + x)
<1> USE DEF RefIInv
<1>1. ~ squeezing /\ length <= Len(data) /\ length <= input /\ bitsInQueue % ByteBits = 0
      /\ \A k \in i + 1 .. length : data[k] = Message(input - length + k - 1)
    BY DEF HasBits
<1>2. /\ rate \in Nat \ {0} /\ Whole(rate) /\ Whole(bitsInQueue)
      /\ i \in Nat /\ length \in Nat /\ input \in Nat /\ Len(blocks) \in Nat
    BY <1>1 DEF RefTypes, Whole
<1>3. Len(blocks) * rate \in Nat BY <1>2, ProductType
<1>4. squeezed = 0 /\ output = <<>> /\ bitsInQueue < rate
      /\ input - Pending = Len(blocks) * rate + bitsInQueue
    BY <1>1 DEF TakesBits
<1>5. Pending = length - i BY DEF Pending
<1> DEFINE spot == Len(blocks) * rate
<1> HIDE DEF spot
<1>6. spot \in Nat /\ input - length + i = spot + bitsInQueue
    BY <1>2, <1>3, <1>4, <1>5 DEF spot
<1>7. \A x \in 0 .. length - i - 1 : data[i + x + 1] = Message(spot + bitsInQueue + x)
    <2> TAKE x \in 0 .. length - i - 1
    <2>1. i + x + 1 \in i + 1 .. length
          /\ input - length + (i + x + 1) - 1 = spot + bitsInQueue + x
        BY <1>2, <1>6 DEF Whole
    <2> QED BY <1>1, <2>1
<1> QED BY <1>1, <1>2, <1>3, <1>4, <1>6, <1>7 DEF spot

LEMMA AbsorbBlocksKeeps ==
    ASSUME RefIInv, AbsorbBlocks
    PROVE  RefIInv'
<1> DEFINE n == (length - i) \div rate
           added == [j \in 1 .. n |-> [b \in 0 .. rate - 1 |-> data[i + (j - 1) * rate + b + 1]]]
           L == Len(blocks)
<1>1. pc = "absorb" /\ i < length /\ bitsInQueue = 0 /\ i + rate <= length
    BY DEF AbsorbBlocks, HasBlock, RefIInv, RefTypes
<1>2. /\ ~ squeezing /\ squeezed = 0 /\ output = <<>>
      /\ rate \in Nat \ {0}
      /\ i \in Nat /\ length \in Nat /\ length - i \in Nat \ {0} /\ input \in Nat
      /\ length <= Len(data) /\ length <= input
      /\ L \in Nat /\ L * rate \in Nat
      /\ input - length + i = L * rate
      /\ \A x \in 0 .. length - i - 1 : data[i + x + 1] = Message(L * rate + x)
    BY <1>1, Running
<1>3. blocks' = blocks \o added /\ i' = i + n * rate
      /\ UNCHANGED <<rate, squeezed, queue, bitsInQueue, fixedOutputLength, squeezing,
                   bitsAvailable, pc, length, data, lastByte, result, input, output>>
    BY DEF AbsorbBlocks
<1>4. n \in Nat /\ n * rate \in Nat /\ n * rate <= length - i
    <2>1. n \in Nat /\ length - i = n * rate + ((length - i) % rate)
          /\ (length - i) % rate \in 0 .. rate - 1
        BY <1>2, DivMod
    <2> HIDE DEF n
    <2> QED BY <1>2, <2>1, ProductType
<1> HIDE DEF n
<1>5. ASSUME NEW j \in 1 .. n, NEW b \in 0 .. rate - 1
      PROVE  /\ data[i + (j - 1) * rate + b + 1] = Message((L + j - 1) * rate + b)
             /\ (L + j - 1) * rate + b \in Nat
    <2> DEFINE off == (j - 1) * rate
    <2>1. n = (n - j) + j /\ n - j \in Nat /\ j - 1 \in Nat /\ j = (j - 1) + 1
        BY <1>4
    <2>2. n * rate = (n - j) * rate + j * rate BY <1>2, <1>4, <2>1, Distributes
    <2>3. j * rate = off + rate BY <1>2, <2>1, Distributes
    <2>4. off \in Nat /\ (n - j) * rate \in Nat BY <1>2, <2>1, ProductType
    <2>5. (L + j - 1) * rate = L * rate + off
        <3>1. L + j - 1 = L + (j - 1) BY <1>2
        <3> QED BY <1>2, <2>1, <3>1, Distributes
    <2> DEFINE x == off + b
    <2> HIDE DEF off
    <2>6. x \in 0 .. length - i - 1 /\ x \in Nat
        BY <1>2, <1>4, <2>2, <2>3, <2>4
    <2>7. i + off + b + 1 = i + x + 1 /\ L * rate + off + b = L * rate + x
        BY <1>2, <2>4
    <2> HIDE DEF x
    <2>8. data[i + x + 1] = Message(L * rate + x) BY <1>2, <2>6
    <2>9. L * rate + x \in Nat BY <1>2, <2>6
    <2> QED BY <2>5, <2>7, <2>8, <2>9 DEF off
<1>6. added \in Seq([0 .. rate - 1 -> RefBit]) /\ Len(added) = n
    <2>1. ASSUME NEW j \in 1 .. n PROVE added[j] \in [0 .. rate - 1 -> RefBit]
        <3>1. \A b \in 0 .. rate - 1 : data[i + (j - 1) * rate + b + 1] \in RefBit
            BY <1>5, BitIs
        <3> QED BY <3>1
    <2> QED BY <1>4, <2>1
<1>7. \A j \in 1 .. n : \A b \in 0 .. rate - 1 : added[j][b] = Message((L + j - 1) * rate + b)
    BY <1>5
<1> HIDE DEF added
<1>8. blocks \in Seq([0 .. rate - 1 -> RefBit]) BY DEF RefIInv, RefTypes
<1>9. /\ blocks' \in Seq([0 .. rate - 1 -> RefBit]) /\ Len(blocks') = L + n
      /\ \A k \in 1 .. L : blocks'[k] = blocks[k]
      /\ \A k \in L + 1 .. L + n : blocks'[k] = added[k - L]
    BY <1>3, <1>4, <1>6, <1>8
<1>10. \A k \in 1 .. L + n : \A b \in 0 .. rate - 1 :
          blocks'[k][b] = Message((k - 1) * rate + b)
    <2> TAKE k \in 1 .. L + n
    <2> TAKE b \in 0 .. rate - 1
    <2>1. CASE k <= L
        <3>1. blocks[k][b] = Message((k - 1) * rate + b)
            BY <1>2, <2>1 DEF RefIInv, TakesBits
        <3> QED BY <1>2, <1>9, <2>1, <3>1
    <2>2. CASE k > L
        <3>1. k - L \in 1 .. n /\ k \in L + 1 .. L + n /\ L + (k - L) - 1 = k - 1
            BY <1>2, <1>4, <2>2
        <3>2. added[k - L][b] = Message((L + (k - L) - 1) * rate + b) BY <1>7, <3>1
        <3> QED BY <1>9, <3>1, <3>2
    <2> QED BY <1>2, <1>4, <2>1, <2>2
<1>11. input' - Pending' = Len(blocks') * rate' + bitsInQueue'
    <2>1. Pending' = length - (i + n * rate) BY <1>1, <1>3 DEF Pending
    <2>2. (L + n) * rate = L * rate + n * rate BY <1>2, <1>4, Distributes
    <2> DEFINE p == L * rate
               q == n * rate
    <2>3. p \in Nat /\ q \in Nat /\ input - length + i = p /\ (L + n) * rate = p + q
          /\ Pending' = length - (i + q)
        BY <1>2, <1>4, <2>1, <2>2
    <2> HIDE DEF p, q
    <2>4. input - Pending' = p + q BY <1>2, <2>3
    <2> QED BY <1>1, <1>3, <1>9, <2>3, <2>4
<1>12. TakesBits'
    <2>1. bitsInQueue' = 0 /\ InBytes(bitsInQueue') = 0 /\ rate' = rate /\ rate \in Nat \ {0}
          /\ squeezed' = 0 /\ output' = <<>> /\ pc' = "absorb"
        BY <1>1, <1>2, <1>3, NoBytes
    <2>2. \A k \in 1 .. Len(blocks') : \A b \in 0 .. rate' - 1 :
             blocks'[k][b] = Message((k - 1) * rate' + b)
        BY <1>9, <1>10, <2>1
    <2>3. bitsInQueue' < rate' /\ \A b \in 0 .. bitsInQueue' - 1 : FALSE
        BY <2>1
    <2>4. \A b \in 0 .. rate' - 1 : ~ (bitsInQueue' <= b /\ b < InBytes(bitsInQueue'))
        BY <2>1
    <2> QED BY <1>11, <2>1, <2>2, <2>3, <2>4 DEF TakesBits
<1>13. i' \in Nat /\ i' <= length /\ i <= i'
    <2> DEFINE q == n * rate
    <2>1. q \in Nat /\ i' = i + q /\ q <= length - i BY <1>3, <1>4
    <2> HIDE DEF q
    <2> QED BY <1>2, <2>1
<1>14. RefTypes' BY <1>3, <1>9, <1>13 DEF RefIInv, RefTypes
<1>15. HasBits'
    <2>1. 0 % ByteBits = 0 BY ByteAssumption
    <2>2. \A k \in i' + 1 .. length : k \in i + 1 .. length
        <3> \A j, l, m \in Nat : j <= l => \A k \in l + 1 .. m : k \in j + 1 .. m
            OBVIOUS
        <3> QED BY <1>2, <1>13
    <2>3. /\ \A k \in i' + 1 .. length : data[k] = Message(input - length + k - 1)
          /\ \A k \in 1 .. Len(lastByte) : lastByte[k] = Message(input + k - 1)
        BY <1>1, <2>2 DEF RefIInv, HasBits
    <2> QED BY <1>1, <1>2, <1>3, <2>1, <2>3 DEF HasBits
<1>16. PadsInput' /\ GivesBits' /\ OutputIsStream'
    BY <1>2, <1>3 DEF PadsInput, GivesBits, OutputIsStream
<1> QED BY <1>12, <1>14, <1>15, <1>16 DEF RefIInv

----------------------------------------------------------------------------------
LEMMA AbsorbPartKeeps ==
    ASSUME RefIInv, AbsorbPart
    PROVE  RefIInv'
<1> DEFINE room == rate - bitsInQueue
           part == IF length - i > room THEN room ELSE length - i
           partialByte == part % ByteBits
           whole == part - partialByte
           copied == [b \in 0 .. rate - 1 |->
                        IF b \in bitsInQueue .. bitsInQueue + whole - 1
                        THEN data[i + b - bitsInQueue + 1] ELSE queue[b]]
           full == bitsInQueue + whole = rate
           spot == IF full THEN 0 ELSE bitsInQueue + whole
           L == Len(blocks)
           start == L * rate
<1>1. pc = "absorb" /\ i < length BY DEF AbsorbPart
<1>2. /\ ~ squeezing /\ squeezed = 0 /\ output = <<>>
      /\ rate \in Nat \ {0} /\ Whole(rate) /\ Whole(bitsInQueue) /\ bitsInQueue < rate
      /\ i \in Nat /\ length \in Nat /\ length - i \in Nat \ {0} /\ input \in Nat
      /\ length <= Len(data) /\ length <= input
      /\ L \in Nat /\ start \in Nat
      /\ input - length + i = start + bitsInQueue
      /\ \A x \in 0 .. length - i - 1 : data[i + x + 1] = Message(start + bitsInQueue + x)
    BY <1>1, Running
<1>3. /\ blocks' = IF full THEN Append(blocks, copied) ELSE blocks
      /\ queue' = IF partialByte = 0 THEN copied
                  ELSE [b \in 0 .. rate - 1 |->
                          CASE b \in spot .. spot + partialByte - 1 -> data[i + whole + b - spot + 1]
                            [] b \in spot + partialByte .. spot + ByteBits - 1 -> Zero
                            [] OTHER -> copied[b]]
      /\ bitsInQueue' = spot + partialByte
      /\ i' = i + part
      /\ UNCHANGED <<rate, squeezed, fixedOutputLength, squeezing, bitsAvailable, pc,
                     length, data, lastByte, result, input, output>>
    BY DEF AbsorbPart, AbsorbQueue
<1>4. bitsInQueue \in Nat /\ room # 0 /\ Whole(room) /\ room \in Nat
    <2>1. bitsInQueue \in Nat BY <1>2 DEF Whole
    <2>2. Whole(room) BY <1>2, WholeBelow
    <2>3. room \in Nat /\ room # 0 BY <1>2, <2>1
    <2> QED BY <2>1, <2>2, <2>3
<1>5. TakesPart(room, length - i, part, partialByte, whole)
    BY <1>2, <1>4, PartOf
<1> HIDE DEF partialByte, whole, part, start, L
<1>6. /\ part \in Nat \ {0} /\ partialByte \in Nat /\ whole \in Nat /\ part = whole + partialByte
      /\ part <= room /\ part <= length - i /\ partialByte < ByteBits /\ Whole(whole)
      /\ partialByte # 0 => part = length - i /\ whole + ByteBits <= room
      /\ whole = room => partialByte = 0
      /\ whole # room => part < room
    BY <1>5 DEF TakesPart
<1>7. ByteBits \in Nat \ {0} BY ByteAssumption
<1>8. full <=> whole = room BY <1>2, <1>4, <1>6
<1>9. queue \in [0 .. rate - 1 -> RefBit] /\ blocks \in Seq([0 .. rate - 1 -> RefBit])
    BY DEF RefIInv, RefTypes
<1>10. \A b \in 0 .. bitsInQueue - 1 : queue[b] = Message(start + b)
    BY <1>2 DEF RefIInv, TakesBits, start, L
<1>11. copied \in [0 .. rate - 1 -> RefBit]
       /\ \A b \in 0 .. bitsInQueue + whole - 1 : b \in 0 .. rate - 1 /\ copied[b] = Message(start + b)
    <2>1. ASSUME NEW b \in bitsInQueue .. bitsInQueue + whole - 1
          PROVE  /\ data[i + b - bitsInQueue + 1] = Message(start + b)
                 /\ start + b \in Nat /\ b \in 0 .. rate - 1
        <3> DEFINE x == b - bitsInQueue
        <3>1. x \in 0 .. length - i - 1 /\ i + x + 1 = i + b - bitsInQueue + 1
              /\ start + bitsInQueue + x = start + b
            BY <1>2, <1>4, <1>6
        <3>2. data[i + x + 1] = Message(start + bitsInQueue + x) BY <1>2, <3>1
        <3>3. start + b \in Nat /\ b \in 0 .. rate - 1 BY <1>2, <1>4, <1>6
        <3> HIDE DEF x
        <3> QED BY <3>1, <3>2, <3>3
    <2>2. ASSUME NEW b \in 0 .. rate - 1 PROVE copied[b] \in RefBit
        BY <1>9, <2>1, <2>2, BitIs
    <2>3. ASSUME NEW b \in 0 .. bitsInQueue + whole - 1
          PROVE  b \in 0 .. rate - 1 /\ copied[b] = Message(start + b)
        <3>1. b \in 0 .. rate - 1 BY <1>2, <1>4, <1>6
        <3>2. CASE b < bitsInQueue
            <4>1. b \in 0 .. bitsInQueue - 1 /\ b \notin bitsInQueue .. bitsInQueue + whole - 1
                BY <1>2, <1>4, <1>6, <3>2
            <4> QED BY <1>10, <3>1, <4>1
        <3>3. CASE b >= bitsInQueue
            <4>1. b \in bitsInQueue .. bitsInQueue + whole - 1 BY <1>2, <1>4, <1>6, <3>3
            <4> QED BY <2>1, <3>1, <4>1
        <3> QED BY <1>4, <3>2, <3>3
    <2> QED BY <2>2, <2>3
<1> HIDE DEF copied
<1>12. Pending' = length - i - part
    BY <1>1, <1>2, <1>3, <1>6 DEF Pending
<1>13. i' \in Nat /\ i' <= length /\ i <= i'
    <2>1. i \in Nat /\ length \in Nat /\ i' = i + part BY <1>2, <1>3
    <2>2. part \in Nat /\ part <= length - i BY <1>6
    <2> QED BY <2>1, <2>2
<1>14. ASSUME rate' = rate, bitsInQueue' \in Nat, queue' \in [0 .. rate - 1 -> RefBit],
              blocks' \in Seq([0 .. rate - 1 -> RefBit])
       PROVE  RefTypes'
    BY <1>3, <1>13, <1>14 DEF RefIInv, RefTypes
<1>15. ASSUME i' < length => bitsInQueue' % ByteBits = 0
       PROVE  HasBits'
    <2>1. \A k \in i' + 1 .. length : k \in i + 1 .. length
        <3> \A j, l, m \in Nat : j <= l => \A k \in l + 1 .. m : k \in j + 1 .. m
            OBVIOUS
        <3> QED BY <1>2, <1>13
    <2>2. /\ \A k \in i' + 1 .. length : data[k] = Message(input - length + k - 1)
          /\ \A k \in 1 .. Len(lastByte) : lastByte[k] = Message(input + k - 1)
        BY <1>1, <2>1 DEF RefIInv, HasBits
    <2> QED BY <1>2, <1>3, <1>15, <2>2 DEF HasBits
<1>16. PadsInput' /\ GivesBits' /\ OutputIsStream'
    BY <1>2, <1>3 DEF PadsInput, GivesBits, OutputIsStream
<1>17. CASE full
    <2>1. whole = room /\ partialByte = 0 /\ spot = 0 /\ bitsInQueue' = 0 /\ queue' = copied
          /\ blocks' = Append(blocks, copied) /\ bitsInQueue + whole = rate
        BY <1>3, <1>6, <1>8, <1>17
    <2>2. /\ blocks' \in Seq([0 .. rate - 1 -> RefBit]) /\ Len(blocks') = L + 1
          /\ \A k \in 1 .. L : blocks'[k] = blocks[k]
          /\ blocks'[L + 1] = copied
        BY <1>9, <1>11, <2>1 DEF L
    <2>3. RefTypes' BY <1>3, <1>11, <1>14, <2>1, <2>2
    <2>4. 0 % ByteBits = 0 BY <1>7
    <2>5. HasBits' BY <1>15, <2>1, <2>4
    <2>6. \A k \in 1 .. L + 1 : \A b \in 0 .. rate - 1 :
             blocks'[k][b] = Message((k - 1) * rate + b)
        <3> TAKE k \in 1 .. L + 1
        <3> TAKE b \in 0 .. rate - 1
        <3>1. CASE k = L + 1
            <4>1. (k - 1) * rate = start BY <1>2, <3>1 DEF start
            <4>2. b \in 0 .. bitsInQueue + whole - 1 BY <1>4, <1>6, <2>1
            <4> QED BY <1>11, <2>2, <3>1, <4>1, <4>2
        <3>2. CASE k # L + 1
            <4>1. k \in 1 .. L BY <1>2, <3>2
            <4>2. blocks[k][b] = Message((k - 1) * rate + b)
                BY <1>2, <4>1 DEF RefIInv, TakesBits, L
            <4> QED BY <2>2, <4>1, <4>2
        <3> QED BY <3>1, <3>2
    <2>7. input' - Pending' = Len(blocks') * rate' + bitsInQueue'
        <3>1. (L + 1) * rate = start + rate BY <1>2, Distributes DEF start
        <3>2. input - Pending' = start + rate
            BY <1>2, <1>4, <1>6, <1>12, <2>1
        <3> QED BY <1>2, <1>3, <2>1, <2>2, <3>1, <3>2
    <2>8. TakesBits'
        <3>1. bitsInQueue' = 0 /\ InBytes(bitsInQueue') = 0 /\ rate' = rate /\ rate \in Nat \ {0}
              /\ squeezed' = 0 /\ output' = <<>> /\ pc' = "absorb"
            BY <1>1, <1>2, <1>3, <2>1, NoBytes
        <3>2. \A k \in 1 .. Len(blocks') : \A b \in 0 .. rate' - 1 :
                 blocks'[k][b] = Message((k - 1) * rate' + b)
            BY <2>2, <2>6, <3>1
        <3>3. bitsInQueue' < rate' /\ \A b \in 0 .. bitsInQueue' - 1 : FALSE
            BY <3>1
        <3>4. \A b \in 0 .. rate' - 1 : ~ (bitsInQueue' <= b /\ b < InBytes(bitsInQueue'))
            BY <3>1
        <3> QED BY <2>7, <3>1, <3>2, <3>3, <3>4 DEF TakesBits
    <2> QED BY <1>16, <2>3, <2>5, <2>8 DEF RefIInv
<1>18. CASE ~ full
    <2>1. whole # room /\ spot = bitsInQueue + whole /\ bitsInQueue' = spot + partialByte
          /\ blocks' = blocks /\ rate' = rate
        BY <1>3, <1>8, <1>18
    <2>2. spot \in Nat /\ Whole(spot) /\ bitsInQueue' \in Nat /\ bitsInQueue' < rate
          /\ InBytes(spot) = spot /\ bitsInQueue' = bitsInQueue + part
        <3>1. Whole(spot) BY <1>2, <1>6, <2>1, WholeSum
        <3>2. spot \in Nat /\ InBytes(spot) = spot BY <3>1, BytesAre DEF Whole
        <3> QED BY <1>2, <1>4, <1>6, <2>1, <3>1, <3>2
    <2> DEFINE bit(b) == CASE b \in spot .. spot + partialByte - 1 -> data[i + whole + b - spot + 1]
                           [] b \in spot + partialByte .. spot + ByteBits - 1 -> Zero
                           [] OTHER -> copied[b]
    <2> HIDE DEF spot
    <2>3. \A b \in 0 .. spot - 1 : b \in 0 .. rate - 1 /\ copied[b] = Message(start + b)
        <3> TAKE b \in 0 .. spot - 1
        <3>1. b \in 0 .. bitsInQueue + whole - 1 BY <1>4, <1>6, <2>1, <2>2
        <3> QED BY <1>11, <3>1
    <2>4. /\ queue' \in [0 .. rate - 1 -> RefBit]
          /\ \A b \in 0 .. bitsInQueue' - 1 : queue'[b] = Message(start + b)
          /\ \A b \in 0 .. rate - 1 :
               bitsInQueue' <= b /\ b < InBytes(bitsInQueue') => queue'[b] = Zero
        <3>1. CASE partialByte = 0
            <4>1. queue' = copied /\ bitsInQueue' = spot /\ InBytes(bitsInQueue') = bitsInQueue'
                BY <1>3, <2>1, <2>2, <3>1
            <4>2. \A b \in 0 .. bitsInQueue' - 1 : queue'[b] = Message(start + b)
                BY <2>3, <4>1
            <4>3. \A b \in 0 .. rate - 1 : ~ (bitsInQueue' <= b /\ b < InBytes(bitsInQueue'))
                BY <2>2, <4>1
            <4> QED BY <1>11, <4>1, <4>2, <4>3
        <3>2. CASE partialByte # 0
            <4>1. part = length - i /\ spot + ByteBits <= rate /\ partialByte \in 1 .. ByteBits - 1
                BY <1>2, <1>4, <1>6, <1>7, <2>1, <3>2
            <4>2. queue' = [b \in 0 .. rate - 1 |-> bit(b)] BY <1>3, <3>2 DEF spot
            <4>3. ASSUME NEW b \in spot .. spot + partialByte - 1
                  PROVE  bit(b) = Message(start + b) /\ start + b \in Nat
                <5> DEFINE x == whole + (b - spot)
                <5>1. x \in 0 .. length - i - 1 /\ i + x + 1 = i + whole + b - spot + 1
                      /\ start + bitsInQueue + x = start + b /\ start + b \in Nat
                    BY <1>2, <1>4, <1>6, <2>1, <2>2, <4>1
                <5>2. data[i + x + 1] = Message(start + bitsInQueue + x) BY <1>2, <5>1
                <5>3. b \notin spot + partialByte .. spot + ByteBits - 1
                    BY <1>6, <2>2
                <5>4. bit(b) = data[i + whole + b - spot + 1] BY <5>3
                <5> HIDE DEF x, bit
                <5> QED BY <5>1, <5>2, <5>4
            <4>4. ASSUME NEW b \in spot + partialByte .. spot + ByteBits - 1
                  PROVE  bit(b) = Zero
                <5>1. b \notin spot .. spot + partialByte - 1 BY <1>6, <2>2
                <5> QED BY <5>1
            <4>5. ASSUME NEW b \in 0 .. rate - 1,
                         b \notin spot .. spot + partialByte - 1,
                         b \notin spot + partialByte .. spot + ByteBits - 1
                  PROVE  bit(b) = copied[b]
                BY <4>5
            <4> HIDE DEF bit
            <4>6. \A b \in 0 .. rate - 1 : bit(b) \in RefBit
                BY <1>11, <4>3, <4>4, <4>5, BitIs
            <4>7. \A b \in 0 .. spot - 1 :
                     b \notin spot .. spot + partialByte - 1
                     /\ b \notin spot + partialByte .. spot + ByteBits - 1
                BY <1>6, <1>7, <2>2
            <4>8. \A b \in 0 .. spot - 1 : bit(b) = Message(start + b)
                BY <2>3, <4>5, <4>7
            <4>9. InBytes(bitsInQueue') = spot + ByteBits
                <5>1. PICK q \in Nat : spot = q * ByteBits BY <2>2, WholeIs
                <5>2. bitsInQueue' = q * ByteBits + partialByte
                      /\ partialByte \in 0 .. ByteBits - 1
                    BY <1>6, <1>7, <2>1, <5>1
                <5>3. bitsInQueue' % ByteBits = partialByte BY <1>7, <5>2, DivModOf
                <5>4. bitsInQueue' \in Nat /\ bitsInQueue' % ByteBits # 0 BY <2>2, <3>2, <5>3
                <5>5. InBytes(bitsInQueue') = bitsInQueue' - (bitsInQueue' % ByteBits) + ByteBits
                    BY <5>4, BytesAre
                <5> QED BY <1>6, <1>7, <2>1, <2>2, <5>3, <5>5
            <4>10. \A b \in 0 .. bitsInQueue' - 1 :
                     b \in 0 .. rate - 1 /\ (b \in 0 .. spot - 1 \/ b \in spot .. spot + partialByte - 1)
                <5>1. rate \in Nat /\ spot \in Nat /\ partialByte \in Nat BY <1>2, <1>6, <2>2
                <5>2. bitsInQueue' = spot + partialByte /\ bitsInQueue' < rate BY <2>1, <2>2
                <5> QED BY <5>1, <5>2
            <4>11. \A b \in 0 .. rate - 1 : bitsInQueue' <= b /\ b < InBytes(bitsInQueue')
                      => b \in spot + partialByte .. spot + ByteBits - 1
                BY <1>6, <1>7, <2>1, <2>2, <4>9
            <4>12. \A b \in 0 .. rate - 1 : queue'[b] = bit(b) BY <4>2
            <4> QED BY <4>2, <4>3, <4>4, <4>6, <4>8, <4>10, <4>11, <4>12
        <3> QED BY <3>1, <3>2
    <2>5. RefTypes' BY <1>9, <1>14, <2>1, <2>2, <2>4
    <2>6. HasBits'
        <3>1. partialByte # 0 => i' = length BY <1>2, <1>3, <1>6
        <3>2. partialByte = 0 => bitsInQueue' % ByteBits = 0
            BY <2>1, <2>2 DEF Whole
        <3> QED BY <1>2, <1>15, <3>1, <3>2
    <2>7. input' - Pending' = Len(blocks') * rate' + bitsInQueue'
        <3>1. Len(blocks') * rate' = start BY <2>1 DEF start, L
        <3>2. input - Pending' = start + bitsInQueue'
            BY <1>2, <1>4, <1>6, <1>12, <2>2
        <3> QED BY <1>3, <3>1, <3>2
    <2>8. TakesBits'
        <3>1. /\ squeezed' = 0 /\ output' = <<>> /\ pc' = "absorb" /\ bitsInQueue' < rate'
              /\ blocks' = blocks /\ rate' = rate /\ Len(blocks') * rate' = start
            BY <1>1, <1>2, <1>3, <2>1, <2>2 DEF start, L
        <3>2. \A k \in 1 .. Len(blocks) : \A b \in 0 .. rate - 1 :
                 blocks[k][b] = Message((k - 1) * rate + b)
            BY <1>2 DEF RefIInv, TakesBits
        <3> QED BY <2>4, <2>7, <3>1, <3>2 DEF TakesBits
    <2> QED BY <1>16, <2>5, <2>6, <2>8 DEF RefIInv
<1> QED BY <1>17, <1>18

----------------------------------------------------------------------------------
(* The padding: the last block, or the last two, of a message whose bits are in      *)
(* blocks and queue, and the squeezing that starts on them.                          *)
LEMMA PaddedQueue ==
    ASSUME RefIInv, pc = "idle", ~ squeezing,
           NEW start, start = Len(blocks) * rate
    PROVE  /\ rate \in Nat \ {0} /\ start \in Nat /\ Len(blocks) \in Nat
           /\ bitsInQueue \in Nat /\ bitsInQueue < rate /\ input = start + bitsInQueue
           /\ queue \in [0 .. rate - 1 -> RefBit]
           /\ \A b \in 0 .. bitsInQueue - 1 : queue[b] = Message(start + b)
           /\ \A b \in 0 .. rate - 1 :
                bitsInQueue <= b /\ b < InBytes(bitsInQueue) => queue[b] = Zero
           /\ \A b \in 0 .. rate - 1 : (start + b) % rate = b
           /\ InBytes(bitsInQueue) \in Nat /\ bitsInQueue <= InBytes(bitsInQueue)
<1>1. rate \in Nat \ {0} /\ bitsInQueue \in Nat /\ Len(blocks) \in Nat /\ input \in Nat
      /\ queue \in [0 .. rate - 1 -> RefBit]
    BY DEF RefIInv, RefTypes
<1>2. start \in Nat BY <1>1, ProductType
<1>3. /\ bitsInQueue < rate /\ input - Pending = start + bitsInQueue
      /\ \A b \in 0 .. bitsInQueue - 1 : queue[b] = Message(start + b)
      /\ \A b \in 0 .. rate - 1 :
           bitsInQueue <= b /\ b < InBytes(bitsInQueue) => queue[b] = Zero
    BY DEF RefIInv, TakesBits
<1>4. input = start + bitsInQueue BY <1>1, <1>2, <1>3 DEF Pending
<1>5. \A b \in 0 .. rate - 1 : (start + b) % rate = b BY <1>1, DivModOf
<1> QED BY <1>1, <1>2, <1>3, <1>4, <1>5, BytesAre

LEMMA LastBlock ==
    ASSUME RefIInv, pc = "idle", ~ squeezing, ~ PadsTwoBlocks,
           NEW start, start = Len(blocks) * rate
    PROVE  \E last \in [0 .. rate - 1 -> RefBit] :
             /\ PaddedBlocks = <<last>>
             /\ \A b \in 0 .. rate - 1 : last[b] = PaddedBit(input, start + b)
<1> DEFINE cleared == [b \in 0 .. rate - 1 |->
                         IF b >= InBytes(bitsInQueue) THEN Zero ELSE queue[b]]
           last == [cleared EXCEPT ![bitsInQueue] = One, ![rate - 1] = One]
<1>1. PaddedBlocks = <<last>> BY DEF PaddedBlocks
<1>2. /\ rate \in Nat \ {0} /\ start \in Nat
      /\ bitsInQueue \in Nat /\ bitsInQueue < rate /\ input = start + bitsInQueue
      /\ InBytes(bitsInQueue) \in Nat /\ bitsInQueue <= InBytes(bitsInQueue)
    BY PaddedQueue
<1>3. /\ queue \in [0 .. rate - 1 -> RefBit]
      /\ \A b \in 0 .. bitsInQueue - 1 : queue[b] = Message(start + b)
      /\ \A b \in 0 .. rate - 1 :
           bitsInQueue <= b /\ b < InBytes(bitsInQueue) => queue[b] = Zero
    BY PaddedQueue
<1>4. \A b \in 0 .. rate - 1 : (start + b) % rate = b BY PaddedQueue
<1>5. bitsInQueue # rate - 1 BY <1>2 DEF PadsTwoBlocks
<1>6. cleared \in [0 .. rate - 1 -> RefBit] BY <1>3, BitIs
<1>7. \A b \in 0 .. rate - 1 :
        cleared[b] = IF b >= InBytes(bitsInQueue) THEN Zero ELSE queue[b]
    OBVIOUS
<1> HIDE DEF cleared
<1>8. /\ last \in [0 .. rate - 1 -> RefBit]
      /\ last[rate - 1] = One /\ last[bitsInQueue] = One
      /\ \A b \in 0 .. rate - 1 : b # bitsInQueue /\ b # rate - 1 => last[b] = cleared[b]
    BY <1>2, <1>5, <1>6, BitIs
<1> HIDE DEF last
<1>9. ASSUME NEW b \in 0 .. rate - 1 PROVE last[b] = PaddedBit(input, start + b)
    <2>1. CASE b < bitsInQueue
        <3>1. b # bitsInQueue /\ b # rate - 1 /\ b < InBytes(bitsInQueue) /\ b \in 0 .. bitsInQueue - 1
              /\ start + b < input
            BY <1>2, <1>5, <2>1
        <3>2. cleared[b] = queue[b] BY <1>2, <1>7, <3>1
        <3>3. queue[b] = Message(start + b) BY <1>3, <3>1
        <3>4. last[b] = Message(start + b) BY <1>8, <3>1, <3>2, <3>3
        <3>5. PaddedBit(input, start + b) = Message(start + b)
            BY <1>2, <3>1 DEF PaddedBit
        <3> QED BY <3>4, <3>5
    <2>2. CASE b = bitsInQueue
        <3>1. start + b = input /\ ~ (start + b < input) /\ ~ (start + b > input)
            BY <1>2, <2>2
        <3>2. PaddedBit(input, start + b) = One BY <3>1 DEF PaddedBit
        <3> QED BY <1>8, <2>2, <3>2
    <2>3. CASE b > bitsInQueue /\ b = rate - 1
        <3>1. start + b > input /\ ~ (start + b < input) /\ start + b # input
            BY <1>2, <2>3
        <3>2. (start + b) % rate = rate - 1 BY <1>4, <2>3
        <3>3. PaddedBit(input, start + b) = One BY <3>1, <3>2 DEF PaddedBit
        <3> QED BY <1>8, <2>3, <3>3
    <2>4. CASE b > bitsInQueue /\ b # rate - 1
        <3>1. ~ (start + b < input) /\ start + b # input BY <1>2, <2>4
        <3>2. (start + b) % rate # rate - 1 BY <1>4, <2>4
        <3>3. PaddedBit(input, start + b) = Zero BY <3>1, <3>2 DEF PaddedBit
        <3>4. b # bitsInQueue BY <1>2, <2>4
        <3>5. cleared[b] = Zero
            <4>1. CASE b >= InBytes(bitsInQueue) BY <1>7, <4>1
            <4>2. CASE ~ (b >= InBytes(bitsInQueue))
                <5>1. bitsInQueue <= b /\ b < InBytes(bitsInQueue) BY <1>2, <2>4, <4>2
                <5> QED BY <1>7, <1>3, <4>2, <5>1
            <4> QED BY <4>1, <4>2
        <3> QED BY <1>8, <2>4, <3>3, <3>4, <3>5
    <2> QED BY <1>2, <2>1, <2>2, <2>3, <2>4
<1> QED BY <1>1, <1>8, <1>9

LEMMA LastTwoBlocks ==
    ASSUME RefIInv, pc = "idle", ~ squeezing, PadsTwoBlocks,
           NEW start, start = Len(blocks) * rate
    PROVE  \E started, last \in [0 .. rate - 1 -> RefBit] :
             /\ PaddedBlocks = <<started, last>>
             /\ \A b \in 0 .. rate - 1 : started[b] = PaddedBit(input, start + b)
             /\ \A b \in 0 .. rate - 1 : last[b] = PaddedBit(input, (start + rate) + b)
<1> DEFINE started == [queue EXCEPT ![bitsInQueue] = One]
           zeros == Fill(Zero, rate)
           last == [zeros EXCEPT ![rate - 1] = One]
<1>1. PaddedBlocks = <<started, last>> BY DEF PaddedBlocks
<1>2. /\ rate \in Nat \ {0} /\ start \in Nat /\ Len(blocks) \in Nat
      /\ bitsInQueue \in Nat /\ bitsInQueue < rate /\ input = start + bitsInQueue
      /\ queue \in [0 .. rate - 1 -> RefBit]
      /\ \A b \in 0 .. bitsInQueue - 1 : queue[b] = Message(start + b)
    BY PaddedQueue
<1>3. bitsInQueue = rate - 1 BY <1>2 DEF PadsTwoBlocks
<1>4. zeros \in [0 .. rate - 1 -> RefBit] /\ \A b \in 0 .. rate - 1 : zeros[b] = Zero
    BY <1>2, BitIs DEF Fill
<1> HIDE DEF zeros
<1>5. /\ started \in [0 .. rate - 1 -> RefBit] /\ started[bitsInQueue] = One
      /\ \A b \in 0 .. rate - 1 : b # bitsInQueue => started[b] = queue[b]
    BY <1>2, <1>3, BitIs
<1>6. /\ last \in [0 .. rate - 1 -> RefBit] /\ last[rate - 1] = One
      /\ \A b \in 0 .. rate - 1 : b # rate - 1 => last[b] = Zero
    BY <1>2, <1>4, BitIs
<1> HIDE DEF started, last
<1>7. ASSUME NEW b \in 0 .. rate - 1 PROVE started[b] = PaddedBit(input, start + b)
    <2>1. CASE b = bitsInQueue
        <3>1. start + b = input /\ ~ (start + b < input) /\ ~ (start + b > input)
            BY <1>2, <2>1
        <3>2. PaddedBit(input, start + b) = One BY <3>1 DEF PaddedBit
        <3> QED BY <1>5, <2>1, <3>2
    <2>2. CASE b # bitsInQueue
        <3>1. b \in 0 .. bitsInQueue - 1 /\ start + b < input BY <1>2, <1>3, <2>2
        <3>2. PaddedBit(input, start + b) = Message(start + b)
            BY <1>2, <3>1 DEF PaddedBit
        <3> QED BY <1>2, <1>5, <2>2, <3>1, <3>2
    <2> QED BY <2>1, <2>2
<1>8. ASSUME NEW b \in 0 .. rate - 1 PROVE last[b] = PaddedBit(input, (start + rate) + b)
    <2> DEFINE spot == (start + rate) + b
    <2>1. spot > input /\ ~ (spot < input) /\ spot # input BY <1>2, <1>3
    <2>2. spot % rate = b
        <3>1. (Len(blocks) + 1) * rate = start + rate BY <1>2, Distributes
        <3>2. Len(blocks) + 1 \in Nat BY <1>2
        <3>3. ((Len(blocks) + 1) * rate + b) % rate = b BY <1>2, <3>2, DivModOf
        <3> QED BY <3>1, <3>3
    <2> HIDE DEF spot
    <2>3. PaddedBit(input, spot) = IF b = rate - 1 THEN One ELSE Zero
        BY <2>1, <2>2 DEF PaddedBit
    <2> QED BY <1>6, <2>3 DEF spot
<1> QED BY <1>1, <1>5, <1>6, <1>7, <1>8

LEMMA PaddingPads ==
    ASSUME RefIInv, pc = "idle", ~ squeezing, blocks' = blocks \o PaddedBlocks,
           UNCHANGED <<rate, input>>
    PROVE  /\ blocks' \in Seq([0 .. rate - 1 -> RefBit])
           /\ Len(blocks') = (input + 1) \div rate + 1
           /\ \A k \in 1 .. Len(blocks') : \A b \in 0 .. rate - 1 :
                blocks'[k][b] = PaddedBit(input, (k - 1) * rate + b)
<1> DEFINE L == Len(blocks)
           start == L * rate
<1>1. /\ rate \in Nat \ {0} /\ start \in Nat /\ L \in Nat
      /\ bitsInQueue \in Nat /\ bitsInQueue < rate /\ input = start + bitsInQueue
    BY PaddedQueue
<1>2. blocks \in Seq([0 .. rate - 1 -> RefBit]) BY DEF RefIInv, RefTypes
<1>3. (L + 1) * rate = start + rate /\ L + 1 \in Nat BY <1>1, Distributes
<1>4. ASSUME NEW k \in 1 .. L, NEW b \in 0 .. rate - 1
      PROVE  blocks[k][b] = PaddedBit(input, (k - 1) * rate + b)
    <2> DEFINE spot == (k - 1) * rate
    <2>1. blocks[k][b] = Message(spot + b) BY DEF RefIInv, TakesBits
    <2>2. k - 1 \in Nat /\ L - k \in Nat /\ L = (k - 1) + ((L - k) + 1) /\ (L - k) + 1 \in Nat
        BY <1>1
    <2>3. spot \in Nat /\ (L - k) * rate \in Nat BY <1>1, <2>2, ProductType
    <2>4. start = spot + ((L - k) + 1) * rate BY <1>1, <2>2, Distributes
    <2>5. ((L - k) + 1) * rate = (L - k) * rate + rate BY <1>1, <2>2, Distributes
    <2> DEFINE more == (L - k) * rate
    <2> HIDE DEF spot, more, start
    <2>6. start = spot + (more + rate) BY <2>4, <2>5 DEF more
    <2>7. spot \in Nat /\ more \in Nat BY <2>3 DEF more, spot
    <2>8. spot + b < input BY <1>1, <2>6, <2>7
    <2>9. PaddedBit(input, spot + b) = Message(spot + b)
        BY <1>1, <2>8, <2>7 DEF PaddedBit
    <2> QED BY <2>1, <2>9 DEF spot
<1>5. CASE ~ PadsTwoBlocks
    <2>1. PICK last \in [0 .. rate - 1 -> RefBit] :
            /\ PaddedBlocks = <<last>>
            /\ \A b \in 0 .. rate - 1 : last[b] = PaddedBit(input, start + b)
        BY <1>5, LastBlock
    <2>2. /\ blocks' \in Seq([0 .. rate - 1 -> RefBit]) /\ Len(blocks') = L + 1
          /\ \A k \in 1 .. L : blocks'[k] = blocks[k]
          /\ blocks'[L + 1] = last
        BY <1>2, <2>1
    <2>3. (input + 1) \div rate = L
        <3>1. bitsInQueue + 1 \in 0 .. rate - 1 BY <1>1, <1>5 DEF PadsTwoBlocks
        <3>2. (L * rate + (bitsInQueue + 1)) \div rate = L BY <1>1, <3>1, DivModOf
        <3>3. L * rate + (bitsInQueue + 1) = input + 1 BY <1>1
        <3> QED BY <3>2, <3>3
    <2>4. ASSUME NEW k \in 1 .. L + 1, NEW b \in 0 .. rate - 1
          PROVE  blocks'[k][b] = PaddedBit(input, (k - 1) * rate + b)
        <3>1. CASE k = L + 1
            <4>1. (k - 1) * rate = start BY <1>1, <3>1
            <4> HIDE DEF start
            <4> QED BY <2>1, <2>2, <3>1, <4>1
        <3>2. CASE k # L + 1
            <4>1. k \in 1 .. L BY <1>1, <3>2
            <4> QED BY <1>4, <2>2, <4>1
        <3> QED BY <3>1, <3>2
    <2> QED BY <1>1, <2>2, <2>3, <2>4
<1>6. CASE PadsTwoBlocks
    <2>1. PICK started, last \in [0 .. rate - 1 -> RefBit] :
             /\ PaddedBlocks = <<started, last>>
             /\ \A b \in 0 .. rate - 1 : started[b] = PaddedBit(input, start + b)
             /\ \A b \in 0 .. rate - 1 : last[b] = PaddedBit(input, (start + rate) + b)
        BY <1>6, LastTwoBlocks
    <2>2. /\ blocks' \in Seq([0 .. rate - 1 -> RefBit]) /\ Len(blocks') = L + 2
          /\ \A k \in 1 .. L : blocks'[k] = blocks[k]
          /\ blocks'[L + 1] = started /\ blocks'[L + 2] = last
        BY <1>2, <2>1
    <2>3. (input + 1) \div rate = L + 1
        <3>1. 0 \in 0 .. rate - 1 BY <1>1
        <3>2. ((L + 1) * rate + 0) \div rate = L + 1 BY <1>1, <1>3, <3>1, DivModOf
        <3>3. (L + 1) * rate + 0 = input + 1 BY <1>1, <1>3, <1>6 DEF PadsTwoBlocks
        <3> QED BY <3>2, <3>3
    <2>4. ASSUME NEW k \in 1 .. L + 2, NEW b \in 0 .. rate - 1
          PROVE  blocks'[k][b] = PaddedBit(input, (k - 1) * rate + b)
        <3>1. CASE k = L + 1
            <4>1. (k - 1) * rate = start BY <1>1, <3>1
            <4> HIDE DEF start
            <4> QED BY <2>1, <2>2, <3>1, <4>1
        <3>2. CASE k = L + 2
            <4>1. k - 1 = L + 1 BY <1>1, <3>2
            <4>2. (k - 1) * rate = start + rate BY <1>3, <4>1
            <4> HIDE DEF start
            <4> QED BY <2>1, <2>2, <3>2, <4>2
        <3>3. CASE k # L + 1 /\ k # L + 2
            <4>1. k \in 1 .. L BY <1>1, <3>3
            <4> QED BY <1>4, <2>2, <4>1
        <3> QED BY <3>1, <3>2, <3>3
    <2> QED BY <1>1, <2>2, <2>3, <2>4
<1> QED BY <1>5, <1>6

----------------------------------------------------------------------------------
LEMMA SqueezeKeeps ==
    ASSUME RefIInv, pc = "idle", NEW n \in Nat, Squeeze(n)
    PROVE  RefIInv'
<1>1. /\ UNCHANGED <<rate, squeezed, fixedOutputLength, data, lastByte, input, output>>
      /\ pc' \in {"idle", "squeeze"} /\ i' \in Nat /\ length' \in Nat /\ i' <= length'
    BY DEF Squeeze, RefIInv, RefTypes
<1>2. HasBits' BY <1>1 DEF HasBits
<1>3. CASE squeezing
    <2>1. UNCHANGED <<blocks, queue, bitsInQueue, squeezing, bitsAvailable>>
        BY <1>3 DEF Squeeze
    <2>2. RefTypes' BY <1>1, <2>1 DEF RefIInv, RefTypes
    <2>3. TakesBits' BY <1>3, <2>1 DEF TakesBits
    <2>4. PadsInput' /\ GivesBits' /\ OutputIsStream'
        BY <1>1, <1>3, <2>1 DEF RefIInv, PadsInput, PaddedBit, GivesBits, OutputIsStream
    <2> QED BY <1>2, <2>2, <2>3, <2>4 DEF RefIInv
<1>4. CASE ~ squeezing
    <2>1. /\ blocks' = blocks \o PaddedBlocks
          /\ bitsInQueue' = 0
          /\ queue' = Extract(blocks', squeezed)
          /\ bitsAvailable' = rate
          /\ squeezing' = TRUE
        BY <1>4 DEF Squeeze, PadAndSwitchToSqueezingPhase
    <2>2. /\ blocks' \in Seq([0 .. rate - 1 -> RefBit])
          /\ Len(blocks') = (input + 1) \div rate + 1
          /\ \A k \in 1 .. Len(blocks') : \A b \in 0 .. rate - 1 :
               blocks'[k][b] = PaddedBit(input, (k - 1) * rate + b)
        BY <1>1, <1>4, <2>1, PaddingPads
    <2>3. squeezed = 0 /\ output = <<>> /\ rate \in Nat \ {0} /\ Len(blocks') \in Nat
        BY <1>4, <2>2 DEF RefIInv, TakesBits, RefTypes
    <2>4. queue' \in [0 .. rate - 1 -> RefBit]
          /\ \A b \in 0 .. rate - 1 : queue'[b] = Output(Len(blocks'), squeezed, b)
        <3>1. queue' = [b \in 0 .. rate - 1 |-> Output(Len(blocks'), squeezed, b)]
            BY <2>1 DEF Extract
        <3>2. \A b \in 0 .. rate - 1 : Output(Len(blocks'), squeezed, b) \in RefBit
            BY <2>3, BitIs
        <3> QED BY <3>1, <3>2
    <2>5. RefTypes'
        <3>1. bitsInQueue' \in Nat /\ bitsAvailable' \in 0 .. rate' /\ squeezing' \in BOOLEAN
            BY <1>1, <2>1, <2>3
        <3> QED BY <1>1, <2>2, <2>4, <3>1 DEF RefIInv, RefTypes
    <2>6. TakesBits' BY <2>1 DEF TakesBits
    <2>7. PadsInput'
        <3>1. \A m, b : PaddedBit(m, b)' = PaddedBit(m, b) BY <1>1 DEF PaddedBit
        <3> QED BY <1>1, <2>2, <3>1 DEF PadsInput
    <2>8. GivesBits'
        <3>1. Len(output') = 0 /\ (squeezed + 1) * rate - rate = 0 BY <1>1, <2>3
        <3> QED BY <1>1, <2>1, <2>4, <3>1 DEF GivesBits
    <2>9. OutputIsStream' BY <1>1, <2>3 DEF OutputIsStream
    <2> QED BY <1>2, <2>5, <2>6, <2>7, <2>8, <2>9 DEF RefIInv
<1> QED BY <1>3, <1>4

LEMMA Joined ==
    ASSUME NEW s \in Seq(RefBit), NEW t \in Seq(RefBit)
    PROVE  /\ s \o t \in Seq(RefBit) /\ Len(s \o t) = Len(s) + Len(t)
           /\ \A k \in 1 .. Len(s) : (s \o t)[k] = s[k]
           /\ \A k \in 1 .. Len(t) : (s \o t)[Len(s) + k] = t[k]
OBVIOUS

LEMMA SqueezePartKeeps ==
    ASSUME RefIInv, SqueezePart
    PROVE  RefIInv' /\ squeezing /\ \E t \in Seq(RefBit) : output' = output \o t
<1> DEFINE next == bitsAvailable = 0
           n == IF next THEN squeezed + 1 ELSE squeezed
           block == IF next THEN Extract(blocks, n) ELSE queue
           available == IF next THEN rate ELSE bitsAvailable
           part == IF available > length - i THEN length - i ELSE available
           added == [b \in 1 .. part |-> block[FirstAvailable(available) + b - 1]]
           L == Len(blocks)
           O == Len(output)
<1>1. /\ pc = "squeeze" /\ i < length
      /\ squeezed' = n /\ queue' = block
      /\ output' = output \o added
      /\ bitsAvailable' = available - part
      /\ i' = i + part
      /\ UNCHANGED <<rate, blocks, bitsInQueue, fixedOutputLength, squeezing, pc, length,
                     data, lastByte, result, input>>
    BY DEF SqueezePart
<1>2. squeezing BY <1>1 DEF RefIInv, TakesBits
<1>3. /\ rate \in Nat \ {0} /\ squeezed \in Nat /\ bitsAvailable \in 0 .. rate
      /\ i \in Nat /\ length \in Nat /\ L \in Nat /\ O \in Nat
    BY DEF RefIInv, RefTypes
<1>4. output \in Seq(RefBit) BY DEF RefIInv, RefTypes
<1>5. O = (squeezed + 1) * rate - bitsAvailable
      /\ \A b \in 0 .. rate - 1 : queue[b] = Output(L, squeezed, b)
    BY <1>2 DEF RefIInv, GivesBits
<1>6. n \in Nat /\ available \in 1 .. rate /\ part \in 1 .. available /\ i + part <= length
    BY <1>1, <1>3
<1>7. n * rate \in Nat /\ O = n * rate + (rate - available)
    <2>1. (squeezed + 1) * rate = squeezed * rate + rate BY <1>3
    <2>2. CASE next
        <3>1. n = squeezed + 1 /\ available = rate /\ bitsAvailable = 0 BY <2>2
        <3>2. (squeezed + 1) * rate \in Nat BY <1>3, ProductType
        <3> QED BY <1>3, <1>5, <3>1, <3>2
    <2>3. CASE ~ next
        <3>1. n = squeezed /\ available = bitsAvailable BY <2>3
        <3>2. squeezed * rate \in Nat BY <1>3, ProductType
        <3> QED BY <1>3, <1>5, <2>1, <3>1, <3>2
    <2> QED BY <2>2, <2>3
<1>8. block \in [0 .. rate - 1 -> RefBit]
      /\ \A b \in 0 .. rate - 1 : block[b] = Output(L, n, b)
    <2>1. CASE next
        <3>1. block = [b \in 0 .. rate - 1 |-> Output(L, n, b)] BY <2>1 DEF Extract
        <3>2. \A b \in 0 .. rate - 1 : Output(L, n, b) \in RefBit
            BY <1>3, <1>6, BitIs
        <3> HIDE DEF block, n
        <3> QED BY <3>1, <3>2
    <2>2. CASE ~ next
        <3>1. block = queue /\ n = squeezed BY <2>2
        <3>2. queue \in [0 .. rate - 1 -> RefBit] BY DEF RefIInv, RefTypes
        <3> HIDE DEF block, n
        <3> QED BY <1>5, <3>1, <3>2
    <2> QED BY <2>1, <2>2
<1> HIDE DEF n, block, available, part, L, O
<1>9. added \in Seq(RefBit) /\ Len(added) = part
      /\ \A b \in 1 .. part : added[b] = Output(L, n, rate - available + b - 1)
    <2>1. ASSUME NEW b \in 1 .. part
          PROVE  /\ block[FirstAvailable(available) + b - 1] = Output(L, n, rate - available + b - 1)
                 /\ block[FirstAvailable(available) + b - 1] \in RefBit
        <3>1. FirstAvailable(available) + b - 1 = rate - available + b - 1
              /\ rate - available + b - 1 \in 0 .. rate - 1
            BY <1>3, <1>6 DEF FirstAvailable
        <3> QED BY <1>8, <3>1
    <2> QED BY <1>6, <2>1
<1> HIDE DEF added
<1>10. /\ output' \in Seq(RefBit) /\ Len(output') = O + part
       /\ \A k \in 1 .. O : output'[k] = output[k]
       /\ \A b \in 1 .. part : output'[O + b] = added[b]
    <2>1. output' = output \o added /\ added \in Seq(RefBit) /\ Len(added) = part BY <1>1, <1>9
    <2>2. O = Len(output) BY DEF O
    <2> QED BY <1>4, <2>1, <2>2, Joined
<1>11. OutputIsStream'
    <2>1. ASSUME NEW k \in 1 .. O + part
          PROVE  output'[k] = Output(L, (k - 1) \div rate, (k - 1) % rate)
        <3>1. CASE k <= O
            <4>1. k \in 1 .. O BY <1>3, <3>1
            <4> QED BY <1>10, <4>1 DEF RefIInv, OutputIsStream, O, L
        <3>2. CASE k > O
            <4> DEFINE b == k - O
                       spot == rate - available + b - 1
            <4>1. b \in 1 .. part /\ k = O + b /\ spot \in 0 .. rate - 1
                BY <1>3, <1>6, <3>2
            <4>2. k - 1 = n * rate + spot BY <1>3, <1>6, <1>7, <4>1
            <4> HIDE DEF spot
            <4>3. (k - 1) \div rate = n /\ (k - 1) % rate = spot
                BY <1>3, <1>6, <4>1, <4>2, DivModOf
            <4>4. output'[k] = Output(L, n, spot) BY <1>9, <1>10, <4>1 DEF spot
            <4> QED BY <4>3, <4>4
        <3> QED BY <1>3, <1>6, <3>1, <3>2
    <2> QED BY <1>1, <1>10, <2>1 DEF OutputIsStream, L
<1>12. GivesBits'
    <2>1. (n + 1) * rate = n * rate + rate BY <1>3, <1>6
    <2> DEFINE p == n * rate
    <2>2. p \in Nat /\ O = p + (rate - available) /\ (n + 1) * rate = p + rate
        BY <1>7, <2>1
    <2> HIDE DEF p
    <2>3. O + part = (n + 1) * rate - (available - part) BY <1>3, <1>6, <2>2
    <2> QED BY <1>1, <1>8, <1>10, <2>3 DEF GivesBits, L
<1>13. RefTypes'
    <2>1. bitsAvailable' \in 0 .. rate /\ i' \in Nat /\ i' <= length /\ squeezed' \in Nat
        BY <1>1, <1>3, <1>6
    <2>2. queue' \in [0 .. rate - 1 -> RefBit] BY <1>1, <1>8
    <2> QED BY <1>1, <1>10, <2>1, <2>2 DEF RefIInv, RefTypes
<1>14. TakesBits' /\ HasBits' BY <1>1, <1>2 DEF TakesBits, HasBits
<1>15. PadsInput' BY <1>1, <1>2 DEF RefIInv, PadsInput, PaddedBit
<1> QED BY <1>1, <1>2, <1>9, <1>11, <1>12, <1>13, <1>14, <1>15 DEF RefIInv
----------------------------------------------------------------------------------
LEMMA NextKeepsRefIInv == RefIInv /\ [RefNext]_refVars => RefIInv'
<1> SUFFICES ASSUME RefIInv, [RefNext]_refVars PROVE RefIInv' OBVIOUS
<1>1. CASE UNCHANGED refVars
    <2>1. UNCHANGED <<spongeVars, pc, i, length, data, lastByte, input, output>>
        BY <1>1 DEF refVars, callVars
    <2>2. RefTypes' /\ HasBits'
        BY <2>1 DEF RefIInv, RefTypes, HasBits, spongeVars
    <2>3. Pending' = Pending BY <2>1 DEF Pending
    <2>4. TakesBits' /\ PadsInput' /\ GivesBits' /\ OutputIsStream'
        BY <2>1, <2>3, SameSponge DEF RefIInv, TakesBits
    <2> QED BY <2>2, <2>4 DEF RefIInv
<1>2. ASSUME NEW h \in DOMAIN HashRates, CallInit(h) PROVE RefIInv'
    BY <1>2, CallInitKeeps
<1>3. ASSUME NEW n \in Chunks, CallAbsorb(n) PROVE RefIInv'
    BY <1>3, CallAbsorbKeeps
<1>4. ASSUME NEW n \in Chunks, CallUpdate(n) PROVE RefIInv'
    BY <1>4, CallUpdateKeeps
<1>5. ASSUME NEW n \in Chunks, CallSqueeze(n) PROVE RefIInv'
    <2>1. n \in Nat BY SpongeAssumption
    <2> QED BY <1>5, <2>1, SqueezeKeeps DEF CallSqueeze
<1>6. ASSUME CallFinal PROVE RefIInv'
    <2>1. fixedOutputLength \in Nat BY DEF RefIInv, RefTypes
    <2> QED BY <1>6, <2>1, SqueezeKeeps DEF CallFinal
<1>7. ASSUME AbsorbBlocks PROVE RefIInv' BY <1>7, AbsorbBlocksKeeps
<1>8. ASSUME AbsorbPart PROVE RefIInv' BY <1>8, AbsorbPartKeeps
<1>9. ASSUME AbsorbReturns PROVE RefIInv' BY <1>9, AbsorbReturnsKeeps
<1>10. ASSUME SqueezePart PROVE RefIInv' BY <1>10, SqueezePartKeeps
<1>11. ASSUME SqueezeReturns PROVE RefIInv' BY <1>11, SqueezeReturnsKeeps
<1> QED BY <1>1, <1>2, <1>3, <1>4, <1>5, <1>6, <1>7, <1>8, <1>9, <1>10, <1>11 DEF RefNext

(* The invariant, for every rate of whole bytes and all lengths a caller may give:    *)
(* Absorb, Update and Squeeze of KeccakSponge.c and KeccakNISTInterface.c.            *)
THEOREM SpongeIsConsistent == RefSpec => []RefIInv
<1>1. RefInit => RefIInv BY InitIsRefIInv
<1>2. RefIInv /\ [RefNext]_refVars => RefIInv' BY NextKeepsRefIInv
<1> QED BY <1>1, <1>2, PTL DEF RefSpec

(* Between the calls every message bit that was accepted is absorbed or queued, once, *)
(* in order, and the queue is not full: however the message was cut into calls of     *)
(* Absorb and Update, and whichever bits took the way past the queue.                 *)
THEOREM InputIsAbsorbed == RefSpec => []AbsorbsInput
<1>1. RefIInv => AbsorbsInput
    <2> SUFFICES ASSUME RefIInv, pc = "idle", ~ squeezing
                 PROVE  /\ bitsInQueue < rate
                        /\ input = Len(blocks) * rate + bitsInQueue
                        /\ \A k \in 1 .. Len(blocks) : \A b \in 0 .. rate - 1 :
                             blocks[k][b] = Message((k - 1) * rate + b)
                        /\ \A b \in 0 .. bitsInQueue - 1 :
                             queue[b] = Message(Len(blocks) * rate + b)
        BY DEF AbsorbsInput
    <2>1. TakesBits BY DEF RefIInv
    <2>2. Pending = 0 /\ input \in Nat BY DEF Pending, RefIInv, RefTypes
    <2>3. input - Pending = input BY <2>2
    <2> QED BY <2>1, <2>3 DEF TakesBits
<1> QED BY <1>1, SpongeIsConsistent, PTL

(* Once output is taken, the blocks are the message with the padding 1 0* 1, one      *)
(* block more when only one bit of the queue is free: PadAndSwitchToSqueezingPhase.   *)
THEOREM InputIsPadded == RefSpec => []PadsInput
<1>1. RefIInv => PadsInput BY DEF RefIInv
<1> QED BY <1>1, SpongeIsConsistent, PTL

(* Whatever the lengths of the calls of Squeeze and Final, their output together is   *)
(* the stream of the permuted states, each bit of a block once and in order.          *)
THEOREM OutputStreamIsWhole == RefSpec => []OutputIsStream
<1>1. RefIInv => OutputIsStream BY DEF RefIInv
<1> QED BY <1>1, SpongeIsConsistent, PTL

LEMMA PrefixItself == \A s \in Seq(RefBit) : IsPrefix(s, s)
BY DEF IsPrefix

LEMMA PrefixAdded == \A s, t \in Seq(RefBit) : IsPrefix(s, s \o t)
BY DEF IsPrefix

(* A call that comes after output was taken, refused or not, leaves the padded        *)
(* message alone and only adds to the output, until Init.                             *)
THEOREM NothingAfterSqueezing == RefSpec => SqueezingIsFinal
<1> DEFINE Final == squeezing => InitCalled \/ (squeezing' /\ UNCHANGED <<blocks, input>>
                                                /\ IsPrefix(output, output'))
<1>1. RefIInv /\ [RefNext]_refVars => [Final]_refVars
    <2> SUFFICES ASSUME RefIInv, RefNext, squeezing
                 PROVE  InitCalled \/ (squeezing' /\ UNCHANGED <<blocks, input>>
                                       /\ IsPrefix(output, output'))
        OBVIOUS
    <2>1. output \in Seq(RefBit) /\ pc # "absorb" BY DEF RefIInv, RefTypes, HasBits
    <2>2. IsPrefix(output, output) BY <2>1, PrefixItself
    <2>3. ASSUME NEW h \in DOMAIN HashRates, CallInit(h) PROVE InitCalled
        BY <2>3 DEF CallInit, InitSponge, InitCalled
    <2>4. ASSUME NEW n \in Chunks, CallAbsorb(n) \/ CallUpdate(n) \/ CallSqueeze(n)
          PROVE  squeezing' /\ UNCHANGED <<blocks, input, output>>
        BY <2>4 DEF CallAbsorb, CallUpdate, CallSqueeze, Absorb, Refused, Squeeze, spongeVars
    <2>5. ASSUME CallFinal PROVE squeezing' /\ UNCHANGED <<blocks, input, output>>
        BY <2>5 DEF CallFinal, Squeeze
    <2>6. ASSUME AbsorbBlocks \/ AbsorbPart \/ AbsorbReturns PROVE FALSE
        BY <2>1, <2>6 DEF AbsorbBlocks, AbsorbPart, AbsorbReturns
    <2>7. ASSUME SqueezePart
          PROVE  squeezing' /\ UNCHANGED <<blocks, input>> /\ IsPrefix(output, output')
        <3>1. \E t \in Seq(RefBit) : output' = output \o t BY <2>7, SqueezePartKeeps
        <3>2. UNCHANGED <<blocks, input, squeezing>> BY <2>7 DEF SqueezePart
        <3>3. IsPrefix(output, output') BY <2>1, <3>1, PrefixAdded
        <3> QED BY <3>2, <3>3
    <2>8. ASSUME SqueezeReturns PROVE squeezing' /\ UNCHANGED <<blocks, input, output>>
        BY <2>8 DEF SqueezeReturns, spongeVars
    <2> QED BY <2>2, <2>3, <2>4, <2>5, <2>6, <2>7, <2>8 DEF RefNext
<1> QED BY <1>1, SpongeIsConsistent, PTL DEF RefSpec, SqueezingIsFinal
----------------------------------------------------------------------------------
(* The duplex object: a block of it and the input that the block was made of.         *)
Tells(block, in, len) ==
    /\ in \in [0 .. len - 1 -> {0, 1}] /\ len \in 0 .. r - 2
    /\ \A b \in 0 .. len - 1 : block[b] = in[b]
    /\ block[len] = 1 /\ block[r - 1] = 1
    /\ \A b \in len + 1 .. r - 2 : block[b] = 0
    /\ \A b \in r .. Absorbed - 1 : block[b] = 0

DuplexIInv ==
    /\ r \in Nat /\ r >= 2 /\ rho_max = r - 2
    /\ Len(state) = Len(inputs) /\ state \in Seq(UNION {[0 .. n - 1 -> {0, 1}] : n \in Nat})
    /\ inputs \in Seq(UNION {[0 .. n - 1 -> {0, 1}] : n \in Nat})
    /\ \A k \in 1 .. Len(state) : \E len \in Nat : Tells(state[k], inputs[k], len)

LEMMA UpToWhole ==
    ASSUME NEW n \in Nat, NEW m \in Nat \ {0}
    PROVE  ((n + m - 1) \div m) * m \in Nat /\ n <= ((n + m - 1) \div m) * m
<1> DEFINE a == n + m - 1
           q == a \div m
<1>1. a \in Nat OBVIOUS
<1>2. a % m \in 0 .. m - 1 /\ q \in Nat /\ a = q * m + (a % m)
    BY <1>1, DivMod
<1>3. q * m \in Nat
    <2> HIDE DEF q
    <2> QED BY <1>2, ProductType
<1>4. n <= q * m
    <2> DEFINE w == q * m
               s == a % m
    <2>1. w \in Nat /\ s \in 0 .. m - 1 /\ a = w + s BY <1>2, <1>3
    <2>2. a = n + m - 1 OBVIOUS
    <2> HIDE DEF w, s, a
    <2>3. n <= w BY <2>1, <2>2
    <2> QED BY <2>3 DEF w
<1> QED BY <1>3, <1>4

LEMMA BlockTells ==
    ASSUME DuplexIInv, NEW n \in InLens, NEW m,
           NEW in \in [0 .. InBytes(n) - 1 -> {0, 1}], NEW stack \in {0, 1},
           ~ DuplexRefuses(in, n, m)
    PROVE  /\ Tells(PaddedBlock(in, n, stack), [b \in 0 .. n - 1 |-> in[b]], n)
           /\ PaddedBlock(in, n, stack) \in [0 .. Absorbed - 1 -> {0, 1}]
           /\ Absorbed \in Nat /\ n \in Nat
<1> DEFINE bytes == [b \in 0 .. Absorbed - 1 |->
                       IF b < InBytes(n) THEN in[b] ELSE IF b < Cleared THEN 0 ELSE stack]
           block == PaddedBlock(in, n, stack)
<1>1. n \in Nat /\ r \in Nat /\ r >= 2 /\ n <= r - 2
    BY DuplexAssumption DEF DuplexRefuses, DuplexIInv
<1>2. InBytes(n) \in Nat /\ n <= InBytes(n) BY <1>1, BytesAre
<1>3. Absorbed \in Nat /\ r <= Absorbed
    BY <1>1, UpToWhole, DuplexAssumption DEF Absorbed
<1>4. \A b \in n .. InBytes(n) - 1 : in[b] = 0
    <2> TAKE b \in n .. InBytes(n) - 1
    <2>1. b \in 0 .. InBytes(n) - 1 /\ in[b] # 1 BY <1>1, <1>2 DEF DuplexRefuses
    <2> QED BY <2>1
<1>5. \A b \in 0 .. Absorbed - 1 : bytes[b] = IF b < InBytes(n) THEN in[b] ELSE 0
    BY <1>3 DEF Cleared
<1>6. bytes \in [0 .. Absorbed - 1 -> {0, 1}]
    BY <1>2, <1>3
<1>7. block = [bytes EXCEPT ![n] = 1, ![r - 1] = 1] BY DEF PaddedBlock
<1> HIDE DEF bytes, block
<1>8. n \in 0 .. Absorbed - 1 /\ r - 1 \in 0 .. Absorbed - 1 /\ n # r - 1 BY <1>1, <1>3
<1>9. /\ block \in [0 .. Absorbed - 1 -> {0, 1}] /\ block[n] = 1 /\ block[r - 1] = 1
      /\ \A b \in 0 .. Absorbed - 1 : b # n /\ b # r - 1 => block[b] = bytes[b]
    BY <1>6, <1>7, <1>8
<1>10. [b \in 0 .. n - 1 |-> in[b]] \in [0 .. n - 1 -> {0, 1}]
    BY <1>1, <1>2
<1>11. \A b \in 0 .. n - 1 : block[b] = in[b]
    <2> TAKE b \in 0 .. n - 1
    <2>1. b \in 0 .. Absorbed - 1 /\ b # n /\ b # r - 1 /\ b < InBytes(n)
        BY <1>1, <1>2, <1>3
    <2> QED BY <1>5, <1>9, <2>1
<1>12. ASSUME NEW b \in n + 1 .. Absorbed - 1, b # r - 1 PROVE block[b] = 0
    <2>1. b \in 0 .. Absorbed - 1 /\ b # n BY <1>1, <1>3
    <2>2. block[b] = bytes[b] BY <1>9, <1>12, <2>1
    <2>3. CASE b < InBytes(n)
        <3>1. b \in n .. InBytes(n) - 1 BY <1>1, <1>2, <1>3, <2>3
        <3> QED BY <1>4, <1>5, <2>1, <2>2, <2>3, <3>1
    <2>4. CASE ~ (b < InBytes(n)) BY <1>5, <2>1, <2>2, <2>4
    <2> QED BY <2>3, <2>4
<1>13. /\ \A b \in n + 1 .. r - 2 : b \in n + 1 .. Absorbed - 1 /\ b # r - 1
       /\ \A b \in r .. Absorbed - 1 : b \in n + 1 .. Absorbed - 1 /\ b # r - 1
    BY <1>1, <1>3
<1>14. n \in 0 .. r - 2 BY <1>1
<1>15. Tells(block, [b \in 0 .. n - 1 |-> in[b]], n)
    BY <1>9, <1>10, <1>11, <1>12, <1>13, <1>14 DEF Tells
<1> QED BY <1>1, <1>3, <1>9, <1>15 DEF block

LEMMA DuplexingKeeps ==
    ASSUME DuplexIInv, [DuplexNext]_duplexVars
    PROVE  DuplexIInv'
<1> DEFINE Strings == UNION {[0 .. n - 1 -> {0, 1}] : n \in Nat}
<1>1. CASE UNCHANGED duplexVars
    BY <1>1 DEF duplexVars, DuplexIInv, Tells, Absorbed
<1>2. ASSUME NEW newRate \in DuplexRates, InitDuplex(newRate) PROVE DuplexIInv'
    <2>1. newRate \in Nat /\ newRate >= 2 BY DuplexAssumption
    <2>2. r' = newRate /\ rho_max' = newRate - 2 /\ state' = <<>> /\ inputs' = <<>>
        BY <1>2 DEF InitDuplex, RhoMax
    <2>3. Len(<<>>) = 0 /\ <<>> \in Seq(Strings) OBVIOUS
    <2> QED BY <2>1, <2>2, <2>3 DEF DuplexIInv
<1>3. ASSUME NEW n \in InLens, NEW m \in OutLens,
             NEW in \in [0 .. InBytes(n) - 1 -> {0, 1}], Duplexing(in, n, m)
      PROVE  DuplexIInv'
    <2>1. CASE DuplexRefuses(in, n, m)
        <3>1. UNCHANGED duplexVars BY <1>3, <2>1 DEF Duplexing
        <3> QED BY <1>1, <3>1
    <2>2. CASE ~ DuplexRefuses(in, n, m)
        <3> DEFINE given == [b \in 0 .. n - 1 |-> in[b]]
        <3>1. PICK stack \in {0, 1} : state' = Append(state, PaddedBlock(in, n, stack))
            BY <1>3, <2>2 DEF Duplexing
        <3>2. inputs' = Append(inputs, given) /\ UNCHANGED <<r, rho_max>>
            BY <1>3, <2>2 DEF Duplexing
        <3> DEFINE block == PaddedBlock(in, n, stack)
        <3>3. Tells(block, given, n) /\ block \in [0 .. Absorbed - 1 -> {0, 1}]
              /\ Absorbed \in Nat /\ n \in Nat
            BY <2>2, BlockTells
        <3>4. block \in Strings /\ given \in Strings
            BY <3>3 DEF Tells
        <3> HIDE DEF block, given, Strings
        <3>5. state \in Seq(Strings) /\ inputs \in Seq(Strings) /\ Len(state) = Len(inputs)
            BY DEF DuplexIInv, Strings
        <3>6. /\ state' \in Seq(Strings) /\ inputs' \in Seq(Strings)
              /\ Len(state') = Len(state) + 1 /\ Len(inputs') = Len(state) + 1
              /\ \A k \in 1 .. Len(state) : state'[k] = state[k] /\ inputs'[k] = inputs[k]
              /\ state'[Len(state) + 1] = block /\ inputs'[Len(state) + 1] = given
            BY <3>1, <3>2, <3>4, <3>5 DEF block
        <3>7. ASSUME NEW k \in 1 .. Len(state')
              PROVE  \E len \in Nat : Tells(state'[k], inputs'[k], len)
            <4>1. CASE k = Len(state) + 1 BY <3>3, <3>6, <4>1
            <4>2. CASE k # Len(state) + 1
                <5>1. k \in 1 .. Len(state) BY <3>5, <3>6, <4>2
                <5> QED BY <3>6, <5>1 DEF DuplexIInv
            <4> QED BY <4>1, <4>2
        <3>8. \A k \in 1 .. Len(state') : \E len \in Nat : Tells(state[k], inputs[k], len)'
            BY <3>7, <3>2 DEF Tells, Absorbed
        <3> QED BY <3>2, <3>6, <3>8 DEF DuplexIInv, Strings
    <2> QED BY <2>1, <2>2
<1> QED BY <1>1, <1>2, <1>3 DEF DuplexNext

(* The duplex object: from the blocks of KeccakDuplex.c alone the inputs of all       *)
(* calls can be read back, and no block touches the capacity, whatever the rate, the  *)
(* lengths and the bits on the stack.                                                 *)
THEOREM DuplexBlocksTellInputs == DuplexSpec => []BlocksTellInputs
<1>1. DuplexInit => DuplexIInv
    <2> SUFFICES ASSUME DuplexInit PROVE DuplexIInv OBVIOUS
    <2>1. PICK first \in DuplexRates : r = first /\ rho_max = first - 2
                                       /\ state = <<>> /\ inputs = <<>>
        BY DEF DuplexInit, RhoMax
    <2>2. first \in Nat /\ first >= 2 BY DuplexAssumption
    <2>3. Len(<<>>) = 0 /\ \A S : <<>> \in Seq(S) OBVIOUS
    <2> QED BY <2>1, <2>2, <2>3 DEF DuplexIInv
<1>2. DuplexIInv /\ [DuplexNext]_duplexVars => DuplexIInv' BY DuplexingKeeps
<1>3. DuplexIInv => BlocksTellInputs
    <2> SUFFICES ASSUME DuplexIInv, NEW k \in 1 .. Len(state)
                 PROVE  /\ state[k][r - 1] = 1
                        /\ \A b \in r .. Absorbed - 1 : state[k][b] = 0
                        /\ \E c \in 0 .. r - 2 : state[k][c] = 1
                        /\ InputOf(state[k]) = inputs[k]
        BY DEF BlocksTellInputs, DuplexIInv
    <2>1. PICK len \in Nat : Tells(state[k], inputs[k], len) BY DEF DuplexIInv
    <2> DEFINE ones == {c \in 0 .. r - 2 : state[k][c] = 1}
    <2>2. len \in ones BY <2>1 DEF Tells
    <2>3. \A c \in ones : c <= len BY <2>1 DEF Tells, DuplexIInv
    <2>4. \A c \in ones : c \in Int BY DEF DuplexIInv
    <2>5. Max(ones) = len
        <3> HIDE DEF ones
        <3>1. \A m \in ones : (\A c \in ones : m >= c) => m = len
            BY <2>2, <2>3, <2>4
        <3>2. \A c \in ones : len >= c BY <2>3, <2>4
        <3> QED BY <2>2, <3>1, <3>2 DEF Max
    <2>6. InputOf(state[k]) = [b \in 0 .. len - 1 |-> state[k][b]]
        BY <2>5 DEF InputOf
    <2>7. [b \in 0 .. len - 1 |-> state[k][b]] = inputs[k]
        BY <2>1 DEF Tells
    <2> QED BY <2>1, <2>2, <2>6, <2>7 DEF Tells
<1> QED BY <1>1, <1>2, <1>3, PTL DEF DuplexSpec
-----------------------------------------------------------------------------------
(* Quotient and remainder, with the divisor first.                                    *)
LEMMA Divided ==
    \A a \in Nat, m \in Nat \ {0} :
      a \div m \in Nat /\ a % m \in 0 .. m - 1 /\ a = m * (a \div m) + (a % m)
OBVIOUS

LEMMA DividedOf ==
    \A m \in Nat \ {0}, q, b \in Nat :
      b < m => (m * q + b) \div m = q /\ (m * q + b) % m = b
OBVIOUS

(* The first values of a sequence: one more is appended, all of them are the         *)
(* sequence.                                                                         *)
First(s, m) == [k \in 1 .. m |-> s[k]]
Values(s, m) == {s[k] : k \in 1 .. m}

LEMMA FirstIsSeq ==
  ASSUME NEW s, NEW m \in Nat, NEW n \in Nat, m <= n
  PROVE  First(s, m) \in Seq(Values(s, n)) /\ Len(First(s, m)) = m
  BY DEF First, Values

LEMMA FirstLonger ==
  ASSUME NEW s, NEW m \in Nat
  PROVE  Append(First(s, m), s[m + 1]) = First(s, m + 1)
<1>1. /\ First(s, m) \in Seq(Values(s, m + 1)) /\ Len(First(s, m)) = m
      /\ First(s, m + 1) \in Seq(Values(s, m + 1)) /\ Len(First(s, m + 1)) = m + 1
  BY FirstIsSeq
<1>2. s[m + 1] \in Values(s, m + 1)
  BY DEF Values
<1>3. \A k \in 1 .. m + 1 : Append(First(s, m), s[m + 1])[k] = s[k]
  BY <1>1, <1>2 DEF First
<1>4. /\ Append(First(s, m), s[m + 1]) \in Seq(Values(s, m + 1))
      /\ Len(Append(First(s, m), s[m + 1])) = m + 1
  BY <1>1, <1>2
<1>5. \A k \in 1 .. m + 1 : First(s, m + 1)[k] = s[k]
  BY DEF First
<1>. QED BY <1>1, <1>3, <1>4, <1>5

LEMMA FirstNone == ASSUME NEW s PROVE First(s, 0) = <<>>
  BY FirstIsSeq DEF First

LEMMA FirstIsPrefix ==
  ASSUME NEW n \in Nat, NEW s, s = First(s, n), NEW m \in 0 .. n
  PROVE  IsPrefix(First(s, m), s) /\ (m = n => First(s, m) = s)
<1>1. /\ First(s, m) \in Seq(Values(s, n)) /\ Len(First(s, m)) = m
      /\ s \in Seq(Values(s, n)) /\ Len(s) = n
  BY FirstIsSeq
<1>2. \A k \in 1 .. m : First(s, m)[k] = s[k]
  BY DEF First
<1>3. SubSeq(First(s, m), 1, m) = SubSeq(s, 1, m)
  BY <1>1, <1>2
<1>. QED BY <1>1, <1>3 DEF IsPrefix

(* The least of a set of numbers.                                                    *)
LEMMA Least ==
  ASSUME NEW S, S \subseteq Nat, S # {}
  PROVE  Min(S) \in S /\ \A x \in S : Min(S) <= x
<1>. DEFINE UpTo == {0 .. x : x \in S}
<1>1. \A x \in S : 0 .. x \in FiniteSubsetsOf(Nat)
  BY FS_Interval DEF FiniteSubsetsOf
<1>2. UpTo \subseteq FiniteSubsetsOf(Nat) /\ UpTo # {}
  BY <1>1
<1>3. PICK u \in UpTo : \A t \in UpTo : ~ (<<t, u>> \in StrictSubsetOrdering(Nat))
  <2>. HIDE DEF UpTo
  <2>. QED BY <1>2, FS_StrictSubsetOrderingWellFounded, WFMin
<1>4. PICK x \in S : u = 0 .. x
  OBVIOUS
<1>5. ASSUME NEW y \in S, y < x
      PROVE  FALSE
  <2>1. 0 .. y \in UpTo /\ 0 .. y \subseteq u /\ 0 .. y # u
    BY <1>4, <1>5
  <2>2. 0 .. y \in SUBSET Nat /\ u \in SUBSET Nat
    BY <1>4
  <2>. QED BY <1>3, <2>1, <2>2 DEF StrictSubsetOrdering
<1>6. \A y \in S : x <= y
  BY <1>5
<1>. QED BY <1>6 DEF Min

(* An element of a finite set of numbers is found at its rank.                       *)
LEMMA Rank ==
  ASSUME NEW S, IsFiniteSet(S), S \subseteq Nat, NEW p \in S
  PROVE  /\ Cardinality({q \in S : q < p}) \in Nat
         /\ Cardinality({q \in S : q < p}) + 1 \in 1 .. Cardinality(S)
         /\ InOrder(S)[Cardinality({q \in S : q < p}) + 1] = p
<1>. DEFINE Below(x) == {q \in S : q < x}
            UpTo(x) == {q \in S : q <= x}
<1>1. ASSUME NEW x \in S
      PROVE  /\ IsFiniteSet(Below(x)) /\ IsFiniteSet(UpTo(x))
             /\ Cardinality(Below(x)) \in Nat
             /\ Cardinality(UpTo(x)) = Cardinality(Below(x)) + 1
             /\ Cardinality(UpTo(x)) \in Nat
             /\ Cardinality(UpTo(x)) <= Cardinality(S)
  <2>1. UpTo(x) = Below(x) \cup {x} /\ x \notin Below(x)
    <3>1. (\A q \in S : q <= x <=> (q < x \/ q = x)) /\ ~ (x < x)
      BY <1>1
    <3>2. \A q : q \in UpTo(x) <=> q \in Below(x) \cup {x}
      BY <1>1, <3>1, Zenon
    <3>3. UpTo(x) = Below(x) \cup {x}
      BY <3>2, Zenon
    <3>. QED BY <3>1, <3>3, Zenon
  <2>2. Below(x) \subseteq S /\ UpTo(x) \subseteq S
    OBVIOUS
  <2>3. IsFiniteSet(Below(x)) /\ IsFiniteSet(UpTo(x)) /\ Cardinality(UpTo(x)) <= Cardinality(S)
    BY <2>2, FS_Subset
  <2>. QED BY <2>1, <2>3, FS_AddElement, FS_CardinalityType
<1>2. ASSUME NEW x \in S, NEW y \in S, x < y
      PROVE  Cardinality(UpTo(x)) < Cardinality(UpTo(y))
  <2>1. \A q \in S : q <= x => q < y
    BY <1>2
  <2>2. UpTo(x) \subseteq Below(y)
    BY <2>1
  <2>3. Cardinality(UpTo(x)) <= Cardinality(Below(y))
    <3>. HIDE DEF UpTo, Below
    <3>. QED BY <2>2, <1>1, <1>2, FS_Subset
  <2>4. /\ Cardinality(Below(y)) \in Nat /\ Cardinality(UpTo(x)) \in Nat
        /\ Cardinality(UpTo(y)) = Cardinality(Below(y)) + 1
    <3>. HIDE DEF UpTo, Below
    <3>. QED BY <1>1, <1>2
  <2>. HIDE DEF UpTo, Below
  <2>. QED BY <2>3, <2>4
<1>3. \A x \in S : Cardinality(UpTo(x)) \in Nat
  BY <1>1
<1>4. \A x \in S : Cardinality(UpTo(x)) = Cardinality(UpTo(p)) => x = p
  BY <1>2, <1>3
<1>5. (CHOOSE x \in S : Cardinality(UpTo(x)) = Cardinality(UpTo(p))) = p
  BY <1>4
<1>6. Cardinality(UpTo(p)) \in 1 .. Cardinality(S)
  <2>1. Cardinality(S) \in Nat
    BY FS_CardinalityType
  <2>. HIDE DEF UpTo, Below
  <2>. QED BY <1>1, <2>1
<1>7. InOrder(S)[Cardinality(UpTo(p))] = p
  BY <1>5, <1>6 DEF InOrder
<1>. QED BY <1>1, <1>6, <1>7

(* What is read at one more place, behind all others, is appended.                   *)
LEMMA ReadOfOneMore ==
  ASSUME NEW S, IsFiniteSet(S), S \subseteq Nat, NEW p \in Nat, \A q \in S : q < p,
         NEW contents
  PROVE  ReadOf(contents, S \cup {p}) = Append(ReadOf(contents, S), ReadAt(contents, p))
<1>. DEFINE T == S \cup {p}
            n == Cardinality(S)
<1>1. p \notin S /\ T \subseteq Nat /\ p \in T /\ \A q \in T : q <= p
  OBVIOUS
<1>2. /\ n \in Nat /\ IsFiniteSet(T) /\ Cardinality(T) = n + 1
      /\ \A k \in 1 .. n : k # n + 1
  BY <1>1, FS_AddElement, FS_CardinalityType
<1>3. \A x \in S : {q \in T : q <= x} = {q \in S : q <= x}
  OBVIOUS
<1>4. {q \in T : q <= p} = T
  BY <1>1
<1>5. ASSUME NEW k \in 1 .. n PROVE InOrder(T)[k] = InOrder(S)[k]
  <2>1. k \in 1 .. Cardinality(T) /\ Cardinality(T) # k
    BY <1>2
  <2>2. \A x : (x \in T /\ Cardinality({q \in T : q <= x}) = k)
                 <=> (x \in S /\ Cardinality({q \in S : q <= x}) = k)
    <3>1. \A x : x \in T <=> x \in S \/ x = p
      OBVIOUS
    <3>. HIDE DEF T, n
    <3>. QED BY <3>1, <1>1, <1>3, <1>4, <2>1, Zenon
  <2>3. (CHOOSE x : x \in T /\ Cardinality({q \in T : q <= x}) = k)
          = (CHOOSE x : x \in S /\ Cardinality({q \in S : q <= x}) = k)
    <3>. HIDE DEF T, n
    <3>. QED BY <2>2, Zenon
  <2>. HIDE DEF T
  <2>4. InOrder(T)[k] = (CHOOSE x : x \in T /\ Cardinality({q \in T : q <= x}) = k)
    BY <2>1, Zenon DEF InOrder
  <2>5. InOrder(S)[k] = (CHOOSE x : x \in S /\ Cardinality({q \in S : q <= x}) = k)
    BY <1>5, Zenon DEF InOrder
  <2>. QED BY <2>3, <2>4, <2>5, Zenon
<1>6. InOrder(T)[n + 1] = p
  <2>1. {q \in T : q < p} = S
    <3>1. ~ (p < p) /\ \A q : q \in T <=> q \in S \/ q = p
      OBVIOUS
    <3>2. \A q : q \in {e \in T : e < p} <=> q \in S
      <4>. HIDE DEF T
      <4>. QED BY <3>1, Zenon
    <3>. QED BY <3>2, Zenon
  <2>. HIDE DEF T
  <2>. QED BY <1>1, <1>2, <2>1, Rank
<1>. HIDE DEF T
<1>7. ReadOf(contents, T) = First(ReadOf(contents, T), n + 1)
  BY <1>2 DEF ReadOf, First
<1>8. First(ReadOf(contents, T), n) = ReadOf(contents, S)
  <2>1. \A k \in 1 .. n : ReadOf(contents, T)[k] = ReadAt(contents, InOrder(S)[k])
    BY <1>2, <1>5 DEF ReadOf
  <2>. QED BY <2>1 DEF ReadOf, First
<1>9. ReadOf(contents, T)[n + 1] = ReadAt(contents, p)
  BY <1>2, <1>6 DEF ReadOf
<1>10. First(ReadOf(contents, T), n + 1)
         = Append(First(ReadOf(contents, T), n), ReadOf(contents, T)[n + 1])
  BY <1>2, FirstLonger
<1>. QED BY <1>7, <1>8, <1>9, <1>10 DEF T

LEMMA ReadOfNone ==
  ASSUME NEW S, S = {}, NEW contents
  PROVE  ReadOf(contents, S) = <<>>
<1>1. Cardinality(S) = 0
  BY FS_EmptySet
<1>. QED BY <1>1 DEF ReadOf
-----------------------------------------------------------------------------------
(* The script: three calls for each algorithm, and three more at the end.            *)
ScriptEnds == 3 * (Len(HashBitLens) + 1)
Algorithm(k) == (k - 1) \div 3
Part(k) == ((k - 1) % 3) + 1
Gen(g) == <<"ShortMsgKAT", "LongMsgKAT", "MonteCarlo">>[g]
Of(a) == IF a = 0 THEN 0 ELSE HashBitLens[a]

LEMMA ScriptLen ==
  /\ ScriptEnds \in Nat /\ ScriptEnds >= 3 /\ Len(HashBitLens) \in Nat
  /\ Len(Script) = ScriptEnds + 3
<1>1. Len(HashBitLens) \in Nat /\ ScriptEnds \in Nat /\ ScriptEnds >= 3
  BY KatAssumption DEF ScriptEnds
<1>. QED BY <1>1 DEF Script, ScriptEnds

LateCall(k) == <<Call("ShortMsgKAT", 1344, FALSE), Call("DuplexKAT", 1026, FALSE),
                 Call("DuplexKAT", 1027, FALSE)>>[k - ScriptEnds]
EarlyCall(k) == Call(Gen(Part(k)), IF k <= 3 THEN 0 ELSE HashBitLens[Algorithm(k)], TRUE)

LEMMA ScriptAt ==
  ASSUME NEW k \in 1 .. ScriptEnds + 3
  PROVE  Script[k] = IF k > ScriptEnds THEN LateCall(k) ELSE EarlyCall(k)
  BY Zenon DEF Script, ScriptEnds, LateCall, EarlyCall, Gen, Part, Algorithm

LEMMA EarlyCalls ==
  ASSUME NEW k \in 1 .. ScriptEnds
  PROVE  /\ Algorithm(k) \in 0 .. Len(HashBitLens) /\ Part(k) \in 1 .. 3
         /\ k = 3 * Algorithm(k) + Part(k)
         /\ Script[k].gen = Gen(Part(k))
         /\ Script[k].of = Of(Algorithm(k))
         /\ Script[k].checked
<1>1. ScriptEnds \in Nat /\ Len(HashBitLens) \in Nat
  BY ScriptLen
<1>2. Algorithm(k) \in Nat /\ Part(k) \in 1 .. 3 /\ k = 3 * Algorithm(k) + Part(k)
  BY <1>1 DEF Algorithm, Part
<1>3. Algorithm(k) \in 0 .. Len(HashBitLens)
  BY <1>1, <1>2 DEF ScriptEnds
<1>4. k <= 3 <=> Algorithm(k) = 0
  BY <1>1, <1>2
<1>5. Script[k] = Call(Gen(Part(k)), Of(Algorithm(k)), TRUE)
  <2>1. Script[k] = EarlyCall(k)
    BY <1>1, ScriptAt
  <2>2. (IF k <= 3 THEN 0 ELSE HashBitLens[Algorithm(k)]) = Of(Algorithm(k))
    BY <1>4 DEF Of
  <2>. QED BY <2>1, <2>2, Zenon DEF EarlyCall
<1>. QED BY <1>2, <1>3, <1>5 DEF Call

LEMMA LateCalls ==
  ASSUME NEW k \in ScriptEnds + 1 .. ScriptEnds + 3
  PROVE  /\ Script[k].gen = IF k = ScriptEnds + 1 THEN "ShortMsgKAT" ELSE "DuplexKAT"
         /\ Script[k].of = IF k = ScriptEnds + 1 THEN 1344
                            ELSE IF k = ScriptEnds + 2 THEN 1026 ELSE 1027
         /\ ~ Script[k].checked
<1>1. ScriptEnds \in Nat
  BY ScriptLen
<1>2. k - ScriptEnds \in {1, 2, 3} /\ k > ScriptEnds /\ k \in 1 .. ScriptEnds + 3
  BY <1>1
<1>3. Script[k] = LateCall(k)
  BY <1>2, ScriptAt
<1>. QED BY <1>1, <1>2, <1>3 DEF LateCall, Call

LEMMA GenIs ==
  /\ \A g \in 1 .. 3 : Gen(g) \in Generators /\ Gen(g) # "DuplexKAT"
  /\ \A g, h \in 1 .. 3 : Gen(g) = Gen(h) => g = h
<1>1. Gen(1) = "ShortMsgKAT" /\ Gen(2) = "LongMsgKAT" /\ Gen(3) = "MonteCarlo"
  BY DEF Gen
<1>2. \A g \in 1 .. 3 : g = 1 \/ g = 2 \/ g = 3
  OBVIOUS
<1>. QED BY <1>1, <1>2, Zenon DEF Generators

LEMMA OfNot == \A a \in 0 .. Len(HashBitLens) : Of(a) # 1344
  BY KatAssumption DEF Of

LEMMA OfIs ==
  /\ \A a \in 0 .. Len(HashBitLens) :
       /\ (Of(a) = 0 <=> a = 0)
       /\ a # 0 => MDBytes(Of(a)) \in 1 .. SeedBytes
  /\ \A a, b \in 0 .. Len(HashBitLens) : Of(a) = Of(b) => a = b
  BY KatAssumption DEF Of

LEMMA ScriptIs ==
  /\ Len(Script) \in Nat /\ 1 \in 1 .. Len(Script)
  /\ \A k \in 1 .. Len(Script) :
       /\ Script[k].gen \in Generators 
       /\ Script[k].gen = "MonteCarlo" =>
            Script[k].of = 0 \/ (Script[k].of # 0 /\ MDBytes(Script[k].of) \in 1 .. SeedBytes)
  /\ ~ Script[Len(Script)].checked
<1>1. /\ Len(Script) \in Nat /\ 1 \in 1 .. Len(Script) /\ Len(Script) = ScriptEnds + 3
      /\ ScriptEnds \in Nat
  BY ScriptLen
<1>2. ASSUME NEW k \in 1 .. Len(Script)
      PROVE  /\ Script[k].gen \in Generators 
             /\ Script[k].gen = "MonteCarlo" =>
                  \/ Script[k].of = 0
                  \/ Script[k].of # 0 /\ MDBytes(Script[k].of) \in 1 .. SeedBytes
  <2>1. CASE k > ScriptEnds
    <3>1. k \in ScriptEnds + 1 .. ScriptEnds + 3
      BY <2>1, <1>1
    <3>. QED BY <3>1, LateCalls, ScriptLen DEF Generators
  <2>2. CASE k <= ScriptEnds
    <3>1. k \in 1 .. ScriptEnds
      BY <2>2, <1>1
    <3>2. Script[k].gen \in Generators /\ Script[k].checked
      BY <3>1, EarlyCalls, GenIs, ScriptLen DEF Generators
    <3>3. Script[k].of = Of(Algorithm(k)) /\ Algorithm(k) \in 0 .. Len(HashBitLens)
      BY <3>1, EarlyCalls, GenIs, ScriptLen
    <3>. QED BY <3>2, <3>3, OfIs
  <2>. QED BY <2>1, <2>2, <1>1
<1>3. ~ Script[ScriptEnds + 3].checked
  BY <1>1, LateCalls, ScriptLen
<1>. QED BY <1>1, <1>2, <1>3

(* No two calls write the same file.                                                 *)
LEMMA ScriptNames ==
  \A j, k \in 1 .. Len(Script) : Name(Script[j]) = Name(Script[k]) => j = k
<1>. SUFFICES ASSUME NEW j \in 1 .. Len(Script), NEW k \in 1 .. Len(Script),
                     Script[j].gen = Script[k].gen, Script[j].of = Script[k].of
              PROVE  j = k
  BY DEF Name
<1>1. /\ Len(Script) = ScriptEnds + 3 /\ ScriptEnds \in Nat
      /\ \A e \in 1 .. Len(Script) :
           e \in 1 .. ScriptEnds \/ e \in ScriptEnds + 1 .. ScriptEnds + 3
  BY ScriptLen
<1>2. CASE j \in ScriptEnds + 1 .. ScriptEnds + 3 /\ k \in ScriptEnds + 1 .. ScriptEnds + 3
  BY <1>1, <1>2, LateCalls, ScriptLen
<1>3. ASSUME NEW e \in 1 .. ScriptEnds, NEW l \in ScriptEnds + 1 .. ScriptEnds + 3
      PROVE  Script[e].gen # Script[l].gen \/ Script[e].of # Script[l].of
  <2>1. Script[e].gen # "DuplexKAT" /\ Script[e].of # 1344
    <3>1. /\ Script[e].gen = Gen(Part(e)) /\ Part(e) \in 1 .. 3
          /\ Script[e].of = Of(Algorithm(e)) /\ Algorithm(e) \in 0 .. Len(HashBitLens)
      BY <1>3, EarlyCalls, ScriptLen
    <3>2. Gen(Part(e)) # "DuplexKAT"
      BY <3>1, GenIs, Zenon
    <3>3. Of(Algorithm(e)) # 1344
      BY <3>1, OfNot
    <3>. QED BY <3>1, <3>2, <3>3
  <2>2. Script[l].gen = "DuplexKAT" \/ Script[l].of = 1344
    BY <1>3, LateCalls, ScriptLen
  <2>. QED BY <2>1, <2>2
<1>4. CASE j \in 1 .. ScriptEnds /\ k \in 1 .. ScriptEnds
  <2>1. Part(j) = Part(k)
    <3>1. Gen(Part(j)) = Gen(Part(k)) /\ Part(j) \in 1 .. 3 /\ Part(k) \in 1 .. 3
      BY <1>4, EarlyCalls, ScriptLen
    <3>. QED BY <3>1, GenIs, Zenon
  <2>2. Algorithm(j) = Algorithm(k)
    BY <1>4, EarlyCalls, GenIs, ScriptLen, OfIs
  <2>. QED BY <1>4, <2>1, <2>2, EarlyCalls, GenIs, ScriptLen
<1>. QED BY <1>1, <1>2, <1>3, <1>4
-----------------------------------------------------------------------------------
(* What holds at each step: the call being made has read its input up to a place,    *)
(* and its file holds the answers to what was before it; the files of the calls      *)
(* before are as they should be, and no later file exists.                           *)
Before(S, a) == {q \in S : q < a}
Done ==
    CASE kat_pc = "records" -> Cardinality(Before(Records(Input, Current), at))
      [] kat_pc = "turns" -> turn \div Turns
      [] OTHER -> 0
MessageOf(c, k) == IF c.of = 0 THEN Seed ELSE Chain(MDBytes(c.of), k)

KatPlace ==
    /\ call \in 1 .. Len(Script) /\ at \in Nat \ {0}
    /\ kat_pc \in {"open", "header", "seed", "records", "turns", "returned"}
    /\ kat_pc = "header" => Current.gen # "DuplexKAT" /\ at = 1
    /\ kat_pc = "records" => Current.gen # "MonteCarlo"
    /\ kat_pc \in {"seed", "turns"} => Current.gen = "MonteCarlo"
    /\ kat_pc = "returned" /\ ret_val = 0 => call = Len(Script)

IsPast(k) ==
    /\ Name(Script[k]) \in DOMAIN written =>
         IsPrefix(written[Name(Script[k])], Answers(Script[k]))
    /\ Script[k].checked =>
         /\ Name(Script[k]) \in DOMAIN written
         /\ written[Name(Script[k])] = Answers(Script[k])
KatPast ==
    /\ \A gen \in Generators : file[gen] \in Inputs[gen]
    /\ \A k \in 1 .. Len(Script) :
         /\ k < call => IsPast(k)
         /\ k > call => Name(Script[k]) \notin DOMAIN written
         /\ k = call /\ kat_pc = "open" => Name(Script[k]) \notin DOMAIN written
         /\ k = call /\ kat_pc = "returned" /\ Name(Script[k]) \in DOMAIN written =>
              IsPrefix(written[Name(Script[k])], Answers(Script[k]))

KatOngoing ==
    /\ kat_pc \in {"header", "seed", "records", "turns"} =>
         /\ Name(Current) \in DOMAIN written
         /\ written[Name(Current)] = First(Answers(Current), Done)
    /\ kat_pc = "records" /\ Current.gen = "DuplexKAT" =>
         duplexed = ReadOf(Input, Before(Taken(Input, Current), at)) /\ Out = duplexed
    /\ kat_pc = "turns" => turn \in 0 .. Turns * Lines /\ Msg = MessageOf(Current, turn + 1)

KatInv == KatPlace /\ KatPast /\ KatOngoing
-----------------------------------------------------------------------------------
(* What it is to find a marker, and that FindMarker finds it.                        *)
FoundIs(contents, from, marker, f) ==
    \/ /\ f.found
       /\ \E p \in from .. Len(contents) :
            /\ contents[p].marker = marker
            /\ f.at = p + 1 /\ f.value = contents[p].value
            /\ \A q \in from .. Len(contents) : contents[q].marker = marker => p <= q
    \/ /\ ~ f.found
       /\ f.at = Len(contents) + 1 /\ f.value = 0
       /\ \A q \in from .. Len(contents) : contents[q].marker # marker

LEMMA MarkerFound ==
  ASSUME Len(Input) \in Nat, NEW from \in Nat \ {0}, NEW marker
  PROVE  FoundIs(Input, from, marker, FindMarker(from, marker))
<1>. DEFINE found == {p \in from .. Len(Input) : Input[p].marker = marker}
<1>1. CASE found = {}
  BY <1>1 DEF FindMarker, FoundIs
<1>2. CASE found # {}
  <2>1. found \subseteq Nat
    OBVIOUS
  <2>2. Min(found) \in found /\ \A x \in found : Min(found) <= x
    <3>. HIDE DEF found
    <3>. QED BY <1>2, <2>1, Least
  <2>3. FindMarker(from, marker)
          = [found |-> TRUE, at |-> Min(found) + 1, value |-> Input[Min(found)].value]
    BY <1>2 DEF FindMarker
  <2>4. /\ Min(found) \in from .. Len(Input) /\ Input[Min(found)].marker = marker
        /\ \A q \in from .. Len(Input) : Input[q].marker = marker => Min(found) <= q
    BY <2>2
  <2>. HIDE DEF found
  <2>. QED BY <2>3, <2>4 DEF FoundIs
<1>. QED BY <1>1, <1>2

LEMMA FoundAt ==
  ASSUME NEW contents, Len(contents) \in Nat, NEW from \in Nat \ {0}, NEW marker, NEW f,
         FoundIs(contents, from, marker, f)
  PROVE  f.at \in Nat \ {0}
  BY DEF FoundIs

(* A record is read: the first from where the file is read, if there is one.         *)
AllRecords(gen, contents) ==
    {p \in DOMAIN contents : contents[p].marker = MarkerOf(gen)
                              /\ (p < Len(contents) \/ contents[p].value = 0)}
ReadIs(gen, contents, from, size, msg) ==
    IF size.found /\ msg.found
    THEN \E p \in AllRecords(gen, contents) :
           /\ from <= p /\ size.value = contents[p].value
           /\ AsRead(size.value, msg.value) = ReadAt(contents, p)
           /\ msg.at \in Nat \ {0}
           /\ \A q \in AllRecords(gen, contents) : q < msg.at <=> (q < from \/ q = p)
    ELSE \A q \in AllRecords(gen, contents) : q < from

LEMMA ElementOf == \A S : \A s \in Seq(S) : \A p \in 1 .. Len(s) : s[p] \in S
  OBVIOUS

LEMMA RecordRead ==
  ASSUME NEW gen, NEW contents, InputFile(gen, contents), NEW from \in Nat \ {0},
         NEW size, FoundIs(contents, from, MarkerOf(gen), size), NEW msg,
         size.value = 0 => msg = [found |-> TRUE, at |-> size.at, value |-> 0],
         size.value # 0 => FoundIs(contents, size.at, ValueOf(gen), msg)
  PROVE  ReadIs(gen, contents, from, size, msg)
<1>1. /\ contents \in Seq([marker : STRING, value : Nat]) /\ Len(contents) \in Nat
      /\ DOMAIN contents = 1 .. Len(contents)
  <2>1. contents \in Seq([marker : STRING, value : Nat])
    BY Zenon DEF InputFile
  <2>. QED BY <2>1
<1>2. AllRecords(gen, contents) \subseteq 1 .. Len(contents)
  BY <1>1 DEF AllRecords
<1>3. CASE ~ size.found
  BY <1>1, <1>2, <1>3 DEF FoundIs, ReadIs, AllRecords
<1>4. CASE size.found
  <2>1. PICK p \in from .. Len(contents) :
          /\ contents[p].marker = MarkerOf(gen)
          /\ size.at = p + 1 /\ size.value = contents[p].value
          /\ \A q \in from .. Len(contents) : contents[q].marker = MarkerOf(gen) => p <= q
    BY <1>4 DEF FoundIs
  <2>2. p \in 1 .. Len(contents) /\ p \in DOMAIN contents /\ contents[p].value \in Nat
    <3>1. p \in 1 .. Len(contents)
      BY <1>1
    <3>2. contents[p] \in [marker : STRING, value : Nat]
      BY <1>1, <3>1, ElementOf, Zenon
    <3>. QED BY <1>1, <3>1, <3>2
  <2>3. \A q \in AllRecords(gen, contents) : q >= from => q >= p
    BY <1>1, <1>2, <2>1 DEF AllRecords
  <2>4. CASE size.value = 0
    <3>1. p \in AllRecords(gen, contents)
      BY <1>1, <2>1, <2>2, <2>4 DEF AllRecords
    <3>2. msg.found /\ msg.at = p + 1 /\ msg.value = 0
      BY <2>1, <2>4
    <3>3. AsRead(size.value, msg.value) = ReadAt(contents, p)
      BY <2>1, <2>4, <3>2 DEF AsRead, ReadAt
    <3>4. \A q \in AllRecords(gen, contents) : q < msg.at <=> (q < from \/ q = p)
      BY <1>1, <1>2, <2>2, <2>3, <3>2
    <3>5. msg.at \in Nat \ {0} /\ from <= p
      BY <1>1, <2>2, <3>2
    <3>. QED BY <1>4, <2>1, <3>1, <3>2, <3>3, <3>4, <3>5 DEF ReadIs
  <2>5. CASE size.value # 0 /\ p < Len(contents)
    <3>1. p \in AllRecords(gen, contents)
      BY <1>1, <2>1, <2>2, <2>5 DEF AllRecords
    <3>2. contents[p + 1].marker = ValueOf(gen) /\ p + 1 \in 1 .. Len(contents)
      <4>1. contents[p + 1].marker = ValueOf(gen)
        BY <2>1, <2>2, <2>5, Zenon DEF InputFile
      <4>. QED BY <4>1, <1>1, <2>2, <2>5
    <3>3. msg.found /\ msg.at = p + 2 /\ msg.value = contents[p + 1].value
      <4>1. FoundIs(contents, p + 1, ValueOf(gen), msg)
        BY <2>1, <2>5
      <4>2. p + 1 \in p + 1 .. Len(contents)
        BY <1>1, <3>2
      <4>3. msg.found
        BY <4>1, <4>2, <3>2 DEF FoundIs
      <4>4. PICK m \in p + 1 .. Len(contents) :
              /\ msg.at = m + 1 /\ msg.value = contents[m].value
              /\ \A q \in p + 1 .. Len(contents) : contents[q].marker = ValueOf(gen) => m <= q
        BY <4>1, <4>3 DEF FoundIs
      <4>5. m = p + 1
        BY <4>2, <4>4, <3>2, <1>1
      <4>. QED BY <4>3, <4>4, <4>5, <2>2
    <3>4. AsRead(size.value, msg.value) = ReadAt(contents, p)
      BY <2>1, <2>5, <3>3 DEF AsRead, ReadAt
    <3>5. p + 1 \notin AllRecords(gen, contents)
      BY <3>2 DEF AllRecords, MarkerOf, ValueOf
    <3>6. \A q \in AllRecords(gen, contents) : q < msg.at <=> (q < from \/ q = p)
      <4>1. ASSUME NEW q \in AllRecords(gen, contents)
            PROVE  q < p + 2 <=> (q < from \/ q = p)
        <5>1. q \in Nat /\ q # p + 1 /\ p \in Nat /\ from <= p /\ (q >= from => q >= p)
          BY <1>1, <1>2, <2>2, <2>3, <3>5, <4>1
        <5>. QED BY <5>1
      <4>. QED BY <4>1, <3>3
    <3>7. msg.at \in Nat \ {0} /\ from <= p
      BY <1>1, <2>2, <3>3
    <3>. QED BY <1>4, <2>1, <3>1, <3>3, <3>4, <3>6, <3>7 DEF ReadIs
  <2>6. CASE size.value # 0 /\ p = Len(contents)
    <3>1. ~ msg.found
      BY <1>1, <2>1, <2>2, <2>6 DEF FoundIs
    <3>2. p \notin AllRecords(gen, contents)
      BY <1>1, <2>1, <2>2, <2>6 DEF AllRecords
    <3>3. \A q \in AllRecords(gen, contents) : q < from
      BY <1>1, <1>2, <2>2, <2>3, <2>6, <3>2
    <3>. QED BY <3>1, <3>3 DEF ReadIs
  <2>. QED BY <1>1, <2>2, <2>4, <2>5, <2>6
<1>. QED BY <1>3, <1>4

(* One more record is before where the file is read then.                            *)
LEMMA OneMore ==
  ASSUME NEW S, IsFiniteSet(S), S \subseteq Nat, NEW a \in Nat, NEW b \in Nat, NEW p \in S,
         a <= p, \A q \in S : q < b <=> (q < a \/ q = p)
  PROVE  /\ Cardinality(Before(S, a)) \in Nat
         /\ Cardinality(Before(S, b)) = Cardinality(Before(S, a)) + 1
         /\ Cardinality(Before(S, a)) + 1 \in 1 .. Cardinality(S)
         /\ InOrder(S)[Cardinality(Before(S, a)) + 1] = p
<1>1. \A q \in S : (q < a <=> q < p)
  OBVIOUS
<1>2. Before(S, a) = {q \in S : q < p}
  BY <1>1 DEF Before
<1>3. Before(S, b) = Before(S, a) \cup {p} /\ p \notin Before(S, a)
  <2>1. \A q : q \in Before(S, b) <=> q \in Before(S, a) \cup {p}
    BY Zenon DEF Before
  <2>2. ~ (p < a)
    OBVIOUS
  <2>. QED BY <2>1, <2>2, Zenon DEF Before
<1>4. IsFiniteSet(Before(S, a))
  BY FS_Subset, Zenon DEF Before
<1>5. Cardinality(Before(S, b)) = Cardinality(Before(S, a)) + 1
  BY <1>3, <1>4, FS_AddElement
<1>. QED BY <1>2, <1>5, Rank

LEMMA StillBefore ==
  ASSUME NEW S, NEW a \in Nat, NEW b \in Nat, \A q \in S : q < b <=> q < a
  PROVE  Before(S, b) = Before(S, a)
  BY DEF Before

LEMMA AllBefore ==
  ASSUME NEW S, NEW a \in Nat, \A q \in S : q < a
  PROVE  Before(S, a) = S
  BY DEF Before

LEMMA NoneBefore ==
  ASSUME NEW S, NEW a \in Nat, \A q \in S : ~ (q < a)
  PROVE  Cardinality(Before(S, a)) = 0
  BY FS_EmptySet DEF Before
-----------------------------------------------------------------------------------
(* The answers: as many as there are records, or as there are lines.                 *)
AnswerCount(contents, c) ==
    IF c.gen = "MonteCarlo" THEN Lines ELSE Cardinality(Records(contents, c))

LEMMA RecordsAre ==
  ASSUME NEW contents, NEW c, InputFile(c.gen, contents)
  PROVE  /\ IsFiniteSet(Records(contents, c)) /\ Records(contents, c) \subseteq Nat \ {0}
         /\ Cardinality(Records(contents, c)) \in Nat
         /\ Records(contents, c) \subseteq AllRecords(c.gen, contents)
         /\ \A p \in Records(contents, c) : c.gen # "DuplexKAT" => p > 2
<1>1. contents \in Seq([marker : STRING, value : Nat])
  BY Zenon DEF InputFile
<1>2. /\ Len(contents) \in Nat /\ DOMAIN contents = 1 .. Len(contents)
      /\ Records(contents, c) \subseteq 1 .. Len(contents)
  BY <1>1 DEF Records
<1>3. IsFiniteSet(Records(contents, c))
  <2>1. IsFiniteSet(1 .. Len(contents))
    BY <1>2, FS_Interval
  <2>. QED BY <1>2, <2>1, FS_Subset
<1>4. Records(contents, c) \subseteq AllRecords(c.gen, contents)
  BY Zenon DEF Records, AllRecords
<1>5. \A p \in Records(contents, c) : c.gen # "DuplexKAT" => p > 2
  BY Zenon DEF Records, InputFile
<1>. QED BY <1>2, <1>3, <1>4, <1>5, FS_CardinalityType

LEMMA ReadIsFirst ==
  ASSUME NEW contents, NEW c, InputFile(c.gen, contents)
  PROVE  /\ Read(contents, c) = First(Read(contents, c), Cardinality(Records(contents, c)))
         /\ Read(contents, c) \in Seq(Values(Read(contents, c), Cardinality(Records(contents, c))))
         /\ Len(Read(contents, c)) = Cardinality(Records(contents, c))
<1>1. Cardinality(Records(contents, c)) \in Nat
  BY RecordsAre
<1>2. Read(contents, c) = First(Read(contents, c), Cardinality(Records(contents, c)))
  BY DEF Read, ReadOf, First
<1>. QED BY <1>1, <1>2, FirstIsSeq

LEMMA AnswersAre ==
  ASSUME NEW contents, NEW c, c.gen \in Generators, InputFile(c.gen, contents)
  PROVE  /\ AnswerCount(contents, c) \in Nat
         /\ AnswersTo(contents, c) = First(AnswersTo(contents, c), AnswerCount(contents, c))
<1>1. AnswerCount(contents, c) \in Nat
  BY RecordsAre, KatAssumption DEF AnswerCount
<1>2. CASE c.gen = "MonteCarlo"
  <2>1. AnswersTo(contents, c)
          = [k \in 1 .. Lines |->
               [md |-> k * Turns,
                hashed |-> IF c.of = 0 THEN Seed ELSE Chain(MDBytes(c.of), k * Turns)]]
    BY <1>2 DEF AnswersTo
  <2>2. AnswersTo(contents, c) = First(AnswersTo(contents, c), Lines)
    BY <2>1 DEF First
  <2>. QED BY <1>1, <1>2, <2>2 DEF AnswerCount
<1>3. CASE c.gen = "DuplexKAT"
  <2>1. AnswersTo(contents, c)
          = [k \in 1 .. Cardinality(Records(contents, c)) |->
               [in |-> Read(contents, c)[k],
                hashed |-> ReadOf(contents,
                             TakenUpTo(contents, c, InOrder(Records(contents, c))[k]))]]
    BY <1>3, ReadIsFirst DEF AnswersTo
  <2>2. AnswersTo(contents, c) = First(AnswersTo(contents, c), Cardinality(Records(contents, c)))
    BY <2>1 DEF First
  <2>. QED BY <1>1, <1>3, <2>2 DEF AnswerCount
<1>4. CASE c.gen \in {"ShortMsgKAT", "LongMsgKAT"}
  <2>1. AnswersTo(contents, c)
          = [k \in 1 .. Cardinality(Records(contents, c)) |->
               [msg |-> Read(contents, c)[k],
                hashed |-> Shifted(Read(contents, c)[k].length, Read(contents, c)[k].value)]]
    BY <1>4, ReadIsFirst DEF AnswersTo
  <2>2. AnswersTo(contents, c) = First(AnswersTo(contents, c), Cardinality(Records(contents, c)))
    BY <2>1 DEF First
  <2>. QED BY <1>1, <1>4, <2>2 DEF AnswerCount
<1>. QED BY <1>1, <1>2, <1>3, <1>4 DEF Generators

LEMMA MessageAnswer ==
  ASSUME NEW contents, NEW c, c.gen \in {"ShortMsgKAT", "LongMsgKAT"},
         InputFile(c.gen, contents), NEW k \in 1 .. Cardinality(Records(contents, c))
  PROVE  /\ AnswersTo(contents, c)[k]
              = [msg |-> Read(contents, c)[k],
                 hashed |-> Shifted(Read(contents, c)[k].length, Read(contents, c)[k].value)]
         /\ Read(contents, c)[k] = ReadAt(contents, InOrder(Records(contents, c))[k])
  BY ReadIsFirst DEF AnswersTo, Read, ReadOf

LEMMA DuplexAnswer ==
  ASSUME NEW contents, NEW c, c.gen = "DuplexKAT",
         InputFile(c.gen, contents), NEW k \in 1 .. Cardinality(Records(contents, c))
  PROVE  /\ AnswersTo(contents, c)[k]
              = [in |-> Read(contents, c)[k],
                 hashed |-> ReadOf(contents,
                              TakenUpTo(contents, c, InOrder(Records(contents, c))[k]))]
         /\ Read(contents, c)[k] = ReadAt(contents, InOrder(Records(contents, c))[k])
  BY ReadIsFirst DEF AnswersTo, Read, ReadOf

(* The inputs the duplex object has taken, before and after one more is read.        *)
LEMMA TakenBefore ==
  ASSUME NEW contents, NEW c, InputFile(c.gen, contents), NEW a \in Nat, NEW b \in Nat,
         NEW p \in Records(contents, c), a <= p,
         \A q \in Records(contents, c) : q < b <=> (q < a \/ q = p)
  PROVE  /\ Before(Taken(contents, c), b) = TakenUpTo(contents, c, p)
         /\ Refuses(ReadAt(contents, p)) =>
              Before(Taken(contents, c), b) = Before(Taken(contents, c), a)
         /\ ~ Refuses(ReadAt(contents, p)) =>
              ReadOf(contents, Before(Taken(contents, c), b))
                = Append(ReadOf(contents, Before(Taken(contents, c), a)), ReadAt(contents, p))
<1>. DEFINE S == Taken(contents, c)
<1>1. /\ IsFiniteSet(Records(contents, c)) /\ Records(contents, c) \subseteq Nat
      /\ S \subseteq Records(contents, c) /\ p \in Nat
      /\ p \in S <=> ~ Refuses(ReadAt(contents, p))
  BY RecordsAre DEF Taken
<1>2. \A q \in S : q \in Nat /\ (q < b <=> (q < a \/ q = p))
  BY <1>1
<1>3. TakenUpTo(contents, c, p) = {q \in S : q <= p}
  BY DEF TakenUpTo
<1>. HIDE DEF S
<1>4. \A q \in Records(contents, c) : q <= p <=> q < b
  BY <1>1
<1>5. Before(S, b) = TakenUpTo(contents, c, p)
  BY <1>1, <1>3, <1>4 DEF Before
<1>6. ASSUME p \notin S PROVE Before(S, b) = Before(S, a)
  BY <1>1, <1>2, <1>6, StillBefore
<1>7. ASSUME p \in S
      PROVE  ReadOf(contents, Before(S, b))
               = Append(ReadOf(contents, Before(S, a)), ReadAt(contents, p))
  <2>1. Before(S, b) = Before(S, a) \cup {p}
    BY <1>2, <1>7 DEF Before
  <2>2. IsFiniteSet(Before(S, a)) /\ Before(S, a) \subseteq Nat
    <3>1. Before(S, a) \subseteq Records(contents, c)
      BY <1>1 DEF Before
    <3>. QED BY <1>1, <3>1, FS_Subset
  <2>3. \A q \in Before(S, a) : q < p
    BY <1>1, <1>2 DEF Before
  <2>. QED BY <1>1, <2>1, <2>2, <2>3, ReadOfOneMore
<1>. QED BY <1>1, <1>5, <1>6, <1>7 DEF S

LEMMA MonteCarloAnswer ==
  ASSUME NEW contents, NEW c, c.gen = "MonteCarlo", NEW k \in 1 .. Lines
  PROVE  AnswersTo(contents, c)[k] = [md |-> k * Turns, hashed |-> MessageOf(c, k * Turns)]
  BY DEF AnswersTo, MessageOf
-----------------------------------------------------------------------------------
(* The message of the next turn: the hash is put in front of it.                     *)
LEMMA ChainBegins ==
  ASSUME NEW n \in 1 .. SeedBytes
  PROVE  Chain(n, 1) = Seed
<1>1. ASSUME NEW b \in 1 .. SeedBytes
      PROVE  Chain(n, 1)[b] = Byte(0, b)
  <2>1. ~ ((b - 1) \div n < 1 - 1) /\ b - n * (1 - 1) = b
    BY KatAssumption
  <2>. QED BY <2>1 DEF Chain
<1>2. Chain(n, 1) = [b \in 1 .. SeedBytes |-> Chain(n, 1)[b]]
  BY DEF Chain
<1>. QED BY <1>1, <1>2 DEF Seed

LEMMA ChainAt ==
  ASSUME NEW n, NEW k, NEW b \in 1 .. SeedBytes
  PROVE  Chain(n, k)[b] = IF (b - 1) \div n < k - 1
                          THEN Byte(k - 1 - ((b - 1) \div n), ((b - 1) % n) + 1)
                          ELSE Byte(0, b - n * (k - 1))
  BY Zenon DEF Chain

LEMMA ChainGoesOn ==
  ASSUME NEW n \in 1 .. SeedBytes, NEW k \in Nat, Msg = Chain(n, k + 1)
  PROVE  NextMsg(n, k + 1) = Chain(n, k + 2)
<1>1. SeedBytes \in Nat /\ n \in Nat \ {0}
  BY KatAssumption
<1>2. ASSUME NEW b \in 1 .. SeedBytes, b <= n
      PROVE  NextMsg(n, k + 1)[b] = Chain(n, k + 2)[b]
  <2>1. (b - 1) \div n = 0 /\ (b - 1) % n = b - 1
    <3>1. b - 1 \in Nat /\ b - 1 < n /\ n * 0 + (b - 1) = b - 1
      BY <1>1, <1>2
    <3>. QED BY <3>1, <1>1, DividedOf
  <2>2. NextMsg(n, k + 1)[b] = Byte(k + 1, b)
    BY <1>2 DEF NextMsg
  <2>3. Chain(n, k + 2)[b] = Byte(k + 2 - 1 - 0, (b - 1) + 1)
    BY <2>1, <1>2 DEF Chain
  <2>4. k + 2 - 1 - 0 = k + 1 /\ (b - 1) + 1 = b
    BY <1>1, <1>2
  <2>. QED BY <2>2, <2>3, <2>4
<1>3. ASSUME NEW b \in 1 .. SeedBytes, b > n
      PROVE  NextMsg(n, k + 1)[b] = Chain(n, k + 2)[b]
  <2>. DEFINE q == (b - n - 1) \div n
              m == (b - n - 1) % n
  <2>1. b - n \in 1 .. SeedBytes /\ b - n - 1 \in Nat
    BY <1>1, <1>3
  <2>2. q \in Nat /\ m \in 0 .. (n - 1) /\ b - n - 1 = n * q + m
    BY <1>1, <2>1, Divided
  <2>3. (b - 1) \div n = q + 1 /\ (b - 1) % n = m
    <3>. HIDE DEF q, m
    <3>1. n * (q + 1) = n * q + n /\ n * q \in Nat
      BY <1>1, <2>2, Distributes, ProductType
    <3>2. b - 1 = n * (q + 1) + m
      BY <3>1, <2>2, <1>1, <2>1
    <3>3. q + 1 \in Nat /\ m \in Nat /\ m < n
      BY <2>2, <1>1
    <3>. QED BY <3>2, <3>3, <1>1, DividedOf
  <2>4. n * (k + 1) = n * k + n /\ n * k \in Nat
    BY <1>1, Distributes, ProductType
  <2>5. NextMsg(n, k + 1)[b] = Msg[b - n]
    BY <1>1, <1>3 DEF NextMsg
  <2>6. Msg[b - n] = IF q < k + 1 - 1 THEN Byte(k + 1 - 1 - q, m + 1)
                     ELSE Byte(0, b - n - n * (k + 1 - 1))
    BY <2>1 DEF Chain
  <2>7. \A j : Chain(n, j)[b] = IF q + 1 < j - 1 THEN Byte(j - 1 - (q + 1), m + 1)
                                ELSE Byte(0, b - n * (j - 1))
    <3>. HIDE DEF q, m
    <3>. QED BY <1>3, <2>3, ChainAt, Zenon
  <2>. HIDE DEF q, m
  <2>8. PICK j : j = k + 2
    OBVIOUS
  <2>9. /\ q < k + 1 - 1 <=> q + 1 < j - 1
        /\ k + 1 - 1 - q = j - 1 - (q + 1)
        /\ k + 1 - 1 = k /\ j - 1 = k + 1
    BY <2>2, <2>8
  <2>10. b - n - n * k = b - n * (k + 1)
    BY <2>4, <1>1
  <2>11. Chain(n, j)[b] = Msg[b - n]
    <3>1. b - n - n * (k + 1 - 1) = b - n * (j - 1)
      BY <2>9, <2>10
    <3>2. CASE q < k + 1 - 1
      BY <3>2, <2>6, <2>7, <2>9, Zenon
    <3>3. CASE ~ (q < k + 1 - 1)
      BY <3>1, <3>3, <2>6, <2>7, <2>9, Zenon
    <3>. QED BY <3>2, <3>3
  <2>. QED BY <2>5, <2>8, <2>11
<1>4. /\ NextMsg(n, k + 1) = [b \in 1 .. SeedBytes |-> NextMsg(n, k + 1)[b]]
      /\ Chain(n, k + 2) = [b \in 1 .. SeedBytes |-> Chain(n, k + 2)[b]]
  BY DEF NextMsg, Chain
<1>5. \A b \in 1 .. SeedBytes : NextMsg(n, k + 1)[b] = Chain(n, k + 2)[b]
  BY <1>1, <1>2, <1>3
<1>. HIDE DEF NextMsg, Chain
<1>. QED BY <1>4, <1>5, Zenon
-----------------------------------------------------------------------------------
LEMMA InputIs ==
  ASSUME KatInv
  PROVE  /\ Current.gen \in Generators /\ InputFile(Current.gen, Input)
         /\ Len(Input) \in Nat /\ Answers(Current) = AnswersTo(Input, Current)
<1>1. Current.gen \in Generators
  BY ScriptIs DEF KatInv, KatPlace, Current
<1>2. InputFile(Current.gen, Input)
  BY <1>1, KatAssumption DEF KatInv, KatPast, Input
<1>3. Input \in Seq([marker : STRING, value : Nat])
  BY <1>2, Zenon DEF InputFile
<1>. QED BY <1>1, <1>2, <1>3 DEF Answers, Input

(* The call being made goes on: what is past stays as it is.                         *)
LEMMA GoesOn ==
  ASSUME KatInv, file' = file, call' = call,
         kat_pc \in {"open", "header", "seed", "records", "turns"},
         kat_pc' \in {"header", "seed", "records", "turns"},
         DOMAIN written' = DOMAIN written \cup {Name(Current)},
         \A n \in DOMAIN written : n # Name(Current) => written'[n] = written[n]
  PROVE  KatPast'
<1>1. ASSUME NEW k \in 1 .. Len(Script), k # call
      PROVE  /\ Name(Script[k]) # Name(Current)
             /\ Name(Script[k]) \in DOMAIN written' <=> Name(Script[k]) \in DOMAIN written
             /\ Name(Script[k]) \in DOMAIN written
                  => written'[Name(Script[k])] = written[Name(Script[k])]
  <2>1. Name(Script[k]) # Name(Current)
    BY <1>1, ScriptNames DEF KatInv, KatPlace, Current
  <2>. QED BY <2>1
<1>2. ASSUME NEW k \in 1 .. Len(Script), k < call
      PROVE  IsPast(k)'
  <2>1. IsPast(k) /\ k # call
    BY <1>2, ScriptIs DEF KatInv, KatPast, KatPlace
  <2>2. Answers(Script[k])' = Answers(Script[k])
    BY DEF Answers
  <2>. QED BY <1>1, <2>1, <2>2 DEF IsPast
<1>3. ASSUME NEW k \in 1 .. Len(Script), k > call
      PROVE  Name(Script[k]) \notin DOMAIN written'
  BY <1>1, <1>3, ScriptIs DEF KatInv, KatPast, KatPlace
<1>. QED BY <1>2, <1>3 DEF KatInv, KatPast

(* A call returns: what it leaves is past.                                           *)
LEMMA ReturnKeeps ==
  ASSUME KatInv, NEW value, Returns(value), file' = file, written' = written, at' = at,
         kat_pc # "returned",
         Name(Current) \in DOMAIN written => IsPrefix(written[Name(Current)], Answers(Current)),
         value = 0 =>
           Name(Current) \in DOMAIN written /\ written[Name(Current)] = Answers(Current)
  PROVE  KatInv'
<1>. DEFINE ends == Stops(value) \/ call = Len(Script)
<1>1. call \in 1 .. Len(Script) /\ Len(Script) \in Nat /\ at \in Nat \ {0}
  BY ScriptIs DEF KatInv, KatPlace
<1>2. \A k \in 1 .. Len(Script) : Answers(Script[k])' = Answers(Script[k])
  BY DEF Answers
<1>3. CASE ends
  <2>1. kat_pc' = "returned" /\ call' = call
    BY <1>3 DEF Returns
  <2>2. ret_val' = 0 => call = Len(Script)
    BY <1>3 DEF Returns, Stops
  <2>3. KatPlace'
    BY <1>1, <2>1, <2>2 DEF KatPlace
  <2>4. ASSUME NEW k \in 1 .. Len(Script)
        PROVE  /\ k < call => IsPast(k)'
               /\ k > call => Name(Script[k]) \notin DOMAIN written
               /\ k = call /\ Name(Script[k]) \in DOMAIN written =>
                    IsPrefix(written[Name(Script[k])], Answers(Script[k]))
    <3>1. k < call => IsPast(k)
      BY DEF KatInv, KatPast
    <3>2. IsPast(k) => IsPast(k)'
      BY <1>2 DEF IsPast
    <3>. QED BY <3>1, <3>2 DEF KatInv, KatPast, Current
  <2>5. KatPast'
    BY <1>2, <2>1, <2>4 DEF KatInv, KatPast
  <2>6. KatOngoing'
    BY <2>1 DEF KatOngoing
  <2>. QED BY <2>3, <2>5, <2>6 DEF KatInv
<1>4. CASE ~ ends
  <2>1. kat_pc' = "open" /\ call' = call + 1 /\ call' \in 1 .. Len(Script)
    BY <1>1, <1>4 DEF Returns
  <2>2. KatPlace'
    BY <1>1, <2>1 DEF KatPlace
  <2>3. IsPast(call)
    <3>1. Current.checked => value = 0
      BY <1>4 DEF Stops
    <3>. QED BY <3>1 DEF IsPast, Current
  <2>4. ASSUME NEW k \in 1 .. Len(Script)
        PROVE  /\ k < call + 1 => IsPast(k)'
               /\ k >= call + 1 => Name(Script[k]) \notin DOMAIN written
    <3>1. k < call + 1 => IsPast(k)
      BY <1>1, <2>3 DEF KatInv, KatPast
    <3>2. IsPast(k) => IsPast(k)'
      BY <1>2 DEF IsPast
    <3>. QED BY <1>1, <3>1, <3>2 DEF KatInv, KatPast
  <2>5. KatPast'
    BY <1>1, <2>1, <2>4 DEF KatInv, KatPast
  <2>6. KatOngoing'
    BY <2>1 DEF KatOngoing
  <2>. QED BY <2>2, <2>5, <2>6 DEF KatInv
<1>. QED BY <1>3, <1>4
-----------------------------------------------------------------------------------
LEMMA InitIsKatInv == KatInit => KatInv
<1>. SUFFICES ASSUME KatInit PROVE KatInv
  OBVIOUS
<1>1. \A gen \in Generators : file[gen] \in Inputs[gen]
  BY KatAssumption DEF KatInit
<1>2. KatPlace
  BY ScriptIs DEF KatInit, KatPlace
<1>3. KatPast
  BY <1>1 DEF KatInit, KatPast
<1>4. KatOngoing
  BY DEF KatInit, KatOngoing
<1>. QED BY <1>2, <1>3, <1>4 DEF KatInv

LEMMA OpenKeeps == KatInv /\ Open => KatInv'
<1>. SUFFICES ASSUME KatInv, Open PROVE KatInv'
  OBVIOUS
<1>1. /\ kat_pc = "open" /\ file' = file /\ call' = call /\ at' = 1
      /\ duplexed' = <<>> /\ Out' = <<>>
      /\ kat_pc' = IF Current.gen = "DuplexKAT" THEN "records" ELSE "header"
      /\ DOMAIN written' = DOMAIN written \cup {Name(Current)}
      /\ written'[Name(Current)] = <<>>
      /\ \A n \in DOMAIN written : n # Name(Current) => written'[n] = written[n]
  BY DEF Open
<1>2. Current' = Current /\ Input' = Input /\ Answers(Current)' = Answers(Current)
  BY <1>1 DEF Current, Input, Answers
<1>3. KatPlace'
  BY <1>1, <1>2 DEF KatInv, KatPlace
<1>4. KatPast'
  BY <1>1, GoesOn
<1>5. Done' = 0
  <2>1. InputFile(Current.gen, Input)
    BY InputIs
  <2>2. \A q \in Records(Input, Current) : ~ (q < 1)
    BY <2>1, RecordsAre
  <2>3. Cardinality(Before(Records(Input, Current), 1)) = 0
    BY <2>2, NoneBefore
  <2>. QED BY <1>1, <1>2, <2>3 DEF Done
<1>6. KatOngoing'
  <2>1. written'[Name(Current)] = First(Answers(Current), 0)
    BY <1>1, FirstNone
  <2>2. Before(Taken(Input, Current), 1) = {}
    <3>1. \A q \in Taken(Input, Current) : ~ (q < 1)
      BY InputIs, RecordsAre DEF Taken
    <3>. QED BY <3>1 DEF Before
  <2>3. duplexed' = ReadOf(Input, Before(Taken(Input, Current), 1)) /\ Out' = duplexed'
    BY <1>1, <2>2, ReadOfNone
  <2>. QED BY <1>1, <1>2, <1>5, <2>1, <2>3 DEF KatOngoing
<1>. QED BY <1>3, <1>4, <1>6 DEF KatInv

LEMMA OpenFailsKeeps == KatInv /\ OpenFails => KatInv'
<1>. SUFFICES ASSUME KatInv, OpenFails PROVE KatInv'
  OBVIOUS
<1>1. Name(Current) \notin DOMAIN written
  BY DEF KatInv, KatPlace, KatPast, OpenFails, Current
<1>. QED BY <1>1, ReturnKeeps DEF OpenFails

(* A file in the making begins as it should.                                         *)
LEMMA OngoingIsPrefix ==
  ASSUME KatInv, kat_pc \in {"header", "seed", "records", "turns"},
         Done \in 0 .. AnswerCount(Input, Current)
  PROVE  /\ IsPrefix(written[Name(Current)], Answers(Current))
         /\ Done = AnswerCount(Input, Current) =>
              Name(Current) \in DOMAIN written /\ written[Name(Current)] = Answers(Current)
<1>1. /\ AnswerCount(Input, Current) \in Nat
      /\ Answers(Current) = First(Answers(Current), AnswerCount(Input, Current))
  BY InputIs, AnswersAre
<1>2. Name(Current) \in DOMAIN written /\ written[Name(Current)] = First(Answers(Current), Done)
  BY DEF KatInv, KatOngoing
<1>. QED BY <1>1, <1>2, FirstIsPrefix

LEMMA CountIs == KatInv => AnswerCount(Input, Current) \in Nat
  BY InputIs, AnswersAre

LEMMA HeaderKeeps == KatInv /\ Header => KatInv'
<1>. SUFFICES ASSUME KatInv, Header PROVE KatInv'
  OBVIOUS
<1>. DEFINE name == FindMarker(at, "# Algorithm Name:")
            submitter == FindMarker(name.at, "# Principal Submitter:")
<1>1. /\ kat_pc = "header" /\ at = 1 /\ file' = file /\ written' = written
      /\ Current.gen # "DuplexKAT" /\ Done = 0
  BY DEF Header, KatInv, KatPlace, Done
<1>2. InputFile(Current.gen, Input) /\ Len(Input) \in Nat /\ Current.gen \in Generators
  BY InputIs
<1>3. name.at \in Nat \ {0}
  <2>1. at \in Nat \ {0}
    BY <1>1
  <2>2. FoundIs(Input, at, "# Algorithm Name:", name)
    BY <1>2, <2>1, MarkerFound
  <2>. HIDE DEF name
  <2>. QED BY <1>2, <2>1, <2>2, FoundAt
<1>4. FoundIs(Input, name.at, "# Principal Submitter:", submitter)
  BY <1>2, <1>3, MarkerFound
<1>. DEFINE principal == "# Principal Submitter:"
<1>. HIDE DEF name, submitter
<1>5. CASE submitter.found
  <2>1. /\ kat_pc' = (IF Current.gen = "MonteCarlo" THEN "seed" ELSE "records")
        /\ at' = submitter.at /\ call' = call /\ ret_val' = ret_val
    BY <1>5 DEF Header, name, submitter
  <2>2. at' = 3
    <3>1. PICK p \in name.at .. Len(Input) :
            Input[p].marker = principal /\ submitter.at = p + 1
      BY <1>4, <1>5 DEF FoundIs
    <3>. HIDE DEF principal
    <3>2. p \in DOMAIN Input
      <4>1. Input \in Seq([marker : STRING, value : Nat])
        BY <1>2, Zenon DEF InputFile
      <4>2. p \in 1 .. Len(Input)
        BY <1>2, <1>3, <3>1
      <4>. QED BY <4>1, <4>2
    <3>3. p = 2
      BY <1>1, <1>2, <3>1, <3>2, Zenon DEF InputFile, principal
    <3>4. submitter.at = 3
      BY <3>1, <3>3
    <3>. QED BY <2>1, <3>4
  <2>3. Current' = Current /\ Input' = Input /\ Answers(Current)' = Answers(Current)
    BY <1>1, <2>1 DEF Current, Input, Answers
  <2>4. KatPlace'
    BY <1>1, <2>1, <2>2, <2>3 DEF KatInv, KatPlace
  <2>5. KatPast'
    <3>1. Name(Current) \in DOMAIN written
      BY <1>1 DEF KatInv, KatOngoing
    <3>. QED BY <1>1, <2>1, <3>1, GoesOn
  <2>6. Done' = 0
    <3>1. \A q \in Records(Input, Current) : ~ (q < 3)
      BY <1>1, <1>2, RecordsAre
    <3>2. Cardinality(Before(Records(Input, Current), 3)) = 0
      BY <3>1, NoneBefore
    <3>. QED BY <2>1, <2>2, <2>3, <3>2 DEF Done
  <2>7. KatOngoing'
    <3>1. Name(Current) \in DOMAIN written /\ written[Name(Current)] = First(Answers(Current), 0)
      BY <1>1 DEF KatInv, KatOngoing
    <3>. QED BY <1>1, <2>1, <2>3, <2>6, <3>1 DEF KatOngoing
  <2>. QED BY <2>4, <2>5, <2>7 DEF KatInv
<1>6. CASE ~ submitter.found
  <2>1. Returns(2) /\ at' = at
    BY <1>6 DEF Header, name, submitter
  <2>2. IsPrefix(written[Name(Current)], Answers(Current))
    BY <1>1, CountIs, OngoingIsPrefix
  <2>. QED BY <1>1, <2>1, <2>2, ReturnKeeps
<1>. QED BY <1>5, <1>6

(* What is read from the place that is reached, by either kind of record.            *)
LEMMA ReadHere ==
  ASSUME KatInv, NEW size, size = FindMarker(at, MarkerOf(Current.gen)),
         NEW msg, msg = ReadHex(size.at, size.value, ValueOf(Current.gen))
  PROVE  ReadIs(Current.gen, Input, at, size, msg)
<1>1. InputFile(Current.gen, Input) /\ Len(Input) \in Nat /\ at \in Nat \ {0}
  BY InputIs DEF KatInv, KatPlace
<1>2. FoundIs(Input, at, MarkerOf(Current.gen), size)
  BY <1>1, MarkerFound
<1>3. size.at \in Nat \ {0}
  BY <1>1, <1>2, FoundAt
<1>4. size.value = 0 => msg = [found |-> TRUE, at |-> size.at, value |-> 0]
  BY DEF ReadHex
<1>5. size.value # 0 => FoundIs(Input, size.at, ValueOf(Current.gen), msg)
  BY <1>1, <1>3, MarkerFound DEF ReadHex
<1>. QED BY <1>1, <1>2, <1>4, <1>5, RecordRead

(* Where nothing more is read, the file is complete.                                 *)
LEMMA NothingMore ==
  ASSUME KatInv, kat_pc = "records",
         \A q \in AllRecords(Current.gen, Input) : q < at
  PROVE  /\ IsPrefix(written[Name(Current)], Answers(Current))
         /\ Name(Current) \in DOMAIN written /\ written[Name(Current)] = Answers(Current)
<1>1. at \in Nat /\ Current.gen # "MonteCarlo"
  BY DEF KatInv, KatPlace
<1>2. \A q \in Records(Input, Current) : q < at
  BY InputIs, RecordsAre
<1>3. Done = AnswerCount(Input, Current)
  BY <1>1, <1>2, AllBefore DEF Done, AnswerCount
<1>. QED BY <1>3, CountIs, OngoingIsPrefix

(* A record has been read and answered.                                              *)
LEMMA Answered ==
  ASSUME KatInv, kat_pc = "records", kat_pc' = kat_pc, call' = call, file' = file,
         ret_val' = ret_val, at' \in Nat \ {0}, NEW p \in Records(Input, Current), at <= p,
         \A q \in AllRecords(Current.gen, Input) : q < at' <=> (q < at \/ q = p)
  PROVE  /\ Done \in Nat /\ Done + 1 \in 1 .. Cardinality(Records(Input, Current))
         /\ Done' = Done + 1 /\ InOrder(Records(Input, Current))[Done + 1] = p
         /\ Current' = Current /\ Input' = Input /\ Answers(Current)' = Answers(Current)
         /\ KatPlace'
<1>1. Current' = Current /\ Input' = Input /\ Answers(Current)' = Answers(Current)
  BY DEF Current, Input, Answers
<1>2. KatPlace'
  BY <1>1 DEF KatInv, KatPlace
<1>3. /\ IsFiniteSet(Records(Input, Current)) /\ Records(Input, Current) \subseteq Nat
      /\ Records(Input, Current) \subseteq AllRecords(Current.gen, Input)
  BY InputIs, RecordsAre
<1>4. at \in Nat /\ Done = Cardinality(Before(Records(Input, Current), at))
  BY DEF KatInv, KatPlace, Done
<1>5. Done' = Cardinality(Before(Records(Input, Current), at'))
  BY <1>1 DEF Done
<1>. QED BY <1>1, <1>2, <1>3, <1>4, <1>5, OneMore

LEMMA OngoingWritten ==
  ASSUME KatInv, kat_pc \in {"records", "turns"}, kat_pc' = kat_pc, call' = call, file' = file,
         Done \in Nat, Done' = Done + 1, NEW entry, entry = Answers(Current)[Done + 1],
         written' = Written(entry)
  PROVE  /\ KatPast'
         /\ Name(Current) \in DOMAIN written'
         /\ written'[Name(Current)] = First(Answers(Current), Done')
<1>1. Name(Current) \in DOMAIN written /\ written[Name(Current)] = First(Answers(Current), Done)
  BY DEF KatInv, KatOngoing
<1>2. /\ DOMAIN written' = DOMAIN written
      /\ written'[Name(Current)] = Append(written[Name(Current)], entry)
      /\ \A n \in DOMAIN written : n # Name(Current) => written'[n] = written[n]
  BY <1>1 DEF Written
<1>3. KatPast'
  BY <1>1, <1>2, GoesOn
<1>. QED BY <1>1, <1>2, <1>3, FirstLonger

LEMMA MessageRecordKeeps ==
  ASSUME KatInv, MessageRecord, Current.gen \in {"ShortMsgKAT", "LongMsgKAT"}
  PROVE  KatInv'
<1>. DEFINE size == FindMarker(at, "Len = ")
            msg == ReadHex(size.at, size.value, "Msg = ")
<1>1. MarkerOf(Current.gen) = "Len = " /\ ValueOf(Current.gen) = "Msg = "
  BY DEF MarkerOf, ValueOf
<1>2. ReadIs(Current.gen, Input, at, size, msg)
  BY <1>1, ReadHere
<1>3. kat_pc = "records" /\ file' = file
  BY DEF MessageRecord
<1>. HIDE DEF size, msg
<1>4. CASE size.found /\ msg.found
  <2>1. /\ at' = msg.at /\ kat_pc' = kat_pc /\ ret_val' = ret_val /\ call' = call
        /\ written' = Written([msg |-> AsRead(size.value, msg.value),
                              hashed |-> Shifted(size.value, msg.value)])
    BY <1>4 DEF MessageRecord, size, msg
  <2>2. PICK p \in AllRecords(Current.gen, Input) :
          /\ at <= p
          /\ AsRead(size.value, msg.value) = ReadAt(Input, p)
          /\ msg.at \in Nat \ {0}
          /\ \A q \in AllRecords(Current.gen, Input) : q < msg.at <=> (q < at \/ q = p)
    BY <1>2, <1>4 DEF ReadIs
  <2>3. p \in Records(Input, Current)
    BY DEF AllRecords, Records
  <2>4. /\ Done \in Nat /\ Done + 1 \in 1 .. Cardinality(Records(Input, Current))
        /\ Done' = Done + 1 /\ InOrder(Records(Input, Current))[Done + 1] = p
        /\ Current' = Current /\ Answers(Current)' = Answers(Current) /\ KatPlace'
    BY <1>3, <2>1, <2>2, <2>3, Answered
  <2>5. [msg |-> AsRead(size.value, msg.value), hashed |-> Shifted(size.value, msg.value)]
          = Answers(Current)[Done + 1]
    <3>1. /\ Answers(Current)[Done + 1]
               = [msg |-> Read(Input, Current)[Done + 1],
                  hashed |-> Shifted(Read(Input, Current)[Done + 1].length,
                                     Read(Input, Current)[Done + 1].value)]
          /\ Read(Input, Current)[Done + 1] = ReadAt(Input, p)
      BY <2>4, InputIs, MessageAnswer
    <3>2. Read(Input, Current)[Done + 1] = AsRead(size.value, msg.value)
      BY <2>2, <3>1
    <3>3. /\ AsRead(size.value, msg.value).length = size.value
          /\ AsRead(size.value, msg.value).value = msg.value
      BY DEF AsRead
    <3>. QED BY <3>1, <3>2, <3>3, Zenon
  <2>6. /\ KatPast' /\ Name(Current) \in DOMAIN written'
        /\ written'[Name(Current)] = First(Answers(Current), Done')
    BY <1>3, <2>1, <2>4, <2>5, OngoingWritten
  <2>7. KatOngoing'
    BY <1>3, <2>1, <2>4, <2>6 DEF KatOngoing
  <2>. QED BY <2>4, <2>6, <2>7 DEF KatInv
<1>5. CASE ~ (size.found /\ msg.found)
  <2>1. (Returns(0) \/ Returns(3)) /\ at' = at /\ written' = written
    BY <1>5 DEF MessageRecord, size, msg
  <2>2. \A q \in AllRecords(Current.gen, Input) : q < at
    BY <1>2, <1>5 DEF ReadIs
  <2>. QED BY <1>3, <2>1, <2>2, NothingMore, ReturnKeeps
<1>. QED BY <1>4, <1>5

LEMMA DuplexRecordKeeps ==
  ASSUME KatInv, DuplexRecord, Current.gen = "DuplexKAT"
  PROVE  KatInv'
<1>. DEFINE size == FindMarker(at, "InLen = ")
            in == ReadHex(size.at, size.value, "In = ")
<1>1. /\ kat_pc = "records" /\ file' = file /\ Current.gen = "DuplexKAT"
      /\ MarkerOf(Current.gen) = "InLen = " /\ ValueOf(Current.gen) = "In = "
  BY DEF DuplexRecord, MarkerOf, ValueOf
<1>2. ReadIs(Current.gen, Input, at, size, in)
  BY <1>1, ReadHere
<1>. HIDE DEF size, in
<1>3. CASE size.found /\ in.found
  <2>1. /\ at' = in.at /\ kat_pc' = kat_pc /\ ret_val' = ret_val /\ call' = call
    BY <1>3 DEF DuplexRecord, size, in
  <2>2. PICK p \in AllRecords(Current.gen, Input) :
          /\ at <= p /\ size.value = Input[p].value
          /\ AsRead(size.value, in.value) = ReadAt(Input, p)
          /\ in.at \in Nat \ {0}
          /\ \A q \in AllRecords(Current.gen, Input) : q < in.at <=> (q < at \/ q = p)
    BY <1>2, <1>3 DEF ReadIs
  <2>3. Current' = Current /\ Input' = Input /\ Answers(Current)' = Answers(Current)
    BY <1>1, <2>1 DEF Current, Input, Answers
  <2>4. duplexed = ReadOf(Input, Before(Taken(Input, Current), at)) /\ Out = duplexed
    BY <1>1 DEF KatInv, KatOngoing
  <2>5. CASE size.value <= DuplexRhoMax(Current.of)
    <3>1. /\ Duplexes(AsRead(size.value, in.value))
          /\ written' = Written([in |-> AsRead(size.value, in.value), hashed |-> Out'])
      BY <1>3, <2>5 DEF DuplexRecord, size, in
    <3>2. p \in Records(Input, Current)
      BY <2>2, <2>5 DEF AllRecords, Records
    <3>3. /\ Done \in Nat /\ Done + 1 \in 1 .. Cardinality(Records(Input, Current))
          /\ Done' = Done + 1 /\ InOrder(Records(Input, Current))[Done + 1] = p
          /\ KatPlace'
      BY <1>1, <2>1, <2>2, <3>2, Answered
    <3>4. /\ Answers(Current)[Done + 1]
               = [in |-> Read(Input, Current)[Done + 1],
                  hashed |-> ReadOf(Input, TakenUpTo(Input, Current, p))]
          /\ Read(Input, Current)[Done + 1] = ReadAt(Input, p)
      BY <1>1, <3>3, InputIs, DuplexAnswer
    <3>5. /\ duplexed' = ReadOf(Input, Before(Taken(Input, Current), in.at))
          /\ Out' = duplexed'
          /\ Before(Taken(Input, Current), in.at) = TakenUpTo(Input, Current, p)
      <4>1. at \in Nat /\ in.at \in Nat /\ InputFile(Current.gen, Input)
        BY <2>2, InputIs DEF KatInv, KatPlace
      <4>2. \A q \in Records(Input, Current) : q < in.at <=> (q < at \/ q = p)
        BY <2>2, InputIs, RecordsAre
      <4>3. /\ Before(Taken(Input, Current), in.at) = TakenUpTo(Input, Current, p)
            /\ Refuses(ReadAt(Input, p)) =>
                 Before(Taken(Input, Current), in.at) = Before(Taken(Input, Current), at)
            /\ ~ Refuses(ReadAt(Input, p)) =>
                 ReadOf(Input, Before(Taken(Input, Current), in.at))
                   = Append(ReadOf(Input, Before(Taken(Input, Current), at)), ReadAt(Input, p))
        BY <2>2, <3>2, <4>1, <4>2, TakenBefore
      <4>4. CASE Refuses(ReadAt(Input, p))
        <5>1. duplexed' = duplexed /\ Out' = Out
          BY <2>2, <3>1, <4>4 DEF Duplexes
        <5>. QED BY <2>4, <4>3, <4>4, <5>1
      <4>5. CASE ~ Refuses(ReadAt(Input, p))
        <5>1. duplexed' = Append(duplexed, ReadAt(Input, p)) /\ Out' = duplexed'
          BY <2>2, <3>1, <4>5 DEF Duplexes
        <5>. QED BY <2>4, <4>3, <4>5, <5>1
      <4>. QED BY <4>4, <4>5
    <3>6. [in |-> AsRead(size.value, in.value), hashed |-> Out'] = Answers(Current)[Done + 1]
      BY <2>2, <3>4, <3>5, Zenon
    <3>7. /\ KatPast' /\ Name(Current) \in DOMAIN written'
          /\ written'[Name(Current)] = First(Answers(Current), Done')
      BY <1>1, <2>1, <3>1, <3>3, <3>6, OngoingWritten
    <3>8. KatOngoing'
      BY <1>1, <2>1, <2>3, <3>3, <3>5, <3>7 DEF KatOngoing
    <3>. QED BY <3>3, <3>7, <3>8 DEF KatInv
  <2>6. CASE ~ (size.value <= DuplexRhoMax(Current.of))
    <3>1. duplexed' = duplexed /\ Out' = Out /\ written' = written
      BY <1>3, <2>6 DEF DuplexRecord, size, in
    <3>2. p \notin Records(Input, Current)
      BY <1>1, <2>2, <2>6 DEF Records
    <3>3. Done' = Done
      <4>1. Records(Input, Current) \subseteq AllRecords(Current.gen, Input) /\ at \in Nat
        BY InputIs, RecordsAre DEF KatInv, KatPlace
      <4>2. \A q \in Records(Input, Current) : q < in.at <=> q < at
        BY <2>2, <3>2, <4>1
      <4>3. Before(Records(Input, Current), in.at) = Before(Records(Input, Current), at)
        BY <2>2, <4>1, <4>2, StillBefore
      <4>. QED BY <1>1, <2>1, <2>3, <4>3 DEF Done
    <3>4. Before(Taken(Input, Current), in.at) = Before(Taken(Input, Current), at)
      <4>1. Records(Input, Current) \subseteq AllRecords(Current.gen, Input) /\ at \in Nat
        BY InputIs, RecordsAre DEF KatInv, KatPlace
      <4>2. \A q \in Taken(Input, Current) : q < in.at <=> q < at
        BY <2>2, <3>2, <4>1 DEF Taken
      <4>. QED BY <2>2, <4>1, <4>2, StillBefore
    <3>5. Name(Current) \in DOMAIN written /\ written[Name(Current)] = First(Answers(Current), Done)
      BY <1>1 DEF KatInv, KatOngoing
    <3>6. KatPast'
      BY <1>1, <2>1, <3>1, <3>5, GoesOn
    <3>7. KatPlace'
      BY <1>1, <2>1, <2>2, <2>3 DEF KatInv, KatPlace
    <3>8. KatOngoing'
      BY <1>1, <2>1, <2>3, <2>4, <3>1, <3>3, <3>5, <3>4 DEF KatOngoing
    <3>. QED BY <3>6, <3>7, <3>8 DEF KatInv
  <2>. QED BY <2>5, <2>6
<1>4. CASE ~ (size.found /\ in.found)
  <2>1. (Returns(0) \/ Returns(3)) /\ at' = at /\ written' = written
    BY <1>4 DEF DuplexRecord, size, in
  <2>2. \A q \in AllRecords(Current.gen, Input) : q < at
    BY <1>2, <1>4 DEF ReadIs
  <2>. QED BY <1>1, <2>1, <2>2, NothingMore, ReturnKeeps
<1>. QED BY <1>3, <1>4

LEMMA SeedKeeps == KatInv /\ MonteCarloSeed => KatInv'
<1>. SUFFICES ASSUME KatInv, MonteCarloSeed PROVE KatInv'
  OBVIOUS
<1>. DEFINE seed == ReadHex(at, SeedBytes, "Seed = ")
<1>1. /\ kat_pc = "seed" /\ file' = file /\ written' = written /\ Done = 0
      /\ Current.gen = "MonteCarlo" /\ at \in Nat \ {0}
  BY DEF MonteCarloSeed, KatInv, KatPlace, Done
<1>2. seed.at \in Nat \ {0}
  <2>1. Len(Input) \in Nat /\ SeedBytes # 0
    BY InputIs, KatAssumption
  <2>2. seed = FindMarker(at, "Seed = ")
    BY <2>1 DEF ReadHex
  <2>3. FoundIs(Input, at, "Seed = ", seed)
    BY <1>1, <2>1, <2>2, MarkerFound
  <2>. HIDE DEF seed
  <2>. QED BY <1>1, <2>1, <2>3, FoundAt
<1>. HIDE DEF seed
<1>3. CASE seed.found
  <2>1. /\ Msg' = Seed /\ turn' = 0 /\ kat_pc' = "turns" /\ at' = seed.at
        /\ ret_val' = ret_val /\ call' = call
    BY <1>3 DEF MonteCarloSeed, seed
  <2>2. Current' = Current /\ Input' = Input /\ Answers(Current)' = Answers(Current)
    BY <1>1, <2>1 DEF Current, Input, Answers
  <2>3. KatPlace'
    BY <1>1, <1>2, <2>1, <2>2 DEF KatInv, KatPlace
  <2>4. Name(Current) \in DOMAIN written /\ written[Name(Current)] = First(Answers(Current), 0)
    BY <1>1 DEF KatInv, KatOngoing
  <2>5. KatPast'
    BY <1>1, <2>1, <2>4, GoesOn
  <2>6. Done' = 0
    <3>1. 0 \div Turns = 0
      BY KatAssumption
    <3>. QED BY <2>1, <3>1 DEF Done
  <2>7. Msg' = MessageOf(Current, turn' + 1)
    <3>1. Current.of # 0 => MDBytes(Current.of) \in 1 .. SeedBytes
      BY <1>1, ScriptIs DEF KatInv, KatPlace, Current
    <3>2. Current.of # 0 => Chain(MDBytes(Current.of), 1) = Seed
      BY <3>1, ChainBegins
    <3>3. turn' + 1 = 1
      BY <2>1
    <3>. QED BY <2>1, <3>2, <3>3 DEF MessageOf
  <2>8. turn' \in 0 .. Turns * Lines
    BY <2>1, ProductType, KatAssumption
  <2>9. KatOngoing'
    BY <1>1, <2>1, <2>2, <2>4, <2>6, <2>7, <2>8 DEF KatOngoing
  <2>. QED BY <2>3, <2>5, <2>9 DEF KatInv
<1>4. CASE ~ seed.found
  <2>1. Returns(3) /\ at' = at
    BY <1>4 DEF MonteCarloSeed, seed
  <2>2. IsPrefix(written[Name(Current)], Answers(Current))
    BY <1>1, CountIs, OngoingIsPrefix
  <2>. QED BY <1>1, <2>1, <2>2, ReturnKeeps
<1>. QED BY <1>3, <1>4

(* A line is written when the turns are a whole number of lines.                     *)
LEMMA TurnsAndLines ==
  ASSUME NEW t \in Nat
  PROVE  /\ t \div Turns \in Nat
         /\ (t + 1) % Turns = 0 => /\ (t + 1) \div Turns = (t \div Turns) + 1
                                  /\ t + 1 = ((t \div Turns) + 1) * Turns
         /\ (t + 1) % Turns # 0 => (t + 1) \div Turns = t \div Turns
         /\ t < Turns * Lines => (t \div Turns) + 1 \in 1 .. Lines
<1>. DEFINE q == t \div Turns
            m == t % Turns
<1>1. Turns \in Nat \ {0} /\ Lines \in Nat \ {0}
  BY KatAssumption
<1>2. q \in Nat /\ m \in 0 .. (Turns - 1) /\ t = Turns * q + m
  BY <1>1, Divided
<1>. HIDE DEF q, m
<1>3. Turns * q \in Nat /\ (q + 1) * Turns = Turns * q + Turns /\ Turns * (q + 1) = Turns * q + Turns
  BY <1>1, <1>2, Distributes, ProductType
<1>4. (t + 1) % Turns = 0 => (t + 1) \div Turns = q + 1 /\ t + 1 = (q + 1) * Turns
  <2>1. CASE m + 1 = Turns
    <3>1. t + 1 = Turns * (q + 1) + 0 /\ q + 1 \in Nat /\ 0 < Turns
      BY <1>1, <1>2, <1>3, <2>1
    <3>2. (t + 1) \div Turns = q + 1
      BY <3>1, <1>1, DividedOf
    <3>3. t + 1 = (q + 1) * Turns
      BY <1>1, <1>2, <1>3, <2>1
    <3>. QED BY <3>2, <3>3
  <2>2. CASE m + 1 # Turns
    <3>1. t + 1 = Turns * q + (m + 1) /\ m + 1 \in Nat /\ m + 1 < Turns /\ m + 1 # 0
      BY <1>1, <1>2, <1>3, <2>2
    <3>2. (t + 1) % Turns = m + 1
      BY <3>1, <1>1, <1>2, DividedOf
    <3>. QED BY <3>1, <3>2
  <2>. QED BY <2>1, <2>2
<1>5. (t + 1) % Turns # 0 => (t + 1) \div Turns = q
  <2>1. CASE m + 1 = Turns
    <3>1. t + 1 = Turns * (q + 1) + 0 /\ q + 1 \in Nat /\ 0 < Turns
      BY <1>1, <1>2, <1>3, <2>1
    <3>2. (t + 1) % Turns = 0
      BY <3>1, <1>1, DividedOf
    <3>. QED BY <3>2
  <2>2. CASE m + 1 # Turns
    <3>1. t + 1 = Turns * q + (m + 1) /\ m + 1 \in Nat /\ m + 1 < Turns
      BY <1>1, <1>2, <1>3, <2>2
    <3>2. (t + 1) \div Turns = q
      BY <3>1, <1>1, <1>2, DividedOf
    <3>. QED BY <3>2
  <2>. QED BY <2>1, <2>2
<1>6. ASSUME t < Turns * Lines
      PROVE  q + 1 \in 1 .. Lines
  <2>1. CASE q < Lines
    BY <1>1, <1>2, <2>1
  <2>2. CASE ~ (q < Lines)
    <3>. DEFINE d == q - Lines
    <3>1. d \in Nat /\ q = Lines + d
      BY <1>1, <1>2, <2>2
    <3>. HIDE DEF d
    <3>2. (Lines + d) * Turns = Lines * Turns + d * Turns /\ d * Turns \in Nat
          /\ Lines * Turns \in Nat
      BY <1>1, <3>1, Distributes, ProductType
    <3>3. Turns * q = q * Turns /\ Turns * Lines = Lines * Turns
      BY <1>1, <1>2
    <3>4. q * Turns = Lines * Turns + d * Turns
      BY <3>1, <3>2, Zenon
    <3>. QED BY <1>2, <1>6, <3>2, <3>3, <3>4
  <2>. QED BY <2>1, <2>2
<1>. QED BY <1>2, <1>4, <1>5, <1>6 DEF q

LEMMA TurnKeeps ==
  ASSUME KatInv, NEW next, MonteCarloTurn(next),
         Msg = MessageOf(Current, turn + 1) => next = MessageOf(Current, turn + 2)
  PROVE  KatInv'
<1>1. /\ kat_pc = "turns" /\ turn < Turns * Lines /\ turn' = turn + 1 /\ Msg' = next
      /\ file' = file /\ call' = call /\ kat_pc' = kat_pc /\ ret_val' = ret_val /\ at' = at
      /\ written' = IF (turn + 1) % Turns = 0
                    THEN Written([md |-> turn + 1, hashed |-> Msg]) ELSE written
  BY DEF MonteCarloTurn
<1>2. /\ turn \in 0 .. Turns * Lines /\ turn \in Nat /\ Turns * Lines \in Nat
      /\ Msg = MessageOf(Current, turn + 1) /\ Current.gen = "MonteCarlo"
  BY <1>1, ProductType, KatAssumption DEF KatInv, KatOngoing, KatPlace
<1>3. Current' = Current /\ Input' = Input /\ Answers(Current)' = Answers(Current)
  BY <1>1 DEF Current, Input, Answers
<1>4. KatPlace'
  BY <1>1, <1>3 DEF KatInv, KatPlace
<1>5. Name(Current) \in DOMAIN written /\ written[Name(Current)] = First(Answers(Current), Done)
  BY <1>1 DEF KatInv, KatOngoing
<1>6. Done = turn \div Turns /\ Done' = (turn + 1) \div Turns /\ Done \in Nat
  <2>1. turn \div Turns \in Nat
    BY <1>2, TurnsAndLines
  <2>. QED BY <1>1, <2>1 DEF Done
<1>7. turn' \in 0 .. Turns * Lines
  BY <1>1, <1>2
<1>8. Msg' = MessageOf(Current, turn' + 1)
  <2>1. turn + 2 = turn' + 1
    BY <1>1, <1>2
  <2>. QED BY <1>1, <1>2, <2>1
<1>9. CASE (turn + 1) % Turns = 0
  <2>1. Done' = Done + 1 /\ turn + 1 = (Done + 1) * Turns /\ Done + 1 \in 1 .. Lines
    BY <1>1, <1>2, <1>6, <1>9, TurnsAndLines
  <2>2. Answers(Current)[Done + 1]
          = [md |-> (Done + 1) * Turns, hashed |-> MessageOf(Current, (Done + 1) * Turns)]
    BY <1>2, <2>1, InputIs, MonteCarloAnswer
  <2>3. [md |-> turn + 1, hashed |-> Msg] = Answers(Current)[Done + 1]
    BY <1>2, <2>1, <2>2, Zenon
  <2>4. written' = Written([md |-> turn + 1, hashed |-> Msg])
    BY <1>1, <1>9
  <2>5. /\ KatPast' /\ Name(Current) \in DOMAIN written'
        /\ written'[Name(Current)] = First(Answers(Current), Done')
    BY <1>1, <1>6, <2>1, <2>3, <2>4, OngoingWritten
  <2>6. KatOngoing'
    BY <1>1, <1>3, <1>7, <1>8, <2>5 DEF KatOngoing
  <2>. QED BY <1>4, <2>5, <2>6 DEF KatInv
<1>10. CASE (turn + 1) % Turns # 0
  <2>1. written' = written /\ Done' = Done
    BY <1>1, <1>2, <1>6, <1>10, TurnsAndLines
  <2>2. KatPast'
    BY <1>1, <1>5, <2>1, GoesOn
  <2>3. KatOngoing'
    BY <1>1, <1>3, <1>5, <1>7, <1>8, <2>1 DEF KatOngoing
  <2>. QED BY <1>4, <2>2, <2>3 DEF KatInv
<1>. QED BY <1>9, <1>10

LEMMA HashTurnKeeps ==
  ASSUME KatInv, Current.of # 0, MonteCarloTurn(NextMsg(MDBytes(Current.of), turn + 1))
  PROVE  KatInv'
<1>1. kat_pc = "turns"
  BY DEF MonteCarloTurn
<1>2. MDBytes(Current.of) \in 1 .. SeedBytes
  BY <1>1, ScriptIs DEF KatInv, KatPlace, Current
<1>3. turn \in Nat
  BY <1>1, ProductType, KatAssumption DEF KatInv, KatOngoing
<1>4. Msg = MessageOf(Current, turn + 1)
        => NextMsg(MDBytes(Current.of), turn + 1) = MessageOf(Current, turn + 2)
  BY <1>1, <1>2, <1>3, ChainGoesOn DEF MessageOf
<1>. QED BY <1>1, <1>4, TurnKeeps

LEMMA SqueezeTurnKeeps ==
  ASSUME KatInv, Current.of = 0, MonteCarloTurn(Msg)
  PROVE  KatInv'
<1>1. Msg = MessageOf(Current, turn + 1) => Msg = MessageOf(Current, turn + 2)
  BY DEF MessageOf
<1>. QED BY <1>1, TurnKeeps

LEMMA MonteCarloReturnsKeeps == KatInv /\ MonteCarloReturns => KatInv'
<1>. SUFFICES ASSUME KatInv, MonteCarloReturns PROVE KatInv'
  OBVIOUS
<1>1. /\ kat_pc = "turns" /\ turn = Turns * Lines /\ Returns(0)
      /\ file' = file /\ at' = at /\ written' = written
  BY DEF MonteCarloReturns
<1>2. Current.gen = "MonteCarlo"
  BY <1>1 DEF KatInv, KatPlace
<1>3. Done = AnswerCount(Input, Current)
  <2>1. Turns \in Nat \ {0} /\ Lines \in Nat
    BY KatAssumption
  <2>2. Turns * Lines \in Nat
    BY <2>1, ProductType
  <2>3. (Turns * Lines + 0) \div Turns = Lines
    BY <2>1, DividedOf
  <2>. QED BY <1>1, <1>2, <2>2, <2>3 DEF Done, AnswerCount
<1>4. /\ IsPrefix(written[Name(Current)], Answers(Current))
      /\ Name(Current) \in DOMAIN written /\ written[Name(Current)] = Answers(Current)
  BY <1>1, <1>3, CountIs, OngoingIsPrefix
<1>. QED BY <1>1, <1>4, ReturnKeeps

LEMMA StepKeepsKatInv == KatInv /\ [KatNext]_katVars => KatInv'
<1>. SUFFICES ASSUME KatInv, [KatNext]_katVars PROVE KatInv'
  OBVIOUS
<1>1. Open => KatInv'
  BY OpenKeeps
<1>2. OpenFails => KatInv'
  BY OpenFailsKeeps
<1>3. Header => KatInv'
  BY HeaderKeeps
<1>4. MonteCarloSeed => KatInv'
  BY SeedKeeps
<1>5. MonteCarloReturns => KatInv'
  BY MonteCarloReturnsKeeps
<1>6. CASE genShortMsg \/ genShortMsgSponge \/ genLongMsg
  BY <1>1, <1>2, <1>3, <1>6, MessageRecordKeeps DEF genShortMsg, genShortMsgSponge, genLongMsg
<1>7. CASE genMonteCarlo
  BY <1>1, <1>2, <1>3, <1>4, <1>5, <1>7, HashTurnKeeps DEF genMonteCarlo
<1>8. CASE genMonteCarloSqueezing
  BY <1>1, <1>2, <1>3, <1>4, <1>5, <1>8, SqueezeTurnKeeps DEF genMonteCarloSqueezing
<1>9. CASE genDuplexKAT
  BY <1>1, <1>2, <1>9, DuplexRecordKeeps DEF genDuplexKAT
<1>10. CASE UNCHANGED katVars
  BY <1>10 DEF katVars, KatInv, KatPlace, KatPast, KatOngoing, IsPast, Done, Current, Input, Answers
<1>. QED BY <1>6, <1>7, <1>8, <1>9, <1>10 DEF KatNext

(* A file in the making holds no more than its answers.                              *)
LEMMA DoneIs ==
  ASSUME KatInv, kat_pc \in {"header", "seed", "records", "turns"}
  PROVE  Done \in 0 .. AnswerCount(Input, Current)
<1>1. AnswerCount(Input, Current) \in Nat
  BY CountIs
<1>2. CASE kat_pc = "records"
  <2>1. IsFiniteSet(Records(Input, Current)) /\ Cardinality(Records(Input, Current)) \in Nat
    BY InputIs, RecordsAre
  <2>2. Before(Records(Input, Current), at) \subseteq Records(Input, Current)
    BY DEF Before
  <2>3. /\ IsFiniteSet(Before(Records(Input, Current), at))
        /\ Cardinality(Before(Records(Input, Current), at)) <= Cardinality(Records(Input, Current))
    BY <2>1, <2>2, FS_Subset
  <2>4. Cardinality(Before(Records(Input, Current), at)) \in Nat
    BY <2>3, FS_CardinalityType
  <2>5. Current.gen # "MonteCarlo"
    BY <1>2 DEF KatInv, KatPlace
  <2>. QED BY <1>2, <2>1, <2>3, <2>4, <2>5 DEF Done, AnswerCount
<1>3. CASE kat_pc = "turns"
  <2>1. turn \in 0 .. Turns * Lines /\ Turns * Lines \in Nat /\ Lines \in Nat
    BY <1>3, ProductType, KatAssumption DEF KatInv, KatOngoing
  <2>2. turn \div Turns \in 0 .. Lines
    <3>1. CASE turn = Turns * Lines
      <4>1. (Turns * Lines + 0) \div Turns = Lines
        BY KatAssumption, DividedOf
      <4>. QED BY <2>1, <3>1, <4>1
    <3>2. CASE turn < Turns * Lines
      BY <2>1, <3>2, TurnsAndLines
    <3>. QED BY <2>1, <3>1, <3>2
  <2>3. Current.gen = "MonteCarlo"
    BY <1>3 DEF KatInv, KatPlace
  <2>. QED BY <1>3, <2>2, <2>3 DEF Done, AnswerCount
<1>4. CASE kat_pc \in {"header", "seed"}
  BY <1>1, <1>4 DEF Done
<1>. QED BY <1>2, <1>3, <1>4

(* KatInv holds at every step: it says what the file of the call being made holds,   *)
(* from where its input has been read or from the turns that have been taken.        *)
THEOREM GeneratorIsConsistent == KatSpec => []KatInv
<1>. QED BY InitIsKatInv, StepKeepsKatInv, PTL DEF KatSpec

(* Every file begins with its own answers (genKAT.c): no record is answered twice,   *)
(* left out or taken from another file, whatever the files hold and wherever they    *)
(* end; and the answer to an input that the duplex object refuses, which nothing     *)
(* keeps out of the files, is the output after the last input it took.               *)
THEOREM AnswersMatchAlways == KatSpec => []AnswersMatch
<1>1. KatInv => AnswersMatch
  <2>. SUFFICES ASSUME KatInv, NEW k \in 1 .. call, Name(Script[k]) \in DOMAIN written
                PROVE  IsPrefix(written[Name(Script[k])], Answers(Script[k]))
    BY DEF AnswersMatch
  <2>1. k \in 1 .. Len(Script) /\ call \in Nat
    BY ScriptIs DEF KatInv, KatPlace
  <2>2. CASE k < call
    BY <2>1, <2>2 DEF KatInv, KatPast, IsPast
  <2>3. CASE k = call /\ kat_pc \in {"open", "returned"}
    BY <2>1, <2>3 DEF KatInv, KatPast
  <2>4. CASE k = call /\ kat_pc \in {"header", "seed", "records", "turns"}
    <3>1. Done \in 0 .. AnswerCount(Input, Current)
      BY <2>4, DoneIs
    <3>. QED BY <2>4, <3>1, OngoingIsPrefix DEF Current
  <2>. QED BY <2>1, <2>2, <2>3, <2>4 DEF KatInv, KatPlace
<1>. QED BY <1>1, GeneratorIsConsistent, PTL

(* A generator whose result is looked at, and that reports success, has written all  *)
(* its answers, and no later call takes one away (genKAT.c).                         *)
THEOREM SuccessIsComplete == KatSpec => []SuccessMeansComplete
<1>1. KatInv => SuccessMeansComplete
  <2>. SUFFICES ASSUME KatInv, NEW k \in 1 .. Len(Script), Script[k].checked,
                       k < call \/ (kat_pc = "returned" /\ ret_val = 0)
                PROVE  /\ Name(Script[k]) \in DOMAIN written
                       /\ written[Name(Script[k])] = Answers(Script[k])
    BY DEF SuccessMeansComplete
  <2>1. k < call
    <3>1. k # Len(Script) /\ Len(Script) \in Nat
      BY ScriptIs
    <3>. QED BY <3>1 DEF KatInv, KatPlace
  <2>. QED BY <2>1 DEF KatInv, KatPast, IsPast
<1>. QED BY <1>1, GeneratorIsConsistent, PTL
==================================================================================
