----------------------------- MODULE KeccakCoreProofs -----------------------------
(* What the core guarantees for every block size, output size and number of rounds: *)
(* the round schedule, and that the buffer and the state register, which decide on  *)
(* the hand-over separately, agree about every block.                               *)
EXTENDS KeccakCore, TLAPS

BufP == INSTANCE KeccakBufferProofs

(* The inductive invariant: the buffer's own, the types, and the two properties.    *)
(* The words of the history are input lanes, so a full buffer holds an input block  *)
(* and no lane of an earlier output.                                                *)
CoreTypes ==
    /\ words \in Seq(InLane)
    /\ reg_data \in Seq(Permutation)
    /\ Len(reg_data) >= 1
    /\ counter_nr_rounds \in 0 .. Rounds - 1
    /\ permutation_computed \in Bit
    /\ blocks \in Seq(RateBlock)

(* A permutation is under way only after an absorption.                             *)
Started == Len(reg_data) = 1 => permutation_computed = 1

(* EveryBlockAbsorbedOnce block by block, and the block that waits is the last one. *)
AbsorbedInOrder ==
    /\ reg_data[1].absorb = NoBlock
    /\ Len(reg_data) = Len(blocks) + 1 - buffer_full
    /\ \A p \in 2 .. Len(reg_data) : reg_data[p].absorb = blocks[p - 1]
    /\ buffer_full = 1 => blocks[Len(blocks)] = buffer_data

CoreIInv ==
    BufP!IInv /\ CoreTypes /\ Started /\ RoundSchedule /\ AbsorbedInOrder

-----------------------------------------------------------------------------------
(* The buffer's constants satisfy its assumption.                                   *)
LEMMA BufAssumed == BufP!BufferAssumption
  BY CoreAssumption, SMT DEF BufP!BufferAssumption, Lane

(* The rounds up to n, followed by round n.                                         *)
LEMMA NextRoundAppended ==
    ASSUME NEW n \in Nat
    PROVE  Append([i \in 1 .. n |-> i - 1], n) = [i \in 1 .. n + 1 |-> i - 1]
  <1>. DEFINE s == [i \in 1 .. n |-> i - 1]
  <1>1. s \in Seq(Int) /\ Len(s) = n
    BY SMT
  <1>2. /\ Append(s, n) \in Seq(Int)
        /\ Len(Append(s, n)) = n + 1
        /\ \A i \in 1 .. n : Append(s, n)[i] = s[i]
        /\ Append(s, n)[n + 1] = n
    BY <1>1, SMT
  <1>. QED
    BY <1>1, <1>2, SMT

(* A register whose top lanes are ws is a block of input lanes when ws is as long   *)
(* as a block; stated of values, to be used before and after a step.                *)
LEMMA FullRegisterIsInput ==
    ASSUME NEW ws \in Seq(InLane), Len(ws) = RateLanes,
           NEW data \in [0 .. RateLanes - 1 -> Lane],
           \A k \in 1 .. Len(ws) : data[RateLanes - Len(ws) + k - 1] = ws[k]
    PROVE  data \in RateBlock
  <1>1. ASSUME NEW l \in 0 .. RateLanes - 1
        PROVE  data[l] \in InLane
    <2>1. l + 1 \in 1 .. Len(ws)
      BY CoreAssumption, SMT
    <2>2. data[RateLanes - Len(ws) + (l + 1) - 1] = ws[l + 1]
      BY <2>1
    <2>3. RateLanes - Len(ws) + (l + 1) - 1 = l
      BY CoreAssumption, SMT
    <2>. QED
      BY <2>1, <2>2, <2>3, SMT
  <1>. QED
    BY <1>1, SMT DEF RateBlock

(* The lanes of a state are lanes the buffer can hold.                              *)
LEMMA VectorIsDigest ==
    ASSUME reg_data \in Seq(Permutation)
    PROVE  reg_data_vector \in BufP!Digest
  <1>1. ASSUME NEW w \in 0 .. 2 * OutLanes - 1
        PROVE  StateWord(w, reg_data) \in [ByteLanes -> StateByte]
    BY <1>1, SMT DEF StateWord, StateByte
  <1>2. ASSUME NEW k \in 0 .. OutLanes - 1
        PROVE  StateLane(k, reg_data) \in Lane
    <2>1. 2 * k \in 0 .. 2 * OutLanes - 1 /\ 2 * k + 1 \in 0 .. 2 * OutLanes - 1
      BY CoreAssumption, SMT
    <2>. QED
      BY <1>1, <2>1 DEF StateLane, Lane
  <1>. QED
    BY <1>2, SMT DEF reg_data_vector, BufP!Digest, BufP!OutIndex

-----------------------------------------------------------------------------------
(* The reset state.                                                                 *)
LEMMA InitCoreIInv == Init => CoreIInv
  <1>. SUFFICES ASSUME Init PROVE CoreIInv
    OBVIOUS
  <1>1. BufP!Init
    BY DEF Init, Buf!Init, Buf!Reset, BufP!Init, BufP!Reset,
           Buf!Lanes, BufP!Lanes, Buf!OutIndex, BufP!OutIndex
  <1>2. BufP!IInv
    BY <1>1, BufAssumed, BufP!InitIInv
  <1>3. /\ words = <<>> /\ buffer_full = 0 /\ blocks = <<>>
        /\ reg_data = << [absorb |-> NoBlock, rounds |-> <<>>] >>
        /\ counter_nr_rounds = 0 /\ permutation_computed = 1
    BY DEF Init, Reset, ZeroState, Buf!Init, Buf!Reset
  <1>4. CoreTypes
    <2>1. [absorb |-> NoBlock, rounds |-> <<>>] \in Permutation
      BY SMT DEF Permutation
    <2>. QED
      BY <1>3, <2>1, CoreAssumption, SMT DEF CoreTypes, Bit
  <1>5. Started /\ RoundSchedule /\ AbsorbedInOrder
    BY <1>3, SMT DEF Started, RoundSchedule, AbsorbedInOrder
  <1>. QED
    BY <1>2, <1>4, <1>5 DEF CoreIInv

-----------------------------------------------------------------------------------
(* The buffer in the core is the buffer of KeccakBuffer: an edge of the core is one *)
(* of the steps its Spec allows.                                                    *)
LEMMA CoreStepsBuffer ==
    ASSUME CoreTypes, NEW start \in Bit, NEW din \in InLane, NEW din_valid \in Bit,
           NEW last_block \in Bit,
           Buf!LastBlockProtocol(din_valid, last_block),
           Clock(start, din, din_valid, last_block)
    PROVE  BufP!Next
  <1>1. /\ din \in Lane /\ ready \in BufP!Bit /\ reg_data_vector \in BufP!Digest
        /\ din_valid \in BufP!Bit /\ last_block \in BufP!Bit
    BY VectorIsDigest DEF Lane, ready, CoreTypes, Bit, BufP!Bit
  <1>2. BufP!LastBlockProtocol(din_valid, last_block)
    BY DEF Buf!LastBlockProtocol, Buf!BetweenBlocks,
           BufP!LastBlockProtocol, BufP!BetweenBlocks
  <1>3. BufP!Clock(din, din_valid, last_block, ready, reg_data_vector)
    BY DEF Clock, Buf!Clock, BufP!Clock, Buf!Lanes, BufP!Lanes, Buf!OutIndex, BufP!OutIndex,
           Buf!HandOver, BufP!HandOver, Buf!EnterOutputMode, BufP!EnterOutputMode,
           Buf!ShiftIn, BufP!ShiftIn, Buf!ShiftedIn, BufP!ShiftedIn,
           Buf!BlockComplete, BufP!BlockComplete, Buf!KeepInput, BufP!KeepInput,
           Buf!LoadOutput, BufP!LoadOutput, Buf!ShiftOut, BufP!ShiftOut,
           Buf!ShiftedOut, BufP!ShiftedOut, Buf!OutputComplete, BufP!OutputComplete,
           Buf!EndOutput, BufP!EndOutput
  <1>. QED
    BY <1>1, <1>2, <1>3 DEF BufP!Next

(* What an edge of the buffer means for the block in it: a block leaves exactly on  *)
(* the edge on which the state register absorbs, waits unchanged until then, and    *)
(* only a valid lane can complete a new one.                                        *)
LEMMA BlockMovement ==
    ASSUME BufP!IInv, CoreTypes, NEW start \in Bit, NEW din \in InLane,
           NEW din_valid \in Bit, NEW last_block \in Bit,
           Buf!LastBlockProtocol(din_valid, last_block),
           Clock(start, din, din_valid, last_block)
    PROVE  /\ BufP!IInv'
           /\ words' \in Seq(InLane)
           /\ Absorbing => buffer_full' = 0
           /\ buffer_full = 1 /\ ~ Absorbing => buffer_full' = 1 /\ buffer_data' = buffer_data
           /\ buffer_full = 0 /\ din_valid = 0 => buffer_full' = 0
           /\ buffer_full' = 1 => buffer_data' \in RateBlock
  <1>1. BufP!IInv'
    BY CoreStepsBuffer, BufAssumed, BufP!NextIInv
  <1>2. /\ words \in Seq(InLane) /\ permutation_computed \in {0, 1}
        /\ buffer_full \in {0, 1} /\ mode \in {0, 1}
    BY DEF CoreTypes, Bit, BufP!IInv, BufP!TypeOK, BufP!Bit
  <1>3. Append(words, din) \in Seq(InLane) /\ <<>> \in Seq(InLane)
    BY <1>2, SMT
  <1>4. words' = words \/ words' = <<>> \/ words' = Append(words, din)
    BY SMT DEF Clock, Buf!Clock, Buf!HandOver, Buf!ShiftIn, Buf!KeepInput,
               Buf!LoadOutput, Buf!ShiftOut, Buf!EndOutput
  <1>5. words' \in Seq(InLane)
    BY <1>2, <1>3, <1>4
  <1>6. buffer_full' = 1 => buffer_data' \in RateBlock
    <2>. SUFFICES ASSUME buffer_full' = 1
                  PROVE  buffer_data' \in RateBlock
      OBVIOUS
    <2>1. Len(words') = RateLanes
      BY <1>1, SMT DEF BufP!IInv, BufP!FullMeansBlock
    <2>2. buffer_data' \in [0 .. RateLanes - 1 -> Lane]
      BY <1>1 DEF BufP!IInv, BufP!TypeOK, BufP!Block, BufP!Lanes
    <2>3. \A k \in 1 .. Len(words') :
            buffer_data'[RateLanes - Len(words') + k - 1] = words'[k]
      BY <1>1 DEF BufP!IInv, BufP!BlockInOrder
    <2>. QED
      BY <1>5, <2>1, <2>2, <2>3, FullRegisterIsInput
  <1>7. buffer_full = 1 => mode = 0
    <2>1. mode = 1 => Len(words) = 0
      BY SMT DEF BufP!IInv, BufP!OutputPending
    <2>. QED
      BY <2>1, <1>2, CoreAssumption, SMT DEF BufP!IInv, BufP!FullMeansBlock
  <1>8. CASE Buf!HandOver(last_block, ready)
    <2>1. Absorbing /\ buffer_full' = 0 /\ buffer_full = 1
      BY <1>8, SMT DEF Buf!HandOver, Absorbing, ready
    <2>. QED
      BY <2>1, <1>1, <1>5, SMT
  <1>9. CASE Buf!ShiftIn(din, din_valid, last_block, ready)
    <2>1. buffer_full = 0 /\ din_valid = 1
      BY <1>9, SMT DEF Buf!ShiftIn
    <2>. QED
      BY <2>1, <1>6, <1>1, <1>5, SMT DEF Absorbing
  <1>10. CASE Buf!KeepInput(din_valid, last_block, ready)
    <2>1. /\ ~ Absorbing
          /\ buffer_full' = buffer_full /\ buffer_data' = buffer_data
      BY <1>10, SMT DEF Buf!KeepInput, Absorbing, ready
    <2>. QED
      BY <2>1, <1>6, <1>1, <1>5, SMT
  <1>11. CASE mode = 1
    <2>1. buffer_full = 0 /\ buffer_full' = 0
      BY <1>11, <1>7, <1>2, SMT
      DEF Clock, Buf!Clock, Buf!HandOver, Buf!ShiftIn, Buf!KeepInput,
          Buf!LoadOutput, Buf!ShiftOut, Buf!EndOutput
    <2>. QED
      BY <2>1, <1>1, <1>5, SMT DEF Absorbing
  <1>. QED
    BY <1>8, <1>9, <1>10, <1>11
    DEF Clock, Buf!Clock, Buf!LoadOutput, Buf!ShiftOut, Buf!EndOutput

-----------------------------------------------------------------------------------
(* The types and the schedule of the state register alone.                          *)
StateTypes ==
    /\ reg_data \in Seq(Permutation)
    /\ Len(reg_data) >= 1
    /\ counter_nr_rounds \in 0 .. Rounds - 1
    /\ permutation_computed \in Bit

Schedule == StateTypes /\ Started /\ RoundSchedule

(* What an edge leaves of the absorbed blocks: none after start, one more after an  *)
(* absorption, and otherwise the same.                                              *)
AbsorbedKept ==
    /\ Len(reg_data') = Len(reg_data)
    /\ \A p \in 1 .. Len(reg_data) : reg_data'[p].absorb = reg_data[p].absorb

AbsorbedOneMore ==
    /\ Len(reg_data') = Len(reg_data) + 1
    /\ \A p \in 1 .. Len(reg_data) : reg_data'[p].absorb = reg_data[p].absorb
    /\ reg_data'[Len(reg_data) + 1].absorb = buffer_data

(* start clears the state at any time.                                              *)
LEMMA StartStep ==
    ASSUME NEW start \in Bit, StartHash(start)
    PROVE  Schedule' /\ Len(reg_data') = 1 /\ reg_data'[1].absorb = NoBlock
  <1>1. /\ reg_data' = << [absorb |-> NoBlock, rounds |-> <<>>] >>
        /\ counter_nr_rounds' = 0 /\ permutation_computed' = 1
    BY DEF StartHash, ZeroState
  <1>2. [absorb |-> NoBlock, rounds |-> <<>>] \in Permutation
    BY SMT DEF Permutation
  <1>3. /\ reg_data' \in Seq(Permutation) /\ Len(reg_data') = 1
        /\ reg_data'[1].rounds = <<>> /\ reg_data'[1].absorb = NoBlock
    BY <1>1, <1>2, SMT
  <1>4. StateTypes'
    BY <1>1, <1>3, CoreAssumption, SMT DEF StateTypes, Bit
  <1>. QED
    BY <1>1, <1>3, <1>4, SMT DEF Schedule, Started, RoundSchedule

(* The absorbing round opens a new permutation with round 0; the one before it is   *)
(* finished, because ready is high.                                                 *)
LEMMA FirstRoundStep ==
    ASSUME NEW start \in Bit, Schedule, FirstRound(start),
           buffer_data \in RateBlock
    PROVE  Schedule' /\ AbsorbedOneMore
  <1>. DEFINE entry == [absorb |-> buffer_data, rounds |-> <<0>>]
              n == Len(reg_data)
  <1>1. permutation_computed = 1 /\ counter_nr_rounds = 0
    BY SMT DEF FirstRound, Absorbing, Schedule, RoundSchedule
  <1>2. reg_data' = Append(reg_data, entry)
    BY <1>1 DEF FirstRound, round_out, Buf!din_buffer_out
  <1>3. entry \in Permutation
    BY CoreAssumption, SMT DEF Permutation
  <1>4. /\ reg_data \in Seq(Permutation) /\ n \in Nat /\ n >= 1
        /\ reg_data' \in Seq(Permutation) /\ Len(reg_data') = n + 1
        /\ \A p \in 1 .. n : reg_data'[p] = reg_data[p]
        /\ reg_data'[n + 1] = entry
    BY <1>2, <1>3, SMT DEF Schedule, StateTypes
  <1>5. counter_nr_rounds' = 1 /\ permutation_computed' = 0
    BY DEF FirstRound, SecondRound
  <1>6. StateTypes' /\ Started'
    BY <1>4, <1>5, CoreAssumption, SMT DEF StateTypes, Started, Bit
  <1>7. RoundSchedule'
    <2>1. <<0>> = [i \in 1 .. 1 |-> i - 1]
      BY SMT
    <2>2. reg_data'[1].rounds = <<>>
      BY <1>4, SMT DEF Schedule, RoundSchedule
    <2>3. ASSUME NEW p \in 2 .. Len(reg_data') - 1
          PROVE  reg_data'[p].rounds = AllRounds
      BY <1>1, <1>4, SMT DEF Schedule, RoundSchedule
    <2>4. reg_data'[Len(reg_data')].rounds = [i \in 1 .. counter_nr_rounds' |-> i - 1]
      BY <2>1, <1>4, <1>5
    <2>. QED
      BY <2>2, <2>3, <2>4, <1>5, SMT DEF RoundSchedule, AllRounds
  <1>8. AbsorbedOneMore
    BY <1>4, SMT DEF AbsorbedOneMore
  <1>. QED
    BY <1>6, <1>7, <1>8 DEF Schedule

(* Changing the rounds of a record leaves what it absorbed.                         *)
LEMMA RoundsReplaced ==
    ASSUME NEW A, NEW R, NEW e \in [absorb : A, rounds : R], NEW x
    PROVE  [e EXCEPT !.rounds = x] = [absorb |-> e.absorb, rounds |-> x]
  OBVIOUS

(* A later round adds its own number to the permutation under way, and the last one *)
(* finishes it; without one under way the state stays.                              *)
LEMMA LaterRoundStep ==
    ASSUME NEW start \in Bit, Schedule, LaterRound(start)
    PROVE  Schedule' /\ AbsorbedKept
  <1>. DEFINE n == Len(reg_data)
              c == counter_nr_rounds
  <1>1. /\ reg_data \in Seq(Permutation) /\ n \in Nat /\ n >= 1
        /\ c \in 0 .. Rounds - 1 /\ permutation_computed \in {0, 1}
        /\ (permutation_computed = 1 <=> c = 0)
    BY SMT DEF Schedule, StateTypes, RoundSchedule, Bit
  <1>2. CASE permutation_computed = 1
    <2>1. /\ reg_data' = reg_data /\ counter_nr_rounds' = c
          /\ permutation_computed' = permutation_computed
      BY <1>1, <1>2, CoreAssumption, SMT DEF LaterRound, LastRound
    <2>. QED
      BY <2>1, SMT
      DEF Schedule, StateTypes, Started, RoundSchedule, AbsorbedKept, AllRounds
  <1>3. CASE permutation_computed = 0
    <2>1. n > 1 /\ reg_data[n].rounds = [i \in 1 .. c |-> i - 1]
      <3>1. n > 1
        BY <1>1, <1>3, SMT DEF Schedule, Started
      <3>2. reg_data[n].rounds = IF permutation_computed = 1 THEN AllRounds
                                 ELSE [i \in 1 .. c |-> i - 1]
        BY <3>1 DEF Schedule, RoundSchedule
      <3>3. permutation_computed # 1
        BY <1>3, SMT
      <3>. QED
        BY <3>1, <3>2, <3>3
    <2>2. /\ reg_data[n] \in Permutation
          /\ reg_data[n].rounds \in Seq(0 .. Rounds - 1)
          /\ reg_data[n].absorb \in RateBlock \cup {NoBlock}
      <3>1. reg_data[n] \in Permutation
        BY <1>1, SMT
      <3>. QED
        BY <3>1 DEF Permutation
    <2>. DEFINE longer == Append(reg_data[n].rounds, c)
                entry == [absorb |-> reg_data[n].absorb, rounds |-> longer]
    <2>3. longer \in Seq(0 .. Rounds - 1) /\ longer = [i \in 1 .. c + 1 |-> i - 1]
      BY <2>1, <2>2, <1>1, NextRoundAppended, SMT
    <2>4. /\ entry \in Permutation /\ entry.rounds = longer
          /\ entry.absorb = reg_data[n].absorb
      BY <2>2, <2>3, SMT DEF Permutation
    <2>5. reg_data' = [reg_data EXCEPT ![n] = entry]
      <3>1. reg_data' = [reg_data EXCEPT ![n].rounds = Append(@, c)]
        BY <1>1, <1>3, CoreAssumption, SMT DEF LaterRound, round_out, Absorbing
      <3>2. [reg_data[n] EXCEPT !.rounds = longer] = entry
        <4>. HIDE DEF longer
        <4>. QED
          BY <2>2, RoundsReplaced DEF Permutation
      <3>. QED
        BY <3>1, <3>2
    <2>6. /\ reg_data' \in Seq(Permutation) /\ Len(reg_data') = n
          /\ \A p \in 1 .. n - 1 : reg_data'[p] = reg_data[p]
          /\ reg_data'[n] = entry
      <3>. HIDE DEF n, entry
      <3>1. n \in 1 .. Len(reg_data) /\ Len(reg_data) = n
        BY <1>1, SMT DEF n
      <3>. QED
        BY <1>1, <2>4, <2>5, <3>1, SMT
    <2>7. IF c = Rounds - 1
          THEN permutation_computed' = 1 /\ counter_nr_rounds' = 0
          ELSE permutation_computed' = 0 /\ counter_nr_rounds' = c + 1
      BY <1>1, <1>3, CoreAssumption, SMT DEF LaterRound, LastRound
    <2>8. StateTypes' /\ Started'
      <3>1. counter_nr_rounds' \in 0 .. Rounds - 1 /\ permutation_computed' \in {0, 1}
        BY <2>7, <1>1, CoreAssumption, SMT
      <3>2. Len(reg_data') > 1
        BY <2>1, <2>6, SMT
      <3>. QED
        BY <2>6, <3>1, <3>2, SMT DEF StateTypes, Started, Bit
    <2>9. RoundSchedule'
      <3>1. reg_data'[1].rounds = <<>>
        BY <1>1, <2>1, <2>6, SMT DEF Schedule, RoundSchedule
      <3>2. ASSUME NEW p \in 2 .. Len(reg_data') - 1
            PROVE  reg_data'[p].rounds = AllRounds
        BY <1>1, <2>6, SMT DEF Schedule, RoundSchedule
      <3>3. reg_data'[n].rounds = IF permutation_computed' = 1 THEN AllRounds
                                  ELSE [i \in 1 .. counter_nr_rounds' |-> i - 1]
        <4>1. reg_data'[n].rounds = [i \in 1 .. c + 1 |-> i - 1]
          BY <2>3, <2>4, <2>6
        <4>2. CASE c = Rounds - 1
          <5>1. c + 1 = Rounds /\ permutation_computed' = 1
            BY <4>2, <2>7, CoreAssumption, SMT
          <5>. QED
            BY <4>1, <5>1 DEF AllRounds
        <4>3. CASE c # Rounds - 1
          <5>1. counter_nr_rounds' = c + 1 /\ permutation_computed' # 1
            BY <4>3, <2>7, SMT
          <5>. QED
            BY <4>1, <5>1
        <4>. QED
          BY <4>2, <4>3
      <3>4. permutation_computed' = 1 <=> counter_nr_rounds' = 0
        BY <1>1, <2>7, SMT
      <3>. QED
        BY <3>1, <3>2, <3>3, <3>4, <2>6 DEF RoundSchedule, AllRounds
    <2>10. AbsorbedKept
      <3>1. ASSUME NEW p \in 1 .. n
            PROVE  reg_data'[p].absorb = reg_data[p].absorb
        <4>1. CASE p = n
          BY <4>1, <2>4, <2>6
        <4>2. CASE p # n
          BY <4>2, <2>6, <1>1, SMT
        <4>. QED
          BY <4>1, <4>2
      <3>. QED
        BY <3>1, <2>6 DEF AbsorbedKept
    <2>. QED
      BY <2>8, <2>9, <2>10 DEF Schedule
  <1>. QED
    BY <1>1, <1>2, <1>3

-----------------------------------------------------------------------------------
(* One edge of the core preserves the inductive invariant.                          *)
LEMMA ClockCoreIInv ==
    ASSUME CoreIInv, NEW start \in Bit, NEW din \in InLane, NEW din_valid \in Bit,
           NEW last_block \in Bit,
           Buf!LastBlockProtocol(din_valid, last_block),
           StartProtocol(start, din_valid),
           Clock(start, din, din_valid, last_block)
    PROVE  CoreIInv'
  <1>. USE DEF Bit
  <1>1. /\ BufP!IInv /\ CoreTypes /\ Schedule /\ AbsorbedInOrder
        /\ StateClock(start)
        /\ buffer_full \in {0, 1}
        /\ blocks \in Seq(RateBlock) /\ Len(blocks) \in Nat
        /\ reg_data \in Seq(Permutation) /\ Len(reg_data) \in Nat
        /\ blocks' = IF start = 1 THEN <<>>
                     ELSE IF buffer_full = 0 /\ buffer_full' = 1
                     THEN Append(blocks, buffer_data') ELSE blocks
    BY SMT DEF CoreIInv, CoreTypes, Schedule, StateTypes, Clock, BufP!IInv, BufP!TypeOK,
               BufP!Bit
  <1>2. /\ BufP!IInv'
        /\ words' \in Seq(InLane)
        /\ Absorbing => buffer_full' = 0
        /\ buffer_full = 1 /\ ~ Absorbing => buffer_full' = 1 /\ buffer_data' = buffer_data
        /\ buffer_full = 0 /\ din_valid = 0 => buffer_full' = 0
        /\ buffer_full' = 1 => buffer_data' \in RateBlock
        /\ buffer_full' \in {0, 1}
    BY <1>1, BlockMovement DEF BufP!IInv, BufP!TypeOK, BufP!Bit
  <1>3. SUFFICES Schedule' /\ AbsorbedInOrder' /\ blocks' \in Seq(RateBlock)
    BY <1>2 DEF CoreIInv, CoreTypes, Schedule, StateTypes
  <1>4. CASE StartHash(start)
    <2>1. start = 1 /\ buffer_full = 0 /\ din_valid = 0
      BY <1>4, SMT DEF StartHash, StartProtocol, Buf!BetweenBlocks
    <2>2. buffer_full' = 0 /\ blocks' = <<>>
      BY <1>1, <1>2, <2>1, SMT
    <2>3. Schedule' /\ Len(reg_data') = 1 /\ reg_data'[1].absorb = NoBlock
      BY <1>4, StartStep
    <2>. QED
      BY <2>2, <2>3, SMT DEF AbsorbedInOrder
  <1>5. CASE FirstRound(start)
    <2>1. /\ start = 0 /\ Absorbing /\ buffer_full = 1 /\ buffer_full' = 0
      BY <1>2, <1>5 DEF FirstRound, Absorbing
    <2>2. blocks' = blocks
      BY <1>1, <2>1, SMT
    <2>3. buffer_data \in RateBlock
      <3>1. Len(words) = RateLanes /\ words \in Seq(InLane)
        BY <1>1, <2>1 DEF BufP!IInv, BufP!FullMeansBlock, CoreTypes
      <3>2. buffer_data \in [0 .. RateLanes - 1 -> Lane]
        BY <1>1 DEF BufP!IInv, BufP!TypeOK, BufP!Block, BufP!Lanes
      <3>3. \A k \in 1 .. Len(words) :
              buffer_data[RateLanes - Len(words) + k - 1] = words[k]
        BY <1>1 DEF BufP!IInv, BufP!BlockInOrder
      <3>. QED
        BY <3>1, <3>2, <3>3, FullRegisterIsInput
    <2>4. Schedule' /\ AbsorbedOneMore
      BY <1>1, <1>5, <2>3, FirstRoundStep
    <2>5. Len(reg_data) = Len(blocks) /\ blocks[Len(blocks)] = buffer_data
      BY <1>1, <2>1, SMT DEF AbsorbedInOrder
    <2>6. Len(reg_data') = Len(blocks') + 1 - buffer_full'
      BY <2>1, <2>2, <2>4, <2>5, SMT DEF AbsorbedOneMore
    <2>7. ASSUME NEW p \in 2 .. Len(reg_data')
          PROVE  reg_data'[p].absorb = blocks'[p - 1]
      <3>1. CASE p = Len(reg_data) + 1
        <4>1. reg_data'[p].absorb = buffer_data
          BY <3>1, <2>4 DEF AbsorbedOneMore
        <4>2. p - 1 = Len(blocks)
          BY <3>1, <2>5, <1>1, SMT
        <4>. QED
          BY <4>1, <4>2, <2>2, <2>5
      <3>2. CASE p # Len(reg_data) + 1
        <4>1. p \in 2 .. Len(reg_data)
          BY <3>2, <2>4, <1>1, SMT DEF AbsorbedOneMore
        <4>2. reg_data'[p].absorb = reg_data[p].absorb
          BY <4>1, <2>4, SMT DEF AbsorbedOneMore
        <4>3. reg_data[p].absorb = blocks[p - 1]
          BY <1>1, <4>1 DEF AbsorbedInOrder
        <4>. QED
          BY <4>2, <4>3, <2>2
      <3>. QED
        BY <3>1, <3>2
    <2>8. reg_data'[1].absorb = NoBlock
      BY <1>1, <2>4, SMT DEF AbsorbedInOrder, AbsorbedOneMore, Schedule, StateTypes
    <2>. QED
      BY <1>1, <2>1, <2>2, <2>4, <2>6, <2>7, <2>8, SMT DEF AbsorbedInOrder
  <1>6. CASE LaterRound(start)
    <2>1. start = 0 /\ ~ Absorbing
      BY <1>6 DEF LaterRound
    <2>2. Schedule' /\ AbsorbedKept
      BY <1>1, <1>6, LaterRoundStep
    <2>3. ASSUME NEW p \in 2 .. Len(reg_data')
          PROVE  p \in 2 .. Len(reg_data) /\ reg_data'[p].absorb = blocks[p - 1]
      <3>1. p \in 2 .. Len(reg_data) /\ p \in 1 .. Len(reg_data)
        BY <2>2, <1>1, SMT DEF AbsorbedKept
      <3>. QED
        BY <3>1, <2>2, <1>1 DEF AbsorbedKept, AbsorbedInOrder
    <2>4. reg_data'[1].absorb = NoBlock
      BY <1>1, <2>2, SMT DEF AbsorbedInOrder, AbsorbedKept, Schedule, StateTypes
    <2>5. CASE buffer_full = 0 /\ buffer_full' = 1
      <3>1. blocks' = Append(blocks, buffer_data') /\ buffer_data' \in RateBlock
        BY <1>1, <1>2, <2>1, <2>5, SMT
      <3>2. /\ blocks' \in Seq(RateBlock) /\ Len(blocks') = Len(blocks) + 1
            /\ \A j \in 1 .. Len(blocks) : blocks'[j] = blocks[j]
            /\ blocks'[Len(blocks')] = buffer_data'
        BY <1>1, <3>1, SMT
      <3>3. Len(reg_data) = Len(blocks) + 1
        BY <1>1, <2>5, SMT DEF AbsorbedInOrder
      <3>4. Len(reg_data') = Len(blocks') + 1 - buffer_full'
        BY <1>1, <2>2, <2>5, <3>2, <3>3, SMT DEF AbsorbedKept
      <3>5. ASSUME NEW p \in 2 .. Len(reg_data')
            PROVE  reg_data'[p].absorb = blocks'[p - 1]
        <4>1. p - 1 \in 1 .. Len(blocks)
          BY <2>3, <3>3, <1>1, SMT
        <4>. QED
          BY <4>1, <2>3, <3>2
      <3>. QED
        BY <2>2, <2>4, <3>2, <3>4, <3>5 DEF AbsorbedInOrder
    <2>6. CASE ~ (buffer_full = 0 /\ buffer_full' = 1)
      <3>1. blocks' = blocks /\ buffer_full' = buffer_full
        BY <1>1, <1>2, <2>1, <2>6, SMT
      <3>2. buffer_full' = 1 => blocks'[Len(blocks')] = buffer_data'
        BY <1>1, <1>2, <2>1, <3>1 DEF AbsorbedInOrder
      <3>3. Len(reg_data') = Len(blocks') + 1 - buffer_full'
        BY <1>1, <2>2, <3>1 DEF AbsorbedKept, AbsorbedInOrder
      <3>. QED
        BY <1>1, <2>2, <2>3, <2>4, <3>1, <3>2, <3>3 DEF AbsorbedInOrder
    <2>. QED
      BY <2>5, <2>6
  <1>. QED
    BY <1>1, <1>4, <1>5, <1>6 DEF StateClock

(* Every step of the core preserves the inductive invariant.                        *)
LEMMA NextCoreIInv == CoreIInv /\ [Next]_coreVars => CoreIInv'
  <1>. SUFFICES ASSUME CoreIInv, [Next]_coreVars
                PROVE  CoreIInv'
    OBVIOUS
  <1>1. CASE Next
    <2>1. PICK start \in Bit, din_valid \in Bit, last_block \in Bit, din \in InLane :
                 /\ Buf!LastBlockProtocol(din_valid, last_block)
                 /\ StartProtocol(start, din_valid)
                 /\ Clock(start, din, din_valid, last_block)
      BY <1>1 DEF Next
    <2>. QED
      BY <2>1, ClockCoreIInv
  <1>2. CASE UNCHANGED coreVars
    <2>1. /\ UNCHANGED <<mode, buffer_full, count_in_words, count_out_words, buffer_data,
                         dout_valid, words, captured>>
          /\ UNCHANGED <<reg_data, counter_nr_rounds, permutation_computed, blocks>>
      BY <1>2 DEF coreVars, stateVars, Buf!bufVars, Buf!registers
    <2>2. BufP!IInv'
      BY <2>1
      DEF CoreIInv, BufP!IInv, BufP!TypeOK, BufP!FullMeansBlock, BufP!BlockInOrder,
          BufP!OutputPending
    <2>. QED
      BY <2>1, <2>2
      DEF CoreIInv, CoreTypes, Started, RoundSchedule, AbsorbedInOrder, AllRounds
  <1>. QED
    BY <1>1, <1>2

(* The inductive invariant holds in every reachable state.                          *)
LEMMA SpecCoreIInv == Spec => []CoreIInv
  BY InitCoreIInv, NextCoreIInv, PTL DEF Spec

(* Every register of the core and of its buffer stays in its range, and a block     *)
(* that was absorbed consists of input lanes only.                                  *)
THEOREM CoreTypeCorrect == Spec => []TypeOK
  <1>1. CoreIInv => TypeOK
    BY SMT
    DEF CoreIInv, CoreTypes, TypeOK, Bit, BufP!IInv, BufP!TypeOK, BufP!Bit, BufP!Block,
        BufP!Lanes
  <1>. QED
    BY <1>1, SpecCoreIInv, PTL

(* For every number of rounds, every permutation runs its rounds from 0 in order,   *)
(* each once, and ready is high exactly when the last one is finished.              *)
THEOREM RoundsInOrder == Spec => []RoundSchedule
  <1>1. CoreIInv => RoundSchedule
    BY DEF CoreIInv
  <1>. QED
    BY <1>1, SpecCoreIInv, PTL

(* For messages of any number of blocks, the state absorbs exactly the blocks that  *)
(* were completed in the buffer, in order and each once.                            *)
THEOREM BlocksAbsorbedOnce == Spec => []EveryBlockAbsorbedOnce
  <1>1. CoreIInv => EveryBlockAbsorbedOnce
    BY DEF CoreIInv, AbsorbedInOrder, EveryBlockAbsorbedOnce
  <1>. QED
    BY <1>1, SpecCoreIInv, PTL
-----------------------------------------------------------------------------------
(* Output mode is entered while ready is high and no block waits, so the state that *)
(* is loaded on the next edge is finished; it stays the one that is shown.          *)
FinishedState(s) == s # ZeroState => s[Len(s)].rounds = AllRounds
Shows(s) == captured = [k \in 0 .. OutLanes - 1 |-> StateLane(k, s)]
OutputLoaded ==
    /\ mode = 1 /\ count_out_words = 0 => permutation_computed = 1
    /\ dout_valid = 1 => \E s \in Seq(Permutation) : FinishedState(s) /\ Shows(s)

LEMMA OneOrMore ==
    ASSUME NEW n \in Nat, n >= 1
    PROVE  n = 1 \/ n > 1
  BY SMT

(* A register that no permutation runs on is finished.                              *)
LEMMA ReadyMeansFinished ==
    ASSUME CoreIInv, permutation_computed = 1
    PROVE  FinishedState(reg_data)
  <1>1. CASE Len(reg_data) = 1
    <2>1. /\ reg_data \in Seq(Permutation) /\ reg_data[1] \in Permutation
          /\ reg_data[1].absorb = NoBlock /\ reg_data[1].rounds = <<>>
      BY <1>1, SMT DEF CoreIInv, CoreTypes, AbsorbedInOrder, RoundSchedule
    <2>2. reg_data[1] = [absorb |-> NoBlock, rounds |-> <<>>]
      BY <2>1 DEF Permutation
    <2>3. reg_data = ZeroState
      BY <1>1, <2>1, <2>2, SMT DEF ZeroState
    <2>. QED
      BY <2>3 DEF FinishedState
  <1>2. CASE Len(reg_data) > 1
    <2>1. reg_data[Len(reg_data)].rounds = AllRounds
      BY <1>2 DEF CoreIInv, RoundSchedule
    <2>. QED
      BY <2>1 DEF FinishedState
  <1>3. Len(reg_data) = 1 \/ Len(reg_data) > 1
    <2>1. Len(reg_data) \in Nat
      BY SMT DEF CoreIInv, CoreTypes
    <2>2. Len(reg_data) >= 1
      BY DEF CoreIInv, CoreTypes
    <2>. QED
      BY <2>1, <2>2, OneOrMore, Zenon
  <1>. QED
    BY <1>1, <1>2, <1>3

(* An edge on which no block is absorbed leaves ready high.                         *)
LEMMA ReadyStays ==
    ASSUME CoreIInv, NEW start \in Bit, StateClock(start),
           permutation_computed = 1, buffer_full = 0
    PROVE  permutation_computed' = 1
  <1>1. counter_nr_rounds = 0
    BY DEF CoreIInv, RoundSchedule
  <1>. QED
    BY <1>1, CoreAssumption, SMT
    DEF StateClock, StartHash, FirstRound, LaterRound, Absorbing, LastRound

LEMMA ClockOutputLoaded ==
    ASSUME CoreIInv, OutputLoaded, NEW start \in Bit, NEW din \in InLane,
           NEW din_valid \in Bit, NEW last_block \in Bit,
           Buf!LastBlockProtocol(din_valid, last_block),
           Clock(start, din, din_valid, last_block)
    PROVE  OutputLoaded'
  <1>1. /\ BufP!IInv /\ reg_data \in Seq(Permutation) /\ StateClock(start)
        /\ (mode = 0 => dout_valid = 0 /\ count_out_words = 0)
        /\ mode \in {0, 1} /\ permutation_computed \in {0, 1}
    BY DEF CoreIInv, CoreTypes, Clock, BufP!IInv, BufP!TypeOK, BufP!OutputPending, Bit,
           BufP!Bit
  <1>. DEFINE Shown == \E s \in Seq(Permutation) : FinishedState(s) /\ Shows(s)
  <1>2. captured' = captured /\ dout_valid = 1 => (Shown /\ Shown')
    BY DEF OutputLoaded, Shows, FinishedState, AllRounds
  <1>3. CASE Buf!HandOver(last_block, ready)
    <2>1. mode' = 0 /\ dout_valid' = 0
      BY <1>1, <1>3, SMT DEF Buf!HandOver, Buf!EnterOutputMode, Buf!LastBlockProtocol,
                             Buf!BetweenBlocks
    <2>. QED
      BY <2>1, SMT DEF OutputLoaded
  <1>4. CASE Buf!ShiftIn(din, din_valid, last_block, ready)
    <2>1. mode' = 0 /\ dout_valid' = 0
      BY <1>1, <1>4, SMT DEF Buf!ShiftIn, Buf!EnterOutputMode, Buf!LastBlockProtocol
    <2>. QED
      BY <2>1, SMT DEF OutputLoaded
  <1>5. CASE Buf!KeepInput(din_valid, last_block, ready)
    <2>1. dout_valid' = 0
      BY <1>1, <1>5, SMT DEF Buf!KeepInput
    <2>2. mode' = 1 => permutation_computed = 1 /\ buffer_full = 0
      BY <1>5, SMT DEF Buf!KeepInput, Buf!EnterOutputMode, Buf!LastBlockProtocol,
                       Buf!BetweenBlocks, ready
    <2>3. mode' = 1 => permutation_computed' = 1
      BY <1>1, <2>2, ReadyStays
    <2>. QED
      BY <2>1, <2>3, SMT DEF OutputLoaded
  <1>6. CASE Buf!LoadOutput(reg_data_vector)
    <2>1. /\ mode = 1 /\ count_out_words = 0 /\ count_out_words' = 1
          /\ captured' = reg_data_vector
      BY <1>6 DEF Buf!LoadOutput
    <2>2. FinishedState(reg_data)
      BY <2>1, ReadyMeansFinished DEF OutputLoaded
    <2>3. captured' = [k \in 0 .. OutLanes - 1 |-> StateLane(k, reg_data)]
      BY <2>1 DEF reg_data_vector
    <2>4. Shown'
      BY <1>1, <2>2, <2>3 DEF Shows, FinishedState, AllRounds
    <2>. QED
      BY <2>1, <2>4, SMT DEF OutputLoaded
  <1>7. CASE Buf!ShiftOut
    <2>1. /\ captured' = captured /\ count_out_words' # 0 /\ dout_valid = 1
      <3>1. count_out_words \in Nat /\ count_out_words # 0
        BY <1>1, <1>7, CoreAssumption, SMT DEF BufP!IInv, BufP!TypeOK, Buf!ShiftOut
      <3>. QED
        BY <1>1, <1>7, <3>1, SMT DEF Buf!ShiftOut, BufP!IInv, BufP!OutputPending
    <2>. QED
      BY <1>2, <2>1 DEF OutputLoaded
  <1>8. CASE Buf!EndOutput
    BY <1>8, SMT DEF Buf!EndOutput, OutputLoaded
  <1>. QED
    BY <1>3, <1>4, <1>5, <1>6, <1>7, <1>8 DEF Clock, Buf!Clock

LEMMA SpecOutputLoaded == Spec => []OutputLoaded
  <1>1. Init => OutputLoaded
    BY SMT DEF Init, Reset, Buf!Init, Buf!Reset, OutputLoaded
  <1>2. CoreIInv /\ OutputLoaded /\ [Next]_coreVars => OutputLoaded'
    <2>. SUFFICES ASSUME CoreIInv, OutputLoaded, [Next]_coreVars
                  PROVE  OutputLoaded'
      OBVIOUS
    <2>1. CASE Next
      BY <2>1, ClockOutputLoaded DEF Next
    <2>2. CASE UNCHANGED coreVars
      BY <2>2 DEF coreVars, stateVars, Buf!bufVars, Buf!registers, OutputLoaded,
                  FinishedState, Shows, AllRounds
    <2>. QED
      BY <2>1, <2>2
  <1>. QED
    BY <1>1, <1>2, SpecCoreIInv, PTL DEF Spec

(* What the core shows is a finished permutation, or the zero state, whenever       *)
(* output is asked for between two blocks: the states of rounds under way are never *)
(* seen, although the buffer loads the register without waiting.                    *)
THEOREM OutputsAreFinished == Spec => []OutputOfFinishedState
  <1>1. OutputLoaded => OutputOfFinishedState
    <2>. SUFFICES ASSUME OutputLoaded, dout_valid = 1, NEW k \in 0 .. OutLanes - 1
                  PROVE  \E s \in {captured[k][1][b].of : b \in ByteLanes} :
                           /\ captured[k] = StateLane(k, s)
                           /\ s # ZeroState => s[Len(s)].rounds = AllRounds
      BY DEF OutputOfFinishedState
    <2>1. PICK s \in Seq(Permutation) : FinishedState(s) /\ Shows(s)
      BY DEF OutputLoaded
    <2>2. PICK b \in ByteLanes : TRUE
      BY CoreAssumption
    <2>3. captured[k] = StateLane(k, s)
      BY <2>1 DEF Shows
    <2>4. captured[k][1] = StateWord(2 * k, s)
      BY <2>3 DEF StateLane
    <2>5. captured[k][1][b].of = s
      BY <2>2, <2>4 DEF StateWord
    <2>. QED
      BY <2>1, <2>2, <2>3, <2>5 DEF FinishedState
  <1>. QED
    BY <1>1, SpecOutputLoaded, PTL
===================================================================================
