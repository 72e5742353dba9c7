---------------------------- MODULE KeccakBufferProofs ----------------------------
(* What the buffer guarantees for every number of lanes and every set of lane       *)
(* values: the invariants of KeccakBuffer hold in every behaviour of its Spec.      *)
EXTENDS KeccakBuffer, TLAPS

(* Output is shown in output mode only; once it was loaded, the lanes that are      *)
(* still to be shown lie at the bottom of the register in order.                    *)
OutputPending ==
    /\ mode = 0 => dout_valid = 0 /\ count_out_words = 0
    /\ mode = 1 => words = <<>>
    /\ count_out_words = 0 => dout_valid = 0
    /\ count_out_words # 0 =>
         /\ dout_valid = 1
         /\ \A k \in 0 .. OutLanes - count_out_words :
              buffer_data[k] = captured[k + count_out_words - 1]

(* The inductive invariant.  FullMeansBlock makes "between blocks" mean that no     *)
(* accepted lane is in the register, which is what lets LoadOutput overwrite it.    *)
IInv == TypeOK /\ FullMeansBlock /\ BlockInOrder /\ OutputPending

USE DEF Bit, Lanes, OutIndex, Block, Digest

(* The initial state satisfies the inductive invariant: the reset values agree with *)
(* an empty history.                                                                *)
LEMMA InitIInv == Init => IInv
  BY BufferAssumption, SMT
  DEF Init, Reset, IInv, TypeOK, FullMeansBlock, BlockInOrder, OutputPending

-----------------------------------------------------------------------------------
(* Entering output mode leaves no accepted lane behind: whatever an edge in input   *)
(* mode does, mode' is 1 only when the buffer is between blocks and takes nothing.  *)
LEMMA EnterBetweenBlocks ==
    ASSUME IInv, NEW last_block \in Bit, NEW ready \in Bit, NEW din_valid \in Bit,
           LastBlockProtocol(din_valid, last_block),
           EnterOutputMode(last_block, ready)
    PROVE  /\ mode' \in Bit
           /\ mode' = 1 => words = <<>> /\ buffer_full = 0 /\ din_valid = 0
  <1>1. Len(words) = 0 => words = <<>>
    BY SMT DEF IInv, TypeOK
  <1>. QED
    BY <1>1, SMT
    DEF IInv, TypeOK, FullMeansBlock, LastBlockProtocol, BetweenBlocks, EnterOutputMode

(* Handing the block over empties the history and nothing else changes.             *)
LEMMA HandOverStep ==
    ASSUME IInv, NEW last_block \in Bit, NEW ready \in Bit, NEW din_valid \in Bit,
           LastBlockProtocol(din_valid, last_block),
           HandOver(last_block, ready)
    PROVE  IInv'
  <1>1. mode' = 0
    BY SMT DEF HandOver, EnterOutputMode, LastBlockProtocol, BetweenBlocks
  <1>2. TypeOK'
    BY <1>1, BufferAssumption, SMT DEF IInv, TypeOK, HandOver
  <1>3. FullMeansBlock' /\ BlockInOrder'
    BY <1>1, BufferAssumption, SMT DEF HandOver, FullMeansBlock, BlockInOrder
  <1>4. OutputPending'
    BY <1>1, SMT DEF IInv, OutputPending, HandOver
  <1>. QED
    BY <1>2, <1>3, <1>4 DEF IInv

(* Shifting a lane in moves every accepted lane down by one place and puts the new  *)
(* one on top of them.                                                              *)
LEMMA ShiftInStep ==
    ASSUME IInv, NEW last_block \in Bit, NEW ready \in Bit, NEW din_valid \in Bit,
           NEW din \in Lane,
           LastBlockProtocol(din_valid, last_block),
           ShiftIn(din, din_valid, last_block, ready)
    PROVE  IInv'
  <1>1. mode' = 0
    BY SMT DEF ShiftIn, EnterOutputMode, LastBlockProtocol
  <1>2. /\ words \in Seq(Lane) /\ words' = Append(words, din)
        /\ Len(words) = count_in_words /\ count_in_words \in 0 .. RateLanes - 1
        /\ buffer_full = 0
    BY SMT DEF IInv, TypeOK, FullMeansBlock, ShiftIn
  <1>3. /\ words' \in Seq(Lane)
        /\ Len(words') = Len(words) + 1
        /\ \A k \in 1 .. Len(words) : words'[k] = words[k]
        /\ words'[Len(words) + 1] = din
    BY <1>2, SMT
  <1>4. TypeOK'
    <2>1. buffer_data' \in [0 .. RateLanes - 1 -> Lane]
      BY BufferAssumption, SMT DEF IInv, TypeOK, ShiftIn, ShiftedIn
    <2>2. /\ buffer_full' \in {0, 1} /\ count_in_words' \in 0 .. RateLanes - 1
      BY <1>2, BufferAssumption, SMT DEF ShiftIn, BlockComplete
    <2>. QED
      BY <1>1, <1>3, <2>1, <2>2, SMT DEF IInv, TypeOK, ShiftIn
  <1>5. FullMeansBlock'
    BY <1>2, <1>3, BufferAssumption, SMT DEF ShiftIn, FullMeansBlock, BlockComplete
  <1>6. BlockInOrder'
    <2>. SUFFICES ASSUME NEW k \in 1 .. Len(words')
                  PROVE  buffer_data'[RateLanes - Len(words') + k - 1] = words'[k]
      BY DEF BlockInOrder
    <2>1. CASE k = Len(words')
      BY <2>1, <1>2, <1>3, BufferAssumption, SMT DEF ShiftIn, ShiftedIn
    <2>2. CASE k # Len(words')
      <3>1. k \in 1 .. Len(words) /\ Len(words) <= RateLanes - 1
        BY <2>2, <1>2, <1>3, SMT
      <3>2. buffer_data[RateLanes - Len(words) + k - 1] = words[k]
        BY <3>1, SMT DEF IInv, BlockInOrder
      <3>3. RateLanes - Len(words') + k - 1 \in 0 .. RateLanes - 2
        BY <3>1, <1>2, <1>3, BufferAssumption, SMT
      <3>4. buffer_data'[RateLanes - Len(words') + k - 1]
              = buffer_data[(RateLanes - Len(words') + k - 1) + 1]
        BY <3>3, BufferAssumption, SMT DEF ShiftIn, ShiftedIn
      <3>. QED
        BY <3>1, <3>2, <3>4, <1>2, <1>3, BufferAssumption, SMT
    <2>. QED
      BY <2>1, <2>2
  <1>7. OutputPending'
    BY <1>1, SMT DEF IInv, OutputPending, ShiftIn
  <1>. QED
    BY <1>4, <1>5, <1>6, <1>7 DEF IInv

(* An idle edge in input mode may enter output mode, then with an empty history.    *)
LEMMA KeepInputStep ==
    ASSUME IInv, NEW last_block \in Bit, NEW ready \in Bit, NEW din_valid \in Bit,
           LastBlockProtocol(din_valid, last_block),
           KeepInput(din_valid, last_block, ready)
    PROVE  IInv'
  <1>1. mode' \in Bit /\ (mode' = 1 => words = <<>>)
    BY EnterBetweenBlocks DEF KeepInput
  <1>2. TypeOK'
    BY <1>1, SMT DEF IInv, TypeOK, KeepInput
  <1>3. FullMeansBlock' /\ BlockInOrder'
    BY SMT DEF IInv, FullMeansBlock, BlockInOrder, KeepInput
  <1>4. OutputPending'
    BY <1>1, SMT DEF IInv, TypeOK, OutputPending, KeepInput
  <1>. QED
    BY <1>2, <1>3, <1>4 DEF IInv

-----------------------------------------------------------------------------------
(* Loading the output finds no accepted lane in the register and puts the captured  *)
(* lanes at the bottom.                                                             *)
LEMMA LoadOutputStep ==
    ASSUME IInv, NEW dout_in \in Digest, LoadOutput(dout_in)
    PROVE  IInv'
  <1>1. mode' = 1 /\ words' = <<>>
    BY SMT DEF IInv, OutputPending, LoadOutput
  <1>2. TypeOK'
    <2>1. buffer_data' \in [0 .. RateLanes - 1 -> Lane]
      BY BufferAssumption, SMT DEF IInv, TypeOK, LoadOutput
    <2>. QED
      BY <2>1, BufferAssumption, SMT DEF IInv, TypeOK, LoadOutput
  <1>3. FullMeansBlock'
    BY <1>1, SMT DEF IInv, FullMeansBlock, LoadOutput
  <1>4. BlockInOrder'
    BY <1>1, SMT DEF BlockInOrder
  <1>5. OutputPending'
    BY <1>1, BufferAssumption, SMT DEF OutputPending, LoadOutput
  <1>. QED
    BY <1>2, <1>3, <1>4, <1>5 DEF IInv

(* Shifting out brings the next captured lane to the bottom.                        *)
LEMMA ShiftOutStep ==
    ASSUME IInv, ShiftOut
    PROVE  IInv'
  <1>1. mode' = 1 /\ words' = <<>>
    BY SMT DEF IInv, OutputPending, ShiftOut
  <1>2. /\ count_out_words \in 1 .. OutLanes - 1
        /\ count_out_words' = count_out_words + 1
    BY BufferAssumption, SMT DEF IInv, TypeOK, ShiftOut, OutputComplete
  <1>3. TypeOK'
    <2>1. buffer_data' \in [0 .. RateLanes - 1 -> Lane]
      BY BufferAssumption, SMT DEF IInv, TypeOK, ShiftOut, ShiftedOut
    <2>. QED
      BY <1>1, <1>2, <2>1, BufferAssumption, SMT DEF IInv, TypeOK, ShiftOut
  <1>4. FullMeansBlock'
    BY <1>1, SMT DEF IInv, FullMeansBlock, ShiftOut
  <1>5. BlockInOrder'
    BY <1>1, SMT DEF BlockInOrder
  <1>6. ASSUME NEW k \in 0 .. OutLanes - count_out_words'
        PROVE  buffer_data'[k] = captured'[k + count_out_words' - 1]
    <2>1. k \in 0 .. OutLanes - 2 /\ k + 1 \in 0 .. OutLanes - count_out_words
      BY <1>2, BufferAssumption, SMT
    <2>2. buffer_data'[k] = buffer_data[k + 1]
      BY <2>1, BufferAssumption, SMT DEF ShiftOut, ShiftedOut
    <2>3. buffer_data[k + 1] = captured[(k + 1) + count_out_words - 1]
      BY <2>1, <1>2, SMT DEF IInv, OutputPending
    <2>4. (k + 1) + count_out_words - 1 = k + count_out_words' - 1
      BY <1>2, SMT
    <2>. QED
      BY <2>2, <2>3, <2>4 DEF ShiftOut
  <1>7. OutputPending'
    BY <1>1, <1>2, <1>6, SMT DEF OutputPending, ShiftOut
  <1>. QED
    BY <1>3, <1>4, <1>5, <1>7 DEF IInv

(* Ending the output returns to input mode with nothing to show.                    *)
LEMMA EndOutputStep ==
    ASSUME IInv, EndOutput
    PROVE  IInv'
  <1>1. TypeOK'
    BY BufferAssumption, SMT DEF IInv, TypeOK, EndOutput
  <1>2. FullMeansBlock' /\ BlockInOrder'
    BY SMT DEF IInv, FullMeansBlock, BlockInOrder, EndOutput
  <1>3. OutputPending'
    BY SMT DEF OutputPending, EndOutput
  <1>. QED
    BY <1>1, <1>2, <1>3 DEF IInv

-----------------------------------------------------------------------------------
(* Every step of the buffer preserves the inductive invariant.                      *)
LEMMA NextIInv == IInv /\ [Next]_bufVars => IInv'
  <1>. SUFFICES ASSUME IInv, [Next]_bufVars
                PROVE  IInv'
    OBVIOUS
  <1>1. CASE Next
    <2>1. PICK din \in Lane, din_valid \in Bit, last_block \in Bit, ready \in Bit,
               dout_in \in Digest :
                 /\ LastBlockProtocol(din_valid, last_block)
                 /\ Clock(din, din_valid, last_block, ready, dout_in)
      BY <1>1 DEF Next
    <2>2. CASE HandOver(last_block, ready)
      BY <2>1, <2>2, HandOverStep
    <2>3. CASE ShiftIn(din, din_valid, last_block, ready)
      BY <2>1, <2>3, ShiftInStep
    <2>4. CASE KeepInput(din_valid, last_block, ready)
      BY <2>1, <2>4, KeepInputStep
    <2>5. CASE LoadOutput(dout_in)
      BY <2>5, LoadOutputStep
    <2>6. CASE ShiftOut
      BY <2>6, ShiftOutStep
    <2>7. CASE EndOutput
      BY <2>7, EndOutputStep
    <2>. QED
      BY <2>1, <2>2, <2>3, <2>4, <2>5, <2>6, <2>7 DEF Clock
  <1>2. CASE UNCHANGED bufVars
    BY <1>2, SMT
    DEF IInv, TypeOK, FullMeansBlock, BlockInOrder, OutputPending, bufVars, registers
  <1>. QED
    BY <1>1, <1>2

(* The invariant holds in every reachable state.                                    *)
LEMMA SpecIInv == Spec => []IInv
  BY InitIInv, NextIInv, PTL DEF Spec

(* Every register stays in its range: in particular the counters of p_main never    *)
(* leave 0 .. RateLanes - 1 and 0 .. OutLanes, the ranges they are declared with.   *)
THEOREM TypeCorrect == Spec => []TypeOK
  <1>1. IInv => TypeOK
    BY DEF IInv
  <1>. QED
    BY <1>1, SpecIInv, PTL

(* buffer_full is raised for exactly RateLanes accepted lanes.                      *)
THEOREM FullIsBlock == Spec => []FullMeansBlock
  <1>1. IInv => FullMeansBlock
    BY DEF IInv
  <1>. QED
    BY <1>1, SpecIInv, PTL

(* The block that is handed to the permutation is the lanes that were accepted, in  *)
(* their order, for every block size and with any output between two blocks.        *)
THEOREM BlocksAreInOrder == Spec => []BlockInOrder
  <1>1. IInv => BlockInOrder
    BY DEF IInv
  <1>. QED
    BY <1>1, SpecIInv, PTL

(* A reader of dout sees the captured lanes in order.                               *)
THEOREM OutputsAreInOrder == Spec => []OutputInOrder
  <1>1. IInv => OutputInOrder
    <2>. SUFFICES ASSUME IInv, dout_valid = 1
                  PROVE  /\ count_out_words \in 1 .. OutLanes
                         /\ dout = captured[count_out_words - 1]
      BY DEF OutputInOrder
    <2>1. count_out_words \in 1 .. OutLanes
      BY BufferAssumption, SMT DEF IInv, TypeOK, OutputPending
    <2>2. buffer_data[0] = captured[0 + count_out_words - 1]
      BY <2>1, BufferAssumption, SMT DEF IInv, OutputPending
    <2>. QED
      BY <2>1, <2>2, SMT DEF dout
  <1>. QED
    BY <1>1, SpecIInv, PTL

(* An output, once begun, runs without a gap to its last lane.                      *)
THEOREM OutputRunsThrough == Spec => OutputUninterrupted
  <1>1. IInv /\ [Next]_bufVars =>
          [dout_valid = 1 =>
             IF count_out_words < OutLanes
             THEN dout_valid' = 1 /\ count_out_words' = count_out_words + 1
             ELSE dout_valid' = 0]_bufVars
    <2>. SUFFICES ASSUME IInv, Next, dout_valid = 1
                  PROVE  IF count_out_words < OutLanes
                         THEN dout_valid' = 1 /\ count_out_words' = count_out_words + 1
                         ELSE dout_valid' = 0
      OBVIOUS
    <2>1. /\ mode = 1
          /\ count_out_words \in 1 .. OutLanes
      BY BufferAssumption, SMT DEF IInv, TypeOK, OutputPending
    <2>2. ShiftOut \/ EndOutput
      BY <2>1, SMT DEF Next, Clock, HandOver, ShiftIn, KeepInput, LoadOutput
    <2>. QED
      BY <2>1, <2>2, BufferAssumption, SMT DEF ShiftOut, EndOutput, OutputComplete
  <1>. QED
    BY <1>1, SpecIInv, PTL DEF Spec, OutputUninterrupted
===================================================================================
