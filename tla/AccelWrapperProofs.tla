---------------------------- MODULE AccelWrapperProofs ----------------------------
(* The invariants of the FSM over the core, and what one edge of the wrapper does to *)
(* a job: lemmas, for whatever drives start, the length and the CPU side, and for    *)
(* every rate, output size and number of rounds.                                     *)
EXTENDS AccelWrapper, KeccakCoreProofs, SequenceTheorems

FsmTypes ==
    /\ state \in States
    /\ byte_cntr_s \in 0 .. 255
    /\ din_valid_s \in {0, 1} /\ din_valid_reg \in {0, 1}
    /\ start_hash \in {0, 1} /\ last_block_s \in {0, 1}
    /\ done \in {0, 1}
    /\ start_hash = 1 => state = "IDLE"
    /\ done = 1 => state = "DONE"

(* Before the block is handed over, the byte counter counts the lanes that the      *)
(* buffer has accepted and the two that may be on their way to it.                  *)
Loading ==
    state \in {"IDLE", "WRITE"} =>
        /\ mode = 0 /\ last_block_s = 0 /\ permutation_computed = 1
        /\ byte_cntr_s = 8 * (Len(words) + din_valid_s + din_valid_reg)
        /\ byte_cntr_s <= RATE_BYTES
        /\ Len(blocks) = buffer_full
        /\ state = "IDLE" => byte_cntr_s = 0

(* After it nothing is on its way and nothing in the buffer.                        *)
Loaded ==
    state \in {"WAIT_HASH", "READ", "DONE"} =>
        /\ words = <<>> /\ buffer_full = 0
        /\ din_valid_s = 0 /\ din_valid_reg = 0
        /\ Len(blocks) = 1

FsmIInv == CoreIInv /\ FsmTypes /\ Loading /\ Loaded

-----------------------------------------------------------------------------------
(* What the invariants of the core say about the lanes in its buffer.               *)
BufferCount ==
    /\ Len(words) \in 0 .. RateLanes
    /\ words \in Seq(InLane)
    /\ buffer_full \in {0, 1} /\ count_in_words \in Nat
    /\ (buffer_full = 1) <=> (Len(words) = RateLanes)
    /\ buffer_full = 1 => count_in_words = 0
    /\ buffer_full = 0 => count_in_words = Len(words)
    /\ Len(blocks) \in Nat

LEMMA RateFits == RateLanes \in Nat /\ RateLanes >= 1 /\ 8 * RateLanes < 256
  <1>1. RateLanes \in Nat /\ RateLanes >= 1
    BY CoreAssumption, SMT
  <1>. QED
    BY <1>1, FsmAssumption, SMT DEF RATE_BYTES

LEMMA LanesInBuffer == CoreIInv => BufferCount
  <1>. SUFFICES ASSUME CoreIInv PROVE BufferCount
    OBVIOUS
  <1>1. /\ buffer_full \in {0, 1} /\ count_in_words \in 0 .. RateLanes - 1
        /\ BufP!FullMeansBlock
    BY DEF CoreIInv, BufP!IInv, BufP!TypeOK, BufP!Bit, BufP!Lanes
  <1>2. words \in Seq(InLane) /\ blocks \in Seq(RateBlock)
    BY DEF CoreIInv, CoreTypes
  <1>3. Len(words) \in Nat /\ Len(blocks) \in Nat
    BY <1>2, SMT
  <1>. QED
    BY <1>1, <1>2, <1>3, RateFits, SMT DEF BufP!FullMeansBlock, BufferCount

(* The invariant is what the core's proofs assume of its inputs.                    *)
LEMMA FsmIInvProtocol == FsmIInv => FsmHonoursProtocol
  <1>. SUFFICES ASSUME FsmIInv PROVE FsmHonoursProtocol
    OBVIOUS
  <1>1. CoreIInv /\ FsmTypes /\ Loading /\ Loaded
    BY DEF FsmIInv
  <1>2. CASE state \in {"IDLE", "WRITE"}
    <2>1. /\ last_block_s = 0 /\ mode = 0 /\ Len(blocks) <= 1
          /\ Len(words) + din_valid_s + din_valid_reg <= RateLanes
      BY <1>1, <1>2, LanesInBuffer, RateFits, SMT DEF BufferCount, Loading, FsmTypes, RATE_BYTES
    <2>2. din_valid_reg = 1 => buffer_full = 0
      BY <1>1, <2>1, LanesInBuffer, RateFits, SMT DEF BufferCount, FsmTypes
    <2>3. start_hash = 1 => Len(words) = 0 /\ din_valid_reg = 0
      BY <1>1, <1>2, LanesInBuffer, RateFits, SMT DEF BufferCount, FsmTypes, Loading
    <2>4. StartProtocol(start_hash, din_valid_reg)
      BY <1>1, <2>3, LanesInBuffer, RateFits, SMT DEF BufferCount, StartProtocol, Buf!BetweenBlocks
    <2>. QED
      BY <1>2, <2>1, <2>2, <2>4, SMT DEF FsmHonoursProtocol, Buf!LastBlockProtocol
  <1>3. CASE state \in {"WAIT_HASH", "READ", "DONE"}
    <2>1. /\ words = <<>> /\ buffer_full = 0 /\ din_valid_reg = 0 /\ Len(blocks) = 1
          /\ start_hash = 0
      BY <1>1, <1>3, SMT DEF Loaded, FsmTypes
    <2>2. Buf!BetweenBlocks
      BY <1>1, <2>1, LanesInBuffer, RateFits, SMT DEF BufferCount, Buf!BetweenBlocks
    <2>. QED
      BY <2>1, <2>2, SMT DEF FsmHonoursProtocol, Buf!LastBlockProtocol, StartProtocol
  <1>. QED
    BY <1>1, <1>2, <1>3, SMT DEF FsmTypes, States

LEMMA InitFsmIInv == FsmInit => FsmIInv
  <1>. SUFFICES ASSUME FsmInit PROVE FsmIInv
    OBVIOUS
  <1>1. CoreIInv
    BY InitCoreIInv DEF FsmInit
  <1>2. /\ words = <<>> /\ blocks = <<>> /\ mode = 0 /\ buffer_full = 0
        /\ permutation_computed = 1
    BY DEF FsmInit, Init, Reset, Buf!Init, Buf!Reset
  <1>3. FsmTypes
    BY SMT DEF FsmInit, FsmTypes, States
  <1>4. Loading /\ Loaded
    BY <1>1, <1>2, LanesInBuffer, RateFits, SMT DEF BufferCount, FsmInit, Loading, Loaded, RATE_BYTES
  <1>. QED
    BY <1>1, <1>3, <1>4 DEF FsmIInv

-----------------------------------------------------------------------------------
(* The data input is looked at only with din_valid, so that an edge of the FSM is   *)
(* an edge of the core with some input lane.                                        *)
LEMMA CoreClocked ==
    ASSUME FsmTypes, NEW start, NEW length, NEW a, NEW b,
           din_valid_reg = 1 => <<a, b>> \in InLane,
           FsmClock(start, length, a, b)
    PROVE  \E din \in InLane : Clock(start_hash, din, din_valid_reg, last_block_s)
  <1>1. Clock(start_hash, <<a, b>>, din_valid_reg, last_block_s)
    BY DEF FsmClock
  <1>2. CASE din_valid_reg = 1
    BY <1>1, <1>2
  <1>3. CASE din_valid_reg = 0
    <2>1. Clock(start_hash, ZeroLane, din_valid_reg, last_block_s)
      BY <1>1, <1>3, SMT DEF Clock, Buf!Clock, Buf!ShiftIn
    <2>. QED
      BY <2>1, CoreAssumption
  <1>. QED
    BY <1>2, <1>3 DEF FsmTypes

(* The next state and the registers of copro control, state by state.               *)
LEMMA FsmTypesStep ==
    ASSUME FsmTypes, NEW start, NEW length, NEW a, NEW b,
           FsmClock(start, length, a, b)
    PROVE  FsmTypes' /\ start_hash' = 0
  <1>1. state' \in States
    BY SMT DEF FsmTypes, FsmClock, n_state, States
  <1>2. state = "DONE" => state' = "DONE"
    BY SMT DEF FsmTypes, FsmClock, n_state, States
  <1>3. byte_cntr_s' \in 0 .. 255
    <2>1. /\ (byte_cntr_s + 8) % 256 \in 0 .. 255 /\ 8 \in 0 .. 255
          /\ byte_cntr_s \in 0 .. 255 /\ 2^8 = 256
      BY SMT DEF FsmTypes
    <2>2. \/ byte_cntr_s' = (byte_cntr_s + 8) % 2^8
          \/ byte_cntr_s' = 8
          \/ byte_cntr_s' = byte_cntr_s
      BY SMT DEF FsmClock, ControlClock
    <2>. QED
      BY <2>1, <2>2
  <1>4. /\ din_valid_s' \in {0, 1} /\ din_valid_reg' \in {0, 1}
        /\ start_hash' = 0 /\ last_block_s' \in {0, 1} /\ done' \in {0, 1}
        /\ done' = 1 => state = "DONE"
    BY SMT DEF FsmTypes, FsmClock, ControlClock
  <1>. QED
    BY <1>1, <1>2, <1>3, <1>4, SMT DEF FsmTypes

-----------------------------------------------------------------------------------
(* Edges of the core while the buffer is in input mode and no output is asked for:  *)
(* without a block the buffer takes the lane that is offered, and with one the      *)
(* permutation, if ready, takes the block.                                          *)
LEMMA BufferTakesLane ==
    ASSUME CoreIInv, NEW start \in Bit, NEW din \in InLane, NEW din_valid \in Bit,
           Clock(start, din, din_valid, 0), mode = 0, buffer_full = 0
    PROVE  /\ mode' = 0
           /\ Len(words') = Len(words) + din_valid
           /\ din_valid = 1 => words' = Append(words, din)
           /\ din_valid = 0 => words' = words
  <1>1. words \in Seq(InLane) /\ Len(words) \in Nat
    BY SMT DEF CoreIInv, CoreTypes
  <1>2. CASE din_valid = 1
    <2>1. words' = Append(words, din) /\ mode' = 0
      BY <1>2, SMT DEF Clock, Buf!Clock, Buf!HandOver, Buf!ShiftIn, Buf!KeepInput,
                       Buf!LoadOutput, Buf!ShiftOut, Buf!EndOutput, Buf!EnterOutputMode
    <2>2. Len(Append(words, din)) = Len(words) + 1
      BY <1>1, SMT
    <2>. QED
      BY <1>2, <2>1, <2>2
  <1>3. CASE din_valid = 0
    <2>1. words' = words /\ mode' = 0
      BY <1>3, SMT DEF Clock, Buf!Clock, Buf!HandOver, Buf!ShiftIn, Buf!KeepInput,
                       Buf!LoadOutput, Buf!ShiftOut, Buf!EndOutput, Buf!EnterOutputMode
    <2>. QED
      BY <1>1, <1>3, <2>1, SMT
  <1>. QED
    BY <1>2, <1>3 DEF Bit

LEMMA BlockLeaves ==
    ASSUME NEW start, NEW din, NEW din_valid, NEW last_block,
           Clock(start, din, din_valid, last_block),
           mode = 0, buffer_full = 1, permutation_computed = 1
    PROVE  /\ words' = <<>> /\ buffer_full' = 0 /\ UNCHANGED buffer_data
  BY SMT DEF Clock, Buf!Clock, Buf!HandOver, Buf!ShiftIn, Buf!KeepInput, Buf!LoadOutput,
             Buf!ShiftOut, Buf!EndOutput, ready

(* Without a lane on offer an empty buffer stays empty.                             *)
LEMMA EmptyStaysEmpty ==
    ASSUME NEW start, NEW din, NEW din_valid, NEW last_block,
           Clock(start, din, din_valid, last_block),
           din_valid = 0, words = <<>>, buffer_full = 0
    PROVE  words' = <<>> /\ buffer_full' = 0
  BY SMT DEF Clock, Buf!Clock, Buf!HandOver, Buf!ShiftIn, Buf!KeepInput, Buf!LoadOutput,
             Buf!ShiftOut, Buf!EndOutput

-----------------------------------------------------------------------------------
(* The byte counter has room for every lane of the rate.                            *)
LEMMA OneMoreLane ==
    ASSUME NEW n \in Nat, NEW r \in Nat, 8 * r < 256, 8 * n < 8 * r
    PROVE  (8 * n + 8) % 256 = 8 * n + 8 /\ 8 * n + 8 <= 8 * r
  BY SMT

(* One edge of the FSM and of the core under it.                                    *)
LEMMA FsmClockIInv ==
    ASSUME FsmIInv, NEW start, NEW length, NEW a, NEW b,
           din_valid_reg = 1 => <<a, b>> \in InLane,
           FsmClock(start, length, a, b)
    PROVE  FsmIInv'
  <1>1. CoreIInv /\ FsmTypes /\ Loading /\ Loaded /\ FsmHonoursProtocol
    BY FsmIInvProtocol DEF FsmIInv
  <1>2. PICK din \in InLane : Clock(start_hash, din, din_valid_reg, last_block_s)
    BY <1>1, CoreClocked
  <1>3. /\ start_hash \in Bit /\ din_valid_reg \in Bit /\ last_block_s \in Bit
        /\ Buf!LastBlockProtocol(din_valid_reg, last_block_s)
        /\ StartProtocol(start_hash, din_valid_reg)
    BY <1>1 DEF FsmTypes, Bit, FsmHonoursProtocol
  <1>4. CoreIInv' /\ StateClock(start_hash)
    BY <1>1, <1>2, <1>3, ClockCoreIInv DEF Clock
  <1>5. FsmTypes' /\ start_hash' = 0
    BY <1>1, FsmTypesStep
  <1>6. BufferCount /\ BufferCount'
    BY <1>1, <1>4, LanesInBuffer, PTL
  <1>7. CASE state \in {"IDLE", "WRITE"} /\ buffer_full = 0
    <2>1. /\ mode = 0 /\ last_block_s = 0 /\ permutation_computed = 1
          /\ byte_cntr_s = 8 * (Len(words) + din_valid_s + din_valid_reg)
          /\ byte_cntr_s <= RATE_BYTES /\ Len(blocks) = 0
          /\ state = "IDLE" => byte_cntr_s = 0
      BY <1>1, <1>7 DEF Loading
    <2>2. /\ state' \in {"IDLE", "WRITE"} /\ (state' = "IDLE" => state = "IDLE")
          /\ last_block_s' = 0 /\ din_valid_reg' = din_valid_s
      BY <1>7, SMT DEF FsmClock, ControlClock, n_state, LastBlock
    <2>3. mode' = 0 /\ Len(words') = Len(words) + din_valid_reg
      BY <1>1, <1>2, <1>3, <1>7, <2>1, BufferTakesLane
    <2>4. permutation_computed' = 1
      BY <1>1, <1>3, <1>4, <1>7, <2>1, ReadyStays
    <2>5. Len(blocks') = buffer_full'
      <3>1. /\ blocks \in Seq(RateBlock)
            /\ blocks' = IF start_hash = 1 THEN <<>>
                         ELSE IF buffer_full = 0 /\ buffer_full' = 1
                         THEN Append(blocks, buffer_data') ELSE blocks
        BY <1>1, <1>2 DEF CoreIInv, CoreTypes, Clock
      <3>2. Len(Append(blocks, buffer_data')) = 1 /\ Len(<<>>) = 0
        BY <2>1, <3>1, SMT
      <3>3. start_hash = 1 => buffer_full' = 0
        <4>1. start_hash = 1 => Len(words') = 0
          BY <1>1, <1>6, <2>1, <2>3, SMT DEF FsmTypes, BufferCount
        <4>. QED
          BY <1>6, <4>1, RateFits, SMT DEF BufferCount
      <3>. QED
        BY <1>6, <1>7, <2>1, <3>1, <3>2, <3>3 DEF BufferCount
    <2>6. /\ byte_cntr_s' = 8 * (Len(words') + din_valid_s' + din_valid_reg')
          /\ byte_cntr_s' <= RATE_BYTES
          /\ state' = "IDLE" => byte_cntr_s' = 0
      <3>1. CASE FeedsLane
        <4>1. /\ state = "WRITE" /\ byte_cntr_s < RATE_BYTES
              /\ din_valid_s' = 1 /\ byte_cntr_s' = (byte_cntr_s + 8) % 256
          <5>1. 2^8 = 256
            BY SMT
          <5>. QED
            BY <3>1, <5>1, SMT DEF FsmClock, ControlClock, Transfers, FeedsLane
        <4>2. byte_cntr_s' = byte_cntr_s + 8 /\ byte_cntr_s + 8 <= RATE_BYTES
          <5>. DEFINE n == Len(words) + din_valid_s + din_valid_reg
          <5>1. n \in Nat /\ byte_cntr_s = 8 * n
            BY <1>1, <1>6, <2>1, SMT DEF BufferCount, FsmTypes
          <5>2. 8 * n < 8 * RateLanes
            BY <4>1, <5>1 DEF RATE_BYTES
          <5>. HIDE DEF n
          <5>. QED
            BY <4>1, <5>1, <5>2, RateFits, OneMoreLane DEF RATE_BYTES
        <4>. QED
          BY <1>1, <1>6, <2>1, <2>2, <2>3, <4>1, <4>2, SMT DEF BufferCount, FsmTypes
      <3>2. CASE ~ FeedsLane
        <4>1. byte_cntr_s' = byte_cntr_s /\ din_valid_s' = 0
          BY <1>7, <3>2, SMT DEF FsmClock, ControlClock, Transfers, StoresLane
        <4>. QED
          BY <1>1, <1>6, <2>1, <2>2, <2>3, <4>1, SMT DEF BufferCount, FsmTypes
      <3>. QED
        BY <3>1, <3>2
    <2>7. Loading'
      BY <2>2, <2>3, <2>4, <2>5, <2>6 DEF Loading
    <2>8. Loaded'
      BY <2>2 DEF Loaded
    <2>. QED
      BY <1>4, <1>5, <2>7, <2>8 DEF FsmIInv
  <1>8. CASE state \in {"IDLE", "WRITE"} /\ buffer_full = 1
    <2>1. /\ mode = 0 /\ permutation_computed = 1
          /\ byte_cntr_s = 8 * (Len(words) + din_valid_s + din_valid_reg)
          /\ byte_cntr_s <= RATE_BYTES /\ Len(blocks) = 1
          /\ state = "IDLE" => byte_cntr_s = 0
      BY <1>1, <1>8 DEF Loading
    <2>2. Len(words) = RateLanes /\ din_valid_s = 0 /\ din_valid_reg = 0
      BY <1>1, <1>6, <1>8, <2>1, RateFits, SMT DEF BufferCount, FsmTypes, RATE_BYTES
    <2>3. state = "WRITE" /\ ~ FeedsLane
      BY <1>8, <2>1, <2>2, RateFits, SMT DEF FeedsLane, RATE_BYTES
    <2>4. state' = "WAIT_HASH" /\ din_valid_s' = 0 /\ din_valid_reg' = 0
      BY <1>8, <2>2, <2>3, SMT DEF FsmClock, ControlClock, n_state
    <2>5. words' = <<>> /\ buffer_full' = 0
      BY <1>2, <1>8, <2>1, BlockLeaves
    <2>6. blocks' = blocks
      BY <1>1, <1>2, <2>3, <2>5, <1>8, SMT DEF FsmTypes, Clock
    <2>. QED
      BY <1>4, <1>5, <2>1, <2>4, <2>5, <2>6 DEF FsmIInv, Loading, Loaded
  <1>9. CASE state \in {"WAIT_HASH", "READ", "DONE"}
    <2>1. /\ words = <<>> /\ buffer_full = 0 /\ start_hash = 0
          /\ din_valid_s = 0 /\ din_valid_reg = 0 /\ Len(blocks) = 1
      BY <1>1, <1>9, SMT DEF Loaded, FsmTypes
    <2>2. /\ state' \in {"WAIT_HASH", "READ", "DONE"}
          /\ din_valid_s' = 0 /\ din_valid_reg' = 0
      BY <1>9, <2>1, SMT DEF FsmClock, ControlClock, n_state, FeedsLane
    <2>3. words' = <<>> /\ buffer_full' = 0
      BY <1>2, <2>1, EmptyStaysEmpty
    <2>4. blocks' = blocks
      BY <1>2, <2>1, <2>3, SMT DEF Clock
    <2>. QED
      BY <1>4, <1>5, <2>1, <2>2, <2>3, <2>4 DEF FsmIInv, Loading, Loaded
  <1>. QED
    BY <1>1, <1>6, <1>7, <1>8, <1>9, SMT DEF FsmTypes, States, BufferCount
-----------------------------------------------------------------------------------
(* The RAM: a port that does not write leaves the memory.                            *)
LEMMA PortQuiet ==
    ASSUME NEW m, NEW port, port.en = 0 \/ port.we = 0
    PROVE  Ram!Stored(m, port) = m
  BY SMT DEF Ram!Stored

(* Outside READ the FSM's ports do not write.                                       *)
LEMMA FsmPortsQuiet ==
    ASSUME NEW m, state # "READ"
    PROVE  Ram!Stored(m, mem_port_a) = m /\ Ram!Stored(m, mem_port_b) = m
  <1>1. mem_port_a.we = 0 /\ mem_port_b.we = 0
    BY SMT DEF mem_port_a, mem_port_b, mem_port, mem_we
  <1>. QED
    BY <1>1, PortQuiet

(* The memory under an edge outside READ: the CPU's request, while start is low.    *)
LEMMA MemoryEdge ==
    ASSUME NEW start, NEW r, NEW cpu, WrapperClock(start, r, cpu), state # "READ"
    PROVE  mem' = IF start = 1 THEN mem ELSE Ram!Stored(mem, cpu)
  <1>1. mem' \in {Ram!Stored(Ram!Stored(mem, PortA(start, cpu)), mem_port_a),
                  Ram!Stored(Ram!Stored(mem, mem_port_a), PortA(start, cpu))}
    BY DEF WrapperClock, Ram!Clock
  <1>2. mem' = Ram!Stored(mem, PortA(start, cpu))
    BY <1>1, FsmPortsQuiet
  <1>. QED
    BY <1>2, FsmPortsQuiet DEF PortA

LEMMA StateBefore ==
    ASSUME FsmTypes, NEW start, NEW length, NEW a, NEW b,
           FsmClock(start, length, a, b)
    PROVE  /\ state' = "IDLE" => state = "IDLE"
           /\ state' = "WRITE" => state \in {"IDLE", "WRITE"}
           /\ state' = "WAIT_HASH" => state \in {"WRITE", "WAIT_HASH"}
           /\ state' = "READ" => state \in {"WAIT_HASH", "READ"}
           /\ state' = "DONE" => state \in {"READ", "DONE"}
  BY SMT DEF FsmTypes, FsmClock, n_state, States

-----------------------------------------------------------------------------------
(* A job on the block in, for the value r of the length register: what is in the    *)
(* registers, state by state.                                                       *)
LaneOf(m, l) == <<m[2 * l], m[2 * l + 1]>>
Delivered(in, lanes) ==
    [w \in Ram!Addr |-> IF w < 2 * lanes THEN HashWord(w, in) ELSE in[w]]

(* The lanes that were accepted, the one that the RAM has read and the one whose    *)
(* address is out follow each other.                                                *)
FeedingJob(in) ==
    state \in {"IDLE", "WRITE"} =>
        /\ mem = in
        /\ \A k \in 1 .. Len(words) : words[k] = LaneOf(in, k - 1)
        /\ din_valid_reg = 1 => <<rdata_b, rdata_a>> = LaneOf(in, Len(words))
        /\ din_valid_s = 1 => addr_s = 2 * (Len(words) + din_valid_reg)

(* The block under permutation is the memory's.                                     *)
BlockOfJob(in) == state \in {"WAIT_HASH", "READ"} => blocks[1] = BlockIn(in)

(* The register still shows the first lane of the block, which the first cycle of   *)
(* READ writes to where it came from.                                               *)
StaleLane(in) == addr_s = 0 /\ mem = in /\ buffer_data[0] = LaneOf(in, 0)

WaitingJob(in) ==
    state = "WAIT_HASH" =>
        StaleLane(in) /\ mode = 0 /\ (permutation_computed = 1 => last_block_s = 1)

ReturningJob(in, r) ==
    state = "READ" =>
        /\ mode = 1
        /\ count_out_words = 0 =>
             StaleLane(in) /\ byte_cntr_s = 8 /\ permutation_computed = 1
        /\ count_out_words # 0 =>
             /\ captured = [k \in 0 .. OutLanes - 1 |-> StateLane(k, Permuted(in))]
             /\ byte_cntr_s = 8 * count_out_words
             /\ addr_s = 2 * (count_out_words - 1)
             /\ mem = Delivered(in, count_out_words - 1)
             /\ 8 < r
             /\ 8 * (count_out_words - 1) < r

JobParts(in, r) ==
    FeedingJob(in) /\ BlockOfJob(in) /\ WaitingJob(in) /\ ReturningJob(in, r)

(* What it leaves in the memory.                                                    *)
ReturnedJob(in, r) == state = "DONE" => mem = Delivered(in, LanesFor(r))

-----------------------------------------------------------------------------------
LEMMA BlockTyped ==
    ASSUME NEW in, IsBlock(in)
    PROVE  /\ in = [w \in Ram!Addr |-> in[w]]
           /\ \A w \in Ram!Addr : in[w] = [b \in ByteLanes |-> in[w][b]]
           /\ \A l \in 0 .. RateLanes - 1 : LaneOf(in, l) \in InLane
  <1>. DEFINE word(w) == [b \in ByteLanes |-> in[w][b]]
  <1>1. in = [w \in Ram!Addr |-> word(w)]
    BY DEF IsBlock, Ram!Addr
  <1>2. ASSUME NEW w \in Ram!Addr
        PROVE  in[w] = word(w)
    <2>. HIDE DEF word
    <2>. QED
      BY <1>1
  <1>3. in = [w \in Ram!Addr |-> in[w]]
    BY <1>1, <1>2
  <1>4. ASSUME NEW l \in 0 .. RateLanes - 1
        PROVE  LaneOf(in, l) \in InLane
    <2>1. BlockIn(in)[l] \in InLane
      BY DEF IsBlock, RateBlock
    <2>. QED
      BY <2>1 DEF BlockIn, LaneOf
  <1>. QED
    BY <1>2, <1>3, <1>4

(* A lane on offer is the one of the block that follows the accepted ones.           *)
LEMMA LaneOnOffer ==
    ASSUME NEW in, NEW r, FsmIInv, JobParts(in, r), state # "IDLE" => IsBlock(in)
    PROVE  din_valid_reg = 1 => <<rdata_b, rdata_a>> \in InLane
  <1>. SUFFICES ASSUME din_valid_reg = 1 PROVE <<rdata_b, rdata_a>> \in InLane
    OBVIOUS
  <1>1. FsmTypes /\ Loading /\ Loaded /\ CoreIInv /\ BufferCount
    BY LanesInBuffer DEF FsmIInv
  <1>2. state = "WRITE"
    BY <1>1, RateFits, SMT DEF FsmTypes, States, Loading, Loaded, BufferCount
  <1>3. Len(words) \in 0 .. RateLanes - 1
    BY <1>1, <1>2, RateFits, SMT DEF FsmTypes, Loading, BufferCount, RATE_BYTES
  <1>4. <<rdata_b, rdata_a>> = LaneOf(in, Len(words))
    BY <1>2 DEF JobParts, FeedingJob
  <1>. QED
    BY <1>2, <1>3, <1>4, BlockTyped


(* What the buffer accepts is what the RAM read.                                    *)
LEMMA WordsEdge ==
    ASSUME FsmIInv, NEW start, NEW r, NEW cpu, WrapperClock(start, r, cpu),
           din_valid_reg = 1 => <<rdata_b, rdata_a>> \in InLane,
           state \in {"IDLE", "WRITE"}, buffer_full = 0
    PROVE  /\ words \in Seq(InLane) /\ Len(words) \in Nat
           /\ din_valid_reg = 1 => words' = Append(words, <<rdata_b, rdata_a>>)
           /\ din_valid_reg = 0 => words' = words
  <1>1. /\ CoreIInv /\ FsmTypes /\ Loading
        /\ FsmClock(start, r, rdata_b, rdata_a)
    BY DEF FsmIInv, WrapperClock
  <1>2. mode = 0 /\ last_block_s = 0 /\ start_hash \in Bit /\ din_valid_reg \in Bit
    BY <1>1 DEF Loading, FsmTypes, Bit
  <1>3. words \in Seq(InLane) /\ Len(words) \in Nat
    BY <1>1, LanesInBuffer, SMT DEF BufferCount
  <1>4. CASE din_valid_reg = 1
    <2>1. <<rdata_b, rdata_a>> \in InLane
      BY <1>4
    <2>2. Clock(start_hash, <<rdata_b, rdata_a>>, din_valid_reg, 0)
      BY <1>1, <1>2 DEF FsmClock
    <2>3. words' = Append(words, <<rdata_b, rdata_a>>)
      BY <1>1, <1>2, <1>4, <2>1, <2>2, BufferTakesLane
    <2>. QED
      BY <1>3, <1>4, <2>1, <2>3
  <1>5. CASE din_valid_reg = 0
    <2>1. PICK din \in InLane : Clock(start_hash, din, din_valid_reg, last_block_s)
      BY <1>1, <1>5, CoreClocked
    <2>2. words' = words
      BY <1>1, <1>2, <1>5, <2>1, BufferTakesLane
    <2>. QED
      BY <1>3, <1>5, <2>2
  <1>. QED
    BY <1>2, <1>4, <1>5 DEF Bit

(* Both halves of a lane come from the RAM in one cycle.                            *)
LEMMA LaneRead ==
    ASSUME NEW r, NEW cpu, WrapperClock(1, r, cpu), state = "WRITE",
           NEW l \in 0 .. RateLanes - 1, addr_s = 2 * l
    PROVE  rdata_b' = mem[2 * l] /\ rdata_a' = mem[2 * l + 1]
  <1>1. /\ rdata_b' = Ram!Output(mem_port_a, rdata_b)
        /\ rdata_a' = Ram!Output(mem_port_b, rdata_a)
    BY DEF WrapperClock, Ram!Clock, PortA
  <1>2. /\ mem_port_a.en = 1 /\ mem_port_b.en = 1
        /\ mem_port_a.addr = addr_s + 0 /\ mem_port_b.addr = addr_s + 1
    BY SMT DEF mem_port_a, mem_port_b, mem_port, mem_en
  <1>3. 2 * l \in Ram!Addr /\ 2 * l + 1 \in Ram!Addr /\ 2 * l + 0 = 2 * l
    BY WrapperAssumption, CoreAssumption, SMT DEF Ram!Addr
  <1>. QED
    BY <1>1, <1>2, <1>3 DEF Ram!Output

(* A full buffer holds the block that lies in the memory.                           *)
LEMMA FullBufferIsInput ==
    ASSUME NEW in, CoreIInv, buffer_full = 1,
           \A k \in 1 .. Len(words) : words[k] = LaneOf(in, k - 1)
    PROVE  buffer_data = BlockIn(in)
  <1>1. /\ Len(words) = RateLanes
        /\ buffer_data \in [0 .. RateLanes - 1 -> Lane]
        /\ \A k \in 1 .. Len(words) : buffer_data[RateLanes - Len(words) + k - 1] = words[k]
    BY DEF CoreIInv, BufP!IInv, BufP!TypeOK, BufP!Block, BufP!Lanes, BufP!FullMeansBlock,
           BufP!BlockInOrder
  <1>2. ASSUME NEW l \in 0 .. RateLanes - 1
        PROVE  buffer_data[l] = LaneOf(in, l)
    <2>1. /\ l + 1 \in 1 .. Len(words)
          /\ RateLanes - Len(words) + (l + 1) - 1 = l /\ (l + 1) - 1 = l
      BY <1>1, RateFits, SMT
    <2>2. /\ buffer_data[RateLanes - Len(words) + (l + 1) - 1] = words[l + 1]
          /\ words[l + 1] = LaneOf(in, (l + 1) - 1)
      BY <1>1, <2>1
    <2>. QED
      BY <2>1, <2>2
  <1>. QED
    BY <1>1, <1>2 DEF BlockIn, LaneOf

LEMMA PairAppended ==
    ASSUME NEW S, NEW x \in S, NEW y \in S
    PROVE  <<x, y>> = Append(<<x>>, y)
  BY SMT

LEMMA PairOfSequence ==
    ASSUME NEW S, NEW s \in Seq(S), Len(s) = 2, NEW x \in S, NEW y \in S,
           s[1] = x, s[2] = y
    PROVE  s = Append(<<x>>, y)
  <1>1. /\ <<x, y>> \in Seq(S) /\ Len(<<x, y>>) = 2
        /\ <<x, y>>[1] = x /\ <<x, y>>[2] = y
    BY SMT
  <1>2. ASSUME NEW k \in 1 .. Len(s) PROVE s[k] = <<x, y>>[k]
    <2>1. k = 1 \/ k = 2
      BY SMT
    <2>. QED
      BY <1>1, <2>1
  <1>3. s = <<x, y>>
    BY <1>1, <1>2, SeqEqual
  <1>4. Append(<<x>>, y) = <<x, y>>
    BY PairAppended
  <1>. QED
    BY <1>3, <1>4

(* The state register, once finished, is the hash of the block.                     *)
LEMMA RegisterIsPermuted ==
    ASSUME NEW in, FsmIInv, state \in {"WAIT_HASH", "READ", "DONE"}, blocks[1] = BlockIn(in),
           permutation_computed = 1
    PROVE  reg_data = Permuted(in)
  <1>. DEFINE first == [absorb |-> NoBlock, rounds |-> <<>>]
              second == [absorb |-> BlockIn(in), rounds |-> AllRounds]
  <1>1. /\ CoreTypes /\ RoundSchedule /\ AbsorbedInOrder
        /\ buffer_full = 0 /\ Len(blocks) = 1
    BY DEF FsmIInv, CoreIInv, Loaded
  <1>2. reg_data \in Seq(Permutation) /\ Len(reg_data) = 2
    BY <1>1, SMT DEF CoreTypes, AbsorbedInOrder
  <1>3. /\ reg_data[1].absorb = NoBlock /\ reg_data[1].rounds = <<>>
        /\ reg_data[2].absorb = BlockIn(in) /\ reg_data[2].rounds = AllRounds
    <2>1. 2 \in 2 .. Len(reg_data) /\ Len(reg_data) > 1 /\ 2 - 1 = 1
      BY <1>2, SMT
    <2>. QED
      BY <1>1, <1>2, <2>1 DEF AbsorbedInOrder, RoundSchedule
  <1>4. reg_data[1] \in Permutation /\ reg_data[2] \in Permutation
    <2>1. 1 \in 1 .. Len(reg_data) /\ 2 \in 1 .. Len(reg_data)
      BY <1>2, SMT
    <2>. QED
      BY <1>2, <2>1, ElementOfSeq
  <1>5. reg_data[1] = first /\ reg_data[2] = second
    BY <1>3, <1>4 DEF Permutation
  <1>. QED
    BY <1>2, <1>4, <1>5, PairOfSequence DEF Permuted, ZeroState

-----------------------------------------------------------------------------------
(* The steps of a job.                                                              *)
JobRuns(in, r) ==
    /\ FsmIInv
    /\ JobParts(in, r)
    /\ state # "IDLE" => IsBlock(in)

LEMMA JobFacts ==
    ASSUME NEW in, NEW r, NEW start, NEW length, NEW cpu, JobRuns(in, r),
           WrapperClock(start, length, cpu)
    PROVE  /\ CoreIInv /\ FsmTypes /\ Loading /\ Loaded /\ FsmIInv'
           /\ FsmTypes' /\ Loading' /\ Loaded' /\ CoreIInv' /\ BufferCount /\ BufferCount'
           /\ FsmClock(start, length, rdata_b, rdata_a)
           /\ din_valid_reg = 1 => <<rdata_b, rdata_a>> \in InLane
           /\ \E din \in InLane : Clock(start_hash, din, din_valid_reg, last_block_s)
  <1>1. /\ FsmIInv /\ CoreIInv /\ FsmTypes /\ Loading /\ Loaded
        /\ FsmClock(start, length, rdata_b, rdata_a)
    BY DEF JobRuns, FsmIInv, WrapperClock
  <1>2. din_valid_reg = 1 => <<rdata_b, rdata_a>> \in InLane
    BY LaneOnOffer DEF JobRuns
  <1>3. FsmIInv'
    BY <1>1, <1>2, FsmClockIInv
  <1>4. FsmTypes' /\ Loading' /\ Loaded' /\ CoreIInv'
    BY <1>3 DEF FsmIInv
  <1>5. BufferCount /\ BufferCount'
    BY <1>1, <1>4, LanesInBuffer, PTL
  <1>6. \E din \in InLane : Clock(start_hash, din, din_valid_reg, last_block_s)
    BY <1>1, <1>2, CoreClocked
  <1>. QED
    BY <1>1, <1>2, <1>3, <1>4, <1>5, <1>6

(* In IDLE the CPU may write; nothing is on its way, and what the memory holds after *)
(* the edge is the block of a job.                                                   *)
LEMMA IdleStep ==
    ASSUME NEW in, NEW r, NEW start \in {0, 1}, NEW length, NEW cpu, JobRuns(in, r),
           WrapperClock(start, length, cpu), state = "IDLE",
           NEW next, next = mem', NEW later
    PROVE  /\ JobParts(next, later)'
           /\ mem' = IF start = 1 THEN mem ELSE Ram!Stored(mem, cpu)
           /\ state' = IF start = 1 THEN "WRITE" ELSE "IDLE"
           /\ done = 0 /\ done' = 0
  <1>1. /\ FsmIInv /\ FsmTypes /\ Loading /\ BufferCount
        /\ FsmClock(start, length, rdata_b, rdata_a)
        /\ din_valid_reg = 1 => <<rdata_b, rdata_a>> \in InLane
    BY JobFacts DEF JobRuns
  <1>2. /\ done = 0 /\ Len(words) = 0 /\ din_valid_s = 0 /\ din_valid_reg = 0
        /\ buffer_full = 0
    BY <1>1, RateFits, SMT DEF FsmTypes, Loading, BufferCount
  <1>3. /\ state' = IF start = 1 THEN "WRITE" ELSE "IDLE"
        /\ din_valid_s' = 0 /\ din_valid_reg' = 0 /\ done' = 0
    BY <1>1, <1>2, SMT DEF FsmClock, ControlClock, n_state, FeedsLane
  <1>4. Len(words') = 0
    BY <1>1, <1>2, WordsEdge
  <1>5. FeedingJob(next)'
    <2>1. 1 .. 0 = {}
      BY SMT
    <2>. QED
      BY <1>3, <1>4, <2>1 DEF FeedingJob
  <1>6. mem' = IF start = 1 THEN mem ELSE Ram!Stored(mem, cpu)
    BY MemoryEdge
  <1>. QED
    BY <1>2, <1>3, <1>5, <1>6 DEF JobParts, BlockOfJob, WaitingJob, ReturningJob

(* In WRITE, before the block is complete, each lane moves one place on.            *)
LEMMA WriteStep ==
    ASSUME NEW in, NEW r, NEW cpu, JobRuns(in, r), WrapperClock(1, r, cpu),
           state = "WRITE", buffer_full = 0
    PROVE  JobParts(in, r)' /\ mem' = mem /\ state' = "WRITE"
  <1>. DEFINE n == Len(words)
  <1>1. /\ FsmIInv /\ FsmTypes /\ FsmTypes' /\ Loading /\ BufferCount
        /\ FsmClock(1, r, rdata_b, rdata_a)
        /\ mem' = mem
        /\ din_valid_reg = 1 => <<rdata_b, rdata_a>> \in InLane
    BY JobFacts, MemoryEdge DEF JobRuns
  <1>2. /\ mem = in
        /\ \A k \in 1 .. n : words[k] = LaneOf(in, k - 1)
        /\ din_valid_reg = 1 => <<rdata_b, rdata_a>> = LaneOf(in, n)
        /\ din_valid_s = 1 => addr_s = 2 * (n + din_valid_reg)
    BY DEF JobRuns, JobParts, FeedingJob
  <1>3. /\ byte_cntr_s = 8 * (n + din_valid_s + din_valid_reg)
        /\ n + din_valid_s + din_valid_reg <= RateLanes
        /\ din_valid_s \in {0, 1} /\ din_valid_reg \in {0, 1}
        /\ n \in Nat /\ words \in Seq(InLane)
    BY <1>1, RateFits, SMT DEF Loading, FsmTypes, BufferCount, RATE_BYTES
  <1>4. /\ state' = "WRITE" /\ din_valid_reg' = din_valid_s
        /\ din_valid_s' = 1 => addr_s' = byte_cntr_s \div 4
    BY <1>1, SMT DEF FsmClock, ControlClock, n_state, FeedsLane, Transfers
  <1>5. /\ Len(words') = n + din_valid_reg
        /\ \A k \in 1 .. Len(words') : words'[k] = LaneOf(in, k - 1)
    <2>1. CASE din_valid_reg = 1
      <3>. DEFINE lane == <<rdata_b, rdata_a>>
      <3>1. lane \in InLane /\ words' = Append(words, lane) /\ lane = LaneOf(in, n)
        BY <1>1, <1>2, <2>1, WordsEdge
      <3>. HIDE DEF lane
      <3>2. /\ Len(words') = n + 1
            /\ \A k \in 1 .. n : words'[k] = words[k]
            /\ words'[n + 1] = lane
        BY <1>3, <3>1, SMT
      <3>3. ASSUME NEW k \in 1 .. Len(words')
            PROVE  words'[k] = LaneOf(in, k - 1)
        <4>1. CASE k = n + 1
          <5>1. k - 1 = n
            BY <1>3, <4>1, SMT
          <5>. QED
            BY <3>1, <3>2, <4>1, <5>1
        <4>2. CASE k # n + 1
          <5>1. k \in 1 .. n
            BY <1>3, <3>2, <4>2, SMT
          <5>. QED
            BY <1>2, <3>2, <5>1
        <4>. QED
          BY <4>1, <4>2
      <3>. QED
        BY <2>1, <3>2, <3>3
    <2>2. CASE din_valid_reg = 0
      <3>1. words' = words
        BY <1>1, <2>2, WordsEdge
      <3>. QED
        BY <1>2, <1>3, <2>2, <3>1, SMT
    <2>. QED
      BY <1>3, <2>1, <2>2
  <1>6. din_valid_reg' = 1 => <<rdata_b', rdata_a'>> = LaneOf(in, Len(words'))
    <2>. SUFFICES ASSUME din_valid_s = 1
                  PROVE  <<rdata_b', rdata_a'>> = LaneOf(in, n + din_valid_reg)
      BY <1>4, <1>5
    <2>1. n + din_valid_reg \in 0 .. RateLanes - 1
      BY <1>3, RateFits, SMT
    <2>2. addr_s = 2 * (n + din_valid_reg)
      BY <1>2
    <2>3. /\ rdata_b' = mem[2 * (n + din_valid_reg)]
          /\ rdata_a' = mem[2 * (n + din_valid_reg) + 1]
      BY <1>1, <2>1, <2>2, LaneRead
    <2>. QED
      BY <1>2, <2>3 DEF LaneOf
  <1>7. din_valid_s' = 1 => addr_s' = 2 * (Len(words') + din_valid_reg')
    <2>1. byte_cntr_s \div 4 = 2 * (n + din_valid_s + din_valid_reg)
      BY <1>3, SMT
    <2>2. Len(words') + din_valid_reg' = n + din_valid_s + din_valid_reg
      BY <1>3, <1>4, <1>5, SMT
    <2>. QED
      BY <1>4, <2>1, <2>2
  <1>8. FeedingJob(in)'
    BY <1>1, <1>2, <1>5, <1>6, <1>7 DEF FeedingJob, LaneOf
  <1>. QED
    BY <1>1, <1>4, <1>8 DEF JobParts, BlockOfJob, WaitingJob, ReturningJob

(* The complete block goes into the permutation, and stays in the register.         *)
LEMMA HandOverJobStep ==
    ASSUME NEW in, NEW r, NEW cpu, JobRuns(in, r), WrapperClock(1, r, cpu),
           state = "WRITE", buffer_full = 1
    PROVE  JobParts(in, r)' /\ mem' = mem /\ state' = "WAIT_HASH"
  <1>1. /\ FsmTypes /\ Loading /\ BufferCount /\ CoreIInv
        /\ FsmClock(1, r, rdata_b, rdata_a)
        /\ mem' = mem
    BY JobFacts, MemoryEdge
  <1>2. /\ mem = in
        /\ \A k \in 1 .. Len(words) : words[k] = LaneOf(in, k - 1)
    BY DEF JobRuns, JobParts, FeedingJob
  <1>3. /\ mode = 0 /\ last_block_s = 0 /\ permutation_computed = 1 /\ Len(blocks) = 1
        /\ start_hash = 0 /\ byte_cntr_s = RATE_BYTES /\ ~ FeedsLane
    BY <1>1, RateFits, SMT DEF Loading, FsmTypes, BufferCount, RATE_BYTES, FeedsLane
  <1>4. state' = "WAIT_HASH" /\ addr_s' = 0
    BY <1>1, <1>3, SMT DEF FsmClock, ControlClock, n_state, Transfers, StoresLane
  <1>5. PICK din \in InLane : Clock(start_hash, din, din_valid_reg, last_block_s)
    BY JobFacts
  <1>6. words' = <<>> /\ buffer_full' = 0 /\ buffer_data' = buffer_data
    BY <1>3, <1>5, BlockLeaves
  <1>7. mode' = 0
    BY <1>3, <1>5, SMT
    DEF Clock, Buf!Clock, Buf!HandOver, Buf!ShiftIn, Buf!KeepInput, Buf!LoadOutput,
        Buf!ShiftOut, Buf!EndOutput, Buf!EnterOutputMode
  <1>8. permutation_computed' = 0
    BY <1>3, <1>5, SMT DEF Clock, StateClock, StartHash, FirstRound, LaterRound, Absorbing
  <1>9. blocks' = blocks
    BY <1>3, <1>5, <1>6, SMT DEF Clock
  <1>10. buffer_data = BlockIn(in) /\ blocks[1] = buffer_data
    BY <1>1, <1>2, <1>3, FullBufferIsInput DEF CoreIInv, AbsorbedInOrder
  <1>11. buffer_data[0] = LaneOf(in, 0)
    <2>1. 0 \in 0 .. RateLanes - 1
      BY RateFits, SMT
    <2>. QED
      BY <1>10, <2>1 DEF BlockIn, LaneOf
  <1>12. WaitingJob(in)'
    BY <1>1, <1>2, <1>4, <1>6, <1>7, <1>8, <1>11 DEF WaitingJob, StaleLane, LaneOf
  <1>13. BlockOfJob(in)'
    BY <1>1, <1>9, <1>10 DEF BlockOfJob, BlockIn
  <1>. QED
    BY <1>1, <1>4, <1>12, <1>13 DEF JobParts, FeedingJob, ReturningJob

(* The edges of the core while the job waits: the register keeps the block, and     *)
(* output mode is entered on the edge on which the permutation is finished.         *)
LEMMA WaitStep ==
    ASSUME NEW in, NEW r, NEW cpu, JobRuns(in, r), WrapperClock(1, r, cpu),
           state = "WAIT_HASH"
    PROVE  /\ JobParts(in, r)' /\ mem' = mem
           /\ state' = IF permutation_computed = 1 THEN "READ" ELSE "WAIT_HASH"
           /\ count_out_words' = 0
  <1>1. /\ FsmTypes /\ Loaded /\ CoreIInv
        /\ FsmClock(1, r, rdata_b, rdata_a)
        /\ mem' = mem
    BY JobFacts, MemoryEdge
  <1>2. /\ mode = 0 /\ addr_s = 0 /\ mem = in /\ buffer_data[0] = LaneOf(in, 0)
        /\ permutation_computed = 1 => last_block_s = 1
        /\ blocks[1] = BlockIn(in)
    BY DEF JobRuns, JobParts, WaitingJob, StaleLane, BlockOfJob
  <1>3. /\ buffer_full = 0 /\ din_valid_reg = 0 /\ start_hash = 0 /\ count_out_words = 0
        /\ permutation_computed \in {0, 1}
    BY <1>1, <1>2, SMT DEF Loaded, FsmTypes, CoreIInv, CoreTypes, Bit, BufP!IInv, BufP!OutputPending
  <1>4. /\ state' = IF permutation_computed = 1 THEN "READ" ELSE "WAIT_HASH"
        /\ addr_s' = 0 /\ byte_cntr_s' = 8 /\ last_block_s' = 1
    BY <1>1, SMT DEF FsmClock, ControlClock, n_state, ready, LastBlock, Transfers, FeedsLane,
                     StoresLane
  <1>5. PICK din \in InLane : Clock(start_hash, din, din_valid_reg, last_block_s)
    BY JobFacts
  <1>6. /\ buffer_data' = buffer_data /\ count_out_words' = 0
        /\ buffer_full' = 0
        /\ mode' = IF last_block_s = 1 /\ permutation_computed = 1 THEN 1 ELSE 0
    BY <1>2, <1>3, <1>5, SMT
    DEF Clock, Buf!Clock, Buf!HandOver, Buf!ShiftIn, Buf!KeepInput, Buf!LoadOutput,
        Buf!ShiftOut, Buf!EndOutput, Buf!EnterOutputMode, ready
  <1>7. blocks' = blocks
    BY <1>3, <1>5, <1>6, SMT DEF Clock
  <1>8. permutation_computed = 1 => permutation_computed' = 1
    BY <1>1, <1>3, <1>5, ReadyStays DEF Clock, Bit
  <1>9. StaleLane(in)'
    BY <1>1, <1>2, <1>4, <1>6 DEF StaleLane, LaneOf
  <1>10. WaitingJob(in)' /\ ReturningJob(in, r)'
    BY <1>2, <1>3, <1>4, <1>6, <1>8, <1>9 DEF WaitingJob, ReturningJob
  <1>11. BlockOfJob(in)'
    BY <1>1, <1>2, <1>7 DEF BlockOfJob, BlockIn
  <1>. QED
    BY <1>1, <1>4, <1>6, <1>10, <1>11 DEF JobParts, FeedingJob

-----------------------------------------------------------------------------------
(* One cycle of READ writes both halves of a lane, in whatever order.               *)
LEMMA LaneWritten ==
    ASSUME NEW r, NEW cpu, WrapperClock(1, r, cpu), state = "READ",
           mem = [w \in Ram!Addr |-> mem[w]],
           NEW l \in 0 .. RateLanes - 1, addr_s = 2 * l,
           NEW lo, NEW hi, buffer_data[0] = <<lo, hi>>,
           lo = [b \in ByteLanes |-> lo[b]], hi = [b \in ByteLanes |-> hi[b]]
    PROVE  mem' = [w \in Ram!Addr |-> IF w = 2 * l THEN lo
                                      ELSE IF w = 2 * l + 1 THEN hi ELSE mem[w]]
  <1>1. \/ mem' = Ram!Stored(Ram!Stored(mem, mem_port_b), mem_port_a)
        \/ mem' = Ram!Stored(Ram!Stored(mem, mem_port_a), mem_port_b)
    BY DEF WrapperClock, Ram!Clock, PortA
  <1>2. /\ mem_port_a.en = 1 /\ mem_port_b.en = 1 /\ mem_port_a.we = 1 /\ mem_port_b.we = 1
        /\ mem_port_a.addr = addr_s + 0 /\ mem_port_b.addr = addr_s + 1
        /\ mem_port_a.be = ByteLanes /\ mem_port_b.be = ByteLanes
        /\ mem_port_a.wdata = Buf!dout[0 + 1] /\ mem_port_b.wdata = Buf!dout[1 + 1]
    BY SMT DEF mem_port_a, mem_port_b, mem_port, mem_en, mem_we
  <1>3. /\ 2 * l \in Ram!Addr /\ 2 * l + 1 \in Ram!Addr /\ 2 * l + 0 = 2 * l
        /\ 2 * l # 2 * l + 1 /\ 0 + 1 = 1 /\ 1 + 1 = 2
    BY WrapperAssumption, CoreAssumption, SMT DEF Ram!Addr
  <1>4. mem_port_a.wdata = lo /\ mem_port_b.wdata = hi
    BY <1>2, <1>3 DEF Buf!dout
  <1>5. ASSUME NEW m, m = [w \in Ram!Addr |-> m[w]]
        PROVE  /\ Ram!Stored(m, mem_port_a) = [m EXCEPT ![2 * l] = lo]
               /\ Ram!Stored(m, mem_port_b) = [m EXCEPT ![2 * l + 1] = hi]
    <2>1. /\ lo = [b \in ByteLanes |-> IF b \in ByteLanes THEN lo[b] ELSE m[2 * l][b]]
          /\ hi = [b \in ByteLanes |-> IF b \in ByteLanes THEN hi[b] ELSE m[2 * l + 1][b]]
      OBVIOUS
    <2>. QED
      BY <1>2, <1>3, <1>4, <2>1 DEF Ram!Stored
  <1>. DEFINE ma == [mem EXCEPT ![2 * l] = lo]
              mb == [mem EXCEPT ![2 * l + 1] = hi]
  <1>6. ma = [w \in Ram!Addr |-> ma[w]] /\ mb = [w \in Ram!Addr |-> mb[w]]
    OBVIOUS
  <1>7. Ram!Stored(mem, mem_port_a) = ma /\ Ram!Stored(mem, mem_port_b) = mb
    BY <1>5
  <1>8. mem' = [mb EXCEPT ![2 * l] = lo] \/ mem' = [ma EXCEPT ![2 * l + 1] = hi]
    BY <1>1, <1>5, <1>6, <1>7
  <1>. QED
    BY <1>3, <1>8

(* LanesFor is the number of the lane in transfer when the byte counter reaches the *)
(* length.                                                                          *)
LEMMA LanesForIs ==
    ASSUME NEW c \in Nat, NEW r \in Nat, 8 < r, 8 * (c - 1) < r, r <= 8 * c
    PROVE  LanesFor(r) = c
  BY SMT DEF LanesFor

LEMMA LanesForNone ==
    ASSUME NEW r \in Nat, r <= 8
    PROVE  LanesFor(r) = 0
  BY SMT DEF LanesFor

(* A lane of a state is two words of all bytes.                                     *)
LEMMA WordOfState ==
    ASSUME NEW w, NEW s
    PROVE  StateWord(w, s) = [b \in ByteLanes |-> StateWord(w, s)[b]]
  BY DEF StateWord

(* READ: the first cycle writes the stale lane to its own place and loads the       *)
(* output; each later one writes the lane that is shown and moves to the next, or   *)
(* ends the job when the length is reached.                                         *)
LEMMA ReadFirstStep ==
    ASSUME NEW in, NEW r, NEW cpu, JobRuns(in, r), WrapperClock(1, r, cpu),
           state = "READ", count_out_words = 0, r \in 0 .. 63
    PROVE  /\ ReturningJob(in, r)' /\ ReturnedJob(in, r)'
           /\ mem' = mem /\ count_out_words' = 1
           /\ state' = IF r <= 8 THEN "DONE" ELSE "READ"
           /\ r <= 8 => LanesFor(r) = 0
  <1>1. /\ FsmTypes /\ CoreIInv /\ FsmIInv
        /\ FsmClock(1, r, rdata_b, rdata_a)
        /\ IsBlock(in)
    BY JobFacts DEF JobRuns
  <1>2. /\ mode = 1 /\ byte_cntr_s = 8 /\ permutation_computed = 1
        /\ addr_s = 0 /\ mem = in /\ buffer_data[0] = LaneOf(in, 0)
        /\ blocks[1] = BlockIn(in)
    BY DEF JobRuns, JobParts, ReturningJob, StaleLane, BlockOfJob
  <1>3. dout_valid = 0
    BY <1>1 DEF CoreIInv, BufP!IInv, BufP!OutputPending
  <1>4. mem' = in
    <2>1. /\ 0 \in 0 .. RateLanes - 1 /\ 2 * 0 = 0 /\ 2 * 0 + 1 = 1
          /\ 0 \in Ram!Addr /\ 1 \in Ram!Addr
      BY WrapperAssumption, RateFits, SMT DEF Ram!Addr
    <2>2. /\ mem = [w \in Ram!Addr |-> mem[w]]
          /\ buffer_data[0] = <<mem[0], mem[1]>>
      BY <1>1, <1>2, <2>1, BlockTyped DEF LaneOf
    <2>3. /\ mem[0] = [b \in ByteLanes |-> mem[0][b]]
          /\ mem[1] = [b \in ByteLanes |-> mem[1][b]]
      BY <1>1, <1>2, <2>1, BlockTyped
    <2>4. PICK l \in 0 .. RateLanes - 1 : l = 0
      BY <2>1
    <2>5. PICK lo, hi : lo = mem[0] /\ hi = mem[1]
      OBVIOUS
    <2>6. mem' = [w \in Ram!Addr |-> IF w = 2 * l THEN lo
                                     ELSE IF w = 2 * l + 1 THEN hi ELSE mem[w]]
      <3>1. addr_s = 2 * l
        BY <1>2, <2>4, SMT
      <3>2. /\ buffer_data[0] = <<lo, hi>>
            /\ lo = [b \in ByteLanes |-> lo[b]] /\ hi = [b \in ByteLanes |-> hi[b]]
        BY <2>2, <2>3, <2>4, <2>5
      <3>. QED
        BY <1>1, <2>2, <3>1, <3>2, LaneWritten
    <2>7. \A w \in Ram!Addr : (IF w = 2 * l THEN lo
                               ELSE IF w = 2 * l + 1 THEN hi ELSE mem[w]) = mem[w]
      BY <2>1, <2>4, <2>5
    <2>8. mem' = [w \in Ram!Addr |-> mem[w]]
      BY <2>6, <2>7
    <2>. QED
      BY <1>2, <2>2, <2>8
  <1>5. PICK din \in InLane : Clock(start_hash, din, din_valid_reg, last_block_s)
    BY JobFacts
  <1>6. /\ count_out_words' = 1 /\ mode' = 1 /\ captured' = reg_data_vector
    BY <1>2, <1>5, SMT
    DEF Clock, Buf!Clock, Buf!HandOver, Buf!ShiftIn, Buf!KeepInput, Buf!LoadOutput,
        Buf!ShiftOut, Buf!EndOutput
  <1>7. captured' = [k \in 0 .. OutLanes - 1 |-> StateLane(k, Permuted(in))]
    BY <1>1, <1>2, <1>6, RegisterIsPermuted DEF reg_data_vector
  <1>8. /\ state' = IF byte_cntr_s >= r THEN "DONE" ELSE "READ"
        /\ byte_cntr_s' = 8 /\ addr_s' = 0
    BY <1>1, <1>2, <1>3, SMT DEF FsmClock, ControlClock, n_state, HashReturned, Transfers,
                                 FeedsLane, StoresLane
  <1>9. Delivered(in, 0) = in
    <2>1. ASSUME NEW w \in Ram!Addr PROVE ~ (w < 2 * 0)
      BY <2>1, WrapperAssumption, RateFits, SMT DEF Ram!Addr
    <2>. QED
      BY <1>1, <2>1, BlockTyped DEF Delivered
  <1>10. CASE byte_cntr_s >= r
    <2>1. r \in Nat /\ r <= 8
      BY <1>2, <1>10, SMT
    <2>2. LanesFor(r) = 0
      BY <2>1, LanesForNone
    <2>3. ReturnedJob(in, r)'
      BY <1>4, <1>9, <2>2 DEF ReturnedJob
    <2>4. state' = "DONE"
      BY <1>8, <1>10
    <2>. QED
      BY <1>2, <1>4, <1>6, <2>1, <2>2, <2>3, <2>4 DEF ReturningJob
  <1>11. CASE ~ (byte_cntr_s >= r)
    <2>1. 8 < r /\ 0 < r /\ ~ (r <= 8)
      BY <1>2, <1>11, SMT
    <2>2. state' = "READ" /\ 8 * 1 = 8 /\ 2 * (1 - 1) = 0 /\ 8 * (1 - 1) = 0 /\ 1 - 1 = 0
      BY <1>8, <1>11, SMT
    <2>3. ReturningJob(in, r)'
      BY <1>4, <1>6, <1>7, <1>8, <1>9, <2>1, <2>2 DEF ReturningJob
    <2>. QED
      BY <1>2, <1>4, <1>6, <2>1, <2>2, <2>3 DEF ReturnedJob
  <1>. QED
    BY <1>10, <1>11

LEMMA ReadNextStep ==
    ASSUME NEW in, NEW r, NEW cpu, JobRuns(in, r), WrapperClock(1, r, cpu),
           state = "READ", count_out_words # 0, r \in 0 .. 63, r <= 8 * OutLanes
    PROVE  /\ ReturningJob(in, r)' /\ ReturnedJob(in, r)'
           /\ mem' = Delivered(in, count_out_words)
           /\ count_out_words \in 1 .. OutLanes
           /\ state' = IF r <= 8 * count_out_words THEN "DONE" ELSE "READ"
           /\ IF r <= 8 * count_out_words THEN LanesFor(r) = count_out_words
              ELSE count_out_words' = count_out_words + 1
  <1>. DEFINE c == count_out_words
  <1>1. /\ FsmTypes /\ CoreIInv
        /\ FsmClock(1, r, rdata_b, rdata_a)
    BY JobFacts
  <1>2. /\ mode = 1 /\ byte_cntr_s = 8 * c /\ addr_s = 2 * (c - 1)
        /\ captured = [k \in 0 .. OutLanes - 1 |-> StateLane(k, Permuted(in))]
        /\ mem = Delivered(in, c - 1) /\ 8 < r /\ 8 * (c - 1) < r
    BY DEF JobRuns, JobParts, ReturningJob
  <1>3. /\ dout_valid = 1 /\ c \in 1 .. OutLanes /\ OutLanes \in 1 .. RateLanes
        /\ buffer_data[0] = captured[c - 1]
    <2>1. c \in 0 .. OutLanes /\ OutLanes \in 1 .. RateLanes
      BY <1>1, CoreAssumption DEF CoreIInv, BufP!IInv, BufP!TypeOK
    <2>2. c \in 1 .. OutLanes /\ 0 \in 0 .. OutLanes - c /\ 0 + c - 1 = c - 1
      BY <2>1, CoreAssumption, SMT
    <2>3. dout_valid = 1 /\ buffer_data[0] = captured[0 + c - 1]
      BY <1>1, <2>2 DEF CoreIInv, BufP!IInv, BufP!OutputPending
    <2>. QED
      BY <2>1, <2>2, <2>3
  <1>4. mem' = Delivered(in, c)
    <2>1. PICK l \in 0 .. RateLanes - 1 : l = c - 1 /\ addr_s = 2 * l
      BY <1>2, <1>3, CoreAssumption, SMT
    <2>2. PICK lo, hi : lo = HashWord(2 * l, in) /\ hi = HashWord(2 * l + 1, in)
      OBVIOUS
    <2>3. buffer_data[0] = <<lo, hi>>
      <3>1. l \in 0 .. OutLanes - 1
        BY <1>3, <2>1, CoreAssumption, SMT
      <3>. QED
        BY <1>2, <1>3, <2>1, <2>2, <3>1 DEF StateLane, HashWord
    <2>4. lo = [b \in ByteLanes |-> lo[b]] /\ hi = [b \in ByteLanes |-> hi[b]]
      BY <2>2, WordOfState DEF HashWord
    <2>5. mem = [w \in Ram!Addr |-> mem[w]]
      BY <1>2 DEF Delivered
    <2>6. mem' = [w \in Ram!Addr |-> IF w = 2 * l THEN lo
                                     ELSE IF w = 2 * l + 1 THEN hi ELSE mem[w]]
      BY <1>1, <2>1, <2>3, <2>4, <2>5, LaneWritten
    <2>7. ASSUME NEW w \in Ram!Addr
          PROVE  (IF w = 2 * l THEN lo ELSE IF w = 2 * l + 1 THEN hi ELSE mem[w])
                   = Delivered(in, c)[w]
      <3>1. w \in Int /\ c = l + 1 /\ l \in Int
        BY <1>3, <2>1, WrapperAssumption, RateFits, SMT DEF Ram!Addr
      <3>2. Delivered(in, c)[w] = IF w < 2 * c THEN HashWord(w, in) ELSE in[w]
        BY DEF Delivered
      <3>3. mem[w] = IF w < 2 * l THEN HashWord(w, in) ELSE in[w]
        BY <1>2, <2>1 DEF Delivered
      <3>4. CASE w = 2 * l
        BY <2>2, <3>1, <3>2, <3>4, SMT
      <3>5. CASE w = 2 * l + 1
        <4>1. w # 2 * l /\ w < 2 * c
          BY <3>1, <3>5, SMT
        <4>. QED
          BY <2>2, <3>2, <3>5, <4>1
      <3>6. CASE w # 2 * l /\ w # 2 * l + 1
        <4>1. (w < 2 * c) <=> (w < 2 * l)
          BY <3>1, <3>6, SMT
        <4>. QED
          BY <3>2, <3>3, <3>6, <4>1
      <3>. QED
        BY <3>4, <3>5, <3>6
    <2>8. mem' = [w \in Ram!Addr |-> Delivered(in, c)[w]]
      BY <2>6, <2>7
    <2>. QED
      BY <2>8 DEF Delivered
  <1>5. PICK din \in InLane : Clock(start_hash, din, din_valid_reg, last_block_s)
    BY JobFacts
  <1>6. state' = IF byte_cntr_s >= r THEN "DONE" ELSE "READ"
    BY <1>1, SMT DEF FsmClock, n_state, HashReturned
  <1>7. CASE byte_cntr_s >= r
    <2>1. LanesFor(r) = c /\ r <= 8 * c
      BY <1>1, <1>2, <1>3, <1>7, CoreAssumption, LanesForIs, SMT
    <2>2. ReturnedJob(in, r)'
      BY <1>4, <2>1 DEF ReturnedJob
    <2>3. state' = "DONE"
      BY <1>6, <1>7
    <2>. QED
      BY <1>3, <1>4, <2>1, <2>2, <2>3 DEF ReturningJob
  <1>8. CASE ~ (byte_cntr_s >= r)
    <2>1. 8 * c < r /\ c < OutLanes /\ ~ (r <= 8 * c)
      BY <1>1, <1>2, <1>3, <1>8, CoreAssumption, SMT
    <2>2. /\ count_out_words' = c + 1 /\ mode' = 1 /\ captured' = captured
      BY <1>2, <1>3, <1>5, <2>1, CoreAssumption, SMT
      DEF Clock, Buf!Clock, Buf!HandOver, Buf!ShiftIn, Buf!KeepInput, Buf!LoadOutput,
          Buf!ShiftOut, Buf!EndOutput, Buf!OutputComplete
    <2>3. byte_cntr_s' = (byte_cntr_s + 8) % 2^8 /\ addr_s' = byte_cntr_s \div 4
      BY <1>1, <1>2, <1>3, <2>1, SMT DEF FsmClock, ControlClock, Transfers, StoresLane
    <2>4. byte_cntr_s' = 8 * (c + 1) /\ addr_s' = 2 * c
      <3>1. ASSUME NEW n \in Nat, 8 * n < 64
            PROVE  (8 * n + 8) % 256 = 8 * (n + 1) /\ (8 * n) \div 4 = 2 * n
        BY <3>1, SMT
      <3>2. c \in Nat /\ 8 * c < 64 /\ 2^8 = 256
        BY <1>1, <1>3, <2>1, CoreAssumption, SMT
      <3>. QED
        BY <1>2, <2>3, <3>1, <3>2
    <2>5. /\ count_out_words' # 0 /\ count_out_words' - 1 = c
          /\ byte_cntr_s' = 8 * count_out_words' /\ addr_s' = 2 * (count_out_words' - 1)
          /\ 8 < r /\ 8 * (count_out_words' - 1) < r
      BY <1>1, <1>2, <1>3, <2>1, <2>2, <2>4, CoreAssumption, SMT
    <2>6. mem' = Delivered(in, count_out_words' - 1)
      BY <1>4, <2>5
    <2>7. captured' = [k \in 0 .. OutLanes - 1 |-> StateLane(k, Permuted(in))]
      BY <1>2, <2>2
    <2>8. ReturningJob(in, r)'
      BY <2>2, <2>5, <2>6, <2>7 DEF ReturningJob
    <2>9. state' = "READ"
      BY <1>6, <1>8
    <2>. QED
      BY <1>3, <1>4, <2>1, <2>2, <2>8, <2>9 DEF ReturnedJob
  <1>. QED
    BY <1>7, <1>8

LEMMA ReadStep ==
    ASSUME NEW in, NEW r \in 0 .. 63, r <= 8 * OutLanes, NEW cpu, JobRuns(in, r),
           WrapperClock(1, r, cpu), state = "READ"
    PROVE  JobParts(in, r)' /\ ReturnedJob(in, r)' /\ state' \in {"READ", "DONE"}
  <1>1. /\ FsmTypes /\ Loaded /\ Loaded' /\ blocks[1] = BlockIn(in)
    BY JobFacts DEF JobRuns, JobParts, BlockOfJob
  <1>2. ReturningJob(in, r)' /\ ReturnedJob(in, r)' /\ state' \in {"READ", "DONE"}
    BY ReadFirstStep, ReadNextStep
  <1>3. PICK din \in InLane : Clock(start_hash, din, din_valid_reg, last_block_s)
    BY JobFacts
  <1>4. start_hash = 0 /\ buffer_full' = 0
    BY <1>1, <1>2, SMT DEF FsmTypes, Loaded
  <1>5. blocks' = blocks
    BY <1>3, <1>4, SMT DEF Clock
  <1>6. BlockOfJob(in)'
    BY <1>1, <1>5 DEF BlockOfJob
  <1>. QED
    BY <1>2, <1>6 DEF JobParts, FeedingJob, WaitingJob

(* One edge of the wrapper while a job runs, whatever the CPU side asks for.         *)
LEMMA RunningStep ==
    ASSUME NEW in, NEW r \in 0 .. 63, r <= 8 * OutLanes, NEW cpu, JobRuns(in, r),
           WrapperClock(1, r, cpu), state \in {"WRITE", "WAIT_HASH", "READ"}
    PROVE  /\ JobRuns(in, r)' /\ ReturnedJob(in, r)'
           /\ state # "READ" => mem' = mem
           /\ state' # "IDLE" /\ done = 0 /\ done' = 0
  <1>1. /\ FsmIInv' /\ FsmTypes /\ CoreIInv /\ FsmClock(1, r, rdata_b, rdata_a)
        /\ IsBlock(in)
    BY JobFacts DEF JobRuns
  <1>2. buffer_full \in {0, 1}
    BY <1>1 DEF CoreIInv, BufP!IInv, BufP!TypeOK, BufP!Bit
  <1>3. done = 0 /\ done' = 0
    BY <1>1, SMT DEF FsmTypes, FsmClock
  <1>4. CASE state = "WRITE"
    <2>1. JobParts(in, r)' /\ state' \in {"WRITE", "WAIT_HASH"}
      BY <1>2, <1>4, WriteStep, HandOverJobStep
    <2>. QED
      BY <1>1, <1>3, <1>4, <2>1, MemoryEdge DEF JobRuns, ReturnedJob
  <1>5. CASE state = "WAIT_HASH"
    <2>1. JobParts(in, r)' /\ state' \in {"WAIT_HASH", "READ"}
      BY <1>5, WaitStep
    <2>. QED
      BY <1>1, <1>3, <1>5, <2>1, MemoryEdge DEF JobRuns, ReturnedJob
  <1>6. CASE state = "READ"
    BY <1>1, <1>3, <1>6, ReadStep DEF JobRuns
  <1>. QED
    BY <1>4, <1>5, <1>6

(* In DONE the FSM touches nothing.                                                  *)
LEMMA DoneStep ==
    ASSUME NEW in, NEW r, NEW start, NEW length, NEW cpu, JobRuns(in, r),
           WrapperClock(start, length, cpu), state = "DONE", NEW later
    PROVE  /\ JobRuns(in, later)' /\ state' = "DONE" /\ done' = 1
           /\ mem' = IF start = 1 THEN mem ELSE Ram!Stored(mem, cpu)
  <1>1. FsmIInv' /\ FsmTypes /\ FsmClock(start, length, rdata_b, rdata_a) /\ IsBlock(in)
    BY JobFacts DEF JobRuns
  <1>2. state' = "DONE" /\ done' = 1
    BY <1>1, SMT DEF FsmClock, n_state
  <1>3. JobParts(in, later)'
    BY <1>2 DEF JobParts, FeedingJob, BlockOfJob, WaitingJob, ReturningJob
  <1>. QED
    BY <1>1, <1>2, <1>3, MemoryEdge DEF JobRuns

LEMMA InitJob ==
    ASSUME FsmInit, NEW in, NEW r, in = mem
    PROVE  JobRuns(in, r)
  <1>1. FsmIInv
    BY InitFsmIInv
  <1>2. /\ state = "IDLE" /\ words = <<>> /\ din_valid_s = 0 /\ din_valid_reg = 0
    BY DEF FsmInit, Init, Buf!Init
  <1>3. Len(words) = 0 /\ 1 .. 0 = {}
    BY <1>2, SMT
  <1>. QED
    BY <1>1, <1>2, <1>3
    DEF JobRuns, JobParts, FeedingJob, BlockOfJob, WaitingJob, ReturningJob

LEMMA FsmUnchanged ==
    ASSUME FsmIInv, UNCHANGED accelVars
    PROVE  FsmIInv'
  <1>1. UNCHANGED coreVars /\ UNCHANGED fsmRegs
    BY DEF accelVars
  <1>2. /\ UNCHANGED <<mode, buffer_full, words, permutation_computed, blocks>>
        /\ UNCHANGED <<state, byte_cntr_s, din_valid_s, din_valid_reg, start_hash,
                       last_block_s, done>>
    BY <1>1 DEF coreVars, stateVars, Buf!bufVars, Buf!registers, fsmRegs
  <1>3. CoreIInv'
    BY <1>1, NextCoreIInv DEF FsmIInv
  <1>. QED
    BY <1>2, <1>3 DEF FsmIInv, FsmTypes, Loading, Loaded, States, RATE_BYTES

LEMMA WrapperUnchanged ==
    ASSUME UNCHANGED wrapperVars, NEW in, NEW r, JobRuns(in, r)
    PROVE  JobRuns(in, r)' /\ (ReturnedJob(in, r) => ReturnedJob(in, r)')
  <1>1. UNCHANGED accelVars /\ UNCHANGED <<mem, rdata_a, rdata_b>>
    BY DEF wrapperVars, Ram!ramVars
  <1>2. FsmIInv'
    BY <1>1, FsmUnchanged DEF JobRuns
  <1>3. /\ UNCHANGED <<mode, buffer_data, count_out_words, words, captured,
                       permutation_computed, blocks>>
        /\ UNCHANGED <<state, byte_cntr_s, addr_s, din_valid_s, din_valid_reg,
                       last_block_s, done>>
    BY <1>1 DEF accelVars, coreVars, stateVars, Buf!bufVars, Buf!registers, fsmRegs
  <1>4. FeedingJob(in)' /\ BlockOfJob(in)' /\ WaitingJob(in)' /\ ReturningJob(in, r)'
    <2>1. FeedingJob(in) /\ BlockOfJob(in) /\ WaitingJob(in) /\ ReturningJob(in, r)
      BY DEF JobRuns, JobParts
    <2>2. FeedingJob(in)' /\ BlockOfJob(in)'
      BY <1>1, <1>3, <2>1 DEF FeedingJob, BlockOfJob
    <2>3. WaitingJob(in)' /\ ReturningJob(in, r)'
      BY <1>1, <1>3, <2>1 DEF WaitingJob, ReturningJob, StaleLane
    <2>. QED
      BY <2>2, <2>3
  <1>. QED
    BY <1>1, <1>2, <1>3, <1>4 DEF JobRuns, JobParts, ReturnedJob
===================================================================================
