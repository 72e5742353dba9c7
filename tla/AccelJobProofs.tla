------------------------------ MODULE AccelJobProofs ------------------------------
(* One job of the accelerator, for every block, length, rate, output size and        *)
(* number of rounds: it takes the cycles that JobLatency says, and it implements     *)
(* ShakeJob.                                                                         *)
EXTENDS AccelJob, AccelWrapperProofs

(* What software set up, and that it does not take start back before done.           *)
JobSetUp ==
    /\ input \in InputBlocks /\ output_length_byte \in Lengths
    /\ start_int \in {0, 1}
    /\ state \in {"WRITE", "WAIT_HASH", "READ"} \/ (state = "DONE" /\ done = 0)
         => start_int = 1

(* Cycles of the job so far, state by state: a lane is counted into the buffer two   *)
(* cycles after its address went out.                                                *)
Write == cycles - 1
FeedingTime ==
    state = "WRITE" =>
        /\ Write \in 0 .. RateLanes + 2
        /\ din_valid_s = IF Write \in 1 .. RateLanes THEN 1 ELSE 0
        /\ din_valid_reg = IF Write \in 2 .. RateLanes + 1 THEN 1 ELSE 0
        /\ Len(words) = IF Write >= 2 THEN Write - 2 ELSE 0

Finished == RateLanes + Rounds + 5
JobTime ==
    /\ cycles \in Nat
    /\ state = "IDLE" => cycles = 0
    /\ FeedingTime
    /\ state = "WAIT_HASH" =>
         cycles = RateLanes + 3 + IF permutation_computed = 1 THEN Rounds
                                  ELSE counter_nr_rounds
    /\ state = "READ" => cycles = RateLanes + Rounds + 4 + count_out_words
    /\ state = "DONE" => cycles = Finished + LanesFor(output_length_byte) + done

JobIInv ==
    /\ JobSetUp
    /\ JobRuns(input, output_length_byte)
    /\ ReturnedJob(input, output_length_byte)
    /\ JobTime

-----------------------------------------------------------------------------------
LEMMA IdlePort ==
    ASSUME NEW m
    PROVE  Ram!Stored(m, Ram!Idle) = m
  BY PortQuiet DEF Ram!Idle

LEMMA JobInput ==
    JobSetUp => /\ IsBlock(input)
                /\ output_length_byte \in 0 .. 63 /\ output_length_byte <= 8 * OutLanes
  <1>1. \A r \in 0 .. 8 * OutLanes : r <= 8 * OutLanes
    BY CoreAssumption, SMT
  <1>. QED
    BY <1>1, JobAssumption DEF JobSetUp

(* Every tick is an edge of the wrapper whose CPU side is idle.                      *)
LEMMA TickFacts ==
    ASSUME JobIInv, Tick
    PROVE  /\ FsmTypes /\ state \in States /\ Loading /\ Loading' /\ BufferCount
           /\ FsmTypes' /\ CoreIInv /\ FsmIInv
           /\ FsmClock(start_int, output_length_byte, rdata_b, rdata_a)
           /\ \E din \in InLane : Clock(start_hash, din, din_valid_reg, last_block_s)
           /\ din_valid_reg = 1 => <<rdata_b, rdata_a>> \in InLane
  BY JobFacts DEF JobIInv, Tick, FsmTypes, JobRuns

(* The registers, the memory and the start bit.                                      *)
LEMMA TickRuns ==
    ASSUME JobIInv, Tick
    PROVE  /\ JobSetUp'
           /\ JobRuns(input, output_length_byte)'
           /\ ReturnedJob(input, output_length_byte)'
           /\ state # "READ" => mem' = mem
           /\ state = "IDLE" => state' \in {"IDLE", "WRITE"} /\ done = 0 /\ done' = 0
           /\ state \in {"WRITE", "WAIT_HASH", "READ"} =>
                state' # "IDLE" /\ done = 0 /\ done' = 0
           /\ state = "DONE" => state' = "DONE" /\ done' = 1
  <1>1. PICK in : in = input
    OBVIOUS
  <1>2. PICK r : r = output_length_byte
    OBVIOUS
  <1>3. /\ input' = in /\ output_length_byte' = r
        /\ r \in 0 .. 63 /\ r <= 8 * OutLanes /\ IsBlock(in)
        /\ JobRuns(in, r) /\ ReturnedJob(in, r)
        /\ WrapperClock(start_int, r, Ram!Idle) /\ start_int \in {0, 1}
    BY <1>1, <1>2, JobInput DEF JobIInv, JobSetUp, Tick
  <1>4. start_int' \in {0, 1}
    BY <1>3 DEF Tick, StartBit
  <1>5. state \in States /\ FsmTypes
    BY TickFacts
  <1>6. CASE state = "IDLE"
    <2>1. mem = in
      BY <1>3, <1>6 DEF JobRuns, JobParts, FeedingJob
    <2>2. mem' = mem
      BY <1>3, <1>6, IdlePort, MemoryEdge
    <2>3. /\ JobParts(in, r)' /\ done = 0 /\ done' = 0
          /\ state' = IF start_int = 1 THEN "WRITE" ELSE "IDLE"
      BY <1>3, <1>6, <2>1, <2>2, IdleStep
    <2>4. FsmIInv'
      BY <1>3, JobFacts
    <2>5. start_int = 1 => start_int' = 1
      BY <1>6, <2>3, SMT DEF Tick, StartBit
    <2>6. JobSetUp'
      BY <1>3, <1>4, <2>3, <2>5 DEF JobSetUp, JobIInv, Tick
    <2>7. JobRuns(in, r)' /\ ReturnedJob(in, r)'
      BY <1>3, <2>3, <2>4 DEF JobRuns, ReturnedJob
    <2>. QED
      BY <1>3, <1>6, <2>2, <2>3, <2>6, <2>7
  <1>7. CASE state \in {"WRITE", "WAIT_HASH", "READ"}
    <2>1. start_int = 1
      BY <1>7 DEF JobIInv, JobSetUp
    <2>2. /\ JobRuns(in, r)' /\ ReturnedJob(in, r)'
          /\ state # "READ" => mem' = mem
          /\ state' # "IDLE" /\ done = 0 /\ done' = 0
      BY <1>3, <1>7, <2>1, RunningStep
    <2>3. start_int' = 1
      BY <1>7, <2>1, <2>2, SMT DEF Tick, StartBit
    <2>4. JobSetUp'
      BY <1>3, <1>4, <2>3 DEF JobSetUp, JobIInv, Tick
    <2>. QED
      BY <1>3, <1>7, <2>2, <2>4
  <1>8. CASE state = "DONE"
    <2>1. JobRuns(in, r)' /\ state' = "DONE" /\ done' = 1 /\ mem' = mem
      BY <1>3, <1>8, DoneStep, IdlePort
    <2>2. ReturnedJob(in, r)'
      BY <1>3, <1>8, <2>1 DEF ReturnedJob
    <2>3. JobSetUp'
      BY <1>3, <1>4, <2>1 DEF JobSetUp, JobIInv, Tick
    <2>. QED
      BY <1>3, <1>8, <2>1, <2>2, <2>3
  <1>. QED
    BY <1>5, <1>6, <1>7, <1>8 DEF States

-----------------------------------------------------------------------------------
(* The cycles.                                                                       *)
LEMMA TickCounts ==
    ASSUME JobIInv, Tick
    PROVE  /\ cycles \in Nat
           /\ state \in {"WRITE", "WAIT_HASH", "READ"} => cycles' = cycles + 1
           /\ state = "DONE" /\ done = 0 => cycles' = cycles + 1
           /\ state = "IDLE" => cycles' = IF start_int = 1 THEN 1 ELSE 0
           /\ state = "DONE" /\ done = 1 => cycles' = cycles
  <1>1. cycles \in Nat /\ (state = "IDLE" => cycles = 0)
    BY DEF JobIInv, JobTime
  <1>2. cycles' = IF start_int = 1 /\ done = 0 THEN cycles + 1 ELSE cycles
    BY DEF Tick
  <1>3. /\ state \in {"WRITE", "WAIT_HASH", "READ"} => done = 0 /\ start_int = 1
        /\ state = "DONE" /\ done = 0 => start_int = 1
        /\ state = "IDLE" => done = 0
    BY TickRuns DEF JobIInv, JobSetUp
  <1>. QED
    BY <1>1, <1>2, <1>3, SMT

LEMMA IdleTime ==
    ASSUME JobIInv, Tick, state = "IDLE"
    PROVE  JobTime'
  <1>1. /\ FsmTypes /\ FsmTypes' /\ Loading /\ Loading'
        /\ FsmClock(start_int, output_length_byte, rdata_b, rdata_a)
        /\ start_int \in {0, 1} /\ cycles' = IF start_int = 1 THEN 1 ELSE 0
    BY TickFacts, TickCounts DEF JobIInv, JobSetUp
  <1>2. /\ state' = IF start_int = 1 THEN "WRITE" ELSE "IDLE"
        /\ byte_cntr_s' = 0
    BY <1>1, SMT DEF FsmClock, ControlClock, n_state, Transfers, FeedsLane, StoresLane, Loading
  <1>3. Len(words') = 0 /\ din_valid_s' = 0 /\ din_valid_reg' = 0
    <2>1. words' \in Seq(InLane) /\ Len(words') \in Nat
      BY TickRuns, SMT DEF JobRuns, FsmIInv, CoreIInv, CoreTypes
    <2>2. /\ 0 = 8 * (Len(words') + din_valid_s' + din_valid_reg')
          /\ din_valid_s' \in {0, 1} /\ din_valid_reg' \in {0, 1}
      BY <1>1, <1>2 DEF Loading, FsmTypes
    <2>3. ASSUME NEW n \in Nat, NEW a \in {0, 1}, NEW b \in {0, 1}, 0 = 8 * (n + a + b)
          PROVE  n = 0 /\ a = 0 /\ b = 0
      BY <2>3, SMT
    <2>. QED
      BY <2>1, <2>2, <2>3
  <1>4. FeedingTime'
    BY <1>1, <1>2, <1>3, RateFits, SMT DEF FeedingTime, Write
  <1>. QED
    BY <1>1, <1>2, <1>4, SMT DEF JobTime

LEMMA WriteTime ==
    ASSUME JobIInv, Tick, state = "WRITE", buffer_full = 0
    PROVE  JobTime'
  <1>. DEFINE k == cycles - 1
  <1>1. /\ FsmTypes /\ Loading /\ BufferCount /\ FsmIInv
        /\ FsmClock(start_int, output_length_byte, rdata_b, rdata_a)
        /\ cycles \in Nat /\ cycles' = cycles + 1
    BY TickFacts, TickCounts
  <1>2. /\ k \in 0 .. RateLanes + 2
        /\ din_valid_s = IF k \in 1 .. RateLanes THEN 1 ELSE 0
        /\ din_valid_reg = IF k \in 2 .. RateLanes + 1 THEN 1 ELSE 0
        /\ Len(words) = IF k >= 2 THEN k - 2 ELSE 0
    BY DEF JobIInv, JobTime, FeedingTime, Write
  <1>3. k <= RateLanes + 1
    BY <1>1, <1>2, RateFits, SMT DEF BufferCount
  <1>4. /\ state' = "WRITE" /\ din_valid_reg' = din_valid_s
        /\ din_valid_s' = IF byte_cntr_s < RATE_BYTES THEN 1 ELSE 0
    BY <1>1, SMT DEF FsmClock, ControlClock, n_state, FeedsLane
  <1>5. byte_cntr_s < RATE_BYTES <=> k < RateLanes
    BY <1>1, <1>2, <1>3, RateFits, SMT DEF Loading, RATE_BYTES
  <1>6. Len(words') = Len(words) + din_valid_reg
    <2>1. /\ words \in Seq(InLane)
          /\ din_valid_reg = 1 => words' = Append(words, <<rdata_b, rdata_a>>)
                                  /\ <<rdata_b, rdata_a>> \in InLane
          /\ din_valid_reg = 0 => words' = words
      BY <1>1, TickFacts, WordsEdge DEF Tick
    <2>2. din_valid_reg \in {0, 1}
      BY <1>1 DEF FsmTypes
    <2>3. CASE din_valid_reg = 1
      BY <2>1, <2>3, SMT
    <2>4. CASE din_valid_reg = 0
      BY <1>1, <2>1, <2>4, SMT DEF BufferCount
    <2>. QED
      BY <2>2, <2>3, <2>4
  <1>7. FeedingTime'
    <2>1. cycles' - 1 = k + 1
      BY <1>1, SMT
    <2>. QED
      BY <1>2, <1>3, <1>4, <1>5, <1>6, <2>1, RateFits, SMT DEF FeedingTime, Write
  <1>. QED
    BY <1>1, <1>4, <1>7, SMT DEF JobTime

LEMMA HandOverTime ==
    ASSUME JobIInv, Tick, state = "WRITE", buffer_full = 1
    PROVE  JobTime'
  <1>1. /\ FsmTypes /\ Loading /\ BufferCount /\ CoreIInv
        /\ FsmClock(start_int, output_length_byte, rdata_b, rdata_a)
        /\ cycles \in Nat /\ cycles' = cycles + 1
    BY TickFacts, TickCounts
  <1>2. cycles = RateLanes + 3
    BY <1>1, RateFits, SMT DEF JobIInv, JobTime, FeedingTime, Write, BufferCount
  <1>3. permutation_computed = 1 /\ start_hash = 0
    BY <1>1 DEF Loading, FsmTypes
  <1>4. PICK din \in InLane : Clock(start_hash, din, din_valid_reg, last_block_s)
    BY TickFacts
  <1>5. permutation_computed' = 0 /\ counter_nr_rounds' = 1
    BY <1>3, <1>4, SMT DEF Clock, StateClock, StartHash, FirstRound, LaterRound, Absorbing,
                           SecondRound
  <1>6. state' = "WAIT_HASH"
    BY <1>1, SMT DEF FsmClock, n_state
  <1>. QED
    BY <1>1, <1>2, <1>5, <1>6, RateFits, SMT DEF JobTime, FeedingTime

LEMMA WaitTime ==
    ASSUME JobIInv, Tick, state = "WAIT_HASH"
    PROVE  JobTime'
  <1>1. /\ FsmTypes /\ CoreIInv /\ FsmIInv
        /\ FsmClock(start_int, output_length_byte, rdata_b, rdata_a)
        /\ cycles \in Nat /\ cycles' = cycles + 1
    BY TickFacts, TickCounts
  <1>2. /\ permutation_computed \in {0, 1} /\ counter_nr_rounds \in 0 .. Rounds - 1
        /\ Rounds \in Nat /\ Rounds >= 2
    BY <1>1, CoreAssumption DEF CoreIInv, CoreTypes, Bit
  <1>3. cycles = RateLanes + 3 + IF permutation_computed = 1 THEN Rounds
                                 ELSE counter_nr_rounds
    BY DEF JobIInv, JobTime
  <1>4. /\ state' = IF permutation_computed = 1 THEN "READ" ELSE "WAIT_HASH"
        /\ count_out_words' = 0
    <2>1. PICK in, r : in = input /\ r = output_length_byte
      OBVIOUS
    <2>2. JobRuns(in, r) /\ WrapperClock(1, r, Ram!Idle)
      BY <2>1 DEF JobIInv, JobSetUp, Tick
    <2>. QED
      BY <2>2, WaitStep
  <1>5. PICK din \in InLane : Clock(start_hash, din, din_valid_reg, last_block_s)
    BY TickFacts
  <1>6. start_hash = 0 /\ buffer_full = 0
    BY <1>1 DEF FsmTypes, FsmIInv, Loaded
  <1>7. permutation_computed = 0 =>
          IF counter_nr_rounds = Rounds - 1
          THEN permutation_computed' = 1
          ELSE permutation_computed' = 0 /\ counter_nr_rounds' = counter_nr_rounds + 1
    BY <1>2, <1>5, <1>6, SMT
    DEF Clock, StateClock, StartHash, FirstRound, LaterRound, Absorbing, LastRound
  <1>8. CASE permutation_computed = 1
    BY <1>1, <1>2, <1>3, <1>4, <1>8, RateFits, SMT DEF JobTime, FeedingTime
  <1>9. CASE permutation_computed = 0
    <2>1. state' = "WAIT_HASH" /\ cycles' = RateLanes + 3 + (counter_nr_rounds + 1)
      BY <1>1, <1>2, <1>3, <1>4, <1>9, RateFits, SMT
    <2>2. cycles' = RateLanes + 3 + IF permutation_computed' = 1 THEN Rounds
                                    ELSE counter_nr_rounds'
      <3>1. CASE counter_nr_rounds = Rounds - 1
        BY <1>2, <1>7, <1>9, <2>1, <3>1, SMT
      <3>2. CASE counter_nr_rounds # Rounds - 1
        BY <1>7, <1>9, <2>1, <3>2
      <3>. QED
        BY <3>1, <3>2
    <2>. QED
      BY <1>1, <2>1, <2>2, SMT DEF JobTime, FeedingTime
  <1>. QED
    BY <1>2, <1>8, <1>9

LEMMA ReadTime ==
    ASSUME JobIInv, Tick, state = "READ"
    PROVE  JobTime'
  <1>. DEFINE c == count_out_words
  <1>1. /\ CoreIInv /\ cycles \in Nat /\ cycles' = cycles + 1 /\ done' = 0
    BY TickFacts, TickCounts, TickRuns
  <1>2. cycles = RateLanes + Rounds + 4 + c
    BY DEF JobIInv, JobTime
  <1>3. c \in Nat /\ RateLanes \in Nat /\ Rounds \in Nat
    BY <1>1, CoreAssumption, SMT DEF CoreIInv, BufP!IInv, BufP!TypeOK
  <1>4. PICK in : in = input
    OBVIOUS
  <1>5. PICK r : r = output_length_byte
    OBVIOUS
  <1>6. /\ JobRuns(in, r) /\ WrapperClock(1, r, Ram!Idle) /\ output_length_byte' = r
        /\ r \in 0 .. 63 /\ r <= 8 * OutLanes
    BY <1>4, <1>5, JobInput DEF JobIInv, JobSetUp, Tick
  <1>7. \/ state' = "READ" /\ count_out_words' = c + 1
        \/ state' = "DONE" /\ LanesFor(r) = c
    <2>1. CASE c = 0
      <3>1. /\ count_out_words' = 1
            /\ r <= 8 => LanesFor(r) = 0
            /\ state' = IF r <= 8 THEN "DONE" ELSE "READ"
        BY <1>6, <2>1, ReadFirstStep
      <3>2. c + 1 = 1 /\ (r <= 8 \/ ~ (r <= 8))
        BY <2>1, SMT
      <3>. QED
        BY <2>1, <3>1, <3>2
    <2>2. CASE c # 0
      BY <1>6, <2>2, ReadNextStep
    <2>. QED
      BY <2>1, <2>2
  <1>8. CASE state' = "READ" /\ count_out_words' = c + 1
    BY <1>1, <1>2, <1>3, <1>8, SMT DEF JobTime, FeedingTime
  <1>9. CASE state' = "DONE" /\ LanesFor(r) = c
    <2>1. LanesFor(output_length_byte') = c
      BY <1>6, <1>9
    <2>2. cycles' = RateLanes + Rounds + 5 + c + 0
      BY <1>1, <1>2, <1>3, SMT
    <2>. QED
      BY <1>1, <1>9, <2>1, <2>2, SMT DEF JobTime, FeedingTime, Finished
  <1>. QED
    BY <1>7, <1>8, <1>9

LEMMA DoneTime ==
    ASSUME JobIInv, Tick, state = "DONE"
    PROVE  JobTime'
  <1>1. /\ FsmTypes /\ cycles \in Nat /\ state' = "DONE" /\ done' = 1
        /\ output_length_byte' = output_length_byte
        /\ done = 0 => cycles' = cycles + 1
        /\ done = 1 => cycles' = cycles
    BY TickFacts, TickCounts, TickRuns DEF Tick
  <1>2. PICK n : n = LanesFor(output_length_byte)
    OBVIOUS
  <1>3. n \in Nat
    <2>1. ASSUME NEW r \in 0 .. 63 PROVE LanesFor(r) \in Nat
      BY SMT DEF LanesFor
    <2>. QED
      BY <1>2, <2>1, JobInput DEF JobIInv
  <1>4. cycles = Finished + n + done
    BY <1>2 DEF JobIInv, JobTime
  <1>5. LanesFor(output_length_byte)' = n
    BY <1>1, <1>2
  <1>6. Finished \in Nat
    BY RateFits, CoreAssumption, SMT DEF Finished
  <1>7. cycles' = Finished + n + 1 /\ cycles' \in Nat
    BY <1>1, <1>3, <1>4, <1>6, SMT DEF FsmTypes
  <1>. QED
    BY <1>1, <1>5, <1>7 DEF JobTime, FeedingTime, Finished

LEMMA JobStep ==
    ASSUME JobIInv, Tick
    PROVE  JobIInv'
  <1>1. JobSetUp' /\ JobRuns(input, output_length_byte)' /\ ReturnedJob(input, output_length_byte)'
    BY TickRuns
  <1>2. state \in States /\ buffer_full \in {0, 1}
    BY TickFacts DEF BufferCount
  <1>3. JobTime'
    BY <1>2, IdleTime, WriteTime, HandOverTime, WaitTime, ReadTime, DoneTime DEF States
  <1>. QED
    BY <1>1, <1>3 DEF JobIInv

LEMMA InitJobIInv == JobInit => JobIInv
  <1>. SUFFICES ASSUME JobInit PROVE JobIInv
    OBVIOUS
  <1>1. /\ state = "IDLE" /\ FsmInit /\ mem = input
        /\ input \in InputBlocks /\ output_length_byte \in Lengths
        /\ start_int = 0 /\ cycles = 0
    BY DEF JobInit, FsmInit
  <1>2. JobRuns(input, output_length_byte)
    BY <1>1, InitJob
  <1>. QED
    BY <1>1, <1>2 DEF JobIInv, JobSetUp, JobTime, FeedingTime, ReturnedJob

LEMMA JobUnchanged ==
    ASSUME JobIInv, UNCHANGED jobVars
    PROVE  JobIInv'
  <1>1. /\ UNCHANGED wrapperVars
        /\ UNCHANGED <<start_int, output_length_byte, input, cycles>>
    BY DEF jobVars
  <1>2. PICK in : in = input
    OBVIOUS
  <1>3. PICK r : r = output_length_byte
    OBVIOUS
  <1>4. JobRuns(in, r)' /\ ReturnedJob(in, r)'
    BY <1>1, <1>2, <1>3, WrapperUnchanged DEF JobIInv
  <1>5. JobRuns(input, output_length_byte)' /\ ReturnedJob(input, output_length_byte)'
    BY <1>1, <1>2, <1>3, <1>4
  <1>6. UNCHANGED <<state, done, din_valid_s, din_valid_reg, words, permutation_computed,
                    counter_nr_rounds, count_out_words>>
    BY <1>1 DEF wrapperVars, accelVars, fsmRegs, coreVars, stateVars, Buf!bufVars, Buf!registers
  <1>7. JobSetUp'
    BY <1>1, <1>6 DEF JobIInv, JobSetUp
  <1>8. JobTime'
    BY <1>1, <1>6 DEF JobIInv, JobTime, FeedingTime, Write, Finished
  <1>. QED
    BY <1>5, <1>7, <1>8 DEF JobIInv

LEMMA SpecJobIInv == JobSpec => []JobIInv
  <1>1. JobIInv /\ [Tick]_jobVars => JobIInv'
    BY JobStep, JobUnchanged
  <1>. QED
    BY <1>1, InitJobIInv, PTL DEF JobSpec

-----------------------------------------------------------------------------------
LEMMA LatencyBound ==
    JobIInv => JobLatency
  <1>. SUFFICES ASSUME JobIInv PROVE JobLatency
    OBVIOUS
  <1>. DEFINE n == LanesFor(output_length_byte)
  <1>1. /\ FsmTypes /\ CoreIInv /\ BufferCount /\ JobTime
        /\ output_length_byte \in 0 .. 63
    BY JobInput, LanesInBuffer DEF JobIInv, JobRuns, FsmIInv
  <1>2. /\ RateLanes \in Nat /\ Rounds \in Nat /\ Rounds >= 2
        /\ counter_nr_rounds \in 0 .. Rounds - 1
        /\ count_out_words \in Nat /\ state \in States /\ done \in {0, 1}
        /\ done = 1 => state = "DONE"
        /\ cycles \in Nat
    BY <1>1, CoreAssumption, SMT
    DEF CoreIInv, CoreTypes, BufP!IInv, BufP!TypeOK, FsmTypes, JobTime
  <1>3. n \in Nat
    BY <1>1, SMT DEF LanesFor
  <1>4. CASE state \in {"IDLE", "WRITE", "WAIT_HASH"}
    <2>1. cycles <= RateLanes + Rounds + 6
      BY <1>1, <1>2, <1>4, SMT DEF JobTime, FeedingTime, Write
    <2>2. done # 1
      BY <1>2, <1>4
    <2>. HIDE DEF n
    <2>3. cycles <= RateLanes + Rounds + 6 + n
      BY <1>2, <1>3, <2>1, SMT
    <2>. QED
      BY <2>2, <2>3 DEF JobLatency, n
  <1>5. CASE state = "READ"
    <2>1. cycles = RateLanes + Rounds + 4 + count_out_words
      BY <1>1, <1>5 DEF JobTime
    <2>2. count_out_words <= n + 1
      <3>1. count_out_words # 0 =>
              8 < output_length_byte /\ 8 * (count_out_words - 1) < output_length_byte
        BY <1>5 DEF JobIInv, JobRuns, JobParts, ReturningJob
      <3>2. ASSUME NEW c \in Nat, NEW r \in 0 .. 63, 8 < r, 8 * (c - 1) < r
            PROVE  c <= LanesFor(r) + 1
        BY <3>2, SMT DEF LanesFor
      <3>3. 0 <= n + 1
        BY <1>3, SMT
      <3>. QED
        BY <1>1, <1>2, <3>1, <3>2, <3>3
    <2>3. done # 1
      BY <1>2, <1>5
    <2>. HIDE DEF n
    <2>4. cycles <= RateLanes + Rounds + 6 + n
      BY <1>2, <1>3, <2>1, <2>2, SMT
    <2>. QED
      BY <2>3, <2>4 DEF JobLatency, n
  <1>6. CASE state = "DONE"
    <2>1. cycles = Finished + n + done
      BY <1>1, <1>6 DEF JobTime
    <2>. HIDE DEF n
    <2>2. /\ done = 1 => cycles = RateLanes + Rounds + 6 + n
          /\ cycles <= RateLanes + Rounds + 6 + n
      BY <1>2, <1>3, <2>1, SMT DEF Finished
    <2>. QED
      BY <1>2, <2>2 DEF JobLatency, n
  <1>. QED
    BY <1>2, <1>4, <1>5, <1>6 DEF States

(* A job takes exactly the cycles that the lanes in, the rounds and the lanes out    *)
(* make it, for every rate, output size, round count and length.                     *)
THEOREM JobTakes == JobSpec => []JobLatency
  BY SpecJobIInv, LatencyBound, PTL

-----------------------------------------------------------------------------------
(* The refinement.                                                                   *)
Phase == IF state = "IDLE" THEN "idle" ELSE IF done = 1 THEN "done" ELSE "busy"

LEMMA DeliveredSoFar ==
    /\ state = "READ" /\ count_out_words # 0 => DeliveredLanes = count_out_words - 1
    /\ state = "READ" /\ count_out_words = 0 => DeliveredLanes = 0
    /\ state = "DONE" => DeliveredLanes = LanesFor(output_length_byte)
    /\ state \in {"IDLE", "WRITE", "WAIT_HASH"} => DeliveredLanes = 0
  BY SMT DEF DeliveredLanes

LEMMA DeliveredNext ==
    /\ state' = "READ" /\ count_out_words' # 0 => DeliveredLanes' = count_out_words' - 1
    /\ state' = "READ" /\ count_out_words' = 0 => DeliveredLanes' = 0
    /\ state' = "DONE" => DeliveredLanes' = LanesFor(output_length_byte')
    /\ state' \in {"IDLE", "WRITE", "WAIT_HASH"} => DeliveredLanes' = 0
  BY SMT DEF DeliveredLanes

(* One lane more in the memory.                                                      *)
LEMMA OneLaneMore ==
    ASSUME NEW in, NEW c \in Nat
    PROVE  Delivered(in, c + 1) =
             [w \in 0 .. Depth - 1 |-> IF w \in {2 * c, 2 * c + 1} THEN HashWord(w, in)
                                       ELSE Delivered(in, c)[w]]
  <1>1. ASSUME NEW w \in 0 .. Depth - 1
        PROVE  (IF w < 2 * (c + 1) THEN HashWord(w, in) ELSE in[w]) =
               IF w \in {2 * c, 2 * c + 1} THEN HashWord(w, in) ELSE Delivered(in, c)[w]
    <2>1. w \in Int
      BY <1>1, WrapperAssumption, RateFits, SMT
    <2>2. (w < 2 * (c + 1)) <=> (w < 2 * c \/ w \in {2 * c, 2 * c + 1})
      BY <2>1, SMT
    <2>3. Delivered(in, c)[w] = IF w < 2 * c THEN HashWord(w, in) ELSE in[w]
      BY DEF Delivered, Ram!Addr
    <2>. QED
      BY <2>2, <2>3
  <1>. QED
    BY <1>1 DEF Delivered, Ram!Addr

(* The edges of the clock that software does not see.                                *)
LEMMA Unseen ==
    ASSUME Phase' = Phase, mem' = mem, DeliveredLanes' = DeliveredLanes, Tick
    PROVE  UNCHANGED Job!jobVars
  BY DEF Job!jobVars, Phase, Tick

LEMMA TickDelivers ==
    ASSUME JobIInv, Tick, state = "READ"
    PROVE  Job!Deliver \/ UNCHANGED Job!jobVars
  <1>. DEFINE c == count_out_words
  <1>1. PICK in : in = input
    OBVIOUS
  <1>2. PICK r : r = output_length_byte
    OBVIOUS
  <1>3. /\ JobRuns(in, r) /\ WrapperClock(1, r, Ram!Idle)
        /\ output_length_byte' = r /\ input' = in
        /\ r \in 0 .. 63 /\ r <= 8 * OutLanes
    BY <1>1, <1>2, JobInput DEF JobIInv, JobSetUp, Tick
  <1>4. /\ done = 0 /\ done' = 0 /\ state' # "IDLE"
    BY TickRuns
  <1>5. Phase = "busy" /\ Phase' = "busy"
    BY <1>4 DEF Phase
  <1>6. CASE c = 0
    <2>1. /\ mem' = mem /\ count_out_words' = 1
          /\ state' = IF r <= 8 THEN "DONE" ELSE "READ"
          /\ r <= 8 => LanesFor(r) = 0
      BY <1>3, <1>6, ReadFirstStep
    <2>2. 1 - 1 = 0 /\ 1 # 0
      BY SMT
    <2>3. DeliveredLanes = 0 /\ DeliveredLanes' = 0
      BY <1>3, <1>6, <2>1, <2>2, DeliveredSoFar, DeliveredNext
    <2>. QED
      BY <1>5, <2>1, <2>3, Unseen
  <1>7. CASE c # 0
    <2>1. /\ mem' = Delivered(in, c) /\ c \in 1 .. OutLanes
          /\ state' = IF r <= 8 * c THEN "DONE" ELSE "READ"
          /\ IF r <= 8 * c THEN LanesFor(r) = c ELSE count_out_words' = c + 1
          /\ mem = Delivered(in, c - 1) /\ 8 < r /\ 8 * (c - 1) < r
      BY <1>3, <1>7, ReadNextStep DEF JobRuns, JobParts, ReturningJob
    <2>2. PICK d \in Nat : d = c - 1 /\ c = d + 1
      BY <2>1, CoreAssumption, SMT
    <2>3. DeliveredLanes = d
      BY <1>7, <2>2, DeliveredSoFar
    <2>4. DeliveredLanes' = d + 1
      <3>1. c + 1 # 0 /\ c + 1 - 1 = d + 1
        BY <2>2, SMT
      <3>. QED
        BY <1>3, <2>1, <2>2, <3>1, DeliveredNext
    <2>5. d < LanesFor(r)
      <3>1. ASSUME NEW n \in Nat, NEW l \in 0 .. 63, 8 < l, 8 * n < l
            PROVE  n < LanesFor(l)
        BY <3>1, SMT DEF LanesFor
      <3>. QED
        BY <1>3, <2>1, <2>2, <3>1
    <2>6. mem' = [w \in 0 .. Depth - 1 |->
                    IF w \in {2 * d, 2 * d + 1} THEN HashWord(w, in) ELSE mem[w]]
      <3>1. mem' = Delivered(in, d + 1)
        BY <2>1, <2>2
      <3>2. mem = Delivered(in, d)
        BY <2>1, <2>2
      <3>. QED
        BY <3>1, <3>2, OneLaneMore
    <2>7. Job!Deliver
      BY <1>1, <1>2, <1>3, <1>5, <2>3, <2>4, <2>5, <2>6 DEF Job!Deliver, Phase
    <2>. QED
      BY <2>7
  <1>. QED
    BY <1>6, <1>7

LEMMA TickMaps ==
    ASSUME JobIInv, Tick
    PROVE  Job!Next \/ UNCHANGED Job!jobVars
  <1>1. /\ state \in States /\ FsmTypes /\ input' = input
        /\ output_length_byte' = output_length_byte
    BY TickFacts DEF Tick
  <1>2. CASE state = "IDLE"
    <2>1. mem' = mem /\ state' \in {"IDLE", "WRITE"} /\ done = 0 /\ done' = 0
      BY <1>2, TickRuns
    <2>2. DeliveredLanes = 0 /\ DeliveredLanes' = 0
      BY <1>2, <2>1, DeliveredSoFar, DeliveredNext
    <2>3. CASE state' = "IDLE"
      BY <1>2, <2>1, <2>2, <2>3, Unseen DEF Phase
    <2>4. CASE state' = "WRITE"
      <3>1. Job!Begin
        BY <1>1, <1>2, <2>1, <2>2, <2>4 DEF Job!Begin
      <3>. QED
        BY <3>1 DEF Job!Next
    <2>. QED
      BY <2>1, <2>3, <2>4
  <1>3. CASE state \in {"WRITE", "WAIT_HASH"}
    <2>1. mem' = mem /\ state' # "IDLE" /\ done = 0 /\ done' = 0
      BY <1>3, TickRuns
    <2>2. DeliveredLanes = 0 /\ DeliveredLanes' = 0
      <3>1. PICK in, r : in = input /\ r = output_length_byte
        OBVIOUS
      <3>2. JobRuns(in, r) /\ WrapperClock(1, r, Ram!Idle)
        BY <1>3, <3>1 DEF JobIInv, JobSetUp, Tick
      <3>3. buffer_full \in {0, 1}
        BY TickFacts DEF BufferCount
      <3>4. \/ state' \in {"WRITE", "WAIT_HASH"}
            \/ state' = "READ" /\ count_out_words' = 0
        BY <1>3, <3>2, <3>3, WriteStep, HandOverJobStep, WaitStep
      <3>. QED
        BY <1>3, <3>4, DeliveredSoFar, DeliveredNext
    <2>. QED
      BY <1>3, <2>1, <2>2, Unseen DEF Phase
  <1>4. CASE state = "READ"
    BY <1>4, TickDelivers DEF Job!Next
  <1>5. CASE state = "DONE"
    <2>1. mem' = mem /\ state' = "DONE" /\ done' = 1
      BY <1>5, TickRuns
    <2>2. /\ DeliveredLanes = LanesFor(output_length_byte)
          /\ DeliveredLanes' = LanesFor(output_length_byte)
      BY <1>1, <1>5, <2>1, DeliveredSoFar, DeliveredNext
    <2>3. CASE done = 0
      <3>1. Job!Finish
        BY <1>1, <1>5, <2>1, <2>2, <2>3 DEF Job!Finish
      <3>. QED
        BY <3>1 DEF Job!Next
    <2>4. CASE done = 1
      BY <1>5, <2>1, <2>2, <2>4, Unseen DEF Phase
    <2>. QED
      BY <1>1, <2>3, <2>4 DEF FsmTypes
  <1>. QED
    BY <1>1, <1>2, <1>3, <1>4, <1>5 DEF States

(* The accelerator, seen from software, is ShakeJob: the hash of the block, lane by  *)
(* lane from word 0, no other word touched, and an end after the last lane.          *)
THEOREM JobImplementsShakeJob == JobSpec => Job!Spec
  <1>1. JobInit => Job!Init
    BY DeliveredSoFar DEF JobInit, FsmInit, Job!Init
  <1>2. JobIInv /\ [Tick]_jobVars => [Job!Next]_Job!jobVars
    <2>. SUFFICES ASSUME JobIInv, [Tick]_jobVars
                  PROVE  [Job!Next]_Job!jobVars
      OBVIOUS
    <2>1. CASE Tick
      BY <2>1, TickMaps
    <2>2. CASE UNCHANGED jobVars
      <3>1. UNCHANGED <<state, done, count_out_words, mem, input, output_length_byte>>
        BY <2>2 DEF jobVars, wrapperVars, accelVars, fsmRegs, coreVars, Buf!bufVars,
                    Buf!registers, Ram!ramVars
      <3>2. DeliveredLanes' = DeliveredLanes
        BY <3>1 DEF DeliveredLanes
      <3>. QED
        BY <3>1, <3>2 DEF Job!jobVars
    <2>. QED
      BY <2>1, <2>2
  <1>. QED
    BY <1>1, <1>2, SpecJobIInv, PTL DEF JobSpec, Job!Spec
===================================================================================
