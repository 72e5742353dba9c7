------------------------------ MODULE AccelTopProofs ------------------------------
(* What the accelerator guarantees its software, for every size.  Under any CPU: the *)
(* conditions the core relies on, that the memory is the job's while start is set,   *)
(* that the configuration is closed after done, and, if the CPU leaves the           *)
(* configuration alone during a job, that the job delivers the hash of the block it  *)
(* was started with.  Under the driver: that this block is the padded input.         *)
EXTENDS AccelCpu, ShakeDriver, AccelWrapperProofs, FiniteSetTheorems

(* The control words are words, and the length is one that can be delivered.         *)
CtrlTyped ==
    /\ \A w \in 0 .. CTRL_WORDS - 1 : ctrl_reg[w] = [b \in CfgBytes |-> ctrl_reg[w][b]]
    /\ ctrl_reg = [w \in 0 .. CTRL_WORDS - 1 |-> ctrl_reg[w]]
    /\ ctrl_reg[0][0] \in Nat /\ ctrl_reg[0][1] \in Nat
    /\ ctrl_reg[0][1] % 64 <= 8 * OutLanes

(* The bytes an access would write into the configuration are such values.           *)
ConfigValues(axi) ==
    WritesConfig(axi) => /\ \A b \in axi.be : axi.wdata[b] \in Nat
                         /\ 1 \in axi.be => axi.wdata[1] % 64 <= 8 * OutLanes

(* A job of a CPU that leaves the configuration alone meanwhile.                     *)
StartHeld ==
    state \in {"WRITE", "WAIT_HASH", "READ"} \/ (state = "DONE" /\ done = 0) => start_int = 1

TopJob ==
    /\ StartHeld
    /\ JobRuns(input, output_length_byte)
    /\ start_int = 1 => ReturnedJob(input, output_length_byte)

-----------------------------------------------------------------------------------
(* The memory under an edge outside READ: the CPU's request, while start is low.     *)
LEMMA TopMemoryEdge ==
    ASSUME NEW axi, TopClock(axi), state # "READ"
    PROVE  mem' = IF start_int = 1 THEN mem ELSE Ram!Stored(mem, acc_request(axi))
  <1>1. WrapperClock(start_int, output_length_byte, acc_request(axi))
    BY DEF TopClock
  <1>. QED
    BY <1>1, MemoryEdge

LEMMA InputEdge ==
    ASSUME NEW axi, TopClock(axi)
    PROVE  input' = IF start_int = 0 /\ state = "IDLE" THEN mem' ELSE input
  BY DEF TopClock

LEMMA CtrlValues ==
    CtrlTyped => /\ start_int \in {0, 1}
                 /\ output_length_byte \in 0 .. 63 /\ output_length_byte <= 8 * OutLanes
  <1>. SUFFICES ASSUME CtrlTyped
                PROVE  /\ start_int \in {0, 1}
                       /\ output_length_byte \in 0 .. 63
                       /\ output_length_byte <= 8 * OutLanes
    OBVIOUS
  <1>1. start_int \in {0, 1}
    BY SMT DEF CtrlTyped, start_int
  <1>2. output_length_byte \in 0 .. 63
    <2>1. \A n \in Nat : n % 64 \in 0 .. 63
      BY SMT
    <2>. QED
      BY <2>1 DEF CtrlTyped, output_length_byte
  <1>. QED
    BY <1>1, <1>2 DEF CtrlTyped, output_length_byte

LEMMA InitCtrl == TopInit => CtrlTyped
  <1>. SUFFICES ASSUME TopInit PROVE CtrlTyped
    OBVIOUS
  <1>1. /\ ctrl_reg = [w \in 0 .. CTRL_WORDS - 1 |-> [b \in CfgBytes |-> 0]]
        /\ 0 \in 0 .. CTRL_WORDS - 1 /\ 0 \in CfgBytes /\ 1 \in CfgBytes
    BY TopAssumption, SMT DEF TopInit, Cfg!Init, Cfg!ZeroWord
  <1>2. ctrl_reg[0][0] = 0 /\ ctrl_reg[0][1] = 0
    BY <1>1
  <1>3. 0 \in Nat /\ 0 % 64 <= 8 * OutLanes
    BY CoreAssumption, SMT
  <1>. QED
    BY <1>1, <1>2, <1>3 DEF CtrlTyped

(* Requests keep the control words words.                                            *)
LEMMA CtrlStep ==
    ASSUME CtrlTyped, NEW axi, ConfigValues(axi), TopClock(axi)
    PROVE  CtrlTyped'
  <1>. DEFINE request == cfg_request(axi)
              Writes == request.en = 1 /\ request.we = 1 /\ request.addr < CTRL_WORDS
              word == [b \in CfgBytes |-> IF b \in request.be THEN request.wdata[b]
                                          ELSE ctrl_reg[request.addr][b]]
  <1>1. ctrl_reg' = IF Writes THEN [ctrl_reg EXCEPT ![request.addr] = word] ELSE ctrl_reg
    BY DEF TopClock, Cfg!Clock, Cfg!is_config
  <1>2. CASE Writes
    <2>1. ctrl_reg' = [w \in 0 .. CTRL_WORDS - 1 |->
                         IF w = request.addr THEN word ELSE ctrl_reg[w]]
      BY <1>1, <1>2 DEF CtrlTyped
    <2>2. ASSUME NEW w \in 0 .. CTRL_WORDS - 1
          PROVE  ctrl_reg'[w] = [b \in CfgBytes |-> ctrl_reg'[w][b]]
      <3>1. CASE w = request.addr
        BY <2>1, <3>1
      <3>2. CASE w # request.addr
        BY <2>1, <3>2 DEF CtrlTyped
      <3>. QED
        BY <3>1, <3>2
    <2>3. 0 \in 0 .. CTRL_WORDS - 1 /\ 0 \in CfgBytes /\ 1 \in CfgBytes
      BY TopAssumption, SMT
    <2>4. ASSUME NEW b \in {0, 1}
          PROVE  /\ ctrl_reg'[0][b] \in Nat
                 /\ b = 1 => ctrl_reg'[0][b] % 64 <= 8 * OutLanes
      <3>1. CASE 0 = request.addr /\ b \in request.be
        <4>1. ctrl_reg'[0][b] = request.wdata[b]
          BY <2>1, <2>3, <3>1
        <4>2. CASE done = 0
          <5>1. /\ axi.req = 1 /\ axi.we = 1 /\ addr_is_config(axi) = 1
                /\ b \in axi.be /\ request.wdata = axi.wdata
            BY <1>2, <3>1, <4>2, SMT DEF cfg_request
          <5>. QED
            BY <4>1, <5>1 DEF ConfigValues, WritesConfig
        <4>3. CASE done # 0
          <5>1. b = 0 /\ request.wdata[b] = 0
            BY <2>3, <3>1, <4>3, SMT DEF cfg_request, CTRL_CLEAR_START, Cfg!ZeroWord
          <5>. QED
            BY <4>1, <5>1, SMT
        <4>. QED
          BY <4>2, <4>3
      <3>2. CASE ~ (0 = request.addr /\ b \in request.be)
        <4>1. ctrl_reg'[0][b] = ctrl_reg[0][b]
          <5>1. CASE 0 = request.addr
            BY <2>1, <2>3, <3>2, <5>1
          <5>2. CASE 0 # request.addr
            BY <2>1, <2>3, <5>2
          <5>. QED
            BY <5>1, <5>2
        <4>. QED
          BY <4>1 DEF CtrlTyped
      <3>. QED
        BY <3>1, <3>2
    <2>5. ctrl_reg' = [w \in 0 .. CTRL_WORDS - 1 |-> ctrl_reg'[w]]
      BY <2>1
    <2>. QED
      BY <2>2, <2>4, <2>5 DEF CtrlTyped
  <1>3. CASE ~ Writes
    <2>1. ctrl_reg' = ctrl_reg
      BY <1>1, <1>3
    <2>. QED
      BY <2>1 DEF CtrlTyped
  <1>. QED
    BY <1>2, <1>3

LEMMA CtrlUnchanged ==
    ASSUME CtrlTyped, UNCHANGED ctrl_reg
    PROVE  CtrlTyped' /\ start_int' = start_int /\ output_length_byte' = output_length_byte
  BY DEF CtrlTyped, start_int, output_length_byte

(* While start is set and the FSM not done, a CPU that leaves the configuration      *)
(* alone changes neither start nor the length.                                       *)
LEMMA ConfigKept ==
    ASSUME NEW axi, TopClock(axi), ~ WritesConfig(axi), done = 0
    PROVE  /\ ctrl_reg' = ctrl_reg
           /\ start_int' = start_int /\ output_length_byte' = output_length_byte
  <1>1. ~ (cfg_request(axi).en = 1 /\ cfg_request(axi).we = 1)
    BY SMT DEF cfg_request, WritesConfig
  <1>2. ctrl_reg' = ctrl_reg
    BY <1>1 DEF TopClock, Cfg!Clock
  <1>. QED
    BY <1>2 DEF start_int, output_length_byte

(* From done on the circuit that clears start has the configuration port.           *)
LEMMA ConfigCleared ==
    ASSUME CtrlTyped, FsmTypes, NEW axi, TopClock(axi), done = 1
    PROVE  /\ ctrl_reg' = [ctrl_reg EXCEPT ![0][0] = 0]
           /\ ctrl_reg'[0][0] = 0
           /\ rdata' = rdata
           /\ done' = 1
  <1>1. cfg_request(axi) = CTRL_CLEAR_START
    BY SMT DEF cfg_request
  <1>2. done' = 1
    BY SMT DEF FsmTypes, TopClock, WrapperClock, FsmClock
  <1>3. rdata' = rdata
    BY <1>1 DEF TopClock, Cfg!Clock, CTRL_CLEAR_START
  <1>4. 0 \in 0 .. CTRL_WORDS - 1 /\ 0 < CTRL_WORDS /\ 0 \in CfgBytes
    BY TopAssumption, SMT
  <1>. DEFINE word == [b \in CfgBytes |-> IF b \in {0} THEN Cfg!ZeroWord[b]
                                          ELSE ctrl_reg[0][b]]
  <1>5. ctrl_reg' = [ctrl_reg EXCEPT ![0] = word]
    BY <1>1, <1>4 DEF TopClock, Cfg!Clock, Cfg!is_config, CTRL_CLEAR_START
  <1>6. word = [ctrl_reg[0] EXCEPT ![0] = 0] /\ word[0] = 0
    <2>1. ctrl_reg[0] = [b \in CfgBytes |-> ctrl_reg[0][b]]
      BY <1>4 DEF CtrlTyped
    <2>2. word = [b \in CfgBytes |-> IF b = 0 THEN 0 ELSE ctrl_reg[0][b]]
      BY DEF Cfg!ZeroWord
    <2>. HIDE DEF word
    <2>. QED
      BY <1>4, <2>1, <2>2
  <1>7. ctrl_reg'[0] = word
    <2>1. ctrl_reg = [w \in 0 .. CTRL_WORDS - 1 |-> ctrl_reg[w]]
      BY DEF CtrlTyped
    <2>. HIDE DEF word
    <2>. QED
      BY <1>4, <1>5, <2>1
  <1>. QED
    BY <1>2, <1>3, <1>5, <1>6, <1>7

-----------------------------------------------------------------------------------
(* A job runs on under every access of a CPU that leaves the configuration alone:    *)
(* first while no job runs, then while one does, then in DONE.                       *)
LEMMA TopIdleStep ==
    ASSUME CtrlTyped, TopJob, NEW axi, TopClock(axi), start_int = 1 => ~ WritesConfig(axi),
           start_int = 1 => IsBlock(input), state = "IDLE"
    PROVE  TopJob'
  <1>1. PICK in : in = input
    OBVIOUS
  <1>2. PICK r : r = output_length_byte
    OBVIOUS
  <1>3. PICK s \in {0, 1} : s = start_int
    BY CtrlValues
  <1>4. PICK next : next = mem'
    OBVIOUS
  <1>5. PICK later : later = output_length_byte'
    OBVIOUS
  <1>6. JobRuns(in, r) /\ WrapperClock(s, r, acc_request(axi))
    BY <1>1, <1>2, <1>3 DEF TopJob, TopClock
  <1>7. /\ JobParts(next, later)'
        /\ mem' = IF s = 1 THEN mem ELSE Ram!Stored(mem, acc_request(axi))
        /\ state' = IF s = 1 THEN "WRITE" ELSE "IDLE"
        /\ done = 0 /\ done' = 0
    BY <1>4, <1>6, IdleStep
  <1>8. mem = in
    BY <1>6 DEF JobRuns, JobParts, FeedingJob
  <1>9. input' = next
    BY <1>1, <1>3, <1>4, <1>7, <1>8, InputEdge
  <1>10. FsmIInv'
    BY <1>6, JobFacts
  <1>11. state' # "IDLE" => IsBlock(next)
    BY <1>1, <1>3, <1>4, <1>7, <1>8
  <1>12. JobRuns(next, later)'
    BY <1>7, <1>10, <1>11 DEF JobRuns
  <1>13. StartHeld'
    BY <1>3, <1>7, ConfigKept DEF StartHeld
  <1>14. ReturnedJob(next, later)'
    BY <1>7 DEF ReturnedJob
  <1>. QED
    BY <1>5, <1>9, <1>12, <1>13, <1>14 DEF TopJob

LEMMA TopRunningStep ==
    ASSUME CtrlTyped, TopJob, NEW axi, TopClock(axi), start_int = 1 => ~ WritesConfig(axi),
           state \in {"WRITE", "WAIT_HASH", "READ"}
    PROVE  TopJob' /\ ReturnedJob(input, output_length_byte)'
  <1>1. PICK in : in = input
    OBVIOUS
  <1>2. PICK r \in 0 .. 63 : r = output_length_byte /\ r <= 8 * OutLanes
    BY CtrlValues
  <1>3. start_int = 1
    BY DEF TopJob, StartHeld
  <1>4. JobRuns(in, r) /\ WrapperClock(1, r, acc_request(axi))
    BY <1>1, <1>2, <1>3 DEF TopJob, TopClock
  <1>5. /\ JobRuns(in, r)' /\ ReturnedJob(in, r)'
        /\ state' # "IDLE" /\ done = 0 /\ done' = 0
    BY <1>2, <1>4, RunningStep
  <1>6. start_int' = 1 /\ output_length_byte' = r
    BY <1>2, <1>3, <1>5, ConfigKept
  <1>7. input' = in
    BY <1>1, InputEdge
  <1>8. StartHeld'
    BY <1>6 DEF StartHeld
  <1>. QED
    BY <1>5, <1>6, <1>7, <1>8 DEF TopJob

LEMMA TopDoneStep ==
    ASSUME CtrlTyped, TopJob, NEW axi, TopClock(axi), start_int = 1 => ~ WritesConfig(axi),
           state = "DONE"
    PROVE  TopJob'
  <1>1. PICK in : in = input
    OBVIOUS
  <1>2. PICK r : r = output_length_byte
    OBVIOUS
  <1>3. PICK later : later = output_length_byte'
    OBVIOUS
  <1>4. JobRuns(in, r) /\ WrapperClock(start_int, r, acc_request(axi))
    BY <1>1, <1>2 DEF TopJob, TopClock
  <1>5. /\ JobRuns(in, later)' /\ state' = "DONE" /\ done' = 1
        /\ mem' = IF start_int = 1 THEN mem ELSE Ram!Stored(mem, acc_request(axi))
    BY <1>4, DoneStep
  <1>6. input' = in
    BY <1>1, InputEdge
  <1>7. StartHeld'
    BY <1>5 DEF StartHeld
  <1>8. FsmTypes
    BY <1>4 DEF JobRuns, FsmIInv
  <1>9. start_int' = 1 => ReturnedJob(in, later)'
    <2>1. CASE done = 0
      <3>1. start_int = 1
        BY <2>1 DEF TopJob, StartHeld
      <3>2. mem' = mem /\ later = r
        BY <1>2, <1>3, <1>5, <2>1, <3>1, ConfigKept
      <3>3. mem = Delivered(in, LanesFor(r))
        BY <1>1, <1>2, <3>1 DEF TopJob, ReturnedJob
      <3>. QED
        BY <3>2, <3>3 DEF ReturnedJob
    <2>2. CASE done = 1
      <3>1. ctrl_reg'[0][0] = 0
        BY <1>8, <2>2, ConfigCleared
      <3>2. start_int' = 0
        BY <3>1, SMT DEF start_int
      <3>. QED
        BY <3>2
    <2>. QED
      BY <1>8, <2>1, <2>2 DEF FsmTypes
  <1>. QED
    BY <1>3, <1>5, <1>6, <1>7, <1>9 DEF TopJob

LEMMA TopJobStep ==
    ASSUME CtrlTyped, TopJob, NEW axi, TopClock(axi), start_int = 1 => ~ WritesConfig(axi),
           start_int = 1 => IsBlock(input)
    PROVE  TopJob'
  <1>1. state \in States
    BY DEF TopJob, JobRuns, FsmIInv, FsmTypes
  <1>. QED
    BY <1>1, TopIdleStep, TopRunningStep, TopDoneStep DEF States

LEMMA TopJobUnchanged ==
    ASSUME CtrlTyped, TopJob, UNCHANGED topVars
    PROVE  TopJob'
  <1>1. PICK in : in = input
    OBVIOUS
  <1>2. PICK r : r = output_length_byte
    OBVIOUS
  <1>3. /\ UNCHANGED wrapperVars /\ input' = in
        /\ UNCHANGED ctrl_reg
    BY <1>1 DEF topVars, Cfg!cfgVars
  <1>4. state' = state /\ done' = done
    BY <1>3 DEF wrapperVars, accelVars, fsmRegs
  <1>5. start_int' = start_int /\ output_length_byte' = r
    BY <1>2, <1>3, CtrlUnchanged
  <1>6. JobRuns(in, r)' /\ (ReturnedJob(in, r) => ReturnedJob(in, r)')
    BY <1>1, <1>2, <1>3, WrapperUnchanged DEF TopJob
  <1>7. StartHeld'
    BY <1>4, <1>5 DEF TopJob, StartHeld
  <1>8. start_int' = 1 => ReturnedJob(in, r)'
    BY <1>1, <1>2, <1>5, <1>6 DEF TopJob
  <1>. QED
    BY <1>3, <1>5, <1>6, <1>7, <1>8 DEF TopJob

LEMMA InitTopJob == TopInit => TopJob
  <1>. SUFFICES ASSUME TopInit PROVE TopJob
    OBVIOUS
  <1>1. PICK in : in = input
    OBVIOUS
  <1>2. PICK r : r = output_length_byte
    OBVIOUS
  <1>3. FsmInit /\ in = mem /\ state = "IDLE"
    BY <1>1 DEF TopInit, WrapperInit, FsmInit
  <1>4. JobRuns(in, r)
    BY <1>3, InitJob
  <1>. QED
    BY <1>1, <1>2, <1>3, <1>4 DEF TopJob, StartHeld, ReturnedJob

-----------------------------------------------------------------------------------
(* Any CPU.  Until the block is handed over the memory holds what the CPU wrote.     *)
MemTyped ==
    state \in {"IDLE", "WRITE"} =>
        mem \in [Ram!Addr -> MemWord] /\ rdata_a \in MemWord /\ rdata_b \in MemWord

TopIInv == FsmIInv /\ MemTyped /\ CtrlTyped

InputTyped == input \in [Ram!Addr -> MemWord]

CpuIInv ==
    /\ TopIInv
    /\ InputTyped
    /\ disciplined => TopJob

Accesses == Requests \cup FreeRequests

(* A request of the CPU leaves words in the memory.                                  *)
LEMMA CpuStores ==
    ASSUME NEW m \in [Ram!Addr -> MemWord], NEW axi \in Accesses
    PROVE  Ram!Stored(m, acc_request(axi)) \in [Ram!Addr -> MemWord]
  <1>. DEFINE port == acc_request(axi)
  <1>1. CASE port.en = 1 /\ port.we = 1 /\ port.addr \in Ram!Addr
    <2>. DEFINE word == [b \in ByteLanes |->
                           IF b \in port.be THEN port.wdata[b] ELSE m[port.addr][b]]
    <2>1. axi.req = 1 /\ axi.we = 1 /\ addr_is_config(axi) # 1
      BY <1>1, SMT DEF acc_request
    <2>2. m[port.addr] \in MemWord /\ port.be = axi.be /\ port.wdata = axi.wdata
      BY <1>1 DEF acc_request
    <2>3. word \in MemWord
      BY <2>1, <2>2, CpuAssumption DEF Accesses
    <2>4. Ram!Stored(m, port) = [m EXCEPT ![port.addr] = word]
      BY <1>1 DEF Ram!Stored
    <2>. QED
      BY <1>1, <2>3, <2>4
  <1>2. CASE ~ (port.en = 1 /\ port.we = 1 /\ port.addr \in Ram!Addr)
    BY <1>2 DEF Ram!Stored
  <1>. QED
    BY <1>1, <1>2

LEMMA OutputTyped ==
    ASSUME mem \in [Ram!Addr -> MemWord], NEW r \in MemWord, NEW port
    PROVE  Ram!Output(port, r) \in MemWord
  BY CpuAssumption DEF Ram!Output

(* Every step of a CPU is an edge with one of its requests.                          *)
LEMMA CpuAccess ==
    ASSUME CpuNext
    PROVE  \E axi \in Accesses : TopClock(axi)
  BY DEF CpuNext, FreeNext, DisciplinedNext, Accesses

LEMMA CpuValues ==
    ASSUME NEW axi \in Accesses
    PROVE  ConfigValues(axi)
  BY CpuAssumption DEF ConfigValues, WritesConfig, Accesses

(* A memory of words is a block.                                                     *)
LEMMA WordsAreBlock ==
    ASSUME NEW m \in [Ram!Addr -> MemWord]
    PROVE  IsBlock(m)
  <1>1. ASSUME NEW w \in 0 .. Depth - 1
        PROVE  m[w] = [b \in ByteLanes |-> m[w][b]]
    <2>1. m[w] \in MemWord
      BY DEF Ram!Addr
    <2>. QED
      BY <2>1, CpuAssumption
  <1>2. m = [w \in 0 .. Depth - 1 |-> m[w]]
    BY DEF Ram!Addr
  <1>3. m = [w \in 0 .. Depth - 1 |-> [b \in ByteLanes |-> m[w][b]]]
    BY <1>1, <1>2
  <1>4. ASSUME NEW l \in 0 .. RateLanes - 1
        PROVE  <<m[2 * l], m[2 * l + 1]>> \in InLane
    <2>1. 2 * l \in Ram!Addr /\ 2 * l + 1 \in Ram!Addr
      BY WrapperAssumption, CoreAssumption, SMT DEF Ram!Addr
    <2>2. m[2 * l] \in MemWord /\ m[2 * l + 1] \in MemWord
      BY <2>1
    <2>. QED
      BY <2>2, CpuAssumption
  <1>5. BlockIn(m) \in RateBlock
    BY <1>4 DEF BlockIn, RateBlock
  <1>. QED
    BY <1>3, <1>5 DEF IsBlock

LEMMA InitCpuIInv == CpuInit => CpuIInv
  <1>. SUFFICES ASSUME CpuInit PROVE CpuIInv
    OBVIOUS
  <1>1. FsmIInv
    BY InitFsmIInv DEF CpuInit, TopInit, WrapperInit
  <1>2. MemTyped /\ InputTyped
    BY CpuAssumption DEF CpuInit, TopInit, WrapperInit, Ram!Init, MemTyped, InputTyped
  <1>. QED
    BY <1>1, <1>2, InitCtrl, InitTopJob DEF CpuInit, CpuIInv, TopIInv

(* The lane that meets din_valid_reg is a lane of memory words.                      *)
LEMMA LaneFromMemory ==
    ASSUME TopIInv, din_valid_reg = 1
    PROVE  <<rdata_b, rdata_a>> \in InLane
  <1>1. state \in {"IDLE", "WRITE"}
    BY SMT DEF TopIInv, FsmIInv, FsmTypes, States, Loaded
  <1>. QED
    BY <1>1, CpuAssumption DEF TopIInv, MemTyped

LEMMA TopStep ==
    ASSUME TopIInv, InputTyped, NEW axi \in Accesses, TopClock(axi)
    PROVE  TopIInv' /\ InputTyped'
  <1>1. /\ FsmIInv /\ FsmTypes /\ MemTyped /\ CtrlTyped
        /\ FsmClock(start_int, output_length_byte, rdata_b, rdata_a)
    BY DEF TopIInv, FsmIInv, TopClock, WrapperClock
  <1>2. FsmIInv'
    BY <1>1, LaneFromMemory, FsmClockIInv
  <1>3. MemTyped'
    <2>. SUFFICES ASSUME state' \in {"IDLE", "WRITE"}
                  PROVE  /\ mem' \in [Ram!Addr -> MemWord]
                         /\ rdata_a' \in MemWord /\ rdata_b' \in MemWord
      BY DEF MemTyped
    <2>1. state \in {"IDLE", "WRITE"}
      BY <1>1, StateBefore
    <2>2. mem \in [Ram!Addr -> MemWord] /\ rdata_a \in MemWord /\ rdata_b \in MemWord
      BY <1>1, <2>1 DEF MemTyped
    <2>3. mem' = mem \/ mem' = Ram!Stored(mem, acc_request(axi))
      BY <2>1, TopMemoryEdge
    <2>4. /\ rdata_a' = Ram!Output(PortA(start_int, acc_request(axi)), rdata_a)
          /\ rdata_b' = Ram!Output(mem_port_a, rdata_b)
      BY DEF TopClock, WrapperClock, Ram!Clock
    <2>. QED
      BY <2>2, <2>3, <2>4, CpuStores, OutputTyped
  <1>4. CtrlTyped'
    BY <1>1, CpuValues, CtrlStep
  <1>5. InputTyped'
    <2>1. CASE start_int = 0 /\ state = "IDLE"
      <3>1. mem \in [Ram!Addr -> MemWord]
        BY <1>1, <2>1 DEF MemTyped
      <3>2. mem' = Ram!Stored(mem, acc_request(axi))
        BY <2>1, TopMemoryEdge
      <3>3. mem' \in [Ram!Addr -> MemWord]
        BY <3>1, <3>2, CpuStores
      <3>. QED
        BY <2>1, <3>3, InputEdge DEF InputTyped, Ram!Addr, MemWord
    <2>2. CASE ~ (start_int = 0 /\ state = "IDLE")
      BY <2>2, InputEdge DEF InputTyped, Ram!Addr, MemWord
    <2>. QED
      BY <2>1, <2>2
  <1>. QED
    BY <1>2, <1>3, <1>4, <1>5 DEF TopIInv

LEMMA CpuStep ==
    ASSUME CpuIInv, CpuNext
    PROVE  CpuIInv'
  <1>1. TopIInv' /\ InputTyped'
    BY CpuAccess, TopStep DEF CpuIInv
  <1>2. ASSUME disciplined'
        PROVE  TopJob'
    <2>1. disciplined /\ DisciplinedNext
      BY <1>2 DEF CpuNext
    <2>2. PICK axi \in Accesses : TopClock(axi) /\ (start_int = 1 => ~ WritesConfig(axi))
      BY <2>1 DEF DisciplinedNext, Accesses
    <2>3. IsBlock(input)
      BY WordsAreBlock DEF CpuIInv, InputTyped
    <2>. QED
      BY <2>1, <2>2, <2>3, TopJobStep DEF CpuIInv, TopIInv
  <1>. QED
    BY <1>1, <1>2 DEF CpuIInv

LEMMA CpuUnchanged ==
    ASSUME CpuIInv, UNCHANGED <<topVars, disciplined>>
    PROVE  CpuIInv'
  <1>1. /\ UNCHANGED accelVars /\ UNCHANGED <<mem, rdata_a, rdata_b>>
        /\ UNCHANGED ctrl_reg /\ input' = input /\ disciplined' = disciplined
        /\ UNCHANGED topVars
    BY DEF topVars, Cfg!cfgVars, wrapperVars, Ram!ramVars
  <1>2. state' = state
    BY <1>1 DEF accelVars, fsmRegs
  <1>3. FsmIInv' /\ CtrlTyped'
    BY <1>1, FsmUnchanged, CtrlUnchanged DEF CpuIInv, TopIInv
  <1>4. MemTyped' /\ InputTyped'
    BY <1>1, <1>2 DEF CpuIInv, TopIInv, MemTyped, InputTyped, Ram!Addr, MemWord
  <1>5. disciplined' => TopJob'
    BY <1>1, TopJobUnchanged DEF CpuIInv, TopIInv
  <1>. QED
    BY <1>3, <1>4, <1>5 DEF CpuIInv, TopIInv

LEMMA SpecCpuIInv == TopSpec => []CpuIInv
  <1>1. CpuIInv /\ [CpuNext]_<<topVars, disciplined>> => CpuIInv'
    BY CpuStep, CpuUnchanged
  <1>. QED
    BY <1>1, InitCpuIInv, PTL DEF TopSpec

-----------------------------------------------------------------------------------
(* Whatever a CPU does, the FSM keeps the conditions the core relies on, and offers  *)
(* it one block per reset, of the whole rate and with no lane dropped.               *)
THEOREM FsmKeepsProtocol == TopSpec => []FsmHonoursProtocol
  <1>1. CpuIInv => FsmHonoursProtocol
    BY FsmIInvProtocol DEF CpuIInv, TopIInv
  <1>. QED
    BY <1>1, SpecCpuIInv, PTL

(* While start is set no access of the CPU reaches the memory, in any state.         *)
THEOREM MemoryIsHeld == TopSpec => MemoryHeldByJob
  <1>1. [CpuNext]_<<topVars, disciplined>> =>
          [start_int = 1 /\ mem' # mem => state = "READ"]_topVars
    <2>. SUFFICES ASSUME CpuNext, start_int = 1, state # "READ"
                  PROVE  mem' = mem
      OBVIOUS
    <2>1. PICK axi \in Accesses : TopClock(axi)
      BY CpuAccess
    <2>. QED
      BY <2>1, TopMemoryEdge
  <1>. QED
    BY <1>1, PTL DEF TopSpec, MemoryHeldByJob

(* From done on no access changes a control word or is answered.                     *)
THEOREM ConfigIsClosed == TopSpec => ConfigClosedAfterDone
  <1>1. CpuIInv /\ [CpuNext]_<<topVars, disciplined>> =>
          [done = 1 => /\ ctrl_reg' = [ctrl_reg EXCEPT ![0][0] = 0]
                       /\ rdata' = rdata
                       /\ done' = 1]_topVars
    BY CpuAccess, ConfigCleared DEF CpuIInv, TopIInv, FsmIInv
  <1>. QED
    BY <1>1, SpecCpuIInv, PTL DEF TopSpec, ConfigClosedAfterDone

(* A CPU that leaves the configuration alone while start is set gets, in the data    *)
(* memory, the hash of the block that was there when it set start, for every size    *)
(* of the rate, every length, every round count and every access to the memory.      *)
THEOREM JobIsIsolated == TopSpec => []IsolatedJob
  <1>1. CpuIInv => IsolatedJob
    BY DEF CpuIInv, TopJob, ReturnedJob, Delivered, Ram!Addr, IsolatedJob
  <1>. QED
    BY <1>1, SpecCpuIInv, PTL

-----------------------------------------------------------------------------------
(* The driver.  Until it sets start, the memory holds the bytes it has stored so far; *)
(* from then on the job is on the padded block, and its program only reads.           *)
BeforeStart == {"length", "fill", "start"}
FromStartOn == {"poll", "test", "read", "store", "returned"}

Filled(n) == \A k \in 0 .. n - 1 : mem[k \div 4][k % 4] = PaddedByte(k)
HasBytes(m) == m = [w \in Ram!Addr |-> [b \in ByteLanes |-> m[w][b]]]

Preparing ==
    pc \in BeforeStart =>
        /\ state = "IDLE" /\ ctrl_reg[0][0] = 0
        /\ HasBytes(mem)
        /\ pc = "fill" => i \in 0 .. RATE_BYTES - 1 /\ Filled(i)
        /\ pc = "start" => Filled(RATE_BYTES)

JobStarted ==
    pc \in FromStartOn =>
        /\ input = PaddedBlock
        /\ start_int = 1 \/ state = "DONE"
        /\ ReturnedJob(input, outlen - 1)

LengthSet == pc # "length" => ctrl_reg[0][1] = outlen - 1

DriverIInv ==
    /\ CtrlTyped
    /\ TopJob
    /\ inlen \in InLens /\ outlen \in OutLens
    /\ pc \in BeforeStart \cup FromStartOn
    /\ Preparing
    /\ JobStarted
    /\ LengthSet

(* An access that does not write.                                                    *)
Reads(axi) == axi.req = 0 \/ axi.we = 0

-----------------------------------------------------------------------------------
(* The addresses of the driver's pointers.                                           *)
LEMMA PowerOfTwo ==
    ASSUME NEW n \in Nat
    PROVE  2 ^ n \in Nat \ {0}
  <1>1. IsFiniteSet(1 .. n) /\ Cardinality(1 .. n) = n
    <2>1. 1 \in Int /\ n \in Int
      BY SMT
    <2>2. IF 1 > n THEN n = 0 ELSE n - 1 + 1 = n
      BY SMT
    <2>. QED
      BY <2>1, <2>2, FS_Interval
  <1>2. IsFiniteSet(SUBSET (1 .. n)) /\ Cardinality(SUBSET (1 .. n)) = 2 ^ n
    BY <1>1, FS_SUBSET
  <1>3. Cardinality(SUBSET (1 .. n)) \in Nat
    BY <1>2, FS_CardinalityType
  <1>4. Cardinality(SUBSET (1 .. n)) # 0
    BY <1>2, FS_EmptySet
  <1>. QED
    BY <1>2, <1>3, <1>4

LEMMA ControlAddress ==
    ASSUME NEW byte, NEW v
    PROVE  /\ addr_is_config(StoreByte(ControlWord, byte, v)) = 1
           /\ cfg_addr(StoreByte(ControlWord, byte, v)) = 0
  <1>. DEFINE axi == StoreByte(ControlWord, byte, v)
  <1>1. axi.addr = 0
    BY DEF StoreByte, BusWrite, ControlWord
  <1>2. axi_mem_addr(axi) = 0
    <2>1. (4 * 0) % 2 ^ 20 = 0
      BY SMT
    <2>. QED
      BY <1>1, <2>1 DEF axi_mem_addr
  <1>3. PICK m \in Nat \ {0} : m = 2 ^ CFG_ADDR_BITS
    BY TopAssumption, PowerOfTwo
  <1>4. 0 % m = 0 /\ 0 < 2 ^ 19
    BY SMT
  <1>. QED
    BY <1>2, <1>3, <1>4 DEF addr_is_config, cfg_addr

LEMMA DataAddress ==
    ASSUME NEW k \in 0 .. 255, NEW v
    PROVE  /\ addr_is_config(StoreByte(DataByte(k), k % 4, v)) = 0
           /\ acc_addr(StoreByte(DataByte(k), k % 4, v)) = k \div 4
  <1>. DEFINE axi == StoreByte(DataByte(k), k % 4, v)
  <1>1. PICK q \in 0 .. 63 : q = k \div 4
    BY SMT
  <1>2. axi.addr = DataWord0 + q
    BY <1>1 DEF StoreByte, BusWrite, DataByte
  <1>3. (4 * (DataWord0 + q)) % 2 ^ 20 = 2 ^ 19 + 4 * q
    BY SMT DEF DataWord0
  <1>4. axi_mem_addr(axi) = 2 ^ 19 + 4 * q
    BY <1>2, <1>3 DEF axi_mem_addr
  <1>5. ~ (2 ^ 19 + 4 * q < 2 ^ 19) /\ ((2 ^ 19 + 4 * q) \div 4) % 1024 = q
    BY SMT
  <1>. QED
    BY <1>1, <1>4, <1>5 DEF addr_is_config, acc_addr

-----------------------------------------------------------------------------------
(* The padded block, byte by byte.                                                   *)
LEMMA Sizes ==
    /\ RATE_BYTES = 8 * RateLanes /\ RATE_BYTES \in 1 .. 255
    /\ Depth = 2 * RateLanes /\ RateLanes \in Nat
    /\ \A len \in InLens : len \in 0 .. RATE_BYTES - 2
  <1>1. RATE_BYTES = 8 * RateLanes /\ RATE_BYTES \in 1 .. 255
    BY RateFits, SMT DEF RATE_BYTES
  <1>. QED
    BY <1>1, RateFits, WrapperAssumption, DriverAssumption

LEMMA ByteOfBlock ==
    ASSUME inlen \in InLens, NEW w \in 0 .. Depth - 1, NEW b \in 0 .. 3
    PROVE  /\ 4 * w + b \in 0 .. RATE_BYTES - 1
           /\ PaddedBlock[w][b] = PaddedByte(4 * w + b)
  <1>1. inlen \in 0 .. RATE_BYTES - 2
    BY Sizes
  <1>2. PICK k \in 0 .. RATE_BYTES - 1 : k = 4 * w + b
    BY Sizes, SMT
  <1>3. PaddedBlock[w][b] = CASE k \in 0 .. inlen - 1 -> InputByte(k)
                              [] k = inlen -> Pad1F
                              [] k \in inlen + 1 .. RATE_BYTES - 2 -> PadZero
                              [] k = RATE_BYTES - 1 -> Pad80
    BY <1>2, DriverAssumption DEF PaddedBlock, PaddedBlockOf, Byte
  <1>4. CASE k < inlen
    <2>1. /\ k \in 0 .. inlen - 1 /\ k # inlen
          /\ k \notin inlen + 1 .. RATE_BYTES - 2 /\ k # RATE_BYTES - 1
      BY <1>1, <1>4, Sizes, SMT
    <2>. QED
      BY <1>2, <1>3, <1>4, <2>1 DEF PaddedByte
  <1>5. CASE k = inlen
    <2>1. /\ k \notin 0 .. inlen - 1 /\ ~ (k < inlen)
          /\ k \notin inlen + 1 .. RATE_BYTES - 2 /\ k # RATE_BYTES - 1
      BY <1>1, <1>5, Sizes, SMT
    <2>. QED
      BY <1>2, <1>3, <1>5, <2>1 DEF PaddedByte
  <1>6. CASE k > inlen /\ k # RATE_BYTES - 1
    <2>1. /\ k \notin 0 .. inlen - 1 /\ ~ (k < inlen) /\ k # inlen
          /\ k \in inlen + 1 .. RATE_BYTES - 2
      BY <1>1, <1>6, Sizes, SMT
    <2>. QED
      BY <1>2, <1>3, <1>6, <2>1 DEF PaddedByte
  <1>7. CASE k > inlen /\ k = RATE_BYTES - 1
    <2>1. /\ k \notin 0 .. inlen - 1 /\ ~ (k < inlen) /\ k # inlen
          /\ k \notin inlen + 1 .. RATE_BYTES - 2
      BY <1>1, <1>7, Sizes, SMT
    <2>. QED
      BY <1>2, <1>3, <1>7, <2>1 DEF PaddedByte
  <1>8. k < inlen \/ k = inlen \/ k > inlen
    BY <1>1, Sizes, SMT
  <1>. QED
    BY <1>2, <1>4, <1>5, <1>6, <1>7, <1>8

LEMMA FilledIsPadded ==
    ASSUME inlen \in InLens, HasBytes(mem), Filled(RATE_BYTES)
    PROVE  mem = PaddedBlock
  <1>1. ASSUME NEW w \in 0 .. Depth - 1, NEW b \in 0 .. 3
        PROVE  mem[w][b] = PaddedBlock[w][b]
    <2>1. PICK k \in 0 .. RATE_BYTES - 1 : k = 4 * w + b
      BY ByteOfBlock
    <2>2. k \div 4 = w /\ k % 4 = b
      BY <2>1, Sizes, SMT
    <2>. QED
      BY <2>1, <2>2, ByteOfBlock DEF Filled
  <1>. DEFINE word(m, w) == [b \in 0 .. 3 |-> m[w][b]]
  <1>2. ASSUME NEW w \in 0 .. Depth - 1
        PROVE  word(mem, w) = word(PaddedBlock, w)
    BY <1>1
  <1>3. mem = [w \in 0 .. Depth - 1 |-> word(mem, w)]
    BY DriverAssumption DEF HasBytes, Ram!Addr
  <1>4. PaddedBlock = [w \in 0 .. Depth - 1 |-> word(PaddedBlock, w)]
    <2>1. IsBlock(PaddedBlock)
      BY PaddedAssumption DEF PaddedBlock
    <2>. QED
      BY <2>1, DriverAssumption DEF IsBlock
  <1>. HIDE DEF word
  <1>. QED
    BY <1>2, <1>3, <1>4

(* What a byte store does to the memory.                                             *)
LEMMA ByteStored ==
    ASSUME NEW m, HasBytes(m), NEW k \in 0 .. RATE_BYTES - 1, NEW v
    PROVE  LET stored == Ram!Stored(m, acc_request(StoreByte(DataByte(k), k % 4, v)))
           IN  /\ HasBytes(stored)
               /\ stored[k \div 4][k % 4] = v
               /\ \A l \in 0 .. k - 1 : stored[l \div 4][l % 4] = m[l \div 4][l % 4]
  <1>. DEFINE axi == StoreByte(DataByte(k), k % 4, v)
              port == acc_request(axi)
              stored == Ram!Stored(m, port)
  <1>1. k \in 0 .. 255
    BY Sizes, SMT
  <1>2. PICK q \in Ram!Addr : q = k \div 4
    BY Sizes, SMT DEF Ram!Addr
  <1>3. PICK c \in ByteLanes : c = k % 4
    BY Sizes, DriverAssumption, SMT
  <1>4. /\ axi.req = 1 /\ axi.we = 1 /\ axi.be = {c} /\ axi.wdata = [b \in ByteLanes |-> v]
        /\ addr_is_config(axi) = 0 /\ acc_addr(axi) = q
    BY <1>1, <1>2, <1>3, DataAddress DEF StoreByte, BusWrite, Byte
  <1>5. /\ port.en = 1 /\ port.we = 1 /\ port.addr = q
        /\ port.be = {c} /\ port.wdata = [b \in ByteLanes |-> v]
    BY <1>4 DEF acc_request
  <1>. DEFINE new == [b \in ByteLanes |-> IF b = c THEN v ELSE m[q][b]]
  <1>6. stored = [m EXCEPT ![q] = new]
    <2>1. [b \in ByteLanes |-> IF b \in port.be THEN port.wdata[b] ELSE m[q][b]] = new
      BY <1>5
    <2>. HIDE DEF port
    <2>. QED
      BY <1>5, <2>1 DEF Ram!Stored
  <1>7. stored = [w \in Ram!Addr |-> IF w = q THEN new ELSE m[w]]
    <2>1. DOMAIN m = Ram!Addr
      BY DEF HasBytes
    <2>2. m = [w \in Ram!Addr |-> m[w]]
      BY DEF HasBytes
    <2>. HIDE DEF new, stored
    <2>. QED
      BY <1>6, <2>1, <2>2
  <1>8. ASSUME NEW w \in Ram!Addr
        PROVE  m[w] = [b \in ByteLanes |-> m[w][b]]
    <2>. DEFINE word(x) == [b \in ByteLanes |-> m[x][b]]
    <2>1. m = [x \in Ram!Addr |-> word(x)]
      BY DEF HasBytes
    <2>. HIDE DEF word
    <2>2. m[w] = word(w)
      BY <2>1
    <2>. QED
      BY <2>2 DEF word
  <1>9. ASSUME NEW w \in Ram!Addr
        PROVE  stored[w] = [b \in ByteLanes |-> stored[w][b]]
    <2>1. CASE w = q
      <3>1. stored[w] = new
        BY <1>7, <2>1
      <3>. QED
        BY <3>1
    <2>2. CASE w # q
      <3>1. stored[w] = m[w]
        BY <1>7, <2>2
      <3>. QED
        BY <1>8, <3>1
    <2>. QED
      BY <2>1, <2>2
  <1>10. HasBytes(stored)
    <2>1. stored = [w \in Ram!Addr |-> stored[w]]
      BY <1>7
    <2>. HIDE DEF stored
    <2>. QED
      BY <1>9, <2>1 DEF HasBytes
  <1>11. stored[q][c] = v
    BY <1>7
  <1>12. ASSUME NEW l \in 0 .. k - 1
         PROVE  stored[l \div 4][l % 4] = m[l \div 4][l % 4]
    <2>1. PICK p \in Ram!Addr : p = l \div 4
      BY Sizes, SMT DEF Ram!Addr
    <2>2. PICK d \in ByteLanes : d = l % 4
      BY Sizes, DriverAssumption, SMT
    <2>3. p # q \/ d # c
      BY <1>2, <1>3, <2>1, <2>2, Sizes, SMT
    <2>4. stored[p][d] = m[p][d]
      BY <1>7, <2>3
    <2>. QED
      BY <2>1, <2>2, <2>4
  <1>. QED
    BY <1>2, <1>3, <1>10, <1>11, <1>12

-----------------------------------------------------------------------------------
(* The steps of the driver.  A read leaves memory and configuration alone.           *)
LEMMA ReadFacts ==
    ASSUME NEW axi, Reads(axi)
    PROVE  /\ ~ WritesConfig(axi) /\ ConfigValues(axi)
           /\ \A m : Ram!Stored(m, acc_request(axi)) = m
  <1>1. axi.req = 1 /\ axi.we = 1 => FALSE
    BY SMT DEF Reads
  <1>2. acc_request(axi).en = 0 \/ acc_request(axi).we = 0
    BY SMT DEF Reads, acc_request
  <1>. QED
    BY <1>1, <1>2, PortQuiet DEF WritesConfig, ConfigValues

LEMMA DriverFacts ==
    ASSUME DriverIInv
    PROVE  /\ CtrlTyped /\ TopJob /\ FsmTypes
           /\ start_int = 1 => pc \in FromStartOn
           /\ pc \in FromStartOn => IsBlock(input)
           /\ pc # "length" => output_length_byte = outlen - 1
           /\ outlen - 1 \in 0 .. 63 /\ outlen - 1 <= 8 * OutLanes
  <1>1. CtrlTyped /\ TopJob /\ FsmTypes
    BY DEF DriverIInv, TopJob, JobRuns, FsmIInv
  <1>2. start_int = 1 => pc \in FromStartOn
    <2>1. 0 % 2 # 1
      BY SMT
    <2>. QED
      BY <2>1 DEF DriverIInv, Preparing, start_int
  <1>3. pc \in FromStartOn => IsBlock(input)
    BY PaddedAssumption DEF DriverIInv, JobStarted, PaddedBlock
  <1>4. outlen - 1 \in 0 .. 63 /\ outlen - 1 <= 8 * OutLanes
    <2>1. OutLanes \in Nat
      BY CoreAssumption, SMT
    <2>2. outlen \in 1 .. 64 /\ outlen \in 1 .. 8 * OutLanes + 1
      BY DriverAssumption DEF DriverIInv
    <2>. QED
      BY <2>1, <2>2, SMT
  <1>5. pc # "length" => output_length_byte = outlen - 1
    <2>1. \A n \in 0 .. 63 : n % 64 = n
      BY SMT
    <2>. QED
      BY <1>4, <2>1 DEF DriverIInv, LengthSet, output_length_byte
  <1>. QED
    BY <1>1, <1>2, <1>3, <1>4, <1>5

(* Its accesses keep to the protocol of a job.                                       *)
LEMMA DriverJobStep ==
    ASSUME DriverIInv, NEW axi, TopClock(axi), ConfigValues(axi),
           start_int = 1 => ~ WritesConfig(axi)
    PROVE  CtrlTyped' /\ TopJob'
  <1>1. CtrlTyped /\ TopJob /\ (start_int = 1 => IsBlock(input))
    BY DriverFacts
  <1>. QED
    BY <1>1, CtrlStep, TopJobStep

(* While start is low the FSM stays in IDLE, and the input is what the memory holds.  *)
LEMMA StaysIdle ==
    ASSUME NEW axi, TopClock(axi), state = "IDLE", start_int = 0
    PROVE  /\ state' = "IDLE" /\ input' = mem'
           /\ mem' = Ram!Stored(mem, acc_request(axi))
  <1>1. state' = "IDLE"
    BY SMT DEF TopClock, WrapperClock, FsmClock, n_state
  <1>2. mem' = Ram!Stored(mem, acc_request(axi))
    BY TopMemoryEdge, SMT
  <1>. QED
    BY <1>1, <1>2, InputEdge

LEMMA BeforeStartFacts ==
    ASSUME DriverIInv, pc \in BeforeStart
    PROVE  /\ state = "IDLE" /\ start_int = 0 /\ done = 0
           /\ ctrl_reg[0][0] = 0 /\ HasBytes(mem)
           /\ pc \notin FromStartOn
  <1>1. FsmTypes /\ state = "IDLE" /\ ctrl_reg[0][0] = 0 /\ HasBytes(mem)
    BY DriverFacts DEF DriverIInv, Preparing
  <1>2. start_int = 0
    BY <1>1, SMT DEF start_int
  <1>3. done = 0
    BY <1>1, SMT DEF FsmTypes
  <1>. QED
    BY <1>1, <1>2, <1>3 DEF BeforeStart, FromStartOn

(* A store into the configuration, while the FSM is in IDLE.                         *)
LEMMA ControlStore ==
    ASSUME CtrlTyped, done = 0, NEW byte \in {0, 1}, NEW v \in Nat,
           TopClock(StoreByte(ControlWord, byte, v))
    PROVE  /\ ctrl_reg'[0][byte] = v
           /\ \A b \in {0, 1} \ {byte} : ctrl_reg'[0][b] = ctrl_reg[0][b]
           /\ \A m : Ram!Stored(m, acc_request(StoreByte(ControlWord, byte, v))) = m
  <1>. DEFINE axi == StoreByte(ControlWord, byte, v)
              new == [b \in CfgBytes |-> IF b = byte THEN v ELSE ctrl_reg[0][b]]
  <1>1. byte \in CfgBytes /\ 0 \in CfgBytes /\ 1 \in CfgBytes /\ byte \in ByteLanes
    BY TopAssumption, DriverAssumption, SMT
  <1>2. /\ axi.req = 1 /\ axi.we = 1 /\ axi.be = {byte} /\ axi.wdata = [b \in ByteLanes |-> v]
        /\ addr_is_config(axi) = 1 /\ cfg_addr(axi) = 0
    BY ControlAddress DEF StoreByte, BusWrite, Byte
  <1>3. /\ cfg_request(axi).en = 1 /\ cfg_request(axi).we = 1 /\ cfg_request(axi).addr = 0
        /\ cfg_request(axi).be = {byte} /\ cfg_request(axi).wdata = [b \in ByteLanes |-> v]
    BY <1>2 DEF cfg_request
  <1>4. 0 < CTRL_WORDS /\ 0 \in 0 .. CTRL_WORDS - 1
    BY TopAssumption, SMT
  <1>5. [b \in CfgBytes |-> IF b \in {byte} THEN [c \in ByteLanes |-> v][b]
                            ELSE ctrl_reg[0][b]] = new
    BY <1>1
  <1>6. ctrl_reg' = [ctrl_reg EXCEPT ![0] = new]
    <2>. HIDE DEF axi
    <2>. QED
      BY <1>3, <1>4, <1>5 DEF TopClock, Cfg!Clock, Cfg!is_config, axi
  <1>7. ctrl_reg'[0] = new
    <2>. HIDE DEF new
    <2>. QED
      BY <1>4, <1>6 DEF CtrlTyped
  <1>8. acc_request(axi).en = 0
    BY <1>2, SMT DEF acc_request
  <1>. QED
    BY <1>1, <1>7, <1>8, PortQuiet

LEMMA SetLengthStep ==
    ASSUME DriverIInv, SetLength
    PROVE  DriverIInv'
  <1>1. /\ pc = "length" /\ pc' = "fill" /\ i' = 0
        /\ TopClock(StoreByte(ControlWord, OUTPUT_LEN_BYTE_REG, (outlen - 1) % 256))
        /\ inlen' = inlen /\ outlen' = outlen
    BY DEF SetLength, Access
  <1>2. PICK v \in 0 .. 63 : v = outlen - 1 /\ v <= 8 * OutLanes
    BY DriverFacts
  <1>3. (outlen - 1) % 256 = v /\ v \in Nat /\ v % 64 = v
    <2>1. v % 256 = v /\ v \in Nat /\ v % 64 = v
      BY SMT
    <2>. QED
      BY <1>2, <2>1
  <1>. DEFINE axi == StoreByte(ControlWord, 1, v)
  <1>4. TopClock(axi)
    BY <1>1, <1>3 DEF OUTPUT_LEN_BYTE_REG
  <1>5. pc \in BeforeStart
    BY <1>1 DEF BeforeStart
  <1>6. CtrlTyped /\ start_int = 0 /\ start_int # 1 /\ done = 0 /\ state = "IDLE"
    BY <1>5, BeforeStartFacts, DriverFacts, SMT
  <1>7. ConfigValues(axi)
    <2>1. axi.be = {1} /\ axi.wdata = [b \in ByteLanes |-> v] /\ 1 \in ByteLanes
      BY DriverAssumption, SMT DEF StoreByte, BusWrite, Byte
    <2>. QED
      BY <1>2, <1>3, <2>1 DEF ConfigValues
  <1>8. CtrlTyped' /\ TopJob'
    <2>. HIDE DEF axi
    <2>. QED
      BY <1>4, <1>6, <1>7, DriverJobStep
  <1>9. /\ ctrl_reg'[0][1] = v /\ ctrl_reg'[0][0] = ctrl_reg[0][0]
        /\ mem' = mem /\ state' = "IDLE"
    <2>1. 0 \in {0, 1} \ {1}
      BY SMT
    <2>. QED
      BY <1>3, <1>4, <1>6, <2>1, ControlStore, StaysIdle
  <1>10. Preparing'
    <2>1. 0 .. 0 - 1 = {} /\ 0 \in 0 .. RATE_BYTES - 1
      BY Sizes, SMT
    <2>2. i' \in 0 .. RATE_BYTES - 1 /\ Filled(i)'
      BY <1>1, <2>1 DEF Filled
    <2>3. HasBytes(mem) /\ ctrl_reg[0][0] = 0
      BY <1>5, BeforeStartFacts
    <2>. QED
      BY <1>1, <1>9, <2>2, <2>3 DEF Preparing, HasBytes
  <1>11. JobStarted'
    BY <1>1 DEF JobStarted, FromStartOn
  <1>12. LengthSet'
    BY <1>1, <1>2, <1>9 DEF LengthSet
  <1>. QED
    BY <1>1, <1>8, <1>10, <1>11, <1>12 DEF DriverIInv, BeforeStart

LEMMA FillStep ==
    ASSUME DriverIInv, Fill
    PROVE  DriverIInv'
  <1>1. /\ pc = "fill" /\ pc' = IF i + 1 < RATE_BYTES THEN "fill" ELSE "start"
        /\ i' = (i + 1) % 256
        /\ TopClock(StoreByte(DataByte(i), i % 4, PaddedByte(i)))
        /\ inlen' = inlen /\ outlen' = outlen
    BY DEF Fill, Access
  <1>2. PICK k \in 0 .. RATE_BYTES - 1 : k = i /\ Filled(k)
    BY <1>1 DEF DriverIInv, Preparing, BeforeStart
  <1>3. PICK v : v = PaddedByte(k)
    OBVIOUS
  <1>. DEFINE axi == StoreByte(DataByte(k), k % 4, v)
  <1>4. TopClock(axi)
    BY <1>1, <1>2, <1>3
  <1>5. pc \in BeforeStart
    BY <1>1 DEF BeforeStart
  <1>6. /\ CtrlTyped /\ start_int = 0 /\ start_int # 1 /\ done = 0 /\ state = "IDLE"
        /\ HasBytes(mem) /\ ctrl_reg[0][0] = 0
    BY <1>5, BeforeStartFacts, DriverFacts, SMT
  <1>7. k \in 0 .. 255
    BY Sizes, SMT
  <1>8. addr_is_config(axi) = 0
    BY <1>7, DataAddress
  <1>9. ~ WritesConfig(axi) /\ ConfigValues(axi)
    <2>1. 0 # 1
      BY SMT
    <2>. QED
      BY <1>8, <2>1 DEF WritesConfig, ConfigValues
  <1>10. CtrlTyped' /\ TopJob'
    <2>. HIDE DEF axi
    <2>. QED
      BY <1>4, <1>9, DriverJobStep
  <1>11. /\ ctrl_reg' = ctrl_reg
         /\ mem' = Ram!Stored(mem, acc_request(axi)) /\ state' = "IDLE"
    <2>. HIDE DEF axi
    <2>. QED
      BY <1>4, <1>6, <1>9, ConfigKept, StaysIdle
  <1>12. /\ HasBytes(mem)'
         /\ mem'[k \div 4][k % 4] = v
         /\ \A l \in 0 .. k - 1 : mem'[l \div 4][l % 4] = mem[l \div 4][l % 4]
    <2>. DEFINE stored == Ram!Stored(mem, acc_request(axi))
    <2>1. /\ HasBytes(stored)
          /\ stored[k \div 4][k % 4] = v
          /\ \A l \in 0 .. k - 1 : stored[l \div 4][l % 4] = mem[l \div 4][l % 4]
      BY <1>6, ByteStored
    <2>2. mem' = stored
      BY <1>11
    <2>. HIDE DEF stored
    <2>. QED
      BY <2>1, <2>2
  <1>13. Filled(k + 1)'
    <2>. SUFFICES ASSUME NEW l \in 0 .. k + 1 - 1
                  PROVE  mem'[l \div 4][l % 4] = PaddedByte(l)'
      BY DEF Filled
    <2>1. PaddedByte(l)' = PaddedByte(l)
      BY <1>1 DEF PaddedByte
    <2>2. l = k \/ l \in 0 .. k - 1
      BY SMT
    <2>. QED
      BY <1>2, <1>3, <1>12, <2>1, <2>2 DEF Filled
  <1>14. Preparing'
    <2>1. (k + 1) % 256 = k + 1
      BY <1>7, Sizes, SMT
    <2>2. CASE k + 1 < RATE_BYTES
      <3>1. pc' = "fill" /\ i' = k + 1 /\ k + 1 \in 0 .. RATE_BYTES - 1
        <4>1. k + 1 \in 0 .. RATE_BYTES - 1
          BY <2>2, Sizes, SMT
        <4>. QED
          BY <1>1, <1>2, <2>1, <2>2, <4>1
      <3>2. Filled(i)'
        BY <1>13, <3>1
      <3>. QED
        BY <1>6, <1>11, <1>12, <3>1, <3>2 DEF Preparing
    <2>3. CASE ~ (k + 1 < RATE_BYTES)
      <3>1. pc' = "start" /\ k + 1 = RATE_BYTES
        <4>1. k + 1 = RATE_BYTES
          BY <2>3, Sizes, SMT
        <4>. QED
          BY <1>1, <1>2, <2>3, <4>1
      <3>2. Filled(RATE_BYTES)'
        BY <1>13, <3>1
      <3>. QED
        BY <1>6, <1>11, <1>12, <3>1, <3>2 DEF Preparing
    <2>. QED
      BY <2>2, <2>3
  <1>15. pc' \in BeforeStart
    BY <1>1 DEF BeforeStart
  <1>16. JobStarted'
    BY <1>1 DEF JobStarted, FromStartOn
  <1>17. LengthSet'
    BY <1>1, <1>11 DEF DriverIInv, LengthSet
  <1>. QED
    BY <1>1, <1>10, <1>14, <1>15, <1>16, <1>17 DEF DriverIInv

LEMMA SetStartStep ==
    ASSUME DriverIInv, SetStart
    PROVE  DriverIInv'
  <1>1. /\ pc = "start" /\ pc' = "poll"
        /\ TopClock(StoreByte(ControlWord, START_REG, 1))
        /\ inlen' = inlen /\ outlen' = outlen
    BY DEF SetStart, Access
  <1>. DEFINE axi == StoreByte(ControlWord, 0, 1)
  <1>2. TopClock(axi)
    BY <1>1 DEF START_REG
  <1>3. pc \in BeforeStart
    BY <1>1 DEF BeforeStart
  <1>4. CtrlTyped /\ start_int = 0 /\ start_int # 1 /\ done = 0 /\ state = "IDLE"
    BY <1>3, BeforeStartFacts, DriverFacts, SMT
  <1>5. ConfigValues(axi)
    <2>1. /\ axi.be = {0} /\ axi.wdata = [b \in ByteLanes |-> 1] /\ 0 \in ByteLanes
          /\ 1 \notin {0} /\ 1 \in Nat
      BY DriverAssumption, SMT DEF StoreByte, BusWrite, Byte
    <2>. QED
      BY <2>1 DEF ConfigValues
  <1>6. CtrlTyped' /\ TopJob'
    <2>. HIDE DEF axi
    <2>. QED
      BY <1>2, <1>4, <1>5, DriverJobStep
  <1>7. /\ ctrl_reg'[0][0] = 1 /\ ctrl_reg'[0][1] = ctrl_reg[0][1]
        /\ mem' = mem /\ input' = mem' /\ state' = "IDLE"
    <2>1. 1 \in {0, 1} \ {0} /\ 1 \in Nat
      BY SMT
    <2>. QED
      BY <1>2, <1>4, <2>1, ControlStore, StaysIdle
  <1>8. mem = PaddedBlock
    BY <1>1, <1>3, FilledIsPadded, BeforeStartFacts DEF DriverIInv, Preparing
  <1>9. PaddedBlock' = PaddedBlock
    BY <1>1 DEF PaddedBlock
  <1>10. start_int' = 1
    BY <1>7, SMT DEF start_int
  <1>11. JobStarted'
    BY <1>7, <1>8, <1>9, <1>10 DEF JobStarted, ReturnedJob
  <1>12. Preparing'
    BY <1>1 DEF Preparing, BeforeStart
  <1>13. LengthSet'
    BY <1>1, <1>7 DEF DriverIInv, LengthSet
  <1>. QED
    BY <1>1, <1>6, <1>11, <1>12, <1>13 DEF DriverIInv, FromStartOn

(* A cycle in which the driver waits, computes or reads, before start and after.     *)
LEMMA QuietBeforeStart ==
    ASSUME DriverIInv, NEW axi, TopClock(axi), Reads(axi), pc \in BeforeStart,
           UNCHANGED <<pc, i, inlen, outlen>>
    PROVE  DriverIInv'
  <1>1. /\ state = "IDLE" /\ start_int = 0 /\ start_int # 1 /\ done = 0
        /\ ctrl_reg[0][0] = 0 /\ HasBytes(mem) /\ pc \notin FromStartOn
    BY BeforeStartFacts, SMT
  <1>2. CtrlTyped' /\ TopJob'
    BY ReadFacts, DriverJobStep
  <1>3. ctrl_reg' = ctrl_reg /\ mem' = mem /\ state' = "IDLE"
    BY <1>1, ReadFacts, ConfigKept, StaysIdle
  <1>4. \A n : Filled(n) => Filled(n)'
    BY <1>3 DEF Filled, PaddedByte
  <1>5. Preparing'
    BY <1>1, <1>3, <1>4 DEF DriverIInv, Preparing
  <1>6. JobStarted' /\ LengthSet'
    BY <1>1, <1>3 DEF DriverIInv, JobStarted, LengthSet
  <1>. QED
    BY <1>2, <1>5, <1>6 DEF DriverIInv

LEMMA QuietFromStartOn ==
    ASSUME DriverIInv, NEW axi, TopClock(axi), Reads(axi), pc \in FromStartOn,
           pc' \in FromStartOn, UNCHANGED <<inlen, outlen>>
    PROVE  DriverIInv'
  <1>1. /\ CtrlTyped /\ TopJob /\ FsmTypes /\ pc # "length"
        /\ output_length_byte = outlen - 1
        /\ ~ WritesConfig(axi) /\ ConfigValues(axi)
        /\ \A m : Ram!Stored(m, acc_request(axi)) = m
    BY DriverFacts, ReadFacts DEF FromStartOn
  <1>2. CtrlTyped' /\ TopJob'
    BY <1>1, DriverJobStep
  <1>3. /\ input = PaddedBlock /\ (start_int = 1 \/ state = "DONE")
        /\ ReturnedJob(input, outlen - 1) /\ ctrl_reg[0][1] = outlen - 1
    BY <1>1 DEF DriverIInv, JobStarted, LengthSet
  <1>4. start_int = 0 /\ state = "IDLE" => FALSE
    BY <1>3, SMT
  <1>5. input' = input
    BY <1>4, InputEdge
  <1>6. PaddedBlock' = PaddedBlock
    BY DEF PaddedBlock
  <1>7. PICK r : r = outlen - 1
    OBVIOUS
  <1>8. ctrl_reg'[0][1] = ctrl_reg[0][1]
    <2>1. CASE done = 0
      BY <1>1, <2>1, ConfigKept
    <2>2. CASE done = 1
      <3>1. ctrl_reg' = [ctrl_reg EXCEPT ![0][0] = 0] /\ 0 # 1
        BY <1>1, <2>2, ConfigCleared, SMT
      <3>2. 0 \in 0 .. CTRL_WORDS - 1
        BY TopAssumption, SMT
      <3>. QED
        BY <1>1, <3>1, <3>2 DEF CtrlTyped
    <2>. QED
      BY <1>1, <2>1, <2>2 DEF FsmTypes
  <1>9. /\ start_int' = 1 \/ state' = "DONE"
        /\ ReturnedJob(input, r)'
    <2>1. CASE state = "DONE"
      <3>1. state' = "DONE"
        BY <2>1, SMT DEF TopClock, WrapperClock, FsmClock, n_state
      <3>2. mem' = mem
        <4>1. state # "READ"
          BY <2>1
        <4>. QED
          BY <1>1, <4>1, TopMemoryEdge
      <3>. QED
        BY <1>3, <1>5, <1>7, <2>1, <3>1, <3>2 DEF ReturnedJob
    <2>2. CASE state # "DONE"
      <3>1. start_int = 1 /\ done = 0
        BY <1>1, <1>3, <2>2 DEF FsmTypes
      <3>2. start_int' = 1 /\ output_length_byte' = output_length_byte
        BY <1>1, <3>1, ConfigKept
      <3>3. CASE state = "IDLE"
        <4>1. state' = "WRITE"
          BY <3>1, <3>3, SMT DEF TopClock, WrapperClock, FsmClock, n_state
        <4>. QED
          BY <3>2, <4>1 DEF ReturnedJob
      <3>4. CASE state \in {"WRITE", "WAIT_HASH", "READ"}
        <4>1. ReturnedJob(input, output_length_byte)'
          BY <1>1, <3>4, TopRunningStep
        <4>2. output_length_byte' = r
          BY <1>1, <1>7, <3>2
        <4>. QED
          BY <3>2, <4>1, <4>2
      <3>. QED
        BY <1>1, <2>2, <3>3, <3>4 DEF FsmTypes, States
    <2>. QED
      BY <2>1, <2>2
  <1>10. JobStarted'
    BY <1>3, <1>5, <1>6, <1>7, <1>9 DEF JobStarted
  <1>11. Preparing'
    BY DEF Preparing, BeforeStart, FromStartOn
  <1>12. LengthSet'
    BY <1>3, <1>8 DEF LengthSet
  <1>. QED
    BY <1>2, <1>10, <1>11, <1>12 DEF DriverIInv

LEMMA DriverReads ==
    /\ Reads(NoRequest)
    /\ \A addr : Reads(BusRead(addr))
  BY DEF Reads, NoRequest, BusRead

LEMMA DriverStep ==
    ASSUME DriverIInv, DriverNext
    PROVE  DriverIInv'
  <1>1. CASE SetLength
    BY <1>1, SetLengthStep
  <1>2. CASE Fill
    BY <1>2, FillStep
  <1>3. CASE SetStart
    BY <1>3, SetStartStep
  <1>4. CASE Poll \/ TestDone \/ ReadResult \/ StoreResult \/ Returned
    <2>1. /\ \E axi : Reads(axi) /\ TopClock(axi)
          /\ pc \in FromStartOn /\ pc' \in FromStartOn
          /\ UNCHANGED <<inlen, outlen>>
      BY <1>4, DriverReads
      DEF Poll, TestDone, ReadResult, StoreResult, Returned, Access, Compute, FromStartOn
    <2>. QED
      BY <2>1, QuietFromStartOn
  <1>5. CASE Waiting
    <2>1. TopClock(NoRequest) /\ UNCHANGED <<pc, i, inlen, outlen>>
      BY <1>5 DEF Waiting
    <2>2. CASE pc \in BeforeStart
      BY <2>1, <2>2, DriverReads, QuietBeforeStart
    <2>3. CASE pc \in FromStartOn
      BY <2>1, <2>3, DriverReads, QuietFromStartOn
    <2>. QED
      BY <2>2, <2>3 DEF DriverIInv
  <1>. QED
    BY <1>1, <1>2, <1>3, <1>4, <1>5 DEF DriverNext

LEMMA DriverUnchanged ==
    ASSUME DriverIInv, UNCHANGED vars
    PROVE  DriverIInv'
  <1>1. UNCHANGED topVars /\ UNCHANGED <<pc, i, inlen, outlen>>
    BY DEF vars, driverVars
  <1>2. /\ UNCHANGED accelVars /\ mem' = mem /\ ctrl_reg' = ctrl_reg /\ input' = input
    BY <1>1 DEF topVars, Cfg!cfgVars, wrapperVars, Ram!ramVars
  <1>3. state' = state
    BY <1>2 DEF accelVars, fsmRegs
  <1>4. CtrlTyped' /\ TopJob' /\ start_int' = start_int
    BY <1>1, <1>2, CtrlUnchanged, TopJobUnchanged DEF DriverIInv
  <1>5. PaddedBlock' = PaddedBlock /\ \A n : Filled(n) => Filled(n)'
    BY <1>1, <1>2 DEF PaddedBlock, Filled, PaddedByte
  <1>6. Preparing'
    BY <1>1, <1>2, <1>3, <1>5 DEF DriverIInv, Preparing
  <1>7. PICK r : r = outlen - 1
    OBVIOUS
  <1>8. PICK in : in = input
    OBVIOUS
  <1>9. ReturnedJob(in, r) => ReturnedJob(in, r)'
    BY <1>2, <1>3 DEF ReturnedJob
  <1>10. JobStarted'
    BY <1>1, <1>2, <1>3, <1>4, <1>5, <1>7, <1>8, <1>9 DEF DriverIInv, JobStarted
  <1>. QED
    BY <1>1, <1>2, <1>4, <1>6, <1>10 DEF DriverIInv, LengthSet

LEMMA InitDriverIInv == DriverInit => DriverIInv
  <1>. SUFFICES ASSUME DriverInit PROVE DriverIInv
    OBVIOUS
  <1>1. CtrlTyped /\ TopJob
    BY InitCtrl, InitTopJob DEF DriverInit
  <1>2. pc = "length" /\ inlen \in InLens /\ outlen \in OutLens /\ state = "IDLE"
    BY DEF DriverInit, TopInit, WrapperInit, FsmInit
  <1>3. HasBytes(mem)
    BY DriverAssumption DEF DriverInit, TopInit, WrapperInit, Ram!Init, HasBytes
  <1>4. ctrl_reg[0][0] = 0
    <2>1. 0 \in 0 .. CTRL_WORDS - 1 /\ 0 \in CfgBytes
      BY TopAssumption, SMT
    <2>. QED
      BY <2>1 DEF DriverInit, TopInit, Cfg!Init, Cfg!ZeroWord
  <1>. QED
    BY <1>1, <1>2, <1>3, <1>4
    DEF DriverIInv, Preparing, JobStarted, LengthSet, BeforeStart, FromStartOn

LEMMA SpecDriverIInv == DriverSpec => []DriverIInv
  <1>1. DriverIInv /\ [DriverNext]_vars => DriverIInv'
    BY DriverStep, DriverUnchanged
  <1>. QED
    BY <1>1, InitDriverIInv, PTL DEF DriverSpec

-----------------------------------------------------------------------------------
(* However long the bus takes, for every input and output length, no byte of the     *)
(* padded input is missing when the accelerator starts, and none changes before it   *)
(* has been taken.                                                                   *)
THEOREM PaddedInputIsHashed == DriverSpec => []HashesPaddedInput
  <1>1. DriverIInv => HashesPaddedInput
    <2>. SUFFICES ASSUME DriverIInv, start_int = 1, state # "READ", state # "DONE"
                  PROVE  mem = PaddedBlock
      BY DEF HashesPaddedInput
    <2>1. FsmTypes /\ input = PaddedBlock
      BY DriverFacts DEF DriverIInv, JobStarted
    <2>2. mem = input
      BY <2>1 DEF FsmTypes, States, DriverIInv, TopJob, JobRuns, JobParts, FeedingJob,
                  WaitingJob, StaleLane
    <2>. QED
      BY <2>1, <2>2
  <1>. QED
    BY <1>1, SpecDriverIInv, PTL

(* And once the FSM is done the memory holds the hash of it.                         *)
THEOREM MemoryHoldsHash == DriverSpec => []MemoryGetsHash
  <1>1. DriverIInv => MemoryGetsHash
    <2>. SUFFICES ASSUME DriverIInv, state = "DONE",
                         NEW w \in 0 .. 2 * LanesFor(outlen - 1) - 1
                  PROVE  mem[w] = HashWord(w, PaddedBlock)
      BY DEF MemoryGetsHash
    <2>1. pc \in FromStartOn
      BY DEF DriverIInv, Preparing
    <2>2. mem = Delivered(PaddedBlock, LanesFor(outlen - 1))
      BY <2>1 DEF DriverIInv, JobStarted, ReturnedJob
    <2>3. PICK r \in 0 .. 63 : r = outlen - 1 /\ r <= 8 * OutLanes
      BY DriverFacts
    <2>4. LanesFor(r) \in 0 .. OutLanes
      BY <2>3, CoreAssumption, SMT DEF LanesFor
    <2>5. w \in Ram!Addr /\ w < 2 * LanesFor(r)
      BY <2>3, <2>4, CoreAssumption, WrapperAssumption, SMT DEF Ram!Addr
    <2>. QED
      BY <2>2, <2>3, <2>5 DEF Delivered
  <1>. QED
    BY <1>1, SpecDriverIInv, PTL
===================================================================================
