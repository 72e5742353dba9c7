-------------------------------- MODULE AccelTop --------------------------------
(* The accelerator as the CPU sees it (accel_top_wrapper.sv): the configuration   *)
(* registers and the local RAM behind one memory bus, on which the AXI interface  *)
(* places at most one access per cycle.  Once the FSM is done the configuration   *)
(* port belongs to the circuit that clears the start bit.                         *)
EXTENDS AccelWrapper

CONSTANTS
    CfgBytes,       \* bytes of a configuration word, 0 .. 3 in the code
    CTRL_WORDS, STAT_WORDS,     \* 4 and 4 as pulpino_top instantiates it
    CFG_ADDR_BITS               \* $clog2(CTRL_WORDS + STAT_WORDS), 3

ASSUME TopAssumption ==
    /\ {0, 1} \subseteq CfgBytes
    /\ CTRL_WORDS \in Nat \ {0}     \* start and length are in word 0
    /\ CFG_ADDR_BITS \in Nat
    /\ CTRL_WORDS + STAT_WORDS \in (2 ^ (CFG_ADDR_BITS - 1)) + 1 .. 2 ^ CFG_ADDR_BITS

VARIABLES
    ctrl_reg, stat_readout, rdata,
    addr_is_config_reg

(* History variable: the memory in the cycle in which start was set.              *)
VARIABLE input

Cfg == INSTANCE ConfigReg WITH
         N_CTRL_WORDS <- CTRL_WORDS, N_STAT_WORDS <- STAT_WORDS

topVars == <<wrapperVars, Cfg!cfgVars, addr_is_config_reg, input>>

(* An access, with its address in words, as axi_mem_if_SP drives it.              *)
NoRequest == [req |-> 0, we |-> 0, addr |-> 0, be |-> {}, wdata |-> <<>>]
BusRead(addr) == [req |-> 1, we |-> 0, addr |-> addr, be |-> {}, wdata |-> <<>>]
BusWrite(addr, be, wdata) ==
    [req |-> 1, we |-> 1, addr |-> addr, be |-> be, wdata |-> wdata]
---------------------------------------------------------------------------------
(* Address decoding, on the byte address; bit 19 selects the data memory.         *)
DataWord0 == 2 ^ 17
axi_mem_addr(axi) == (4 * axi.addr) % 2 ^ 20
addr_is_config(axi) == IF axi_mem_addr(axi) < 2 ^ 19 THEN 1 ELSE 0
cfg_addr(axi) == axi_mem_addr(axi) % 2 ^ CFG_ADDR_BITS
acc_addr(axi) == (axi_mem_addr(axi) \div 4) % 1024

start_int == ctrl_reg[0][0] % 2
output_length_byte == ctrl_reg[0][1] % 64

(* The configuration port: the bus until done, then the clearing of byte 0.       *)
CTRL_CLEAR_START ==
    [en |-> 1, we |-> 1, addr |-> 0, be |-> {0}, wdata |-> Cfg!ZeroWord]
cfg_request_BusFirst(axi) ==    \* mutant: clears in a cycle without an access
    IF axi.req = 1
    THEN [en |-> addr_is_config(axi), we |-> axi.we, addr |-> cfg_addr(axi),
          be |-> axi.be, wdata |-> axi.wdata]
    ELSE IF done = 0 THEN [CTRL_CLEAR_START EXCEPT !.en = 0] ELSE CTRL_CLEAR_START
cfg_request(axi) ==
    IF done = 0
    THEN [en |-> IF axi.req = 1 /\ addr_is_config(axi) = 1 THEN 1 ELSE 0,
          we |-> axi.we, addr |-> cfg_addr(axi), be |-> axi.be, wdata |-> axi.wdata]
    ELSE CTRL_CLEAR_START

acc_request(axi) ==
    [en |-> IF axi.req = 1 /\ addr_is_config(axi) = 0 THEN 1 ELSE 0,
     we |-> axi.we, addr |-> acc_addr(axi), be |-> axi.be, wdata |-> axi.wdata]

(* Status word 0 is the state (byte 0) and done (byte 1); the others are the      *)
(* constants that number their bytes.  accel_error is driven by nothing.          *)
StateCode == [ST_IDLE |-> 0, ST_WRITE |-> 1, ST_WAIT_HASH |-> 2, ST_READ |-> 3,
              ST_DONE |-> 4]
state_code ==
    CASE accel_state = "IDLE" -> StateCode.ST_IDLE
      [] accel_state = "WRITE" -> StateCode.ST_WRITE
      [] accel_state = "WAIT_HASH" -> StateCode.ST_WAIT_HASH
      [] accel_state = "READ" -> StateCode.ST_READ
      [] accel_state = "DONE" -> StateCode.ST_DONE
      [] OTHER -> -1
status_vec ==
    [w \in 0 .. STAT_WORDS - 1 |-> [b \in CfgBytes |->
        IF w # 0 THEN b + 4 * w
        ELSE CASE b = 0 -> state_code [] b = 1 -> done [] OTHER -> 0]]

axi_mem_rdata == IF addr_is_config_reg = 1 THEN rdata ELSE mem_rdata
---------------------------------------------------------------------------------
TopInit ==
    /\ WrapperInit
    /\ Cfg!Init(status_vec)
    /\ addr_is_config_reg = 1
    /\ input = mem

(* One edge of everything below the bus.                                          *)
TopClock(axi) ==
    /\ WrapperClock(start_int, output_length_byte, acc_request(axi))
    /\ Cfg!Clock(cfg_request(axi), status_vec)
    /\ addr_is_config_reg' = addr_is_config(axi)
    /\ input' = IF start_int = 0 /\ state = "IDLE" THEN mem' ELSE input
=================================================================================
