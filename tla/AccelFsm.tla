-------------------------------- MODULE AccelFsm --------------------------------
(* The accelerator's state machine (accel_fsm.sv) and the Keccak core it drives. *)
(* After start it feeds one block from the local RAM to the core, waits for the  *)
(* permutation, writes the output lanes back to the RAM from word 0, and stops   *)
(* in DONE until the next reset.  Every operator is about one clock cycle: the   *)
(* unprimed variables are what the combinational logic and all processes sample. *)
EXTENDS KeccakCore

VARIABLES
    state,
    byte_cntr_s,    \* bytes transferred, counts input and then output
    addr_s,         \* word address of the lower half of the lane in transfer
    din_valid_s, din_valid_reg,
    start_hash, last_block_s,
    done,           \* registered output
    accel_state     \* registered copy of state for the status word

fsmRegs == <<state, byte_cntr_s, addr_s, din_valid_s, din_valid_reg,
             start_hash, last_block_s, done, accel_state>>
accelVars == <<coreVars, fsmRegs>>

States == {"IDLE", "WRITE", "WAIT_HASH", "READ", "DONE"}
RATE_BYTES == 8 * RateLanes     \* RATE_BIT_COUNT / 8
ASSUME FsmAssumption == RATE_BYTES < 2^8    \* the byte counter has 8 bits

Unreset == "unreset"            \* accel_state has no reset value

(* Reset; start_hash is high until the first edge after it, and din_valid_reg,   *)
(* which has no reset, has copied the reset din_valid_s meanwhile.               *)
FsmInit ==
    /\ Init
    /\ state = "IDLE"
    /\ byte_cntr_s = 0 /\ addr_s = 0
    /\ din_valid_s = 0 /\ din_valid_reg = 0
    /\ start_hash = 1 /\ last_block_s = 0
    /\ done = 0 /\ accel_state = Unreset
---------------------------------------------------------------------------------
(* Next state logic; READ ends by its byte counter, DONE only by a reset.         *)
HashReturned_Strict(output_length_byte) ==      \* mutant: > for >=
    byte_cntr_s > output_length_byte
HashReturned(output_length_byte) == byte_cntr_s >= output_length_byte

n_state(start, output_length_byte) ==
    CASE state = "IDLE" /\ start = 1 -> "WRITE"
      [] state = "WRITE" /\ buffer_full = 1 -> "WAIT_HASH"
      [] state = "WAIT_HASH" /\ ready = 1 -> "READ"
      [] state = "READ" /\ HashReturned(output_length_byte) -> "DONE"
      [] OTHER -> state

(* Memory ports: both halves of a lane in one cycle, port a the lower one.       *)
mem_en == IF state \in {"WRITE", "READ"} THEN 1 ELSE 0
mem_we == IF state = "READ" THEN 1 ELSE 0
mem_port(half) ==
    [en |-> mem_en, we |-> mem_we, addr |-> addr_s + half,
     be |-> ByteLanes, wdata |-> Buf!dout[half + 1]]
mem_port_a == mem_port(0)
mem_port_b == mem_port(1)

(* In WRITE a lane's address goes out until the rate is covered; din_valid_s     *)
(* rises with it and, delayed by a cycle, meets the word the RAM read.           *)
FeedsLane == state = "WRITE" /\ byte_cntr_s < RATE_BYTES

(* In READ the address follows the lane that dout will show in the next cycle.   *)
StoresLane_Unawaited(output_length_byte) ==     \* mutant: dout_valid ignored
    state = "READ" /\ byte_cntr_s < output_length_byte
StoresLane(output_length_byte) ==
    state = "READ" /\ dout_valid = 1 /\ byte_cntr_s < output_length_byte

Transfers(output_length_byte) == FeedsLane \/ StoresLane(output_length_byte)

(* The last block is announced once it is in the buffer.                         *)
LastBlock_Early == state \in {"WRITE", "WAIT_HASH"}     \* mutant
LastBlock == state = "WAIT_HASH"

(* Copro control.                                                                *)
ControlClock(output_length_byte) ==
    /\ start_hash' = 0
    /\ din_valid_s' = IF FeedsLane THEN 1 ELSE 0
    /\ last_block_s' = IF LastBlock THEN 1 ELSE 0
    /\ addr_s' = IF Transfers(output_length_byte) THEN byte_cntr_s \div 4 ELSE 0
    /\ byte_cntr_s' = CASE Transfers(output_length_byte) -> (byte_cntr_s + 8) % 2^8
                        [] state = "WAIT_HASH" -> 8
                        [] OTHER -> byte_cntr_s
    /\ din_valid_reg' = din_valid_s

(* One edge of the FSM and of the core under it.                                 *)
FsmClock(start, output_length_byte, mem_rdata_a, mem_rdata_b) ==
    /\ Clock(start_hash, <<mem_rdata_a, mem_rdata_b>>, din_valid_reg, last_block_s)
    /\ state' = n_state(start, output_length_byte)
    /\ ControlClock(output_length_byte)
    /\ done' = IF state = "DONE" THEN 1 ELSE 0
    /\ accel_state' = state
---------------------------------------------------------------------------------
(* The FSM uses the core the way the core and its buffer rely on: it starts and  *)
(* asks for output between blocks only, while no lane is on its way; and one     *)
(* start makes one block of the whole rate: the core is neither fed a second one *)
(* nor left with a part of one, and no lane is offered in a cycle in which the   *)
(* buffer would drop it.                                                         *)
FsmHonoursProtocol ==
    /\ Buf!LastBlockProtocol(din_valid_reg, last_block_s)
    /\ StartProtocol(start_hash, din_valid_reg)
    /\ Len(blocks) <= 1
    /\ state \in {"WAIT_HASH", "READ", "DONE"} => Len(blocks) = 1 /\
                                         (buffer_full = 1 \/ words = <<>>)
    /\ din_valid_reg = 1 => mode = 0 /\ buffer_full = 0
=================================================================================
