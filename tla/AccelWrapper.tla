------------------------------ MODULE AccelWrapper ------------------------------
(* The accelerator with its local RAM (accel_wrapper.sv).  The FSM's port a is   *)
(* wired to RAM port b; RAM port a belongs to the FSM's port b while start is    *)
(* high and to the CPU otherwise, and both see its read data.                    *)
EXTENDS AccelFsm

CONSTANTS
    Depth,      \* words of the RAM, 42 in the code: exactly one block
    X           \* unwritten memory

ASSUME WrapperAssumption == Depth = 2 * RateLanes

VARIABLES mem, rdata_a, rdata_b

Ram == INSTANCE DpRam

wrapperVars == <<accelVars, Ram!ramVars>>

mem_rdata == rdata_a    \* what the CPU side reads
---------------------------------------------------------------------------------
WrapperInit == FsmInit /\ Ram!Init

(* RAM port a: the FSM's while start is high.                                    *)
PortA_CpuFirst(start, cpu) ==           \* mutant: the CPU may cut in
    IF start = 1 /\ cpu.en = 0 THEN mem_port_b ELSE cpu
PortA(start, cpu) == IF start = 1 THEN mem_port_b ELSE cpu

(* One edge of the wrapper; cpu is the request on the CPU side (see DpRam).      *)
WrapperClock(start, output_length_byte, cpu) ==
    /\ FsmClock(start, output_length_byte, rdata_b, rdata_a)
    /\ Ram!Clock(PortA(start, cpu), mem_port_a)
---------------------------------------------------------------------------------
(* The block and the hash a memory stands for; it is a block if its words have   *)
(* all their bytes and pairs of them are lanes.                                  *)
BlockIn(m) == [i \in 0 .. RateLanes - 1 |-> <<m[2 * i], m[2 * i + 1]>>]
IsBlock(m) ==
    /\ m = [w \in 0 .. Depth - 1 |-> [b \in ByteLanes |-> m[w][b]]]
    /\ BlockIn(m) \in RateBlock

Permuted(m) == Append(ZeroState, [absorb |-> BlockIn(m), rounds |-> AllRounds])
HashWord(w, m) == StateWord(w, Permuted(m))

(* Lanes of the hash the FSM stores for a value r of the length register: READ   *)
(* compares its byte counter, which starts at 8, with r before each lane, and    *)
(* the first cycle of READ stores the stale lane 0.                              *)
LanesFor(r) == IF r <= 8 THEN 0 ELSE (r + 7) \div 8
=================================================================================
