------------------------------ MODULE KeccakBuffer ------------------------------
(* The I/O buffer of the Keccak core (keccak_buffer.vhd).                       *)
(*                                                                              *)
(* One register of RateLanes lanes works in two modes.  In input mode (mode 0)  *)
(* a valid input lane is shifted in at the top; RateLanes of them make a block, *)
(* which raises buffer_full until the permutation is ready for it.  In output   *)
(* mode (mode 1) the low OutLanes lanes are loaded from the permutation state   *)
(* and shifted out through lane 0.  Each action is one rising clock edge of     *)
(* p_main and takes the sampled input signals as its arguments; a component     *)
(* that drives the buffer conjoins Clock with the edge of its own registers.    *)
EXTENDS Integers, Sequences

CONSTANTS
    Lane,       \* the values of a lane (64 bits in the code)
    ZeroLane,   \* the all-zero lane of the reset
    RateLanes,  \* lanes of a block, 21 in the code (1344 bits)
    OutLanes    \* lanes of the output, 8 in the code (512 bits)

ASSUME BufferAssumption ==
    /\ ZeroLane \in Lane
    /\ RateLanes \in Nat
    /\ OutLanes \in 1 .. RateLanes

VARIABLES
    mode,             \* 0: input mode, 1: output mode
    buffer_full,      \* a whole block waits for the permutation
    count_in_words,   \* lanes of the block under construction
    count_out_words,  \* output lanes shown so far
    buffer_data,      \* the register, lane 0 at the bottom
    dout_valid        \* lane 0 is an output lane

(* History variables, written by the edge and read by the properties only.      *)
VARIABLES
    words,     \* the lanes accepted since the last block was handed over
    captured   \* the lanes loaded when the current output began

registers == <<mode, buffer_full, count_in_words, count_out_words,
               buffer_data, dout_valid>>
bufVars == <<registers, words, captured>>

Bit == {0, 1}
Lanes == 0 .. RateLanes - 1
OutIndex == 0 .. OutLanes - 1
Block == [Lanes -> Lane]
Digest == [OutIndex -> Lane]

din_buffer_out == buffer_data
dout == buffer_data[0]
---------------------------------------------------------------------------------
(* Asynchronous reset.                                                          *)
Reset ==
    /\ mode = 0
    /\ buffer_full = 0
    /\ count_in_words = 0
    /\ count_out_words = 0
    /\ buffer_data = [i \in Lanes |-> ZeroLane]
    /\ dout_valid = 0

Init ==
    /\ Reset
    /\ words = <<>>
    /\ captured = [i \in OutIndex |-> ZeroLane]

(* The assignment to mode every edge in input mode starts with.                 *)
EnterOutputMode(last_block, ready) ==
    mode' = IF last_block = 1 /\ ready = 1 THEN 1 ELSE 0

(* Input mode: the permutation takes the block.                                 *)
HandOver(last_block, ready) ==
    /\ mode = 0
    /\ buffer_full = 1 /\ ready = 1
    /\ EnterOutputMode(last_block, ready)
    /\ buffer_full' = 0
    /\ count_in_words' = 0
    /\ words' = <<>>
    /\ UNCHANGED <<count_out_words, buffer_data, dout_valid, captured>>

(* The register after a lane was shifted in at the top.                         *)
ShiftedIn_Short(din) ==     \* mutant: the loop stops a lane early
    [i \in Lanes |-> CASE i = RateLanes - 1 -> din
                       [] i = RateLanes - 2 -> buffer_data[i]
                       [] OTHER -> buffer_data[i + 1]]
ShiftedIn(din) ==
    [i \in Lanes |-> IF i = RateLanes - 1 THEN din ELSE buffer_data[i + 1]]

(* The lane being shifted in is the last one of its block.                      *)
BlockComplete_Early == count_in_words = RateLanes - 2   \* mutant
BlockComplete_Late == count_in_words = RateLanes        \* mutant
BlockComplete == count_in_words = RateLanes - 1

(* Input mode: a valid lane is taken while no block waits.                      *)
ShiftIn(din, din_valid, last_block, ready) ==
    /\ mode = 0
    /\ din_valid = 1 /\ buffer_full = 0
    /\ EnterOutputMode(last_block, ready)
    /\ buffer_data' = ShiftedIn(din)
    /\ IF BlockComplete
       THEN buffer_full' = 1 /\ count_in_words' = 0
       ELSE buffer_full' = buffer_full /\ count_in_words' = count_in_words + 1
    /\ words' = Append(words, din)
    /\ UNCHANGED <<count_out_words, dout_valid, captured>>

(* Input mode: nothing to take and nothing to hand over; a lane offered while   *)
(* a block waits for a busy permutation is dropped.                             *)
KeepInput(din_valid, last_block, ready) ==
    /\ mode = 0
    /\ ~ (buffer_full = 1 /\ ready = 1)
    /\ ~ (din_valid = 1 /\ buffer_full = 0)
    /\ EnterOutputMode(last_block, ready)
    /\ UNCHANGED <<buffer_full, count_in_words, count_out_words,
                   buffer_data, dout_valid, words, captured>>

(* Output mode, first edge: load the low lanes of the permutation state.        *)
LoadOutput(dout_in) ==
    /\ mode = 1
    /\ count_out_words = 0
    /\ buffer_data' = [i \in Lanes |-> IF i \in OutIndex
                                       THEN dout_in[i] ELSE buffer_data[i]]
    /\ count_out_words' = 1
    /\ dout_valid' = 1
    /\ captured' = dout_in
    /\ UNCHANGED <<mode, buffer_full, count_in_words, words>>

(* The output lanes move down; the highest one keeps its value.                 *)
ShiftedOut_Short ==         \* mutant: the loop stops a lane early
    [i \in Lanes |-> IF i \in 0 .. OutLanes - 3
                     THEN buffer_data[i + 1] ELSE buffer_data[i]]
ShiftedOut ==
    [i \in Lanes |-> IF i \in 0 .. OutLanes - 2
                     THEN buffer_data[i + 1] ELSE buffer_data[i]]

OutputComplete_Early == count_out_words >= OutLanes - 1    \* mutant
OutputComplete == count_out_words >= OutLanes

(* Output mode: the next lane moves into place.                                 *)
ShiftOut ==
    /\ mode = 1
    /\ count_out_words # 0 /\ ~ OutputComplete
    /\ buffer_data' = ShiftedOut
    /\ count_out_words' = count_out_words + 1
    /\ dout_valid' = 1
    /\ UNCHANGED <<mode, buffer_full, count_in_words, words, captured>>

(* Output mode, last edge: back to input mode, whatever last_block says.        *)
EndOutput ==
    /\ mode = 1
    /\ count_out_words # 0 /\ OutputComplete
    /\ dout_valid' = 0
    /\ count_out_words' = 0
    /\ mode' = 0
    /\ UNCHANGED <<buffer_full, count_in_words, buffer_data, words, captured>>

(* One rising edge of p_main.                                                   *)
Clock(din, din_valid, last_block, ready, dout_in) ==
    \/ HandOver(last_block, ready)
    \/ ShiftIn(din, din_valid, last_block, ready)
    \/ KeepInput(din_valid, last_block, ready)
    \/ LoadOutput(dout_in)
    \/ ShiftOut
    \/ EndOutput
---------------------------------------------------------------------------------
(* The environment of the buffer on its own: every input is free, except that   *)
(* last_block is raised between blocks only, as accel_fsm raises it (its        *)
(* WAIT_HASH state is entered once the block is full, and the signal follows    *)
(* one cycle later, when the block has been handed over).                       *)
BetweenBlocks == buffer_full = 0 /\ count_in_words = 0

LastBlockProtocol(din_valid, last_block) ==
    last_block = 1 => BetweenBlocks /\ din_valid = 0

Next ==
    \E din \in Lane, din_valid, last_block, ready \in Bit, dout_in \in Digest :
        /\ LastBlockProtocol(din_valid, last_block)
        /\ Clock(din, din_valid, last_block, ready, dout_in)

Spec == Init /\ [][Next]_bufVars
---------------------------------------------------------------------------------
TypeOK ==
    /\ mode \in Bit
    /\ buffer_full \in Bit
    /\ count_in_words \in Lanes
    /\ count_out_words \in 0 .. OutLanes
    /\ buffer_data \in Block
    /\ dout_valid \in Bit
    /\ words \in Seq(Lane)
    /\ captured \in Digest

(* buffer_full is raised for exactly RateLanes accepted lanes, and until then   *)
(* count_in_words is their number: the flag and the counter, which share a      *)
(* branch of p_main, never disagree with what was accepted.                     *)
FullMeansBlock ==
    IF buffer_full = 1
    THEN Len(words) = RateLanes /\ count_in_words = 0
    ELSE Len(words) = count_in_words

(* The accepted lanes sit in the top lanes of the register in the order they    *)
(* came, whatever output has run in between: when buffer_full is raised the     *)
(* register is exactly the block, its first lane at the bottom.                 *)
BlockInOrder ==
    \A k \in 1 .. Len(words) :
        buffer_data[RateLanes - Len(words) + k - 1] = words[k]

(* While dout_valid is high, dout is the output lane the counter stands at, of  *)
(* the state that was loaded at the start of this output: shifting neither      *)
(* skips, repeats nor replaces a lane.                                          *)
OutputInOrder ==
    dout_valid = 1 =>
        /\ count_out_words \in 1 .. OutLanes
        /\ dout = captured[count_out_words - 1]

(* An output, once begun, shows one lane per cycle with no gap until all        *)
(* OutLanes of them were seen, whatever the inputs do meanwhile.                *)
OutputUninterrupted ==
    [][dout_valid = 1 =>
         IF count_out_words < OutLanes
         THEN dout_valid' = 1 /\ count_out_words' = count_out_words + 1
         ELSE dout_valid' = 0]_bufVars
=================================================================================
