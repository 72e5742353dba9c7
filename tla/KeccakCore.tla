------------------------------- MODULE KeccakCore -------------------------------
(* The Keccak core (keccak.vhd): the state register, the round counter and the  *)
(* buffer, on one clock.                                                        *)
(*                                                                              *)
(* The round function is a free constructor.  reg_data lists the permutations   *)
(* applied to the zero state: each entry is the block that was absorbed and the *)
(* numbers of the rounds that followed, so two registers are equal exactly when *)
(* they absorbed the same blocks and ran the same rounds in the same order.     *)
(* The first entry stands for the zero state and holds any round that was not   *)
(* preceded by an absorption.                                                   *)
EXTENDS Integers, Sequences

CONSTANTS
    InLane,     \* the input lanes, each a pair of memory words
    ZeroLane,
    ByteLanes,  \* the bytes of a memory word that are told apart, 0 .. 3 in the code
    RateLanes,  \* 21 in the code
    OutLanes,   \* 8 in the code
    Rounds,     \* 24 in the code
    NoBlock     \* the entry of the zero state absorbed nothing

VARIABLES
    mode, buffer_full, count_in_words, count_out_words, buffer_data, dout_valid,
    words, captured,                  \* the buffer, see KeccakBuffer
    reg_data,                         \* the state register
    counter_nr_rounds,                \* number of the round being computed
    permutation_computed              \* the register holds a finished permutation

(* History variable: the blocks completed in the buffer since the last start.   *)
VARIABLE blocks

RateBlock == [0 .. RateLanes - 1 -> InLane]
Permutation == [absorb : RateBlock \cup {NoBlock}, rounds : Seq(0 .. Rounds - 1)]
ZeroState == << [absorb |-> NoBlock, rounds |-> <<>>] >>

(* Word w of a state: half of lane w \div 2, as the bytes the memory tells apart;*)
(* lane k of the output is lane k of the rows in order (reg_data_vector).       *)
StateByte == [word : 0 .. 2 * OutLanes - 1, byte : ByteLanes, of : Seq(Permutation)]
StateWord(w, s) == [b \in ByteLanes |-> [word |-> w, byte |-> b, of |-> s]]
StateLane(k, s) == <<StateWord(2 * k, s), StateWord(2 * k + 1, s)>>
reg_data_vector == [k \in 0 .. OutLanes - 1 |-> StateLane(k, reg_data)]

Lane == InLane \cup ([ByteLanes -> StateByte] \X [ByteLanes -> StateByte])
Buf == INSTANCE KeccakBuffer

ASSUME CoreAssumption ==
    /\ ZeroLane \in InLane
    /\ ByteLanes # {}
    /\ RateLanes \in Nat
    /\ OutLanes \in 1 .. RateLanes
    /\ Rounds \in Nat /\ Rounds >= 2
    /\ NoBlock \notin RateBlock

stateVars == <<reg_data, counter_nr_rounds, permutation_computed>>
coreVars == <<Buf!bufVars, stateVars, blocks>>

Bit == {0, 1}
ready_Always == 1           \* mutant: the buffer is not told to wait
ready == permutation_computed
---------------------------------------------------------------------------------
Reset ==
    /\ reg_data = ZeroState
    /\ counter_nr_rounds = 0
    /\ permutation_computed = 1

Init == Buf!Init /\ Reset /\ blocks = <<>>

(* round_in xors the block into the rate part in the cycle of the hand-over;    *)
(* round_out adds the constant the counter selects.                             *)
Absorbing_AnyTime == buffer_full = 1        \* mutant: a round may be under way
Absorbing == buffer_full = 1 /\ permutation_computed = 1

round_out ==
    IF Absorbing
    THEN Append(reg_data, [absorb |-> Buf!din_buffer_out,
                           rounds |-> <<counter_nr_rounds>>])
    ELSE [reg_data EXCEPT ![Len(reg_data)].rounds = Append(@, counter_nr_rounds)]

(* start clears the state; the buffer does not see it.                          *)
StartHash(start) ==
    /\ start = 1
    /\ reg_data' = ZeroState
    /\ counter_nr_rounds' = 0
    /\ permutation_computed' = 1

(* The counter after the absorbing round, and the round after which the state   *)
(* is finished.                                                                 *)
SecondRound_Unset == 0      \* mutant: the low bit is not set
SecondRound == 1
LastRound_Late == counter_nr_rounds = Rounds            \* mutant
LastRound_Never == counter_nr_rounds = Rounds + 1       \* mutant
LastRound == counter_nr_rounds = Rounds - 1

(* The first round absorbs the block the buffer hands over on the same edge.    *)
FirstRound(start) ==
    /\ start = 0
    /\ Absorbing
    /\ reg_data' = round_out
    /\ counter_nr_rounds' = SecondRound
    /\ permutation_computed' = 0

(* Rounds 1 .. 23; the two conditions of the code are independent, and the      *)
(* counter reads 23 only while the permutation is under way.                    *)
LaterRound(start) ==
    /\ start = 0
    /\ ~ Absorbing
    /\ reg_data' = IF counter_nr_rounds < Rounds /\ permutation_computed = 0
                   THEN round_out ELSE reg_data
    /\ IF LastRound
       THEN permutation_computed' = 1 /\ counter_nr_rounds' = 0
       ELSE /\ permutation_computed' = permutation_computed
            /\ counter_nr_rounds' =
                 IF counter_nr_rounds < Rounds /\ permutation_computed = 0
                 THEN counter_nr_rounds + 1 ELSE counter_nr_rounds

StateClock(start) == StartHash(start) \/ FirstRound(start) \/ LaterRound(start)

(* One rising edge of the core: both processes sample the same values.          *)
Clock(start, din, din_valid, last_block) ==
    /\ StateClock(start)
    /\ Buf!Clock(din, din_valid, last_block, ready, reg_data_vector)
    /\ blocks' = IF start = 1 THEN <<>>
                 ELSE IF buffer_full = 0 /\ buffer_full' = 1
                 THEN Append(blocks, buffer_data') ELSE blocks
---------------------------------------------------------------------------------
(* The core on its own: free input lanes, start before the first lane of a      *)
(* message only, last_block between blocks only, and not before the last block  *)
(* is absorbed (accel_fsm's order).  MaxBlocks bounds the messages for TLC.     *)
CONSTANT MaxBlocks

StartProtocol(start, din_valid) ==
    start = 1 => Buf!BetweenBlocks /\ din_valid = 0

Next ==
    \E start, din_valid, last_block \in Bit, din \in InLane :
        /\ Buf!LastBlockProtocol(din_valid, last_block)
        /\ StartProtocol(start, din_valid)
        /\ din_valid = 1 => Len(blocks) < MaxBlocks
        /\ Clock(start, din, din_valid, last_block)

(* A permutation under way is finished by the clock alone.                      *)
Spec == Init /\ [][Next]_coreVars
FairSpec == Spec /\ WF_coreVars(Next)
---------------------------------------------------------------------------------
TypeOK ==
    /\ mode \in Bit
    /\ buffer_full \in Bit
    /\ count_in_words \in 0 .. RateLanes - 1
    /\ count_out_words \in 0 .. OutLanes
    /\ buffer_data \in [0 .. RateLanes - 1 -> Lane]
    /\ dout_valid \in Bit
    /\ reg_data \in Seq(Permutation)
    /\ counter_nr_rounds \in 0 .. Rounds - 1
    /\ permutation_computed \in Bit
    /\ blocks \in Seq(RateBlock)

AllRounds == [i \in 1 .. Rounds |-> i - 1]

(* Every permutation but the last has run rounds 0 .. 23 in that order, and the *)
(* last one has run as many of them as the counter says, or all when ready is   *)
(* high: no round is skipped, repeated or given another round's constant.       *)
RoundSchedule ==
    /\ reg_data[1].rounds = <<>>
    /\ \A p \in 2 .. Len(reg_data) - 1 : reg_data[p].rounds = AllRounds
    /\ Len(reg_data) > 1 =>
         reg_data[Len(reg_data)].rounds =
           IF permutation_computed = 1 THEN AllRounds
           ELSE [i \in 1 .. counter_nr_rounds |-> i - 1]
    /\ permutation_computed = 1 <=> counter_nr_rounds = 0

(* The state has absorbed the completed blocks in their order, each once; the   *)
(* one exception is the block that still waits in the buffer.  The buffer drops *)
(* its block and the state register takes it on the same edge although each     *)
(* process decides on its own.                                                  *)
EveryBlockAbsorbedOnce ==
    [p \in 2 .. Len(reg_data) |-> reg_data[p].absorb] =
      [p \in 2 .. Len(blocks) + 1 - buffer_full |-> blocks[p - 1]]

(* The output that is loaded is of a finished permutation (or of the zero       *)
(* state), never of an intermediate round: output mode does not wait for ready. *)
OutputOfFinishedState ==
    dout_valid = 1 =>
        \A k \in 0 .. OutLanes - 1 :
            \E s \in {captured[k][1][b].of : b \in ByteLanes} :
                /\ captured[k] = StateLane(k, s)
                /\ s # ZeroState => s[Len(s)].rounds = AllRounds

(* A block in the buffer is absorbed and its permutation finished.              *)
BlockGetsPermuted ==
    (buffer_full = 1) ~> (buffer_full = 0 /\ permutation_computed = 1)
=================================================================================
