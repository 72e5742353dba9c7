--------------------------------- MODULE AccelJob ---------------------------------
(* One hash job on the accelerator: software has put a block into the local RAM    *)
(* and a length into the length register, raises start at any moment and leaves    *)
(* the accelerator alone; accel_top_wrapper clears start in the cycle after done.  *)
EXTENDS AccelWrapper

CONSTANTS
    InputBlocks,    \* the memory contents jobs are run on
    Lengths         \* values of the 6-bit length register, outlen - 1

(* The core puts out OutLanes lanes, so that 8 * OutLanes = 64 bounds the length.  *)
ASSUME JobAssumption ==
    /\ \A m \in InputBlocks : IsBlock(m)
    /\ Lengths \subseteq 0 .. 63 \cap 0 .. 8 * OutLanes

VARIABLES start_int, output_length_byte

(* History variables: the memory before the job, and the cycles in which start   *)
(* was high and done was not.                                                      *)
VARIABLES input, cycles

jobVars == <<wrapperVars, start_int, output_length_byte, input, cycles>>

JobInit ==
    /\ FsmInit
    /\ input \in InputBlocks
    /\ mem = input /\ rdata_a = X /\ rdata_b = X
    /\ output_length_byte \in Lengths
    /\ start_int = 0
    /\ cycles = 0

(* Software sets the start bit once; done clears it for good.                      *)
StartBit ==
    start_int' \in IF done = 1 THEN {0}
                   ELSE IF state = "IDLE" THEN {start_int, 1} ELSE {start_int}

Tick ==
    /\ WrapperClock(start_int, output_length_byte, Ram!Idle)
    /\ StartBit
    /\ cycles' = IF start_int = 1 /\ done = 0 THEN cycles + 1 ELSE cycles
    /\ UNCHANGED <<output_length_byte, input>>

JobSpec == JobInit /\ [][Tick]_jobVars

(* The clock runs, so every state that a tick changes is left.                     *)
FairJobSpec == JobSpec /\ WF_jobVars(Tick)
-----------------------------------------------------------------------------------
(* The promise of ShakeJob, read off the registers: the lanes delivered so far are *)
(* those that the buffer has shown, the last of which is being written.            *)
DeliveredLanes ==
    CASE state = "READ" /\ count_out_words # 0 -> count_out_words - 1
      [] state = "DONE" -> LanesFor(output_length_byte)
      [] OTHER -> 0

Job == INSTANCE ShakeJob WITH
    MemWords  <- Depth,
    phase     <- IF state = "IDLE" THEN "idle" ELSE IF done = 1 THEN "done" ELSE "busy",
    ram       <- mem,
    delivered <- DeliveredLanes,
    length    <- output_length_byte

(* The accelerator implements ShakeJob: it hashes the block that lay in the        *)
(* memory, delivers whole lanes in order, touches no other word, and finishes.     *)
JobRefinesShakeJob == Job!FairSpec

(* A job takes exactly RateLanes + Rounds + 6 cycles and one for each lane that    *)
(* it delivers: no state waits a cycle longer for the signal that ends it than the *)
(* registers between them make it, and the length never stretches a job further.   *)
JobLatency ==
    LET latency == RateLanes + Rounds + 6 + LanesFor(output_length_byte)
    IN  IF done = 1 THEN cycles = latency ELSE cycles <= latency

IsHashLane(k) == \A w \in {2 * k, 2 * k + 1} : mem[w] = HashWord(w, input)

(* README.md:3: the accelerator "produces a hash of configurable length between 8  *)
(* and 512 bit, in byte-increments".  The register holds the length minus one.     *)
EveryByteOfTheHash ==
    done = 1 => \A byte \in 0 .. output_length_byte : IsHashLane(byte \div 8)
===================================================================================
