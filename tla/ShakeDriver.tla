------------------------------- MODULE ShakeDriver -------------------------------
(* The driver (shake128_hw in bench_targets/main.c) running against the            *)
(* accelerator.  Every step of the program that touches the accelerator is one     *)
(* byte access; the core and the AXI path let some cycles pass between two of them *)
(* (any number in Gaps, each time anew), in which the accelerator's clock runs on. *)
EXTENDS AccelTop

CONSTANTS
    Gaps,           \* cycles between two accesses of the program
    InLens,         \* inlen, in bytes
    OutLens,        \* outlen, in bytes
    InputByte(_),   \* byte i of the input
    Pad1F, Pad80, PadZero   \* the padding bytes 0x1F, 0x80 and 0x00

(* Words have four bytes; the core puts out the lanes that the longest output     *)
(* needs, 8 of them for 64 bytes.                                                  *)
ASSUME DriverAssumption ==
    /\ Gaps \subseteq Nat \ {0, 1}
    /\ InLens \subseteq 0 .. 8 * RateLanes - 2
    /\ OutLens \subseteq 1 .. 64 \cap 1 .. 8 * OutLanes + 1
    /\ ByteLanes = 0 .. 3
    /\ X = [b \in ByteLanes |-> X[b]]

VARIABLES
    pc,             \* the statement of shake128_hw to execute
    i,              \* loop index, a uint8_t
    output_hw,      \* the caller's buffer
    wait,           \* cycles until the program goes on
    issued,         \* an access was placed on the bus in the last cycle
    loaded,         \* the word the last load got
    inlen, outlen   \* the arguments

driverVars == <<pc, i, output_hw, wait, issued, loaded, inlen, outlen>>
vars == <<topVars, driverVars>>

(* The word addresses and byte lanes of the registers of main.c:10-19.             *)
ControlWord == 0
StatusWord == 4         \* byte offset 0x10
START_REG == 0
OUTPUT_LEN_BYTE_REG == 1
DONE_REG == 1

Byte == ByteLanes
StoreByte(word, byte, v) == BusWrite(word, {byte}, [b \in Byte |-> v])
DataByte(n) == DataWord0 + n \div 4
---------------------------------------------------------------------------------
DriverInit ==
    /\ TopInit
    /\ pc = "length" /\ i = 0
    /\ output_hw = <<>>
    /\ wait = 0 /\ issued = 0 /\ loaded = Cfg!ZeroWord
    /\ inlen \in InLens /\ outlen \in OutLens

(* The program places an access and goes on after the gap.                         *)
Access(axi) ==
    /\ wait = 0
    /\ TopClock(axi)
    /\ wait' \in Gaps
    /\ issued' = 1
    /\ UNCHANGED <<loaded, inlen, outlen>>

(* An instruction that does not touch the accelerator.                             *)
Compute ==
    /\ wait = 0
    /\ TopClock(NoRequest)
    /\ issued' = 0
    /\ UNCHANGED <<wait, loaded, inlen, outlen>>

(* The AXI path and the core's other instructions take their cycles; read data is  *)
(* on the bus in the cycle after the request.                                      *)
Waiting ==
    /\ wait > 0
    /\ TopClock(NoRequest)
    /\ wait' = wait - 1
    /\ issued' = 0
    /\ loaded' = IF issued = 1 THEN axi_mem_rdata ELSE loaded
    /\ UNCHANGED <<pc, i, output_hw, inlen, outlen>>

SetLength ==
    /\ pc = "length"
    /\ Access(StoreByte(ControlWord, OUTPUT_LEN_BYTE_REG, (outlen - 1) % 256))
    /\ pc' = "fill"
    /\ i' = 0
    /\ UNCHANGED output_hw

PaddedByte_NoEnd(n) ==      \* mutant: the last byte is compared with 168
    IF n < inlen THEN InputByte(n)
    ELSE IF n = inlen THEN Pad1F
    ELSE IF n = RATE_BYTES THEN Pad80
    ELSE PadZero
PaddedByte(n) ==
    IF n < inlen THEN InputByte(n)
    ELSE IF n = inlen THEN Pad1F
    ELSE IF n = RATE_BYTES - 1 THEN Pad80
    ELSE PadZero

Fill ==
    /\ pc = "fill" /\ i < RATE_BYTES
    /\ Access(StoreByte(DataByte(i), i % 4, PaddedByte(i)))
    /\ i' = (i + 1) % 256
    /\ pc' = IF i + 1 < RATE_BYTES THEN "fill" ELSE "start"
    /\ UNCHANGED output_hw

SetStart ==
    /\ pc = "start"
    /\ Access(StoreByte(ControlWord, START_REG, 1))
    /\ pc' = "poll"
    /\ UNCHANGED <<i, output_hw>>

StaysInLoop_Inverted == loaded[DONE_REG] # 0    \* mutant
StaysInLoop == loaded[DONE_REG] = 0

(* The busy wait on DONE_REG.                                                      *)
Poll ==
    /\ pc = "poll"
    /\ Access(BusRead(StatusWord))
    /\ pc' = "test"
    /\ UNCHANGED <<i, output_hw>>

TestDone ==
    /\ pc = "test"
    /\ Compute
    /\ pc' = IF StaysInLoop THEN "poll" ELSE "read"
    /\ i' = 0
    /\ UNCHANGED output_hw

ReadResult ==
    /\ pc = "read" /\ i < outlen
    /\ Access(BusRead(DataByte(i)))
    /\ pc' = "store"
    /\ UNCHANGED <<i, output_hw>>

StoreResult ==
    /\ pc = "store"
    /\ Compute
    /\ output_hw' = Append(output_hw, loaded[i % 4])
    /\ i' = (i + 1) % 256
    /\ pc' = IF i + 1 < outlen THEN "read" ELSE "returned"

Returned ==
    /\ pc = "returned"
    /\ Compute
    /\ UNCHANGED <<pc, i, output_hw>>

DriverNext ==
    \/ SetLength \/ Fill \/ SetStart \/ Poll \/ TestDone
    \/ ReadResult \/ StoreResult \/ Returned \/ Waiting

DriverSpec == DriverInit /\ [][DriverNext]_vars

(* The clock runs and the core executes its program.                               *)
FairDriverSpec == DriverSpec /\ WF_vars(DriverNext)
---------------------------------------------------------------------------------
(* The padded block of SHAKE128: the input, the domain bits and first padding 1  *)
(* (0x1F), zeros, and the last 1 (0x80), as fips202.c builds it.                  *)
PaddedBlockOf(len) ==
    LET At(n) == CASE n \in 0 .. len - 1 -> InputByte(n)
                   [] n = len -> Pad1F
                   [] n \in len + 1 .. RATE_BYTES - 2 -> PadZero
                   [] n = RATE_BYTES - 1 -> Pad80
    IN  [w \in 0 .. Depth - 1 |-> [b \in Byte |-> At(4 * w + b)]]
PaddedBlock == PaddedBlockOf(inlen)

(* Any lane of such a block is one that the core takes.                            *)
ASSUME PaddedAssumption == \A len \in InLens : IsBlock(PaddedBlockOf(len))

(* From the start bit on, the accelerator works on the padded input: no byte of it *)
(* is still on its way, and none is overwritten before the core has taken it.      *)
HashesPaddedInput ==
    start_int = 1 /\ state # "READ" /\ state # "DONE" => mem = PaddedBlock

(* Once the FSM is done the memory holds the hash of the padded input, although    *)
(* the driver's loads went on while the FSM was at work.                           *)
MemoryGetsHash ==
    state = "DONE" =>
        \A w \in 0 .. 2 * LanesFor(outlen - 1) - 1 : mem[w] = HashWord(w, PaddedBlock)

(* shake128_hw returns, unless it is to read back one byte: DONE_REG (main.c:100)  *)
(* is read where the length is kept, and outlen - 1 is 0 then, so that the loop    *)
(* goes on for ever, though the accelerator is done.                               *)
DriverReturns ==
    /\ outlen # 1 => <>(pc = "returned")
    /\ outlen = 1 => []<>(pc = "poll" /\ done = 1) /\ [](pc # "read")

(* main.c:99, "busy wait for accelerator": the result is read back only when the   *)
(* accelerator is done.                                                            *)
BusyWaitsForAccelerator == pc = "read" => done = 1
===================================================================================
