# TLA+ models of the SHAKE128 accelerator and its software

This directory models the hash accelerator of `pulpino_clean` - a Keccak core, a
state machine and a local RAM on PULPino's AXI bus -, the C function that drives it,
the software SHAKE and SHA-3 it is measured against, the reference programs that make
its test vectors, and the printf and UART code that prints its results.  It checks the
models with TLC on small and, where it can be done, on the real sizes, and proves
theorems about all of these with TLAPS.

## 1. The system

| part | source | state | operations |
|---|---|---|---|
| block buffer | `RTL/accelerator/keccak_buffer.vhd` | mode, buffer_full, two lane counters, 21-lane shift register, dout_valid | take a lane, hand a block over, enter output mode, load, shift out, leave output mode |
| Keccak core | `keccak.vhd` | 1600-bit state, round counter, permutation_computed | start, absorbing first round, rounds 1-23 |
| round function | `keccak_round.vhd`, `keccak_round_constants_gen.vhd` | none | theta, rho, pi, chi, iota |
| accelerator FSM | `accel_fsm.sv` | IDLE, WRITE, WAIT_HASH, READ, DONE; byte counter, address, delayed din_valid, start and last_block pulses, done | one edge of the clock |
| local RAM | `true_dp_ram.sv` | 42 words of 32 bit, two output registers | read or write on two ports |
| wrapper | `accel_wrapper.sv` | none | RAM port a multiplexed by `start` |
| configuration registers | `config_reg.sv` | 4 control words, 4 status words, read register | bus access |
| top wrapper | `accel_top_wrapper.sv` | `addr_is_config_reg` | address decoding, clearing of the start bit, status vector |
| hash driver | `COMPILE/src/bench_targets/main.c` | loop index, caller's buffer | `shake128_hw` |
| software hash | `COMPILE/src/keccak/fips202.c` | 25 lanes and a byte position | one-shot and incremental SHAKE, SHA-3, cSHAKE |
| software permutation | `keccakf1600.c` | none | permute, xor bytes, extract bytes |
| stack benchmark | `stackbench.c` | canary words below the stack start | write, check |
| startup, memory map | `lib/crt0.riscv.S`, `link.common.ld` | BSS, stack | clear BSS, call main, interrupt entries |
| printf | `string_lib/qprintf.c` | format, argument list, digits | printf, puts, sprintf |
| UART driver and UARTs | `lib/uart.c`, `apb_uart.vhd`, `apb_uart_sv.sv` | FIFO, shift register, LCR, FCR | configure, send, wait; transmit |
| other drivers | `lib/timer.c`, `gpio.c`, `int.c`, .. | device registers | single accesses |
| AXI memory interface | `RTL/ips/axi/axi_mem_if_DP`, `axi_slice`, `generic_fifo` | FIFOs, read and write controllers, arbiter | turn bursts into single accesses |
| PULPino | `RTL/ips/*`, `RTL/rtl` | cores, AXI node, APB peripherals, debug | vendored |
| reference permutation | `KeccakVHDL-3.1/..Sources/KeccakF-1600-reference.c` | 25 lanes | the five steps, tables, vectors for the core's test bench |
| reference sponge | `KeccakSponge.c`, `KeccakNISTInterface.c` | state, queue of one block, phase | Init, Absorb, Update, Squeeze, Final |
| reference duplex | `KeccakDuplex.c` | state, rate | InitDuplex, Duplexing |
| known-answer generator | `genKAT.c`, `mainReference.c` | input and output files | one generator per file |
| other cores | `KeccakVHDL-3.1/..` high speed, mid range, low area | - | the distribution the core comes from, not built |

**Interaction.**  The CPU's loads and stores come through AXI as at most one access
per clock cycle.  Bit 19 of the byte address tells the configuration registers from
the data memory.  Software writes the length, the padded block and the start bit.
While start is high the FSM owns both RAM ports: it reads two words (a lane) per
cycle into the buffer, waits for the core's 24 rounds, and writes lanes of the state
back over the start of the RAM.  It then stays in DONE; `done` takes the
configuration port from the bus for good and clears the start bit with it, which
gives RAM port a back to the CPU, and software reads the result.

All hardware shares one clock.  **What is hard** is therefore not a race of
processes but alignment: each flag is seen a cycle late by the next block, several
processes decide about the same event from the same flags, and counters are compared
with lengths that do not divide.  On top of that the CPU is asynchronous to a job: it
may access anything in any cycle.  `PROJECT.json` lists these hazards with their
lines and the properties that cover each.

**What makes each part correct.**

* Buffer: full exactly after a block's lanes, which it shows in order; the output
  shows the loaded lanes in order and without a gap.
* Core: each block absorbed once, in order; each permutation runs rounds 0 to 23 once
  each; output is only of finished permutations.
* FSM: uses the core within those conditions, drops no lane, makes one block of one
  start, delivers the lanes that the length asks for.
* Wrapper and top: a job hashes the memory as it was at its start; the CPU cannot
  change it; after done the configuration is closed.
* Driver: the block is the padded input; the memory gets its hash; the call returns.
* Permutation: the three implementations are one function; the files of vectors hold
  what they are said to hold.
* Reference sponge and duplex: every message bit is absorbed once, whatever its length
  and however it is cut; the padding tells every input from every other.
* Generator: a file that is reported as written has a line for every record of its
  input, and no line is of another record.
* printf and UART: what is printed is the argument; no character is lost; the program
  ends, and not before the last character is out.
* Software hash: the state depends on the message and not on how it was split; the
  output is one stream however it is taken; nothing else gets into the state.

## 2. Modules

```
KeccakBuffer  <-- INSTANCE -- KeccakCore <-- AccelFsm <-- AccelWrapper <-- AccelJob
     ^                            ^             (EXTENDS)     |  ^           |
KeccakBufferProofs  <--  KeccakCoreProofs           DpRam <---+  |           +--> ShakeJob
                                ^                                |                (abstract)
                        AccelWrapperProofs    ConfigReg <-- AccelTop <-- ShakeDriver
                         ^              ^                      ^-------- AccelCpu
                         |              |                                 both
                  AccelJobProofs        +---------- AccelTopProofs --------^

KeccakState <-- Sponge (reference) <-- SpongeInc <---+-- Fips202Proofs
                          ^----------- SpongeOneShot +-- MCFips202

KeccakF1600 <-- PermutationVectors        <--+
                RefSponge, RefDuplex      <--+-- ReferenceProofs
                (on RefBits)  and GenKat  <----- MCReference (all four)

ApbUart <-- QPrintf (with Word32) <-- QPrintfProofs, MCPrintf
```

A hardware module's `Clock` operator is one rising edge of that block as a function of
its inputs; the module above calls it with the wires it drives.  So each composition is
one conjunction of `Clock`s, all reading the unprimed registers, as the hardware does.
Combinational signals are operators of the unprimed variables (`n_state`, `ready`,
`mem_port_a`, `cfg_request`).  In the software modules a step is a call, a turn of a
loop, or one access to a register of another clocked machine.

| module | what it is |
|---|---|
| `KeccakBuffer` | `p_main` of the buffer, one action per branch.  `words` (lanes accepted since the last hand-over) and `captured` (the state as loaded) are history variables. |
| `KeccakCore` | `p_main` of the core with the buffer under it.  `blocks` (completed blocks since start) is a history variable. |
| `AccelFsm` | next-state logic, memory ports, copro control; extends the core. |
| `DpRam`, `AccelWrapper` | RAM and multiplexer. |
| `ShakeJob` | abstract specification: lanes of the hash replace the first words of the memory one after the other, nothing else changes, and the job ends. |
| `AccelJob` | a job with software keeping still; refines `ShakeJob`. |
| `ConfigReg`, `AccelTop` | registers, decoding, clearing of start. |
| `AccelCpu` | `AccelTop` under a CPU that does anything, and under one that leaves the configuration alone during a job (the variable `disciplined` says which). |
| `ShakeDriver` | `shake128_hw`, one step per access or test, on top of `AccelTop`. |
| `KeccakState` | the 200-byte state of `keccakf1600.c`: xor bytes, extract bytes, permute. |
| `Sponge` | what the sponge functions compute, with no position, loop or call: where each byte of the padded message goes and where each byte of output comes from. |
| `SpongeInc` | `keccak_inc_init`, `_absorb`, `_finalize`, `_squeeze` and the `sha3_*_inc_finalize` functions on one context, one step per turn of a loop. |
| `SpongeOneShot` | every one-call function of `fips202.c` as a row - rates, padding byte, prepared state, lengths - over `keccak_absorb` and `keccak_squeezeblocks`. |
| `KeccakF1600` | the permutation bit by bit, three times: the reference's tables and steps, `keccakf1600.c`'s unrolled round, `keccak_round.vhd`'s signals. |
| `PermutationVectors` | `KeccakPermutationIntermediateValuesForVHDL`, which writes `perm_in.txt` and `perm_ref_out.txt`, with the other two permutations running on the same inputs. |
| `RefBits`, `RefSponge` | the reference sponge bit by bit, with the NIST interface on it. |
| `RefDuplex` | the reference duplex object. |
| `GenKat` | `genKAT_main` and the generators it calls: an action per generator, whose disjuncts are its steps (open, header, a record or a turn, return). |
| `Word32` | words of 32 bits as two halves (TLC's integers have 32 bits with a sign). |
| `ApbUart` | the transmitters of both UARTs, and `uart.c`. |
| `QPrintf` | `qprintf.c` and `puts` on `ApbUart`; what `crt0` does after main. |
| `*Proofs` | theorems. |
| `MC*` | constants for TLC; `MCFips202` and `MCReference` run modules that share nothing side by side, an initial state picking the one that moves. |

**The round function** is a free constructor in the core and under the sponges.  The
state register is a sequence of permutations, each the block it absorbed and the round
numbers that were run on it.  Two registers are equal in the model exactly when they saw
the same blocks and the same rounds in the same order, so an error of scheduling can
never be hidden by an accidental equality.  What a round computes is the subject of
`KeccakF1600`, and only there.

The software state is built in the same way: a byte is the set of the terms xored
into it (message bytes by number, the two padding terms), so that xor is the
symmetric difference and a byte xored twice vanishes; a permutation appends an entry
to the sequence of what was xored in between.  In `RefSponge` a bit is the number of a
message bit, a constant, an unused bit of the caller's, or an output of a permutation.

**Lanes and words.**  In the accelerator's modules a lane is a pair of memory words, a
word a function from the bytes that are told apart.  Words that no write has reached
hold a model value.  In `KeccakF1600` a lane is the set of its one bits, all 64 of them.

**Files** (`GenKat`) are sequences of marked values that may end anywhere - in the
header, after a record, inside one.  What is hashed is a term: which bits, and whether
the last partial byte was shifted.  Of the duplex object `GenKat` keeps the inputs it has
taken and those its last output is of (`Out`, the array in `genDuplexKAT`); which inputs
it refuses is a predicate of their length and value (`Unaligned`).

**Inputs.**  `KeccakBuffer` and `KeccakCore` are also checked on their own, with free
inputs under two conditions: output is asked for between blocks only
(`LastBlockProtocol`) and start is given between blocks only (`StartProtocol`).
These are assumptions of the core and obligations of the FSM: `FsmHonoursProtocol`
states them of the FSM and is checked with a CPU that does anything.

**Registers without a reset** (`din_valid_reg`, `accel_state`, the status registers):
`din_valid_reg` and the status have copied reset values at the first edge that
matters; `accel_state` starts as a value of its own.  Arrays that C leaves
uninitialised (`sha3_384`'s state, the duplex's block) hold a free choice.

## 3. Runs

| run | states | instance | question |
|---|---|---|---|
| `keccak_buffer` | 816 | 4 lanes in, 3 out, 2 lane values | any inputs within the protocol: order of input and output |
| `keccak_core` | 62 462 | 2 lanes, 4 rounds (so that, as with 21 and 24, a block is complete before the permutation is), messages of up to 3 blocks | feeding during permutations, starts and outputs between |
| `accel_job` | 3 926 | **real size**: 21 lanes, 8 out, 24 rounds, 42 words, all 64 lengths, start in any cycle | implements `ShakeJob`; takes a known number of cycles |
| `accel_cpu` | 16 737 | 2 lanes, 2 rounds; a CPU that writes any register and the data memory in any cycle, and one that leaves the configuration alone during a job | what the accelerator guarantees against any software; a job's result does not depend on what a disciplined CPU does to the data memory meanwhile |
| `shake_driver` | 20 120 | 6 lanes, 4 out, 6 rounds; inputs of 0, 5 and 46 bytes (the longest), outputs of 1, 2, 17, 32; 2, 3 or 5 cycles between accesses | padding, result in the memory, for which lengths the call returns |
| `fips202` | 5 546 | rate 6 of 8 bytes (4, 3 and 2 for the others), messages and outputs of up to 14 bytes (two blocks and a part), every split of both | the incremental functions and every one-call function against `Sponge` |
| `reference` | 44 162 | the permutation in the **real size** on all ten recorded vectors; sponge of rates 9 and 6 in bytes of 3 bits, messages of up to 19 and output of up to 18 bits; duplex rates 2, 5, 6, 7 in bytes of 3 and lanes of 6 bits, two calls with every input of up to 6 bits; generator on files cut in every kind of place, with inputs that the duplex object refuses | three permutations are one; reference sponge, duplex and generator |
| `printf_uart` | 83 557 | FIFOs of 2 and 3 places; every conversion with five combinations of flags and width and seven words at the edges of 32 bits; strings, characters, `puts`, unknown and broken directives; either UART, configured or not | printing and exiting |
| `sha3_384` | | as `fips202` | violated: `StartsFromZero` |
| `accel_length` | | real size | violated: `EveryByteOfTheHash` |
| `driver_busy_wait` | | real size | violated: `BusyWaitsForAccelerator` |
| `uart_send` | | a string one longer than the FIFO | violated: `NothingLost` |

**What the passing runs establish.**

* *Accelerator.*  `JobRefinesShakeJob`: a job hashes the block in the memory and
  delivers whole lanes in order.  `JobLatency` gives its exact time: 51 cycles and one
  per delivered lane in the real size.  `FsmHonoursProtocol`: whatever software does,
  the FSM uses the core within its assumptions, offers no lane the buffer would drop,
  and makes one block of one start.  `MemoryHeldByJob`, `IsolatedJob`: the CPU cannot
  reach the memory of a job.  `ConfigClosedAfterDone`: after done no access to the
  configuration port does anything, until the next reset.
* *fips202.*  Output is one stream of one padded message, whichever function gives it.
* *Permutation.*  `HardwareIsReference` holds after each of the five steps of each
  round, `SoftwareIsReference` after each round, and `RecordedVectors` compares the
  run with the first lanes of the files in the repository, so that the three agree
  with the recorded data and not only with each other.  `ByteOrder`: the conversions
  between bytes and lanes in the three places are one.
* *Reference sponge.*  `AbsorbsInput` and `PadsInput` follow each bit from the caller's
  byte, with the two alignments of a last partial byte, to its block: blocks that
  bypass the queue never overtake it, and a message that ends one bit below the rate
  gets its second block.  `SqueezingIsFinal`: no refused call changes the message.
* *Duplex.*  `BlocksTellInputs`: each call's input can be read off its block, for rates
  within a byte and within a lane, and the capacity stays untouched although what lies
  on the stack is free.
* *Generator.*  `SuccessMeansComplete` and `AnswersMatch`: also with inputs that end
  early and files that cannot be opened, a generator whose result is looked at has
  written one answer per record when it reports success.  The Monte Carlo chain
  overlaps itself when the hash is shorter than the message; the file holds the chain.
  `genDuplexKAT` does not look at the result of `Duplexing` (`genKAT.c:586`), which
  refuses an input with bits set behind its end (`KeccakDuplex.c:41`): the file then has
  the output of the input before it (or, if there was none, what was on the stack) as
  the answer, and goes on as if the input were not there.  `AnswersMatch` says this,
  and that nothing else goes wrong: a refused input changes no later answer.
* *Driver.*  `DriverReturns` has two halves.  For every length but one the call
  returns; for `outlen = 1` it never leaves the loop of `main.c:100`, although the
  accelerator is done (see the finding on the busy wait).  In neither case does the loop
  wait for the accelerator: it ends at its first test or never.
* *printf.*  `PrintsArguments` reads the printed characters back as a number in 32-bit
  arithmetic; with `-2^31`, the correction of the division by ten, and a sign in front
  of padding zeros among the cases.  `NothingLost`, `TxDoneMeansSent`, `ProgramEnds`.

**Bounds.**  `MaxBlocks` bounds the blocks of a message (three: one absorbed, one
under permutation, one being filled; a fourth meets the same register contents up to
the history).  `RateLanes`, `OutLanes` and `Rounds` are small where the CPU is free,
because each cycle then branches, and real where it is not: the schedule is a matter
of comparing counters, and the real values are checked in `accel_job` and the
hardware runs that are violated.  `RateLanes = OutLanes = 2` still has a first, a last
and a stale lane.  `CfgBytes` keeps the two bytes of a word that the accelerator reads.
`Gaps` are the cycles between two accesses of the program: the data that a load gets is
on the bus a cycle after the request, so a gap of less than two does not exist, and the
gaps of the run let polling and reading hit every phase of a job.

In `fips202` the pieces have every length from 0 to what is left, so that every
pair of a position in the block and a length occurs, those that end one below, at and
above the rate and those that span two blocks among them.  In `reference` `Chunks`
holds lengths of whole and partial bytes, of a block less one bit, a block, and two
blocks; `MaxInput` is two blocks and a bit, `MaxOutput` two blocks.  A byte of three
bits has a first, a middle and a last bit; a lane of two bytes has a rate within it.
`DuplexRhoMax` and the lengths in the generator's files are scaled so that a record can
be too long for the rate; the refused input comes after an accepted one for one of the two
rates and is the first for the other.  `Turns = Lines = 2` and `SeedBytes = 5` make the Monte Carlo
chain longer than the seed.  In `printf_uart` the FIFO is shorter than what is printed,
so that the program waits for it.

The runs in which a program or a call ends do not check deadlock: it makes no further
step.  The hardware runs do.

**Fairness.**  `AccelJob` and `KeccakCore` assume that the clock runs (`WF` on the
edge).  `ShakeDriver` assumes in addition nothing: a step of the program is a step of
the clock, and the program has one next instruction.  `QPrintf` assumes `WF` of the
program (the processor keeps executing; a poll that fails is a step that changes
nothing) and `WF` of the transmitter (its clock runs).  There is no strong fairness.

**What the violated runs show.**

* *Length.*  The register holds `outlen - 1` (6 bits), and READ stops when the byte
  counter, 8 on entry, has reached it.  For `outlen` of at most 9 nothing is stored,
  and for 17, 25, .., 57 the last byte is missing.
* *Busy wait.*  The register number is cut out of the byte address without dropping
  its two low bits, so offset 0x10 reads control word 0 and `DONE_REG` reads the
  length byte.  The loop therefore ends at the first test if `outlen > 1` and never
  for `outlen = 1`, a length that `src/README.md:3` promises (8 bit): `DriverReturns`
  states both.  In the first case the driver reads the memory while the FSM still works
  on it.
* *sha3_384.*  The function passes an array it has not initialised to `keccak_absorb`,
  whose comment says that it zeroes the state, but which only xors into it.  The
  other one-call functions zero the array themselves.
* *uart_send.*  After one test of the line status it writes up to 64 characters;
  the status tells room for one (`apb_uart`) or for 16 (`apb_uart_sv`).  The comments
  speak of batches of 16 and of waiting for space.  `printf` is not affected: it sends
  each character with a test of its own.  64 places are there only on `apb_uart` and
  after `uart_set_cfg`, which writes FCR while DLAB is set.

Two more things the modelling met, about which the models state nothing of their own.
The comment that opens in `crt0.riscv.S:76` ends only behind the call of
`uart_set_cfg`, so that a program runs on an unconfigured UART (the reason why
`printf_uart` has both).  A format with the flags `-` and `0` together pads a number
with zeros on its right; `PrintsArguments` leaves it out.  Widths are numbers of any
size in the model; one that does not fit an `int` is undefined behaviour in the code.

## 4. Proofs

`KeccakBufferProofs` proves the buffer's five properties for every lane set and all
`RateLanes`, `OutLanes` allowed by `BufferAssumption`.  The inductive invariant `IInv`
adds to them what output mode keeps (`OutputPending`): which lanes are still in the
register and where the next one is.  `BlockInOrder` alone is not inductive: it speaks
of a full buffer, and the shift that completes it needs the position of every lane of
a partly filled one.

`KeccakCoreProofs` proves type correctness, `RoundSchedule`, `EveryBlockAbsorbedOnce`
and `OutputOfFinishedState` for every `Rounds >= 2`, rate and lane set.  The core's
invariant `CoreIInv` joins the schedule with the buffer's invariant; the buffer's step
lemma is used through an INSTANCE of its proof module, so nothing about the buffer is
proved twice.  The two processes' decision on the hand-over is the heart of it: the case
`Absorbing` of the core and `HandOver` of the buffer have the same condition because
`ready` is `permutation_computed`, and the history `blocks` grows exactly when
`buffer_full` rises.

`Fips202Proofs` proves the properties of the incremental and of the one-call functions
for every state size, rate, digest and message, and any sequence of calls.  The
inductive invariant of a context joins them with `Protocol`, which is what makes the
squeeze's step go through: a loop that has output left to give has used up its block
(`pos = 0`), and nothing was output while absorbing.  The argument has three parts:
`AbsorbBytes` (xoring bytes at the place of the message's end extends the message, in
the last block only), `PaddedHolds` (the padding meets no byte of the message, and its
two bits may share a byte) and `StreamGrows` (reading on where the output stopped
continues the stream).  `MaxMessage` and `MaxOutput` bound the choices of the caller in
the model; the theorems hold for every value of them.  The one-call functions absorb
whole blocks straight into a state that the caller prepared; `MessageFromZero` says
that the result depends on the message and the prepared state alone.  It excludes
`sha3_384` by name, of which it is false (the run `sha3_384`); the stream, of whatever
state it starts from, is proved of all of them (`StreamReturned`).

`ReferenceProofs` proves that the three permutations are one function on **every**
state, of which TLC can only try a few of 2^1600.  `UnrolledRoundIsReference` says it of
a round of `keccakf1600.c`, both halves of its loop body; the lemmas `ThetaOut` to
`IotaOut` say it of each step of `keccak_round.vhd`.  The theorems
`HardwareIsReferenceAlways` and `SoftwareIsReferenceAlways` follow by the invariant
`InRound`, which says where in a round the reference is, seen from the software, which
moves a round at a time.  What the proof takes from the tables - offsets, constants (of which
each source has its own table), the wiring of pi - is `TablesAssumption`, a closed formula over the tables of the three
sources (the reference computes its own, with an LFSR and a walk over the lanes): no
constant occurs in it, TLC evaluates it to TRUE in the run `reference`, and the proof
needs nothing else.  `BytesAreOne` adds that the two conversions between bytes and lanes
are inverse and that `keccakf1600.c` reads and writes the same bytes, again on every
state.

The same module proves the reference sponge, for every rate of whole bytes, and the
duplex object, for every rate of at least two bits (`RefIInv`, `DuplexIInv`).  What has
to be added to the properties is which bits blocks and queue hold (`TakesBits`: the
message up to where the call in progress is, with nothing behind the last bit in its
byte) and what the call still has to take (`HasBits`); with it each turn of Absorb's
loop - a block that bypasses the queue, a piece that fills it, a last partial byte with
one of two alignments - is the same step, the next bits of the message.  Padding is the
case of a message that leaves one bit of the block (`LastTwoBlocks`) and of one that
leaves more (`LastBlock`).  The output side mirrors it (`GivesBits`).  In the duplex
object `Tells` says of each block which input it was made of - the input ends in front
of the last one bit but that at the end of the rate - for every content of the array on
the stack that the code does not clear.

The generator of the known answers is proved there too, for all hash lengths, any
contents of the input files and any number of turns and lines.  `KatInv` says three
things: the call in progress has read its input up to a place between two records, and
its file holds the answers to the records in front of it (`KatOngoing`; in the Monte
Carlo tests, the message in hand is the chain's after the turns made); the file of every
earlier call is as it should be, whole if the call was successful (`KatPast`); no file
of a later call exists (`KatPlace`), which is why the names must differ.  That the k-th
answer is of the k-th record needs no induction over the file: a record's number is how
many records are at or before it, and the next marker from the place in hand is the next
number (`Records` of a prefix, and the least element behind it).  The duplex object has
taken the records up to there that it does not refuse, and the output in the array is of
exactly these (`TakenBefore`); no assumption keeps refused inputs out of the files.  The chain overlaps
itself, so that a turn's message is what `Chain` says only by a division of the place in
the message by the hash's length (`Divided`).

`QPrintfProofs` proves of the UART that nothing is lost and that the wait at exit is for
the line, whatever is printed and for every depth of the FIFOs.  `NothingLost` is not
inductive: a character is written a step after the test, and the mode of the FIFO or
DLAB could have changed in between.  `InCall` says that it cannot: from the test to the
write there is room (`uart_pc = "load" => TXFIFOWrite`; the transmitter only makes
more), DLAB is set during the configuration only, and the configuration - which empties
the FIFO - is over before the first character.  `RoomIsSeen` is where the two UARTs
differ: bit 5 means something else in each, and both meanings are enough.

It also proves the arithmetic under `printf` for every unsigned int (`DivisionByTen`),
of which TLC tries the few words a run prints.  A word is a pair of halves there as in
the model; the lemmas `PlusIs` to `ShiftLeftIs` say what each operation is as a number,
up to a multiple of 2^32.  `EstimateIs` bounds what the four shifts of `divu10` lose: at
most 15 tenths, so the rest tells whether one is missing.  `TableIndex` is about
`remu10`: 429496729 times the number is, modulo 2^32, that many times the remainder less
six times the quotient, the two shifts give back those six, and the upper four bits
select the remainder from the table.

`ArgumentsPrinted` joins the two: what a conversion has sent is its argument, for every
call whose arguments fit its format (`CallsAssumption`, which is what C asks of a caller
of `printf`).  `PrintIInv` has four parts.  `Ranges` has the program's place, and that
nothing of a conversion is sent while its digits are made.  `Left` says which arguments
are left at each place of the format: without it the next conversion could take one that
is not of its type.  `Spelling` is the loop of `qprinti`: the digits so far are those that
lead from what is left of the number to its absolute value (`Spells`, a chain of words
one per digit, so that a digit more in front needs no induction over those behind it),
and the first of them is no zero when nothing is left.  `Printing` says of the characters
sent, on their way and still to be sent together that they are the argument; at the end
of the conversion all of them are sent, which is where `UartIInv` is used.  Reading back
must undo the padding and the sign: `BesideIs` trims the blanks, `NumberShape` says that
with zeros for padding the sign is in front of them, and `DigitsWithZeros` that they
change nothing.

`AccelWrapperProofs` joins the core with the FSM and the RAM, and `AccelJobProofs` and
`AccelTopProofs` use it for a job on its own and for the whole accelerator under
software.  What the core assumes of its inputs is proved of the FSM instead of assumed:
the core's step lemma is used with the inputs the FSM drives, and `FsmIInv` adds to
`CoreIInv` the one relation on which everything depends - while a block is fed, the byte
counter is eight times the accepted lanes plus the two that may be in the pipeline
(`Loading`) - and that after the hand-over nothing is left on its way (`Loaded`).
`FsmHonoursProtocol` is about the protocol, not the data: of a job whose start bit
software clears in the middle it says no more.  Alone it is not inductive: that no lane meets a full buffer is decided
two cycles before, when its address is put out.  `TopIInv` adds the control words and
that the memory holds words until the block is handed over; it needs no condition on
the CPU.  `JobRuns` follows a job of a CPU that leaves the configuration alone, state by
state: the accepted lanes are the memory's, with the one the RAM shows and the one
whose address is out behind them (`FeedingJob`); the block under permutation is the
memory (`BlockOfJob`); the first cycle of READ writes the stale lane to the place it was
read from, which is why it does no harm (`StaleLane`); and after that the memory is the
input with the first lanes replaced, the counters one lane ahead (`ReturningJob`).  The
theorem `JobIsIsolated` then holds for every rate that fits the byte counter, every
length, number of rounds and access to the data memory in any cycle.

`AccelJobProofs` adds to it (`JobTime`) how many cycles each state has taken so far, as a
function of the counters the state has anyway.  `JobTakes` (the latency) is the value in
DONE, and `JobImplementsShakeJob` the safety half of the refinement: the initial states
map to initial states, and each edge to `Begin`, `Deliver`, `Finish` or a stutter.

`AccelTopProofs` also proves the driver: `PaddedInputIsHashed` and `MemoryHoldsHash`
hold for every input and output length and any gaps between its accesses.  The invariant
`DriverIInv` says which bytes of the padded block the driver has stored so far
(`Preparing`, `Filled`), so that the accelerator starts on all of them, and that from
then on the job is on this block (`JobStarted`).  The driver's polling goes on during
the job, and because of the finding about `DONE_REG` it may have left its loop: what it
does then is a read, which changes nothing, and nothing about the time at which it reads
is claimed.

Assumptions are those of the modules on their constants; TLC evaluates each in every
run of a module that extends it.

* Accelerator.  `BufferAssumption`, `CoreAssumption`: sizes are positive, the output
  fits the rate.  `FsmAssumption`: the rate in bytes fits the byte counter.
  `WrapperAssumption`: the RAM holds a block.  `TopAssumption`: the address bits fit the
  registers.  `CpuAssumption`: what a bus write leaves in the RAM is a word of the
  model, and the length asks for at most the lanes the core puts out, which six bits of
  length and eight lanes give.  `JobAssumption`: a job starts on a block and with such a
  length.  `DriverAssumption`, `PaddedAssumption`: the input leaves room for two bytes
  of padding in the only block the driver fills, an access gets its data before the next
  one, and words have four bytes.
* Software.  `StateAssumption`, `IncAssumption`, `OneShotAssumption`,
  `FunctionsAssumption`: a rate fits the state, a digest and cSHAKE's separation block
  fit the rate, and the padding bytes are no message bytes.
* Reference programs.  `TablesAssumption`, as above.  `ByteAssumption`,
  `SpongeAssumption`, `DuplexAssumption`: a byte has bits, the sponge's rate is of whole
  bytes, a duplex rate leaves room for the two bits of its padding.  `KatAssumption`:
  the hash lengths differ and none is longer than the seed; an input file has its header
  in front of its records, and a message that is not empty follows its length unless the
  file ends there.  `Unaligned` is any predicate.
* UARTs.  `UartAssumption`: a FIFO has a place.
* printf.  `CallsAssumption`: a format has an argument for each of its conversions, a
  word for a number or a character and a string or the null pointer for `%s`, none is
  left over, and no conversion is cut off behind its flags and width.

Only model-checked: liveness (`BlockGetsPermuted`, `DriverReturns`, `ProgramEnds`) and
the fairness half of the refinement of `ShakeJob`, which are out of the prover's reach;
and `RecordedVectors`, a comparison with recorded data.

## 5. Not modelled

* **The AXI side**: vendored.  A request is what reaches the accelerator's port, at most
  one a cycle; a stalled beat of a burst is a cycle without one.  That its read and write
  controllers share the port correctly is not checked.
* **The processor**: instructions in order, with any of the gaps between them.  The
  interrupt path is not used by the driver.  `accel_error` is driven by nothing in the
  code and by nothing here.  The ASIC memory macro has the same ports as the simulated
  memory.
* **`main()` of the benchmark**: cycle counters and output around calls that are
  modelled.  **`stackbench.c`**: which words its canaries overwrite is decided by the
  frames the compiler makes.  **crt0's BSS loop**, which clears one word too many: what
  follows BSS is decided by the linker.
* **Drivers** other than the UART's (single register accesses that no program of the
  repository overlaps), `uart_getchar` (not called), peripherals other than the UARTs'
  transmitters, debug and SPI ports, SoC wiring, testbenches and synthesis scripts.
* **Reference programs**: the functions that print intermediate values; the part of
  `KeccakF-1600-reference.c` that is commented out (380-571); `genExtremelyLongMsg`,
  which is compiled out.  `genKAT_main` itself is called by no `main()` of the
  repository, which calls only the vector generator; it is modelled because it is what
  uses the sponge.  `InitDuplex` with the rate 1, which the code accepts with a
  `rho_max` that wraps to 2^32 - 1; the generator uses 1026 and 1027.
* **The three VHDL cores** of the KeccakVHDL distribution: nothing here builds them;
  the accelerator's core is a derivative and is modelled from its own source.

## 6. Plan

In the order of what they would add:

1. The AXI interface as a module that turns bursts into `AccelTop`'s requests, if the
   vendored code is ever changed.
