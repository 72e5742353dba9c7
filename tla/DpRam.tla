--------------------------------- MODULE DpRam ---------------------------------
(* The accelerator's true dual-port RAM (true_dp_ram.sv, the branch without    *)
(* ASIC): two ports on one clock, each of which may read or write a word per    *)
(* cycle.  A read returns the word as it was before the edge.                   *)
EXTENDS Integers

CONSTANTS
    ByteLanes,  \* the bytes of a word, one write enable each
    Depth,      \* words of the memory
    X           \* what an unwritten word, or a word past the end, reads as

VARIABLES mem, rdata_a, rdata_b

ramVars == <<mem, rdata_a, rdata_b>>

Addr == 0 .. Depth - 1

(* What a port is driven with in a cycle.                                       *)
Idle == [en |-> 0, we |-> 0, addr |-> 0, be |-> {}, wdata |-> X]

Init == mem = [w \in Addr |-> X] /\ rdata_a = X /\ rdata_b = X

Stored(m, port) ==
    IF port.en = 1 /\ port.we = 1 /\ port.addr \in Addr
    THEN [m EXCEPT ![port.addr] =
            [b \in ByteLanes |-> IF b \in port.be THEN port.wdata[b] ELSE @[b]]]
    ELSE m

Output(port, rdata) ==
    IF port.en = 0 THEN rdata
    ELSE IF port.addr \in Addr THEN mem[port.addr] ELSE X

(* One edge of both clocks.  Two writes of one word race: either comes last.    *)
Clock(a, b) ==
    /\ mem' \in {Stored(Stored(mem, a), b), Stored(Stored(mem, b), a)}
    /\ rdata_a' = Output(a, rdata_a)
    /\ rdata_b' = Output(b, rdata_b)
=================================================================================
