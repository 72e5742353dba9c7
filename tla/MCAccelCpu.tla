------------------------------- MODULE MCAccelCpu -------------------------------
(* A small accelerator (two lanes of rate and of output, two rounds) under a CPU *)
(* that writes one of two values to any data word, reads data, control and       *)
(* status words, and sets or clears start and the length.                        *)
EXTENDS AccelCpu

CONSTANTS cpu, other, unknown

MCByteLanes == {0}
MCCfgBytes == {0, 1}
MCDataWord(of) == [b \in ByteLanes |-> [word |-> 0, byte |-> b, of |-> of]]
MCX == MCDataWord(unknown)
MCDataWords == {MCDataWord(cpu), MCDataWord(other)}
MCInLane == (MCDataWords \cup {MCX}) \X (MCDataWords \cup {MCX})
MCZeroLane == <<MCX, MCX>>

(* Lengths 1 and 10 (nothing delivered, and both lanes), start set and cleared.  *)
CfgWord(start, length) == [b \in CfgBytes |-> IF b = 0 THEN start ELSE length]
MCRequests ==
    {NoRequest}
    \cup {BusRead(addr) : addr \in {0, 1, DataWord0}}
    \cup {BusWrite(DataWord0 + w, ByteLanes, v) : w \in {0, 3}, v \in MCDataWords}
    \cup {BusWrite(0, {0}, CfgWord(start, 0)) : start \in {0, 1}}
    \cup {BusWrite(0, {1}, CfgWord(0, length)) : length \in {0, 9}}

(* One data value, one data word, and everything the control word can be set to. *)
MCFreeRequests ==
    {NoRequest, BusRead(1), BusWrite(DataWord0 + 1, ByteLanes, MCDataWord(cpu))}
    \cup {BusWrite(0, {0, 1}, CfgWord(start, length)) :
             start \in {0, 1}, length \in {0, 9}}
=================================================================================
