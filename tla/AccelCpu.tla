-------------------------------- MODULE AccelCpu --------------------------------
(* The accelerator under any CPU: the accesses a processor may place on the bus,  *)
(* and what the accelerator promises whatever it does.                            *)
EXTENDS AccelTop

CONSTANTS Requests, FreeRequests        \* accesses the CPU may make, see TopSpec

(* The words of the memory are the halves of the input lanes, and the bytes of    *)
(* any request make words of them; the length register, which has 6 bits in the   *)
(* code, never asks for more lanes than the core puts out.                        *)
MemWord == {lane[1] : lane \in InLane}
ASSUME CpuAssumption ==
    /\ X \in MemWord
    /\ MemWord \X MemWord \subseteq InLane
    /\ \A v \in MemWord : v = [b \in ByteLanes |-> v[b]]
    /\ \A axi \in Requests \cup FreeRequests : axi.req = 1 /\ axi.we = 1 =>
         IF addr_is_config(axi) = 1
         THEN /\ \A b \in axi.be : axi.wdata[b] \in Nat
              /\ 1 \in axi.be => axi.wdata[1] % 64 <= 8 * OutLanes
         ELSE \A old \in MemWord :
                [b \in ByteLanes |-> IF b \in axi.be THEN axi.wdata[b] ELSE old[b]]
                  \in MemWord

VARIABLE disciplined    \* whether the CPU keeps to the driver's protocol

(* A CPU that accesses anything at any time, and one that leaves the              *)
(* configuration alone while the start bit is set, as the driver does; it may     *)
(* still read and write the data memory at any time.                              *)
FreeNext == \E axi \in FreeRequests : TopClock(axi)
WritesConfig(axi) == axi.req = 1 /\ axi.we = 1 /\ addr_is_config(axi) = 1
DisciplinedNext ==
    \E axi \in Requests :
        /\ start_int = 1 => ~ WritesConfig(axi)
        /\ TopClock(axi)

(* Which of the two the CPU is never changes.                                     *)
CpuNext ==
    /\ disciplined' = disciplined
    /\ (disciplined /\ DisciplinedNext) \/ (~ disciplined /\ FreeNext)
CpuInit == TopInit /\ disciplined \in BOOLEAN
TopSpec == CpuInit /\ [][CpuNext]_<<topVars, disciplined>>
---------------------------------------------------------------------------------
(* Whatever a disciplined CPU accesses in the data memory during a job, the job   *)
(* hashes the memory as it was when the start bit was set, and when the FSM is    *)
(* done the memory is that input with the lanes of its hash in front.             *)
IsolatedJob ==
    disciplined /\ state = "DONE" /\ start_int = 1 =>
        mem = [w \in 0 .. Depth - 1 |->
                 IF w < 2 * LanesFor(output_length_byte)
                 THEN HashWord(w, input) ELSE input[w]]

(* While the start bit is set the data memory changes by the hand of the FSM      *)
(* only, and that only while it returns the hash.                                 *)
MemoryHeldByJob ==
    [][start_int = 1 /\ mem' # mem => state = "READ"]_topVars

(* From the cycle after done the configuration port is closed until the next      *)
(* reset: the start bit is down for good, no write changes a control word, and no *)
(* read returns anything but what the port showed before.                         *)
ConfigClosedAfterDone ==
    [][done = 1 => /\ ctrl_reg' = [ctrl_reg EXCEPT ![0][0] = 0]
                   /\ rdata' = rdata
                   /\ done' = 1]_topVars
=================================================================================
