-------------------------------- MODULE ConfigReg --------------------------------
(* The configuration register file (config_reg.sv) as accel_top_wrapper builds   *)
(* it: registered status, registered read port.  Control words are written by    *)
(* the bus and drive the accelerator; status words are driven by the accelerator *)
(* and read by the bus.                                                          *)
EXTENDS Integers

CONSTANTS
    CfgBytes,      \* the bytes of a word
    N_CTRL_WORDS,
    N_STAT_WORDS

VARIABLES ctrl_reg, stat_readout, rdata

cfgVars == <<ctrl_reg, stat_readout, rdata>>

ZeroWord == [b \in CfgBytes |-> 0]

is_config(addr) == addr < N_CTRL_WORDS
is_status(addr) == addr >= N_CTRL_WORDS /\ addr < N_CTRL_WORDS + N_STAT_WORDS

(* Reset clears the control words and the read port; the status registers have   *)
(* no reset and take the status of the reset accelerator at the first edge.      *)
Init(status) ==
    /\ ctrl_reg = [w \in 0 .. N_CTRL_WORDS - 1 |-> ZeroWord]
    /\ stat_readout = status
    /\ rdata = ZeroWord

(* One edge; request is [en, we, addr, be, wdata], stat_en is tied to 1.         *)
Clock(request, status) ==
    /\ ctrl_reg' =
         IF request.en = 1 /\ request.we = 1 /\ is_config(request.addr)
         THEN [ctrl_reg EXCEPT ![request.addr] =
                 [b \in CfgBytes |->
                    IF b \in request.be THEN request.wdata[b] ELSE @[b]]]
         ELSE ctrl_reg
    /\ stat_readout' = status
    /\ rdata' =
         IF request.en = 0 \/ request.we = 1 THEN rdata
         ELSE IF is_status(request.addr)
              THEN stat_readout[request.addr - N_CTRL_WORDS]
              ELSE IF is_config(request.addr) THEN ctrl_reg[request.addr] ELSE rdata
=================================================================================
