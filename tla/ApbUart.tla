---------------------------------- MODULE ApbUart ----------------------------------
(* The transmitter of the UART and the functions of uart.c that drive it.  There are *)
(* two UARTs: apb_uart.vhd, and apb_uart_sv.sv in simulations with Verilator.  A     *)
(* step is one access to a register, or a character that leaves the FIFO or the line.*)
EXTENDS Integers, Sequences

CONSTANTS
    Fifo16, Fifo64,     \* depths of the FIFO, 16 and 64
    UART_FIFO_DEPTH     \* the depth that uart.h gives it, 64

ASSUME UartAssumption == {Fifo16, Fifo64, UART_FIFO_DEPTH} \subseteq Nat \ {0}

VARIABLES
    Uart,                       \* which UART the chip has: "apb_uart" or "apb_uart_sv"
    fifo, shifting,             \* the transmitter: its FIFO, and the character being sent
    dlab, fifoEnable, fifo64,   \* bits of its registers LCR and FCR
    uart_pc, str, batch         \* the call of uart.c, what is left to send of its string,
                                \* and how many characters may follow without a test

(* History variables: what went over the line, and what was written to be sent.      *)
VARIABLES line, sent

registers == <<Uart, dlab, fifoEnable, fifo64>>
call == <<uart_pc, str, batch>>
uartVars == <<fifo, shifting, registers, call, line, sent>>

(* The state after reset.                                                            *)
UartInit ==
    /\ fifo = <<>> /\ shifting = <<>>
    /\ Uart \in {"apb_uart", "apb_uart_sv"}
    /\ dlab = FALSE /\ fifoEnable = FALSE /\ fifo64 = FALSE
    /\ uart_pc = "idle" /\ str = <<>> /\ batch = 0
    /\ line = <<>> /\ sent = <<>>
------------------------------------------------------------------------------------
(* Room in the FIFO.  Without the FIFO apb_uart holds one character.                 *)
Depth == IF Uart = "apb_uart" /\ fifo64 THEN Fifo64 ELSE Fifo16
TXFIFOWrite ==
    IF Uart = "apb_uart" /\ ~ fifoEnable THEN fifo = <<>> ELSE Len(fifo) < Depth

(* Bits 5 and 6 of the line status register.  Bit 5 of apb_uart tells that there is  *)
(* room for one character, that of apb_uart_sv that the FIFO is empty.               *)
LSR_THRE_NotFull == Len(fifo) < Depth           \* mutant: the mode not asked
LSR_THRE_Enabled ==                             \* mutant: without the FIFO never ready
    IF Uart = "apb_uart" THEN fifoEnable /\ TXFIFOWrite ELSE fifo = <<>>
LSR_THRE == IF Uart = "apb_uart" THEN TXFIFOWrite ELSE fifo = <<>>
LSR_TEMT_FifoOnly == fifo = <<>>        \* mutant: the character being sent not asked
LSR_TEMT == fifo = <<>> /\ shifting = <<>>

(* The FIFO after a write to address 0, the divisor latch while DLAB is set.  A      *)
(* character written into a FIFO without room is gone.                               *)
Written(c) == IF TXFIFOWrite /\ ~ dlab THEN Append(fifo, c) ELSE fifo

(* The transmitter takes a character, and has sent it.                               *)
TXStart ==
    /\ shifting = <<>> /\ fifo # <<>>
    /\ shifting' = <<Head(fifo)>> /\ fifo' = Tail(fifo)
    /\ UNCHANGED <<registers, call, line, sent>>
TXFinished ==
    /\ shifting # <<>>
    /\ line' = line \o shifting /\ shifting' = <<>>
    /\ UNCHANGED <<fifo, registers, call, sent>>
------------------------------------------------------------------------------------
(* uart_sendchar and uart_send: wait for bit 5, then write, uart_send up to          *)
(* UART_FIFO_DEPTH characters.                                                       *)
uart_sendchar(c) ==
    /\ uart_pc = "idle" /\ uart_pc' = "poll"
    /\ str' = <<c>>
    /\ UNCHANGED <<fifo, shifting, registers, batch, line, sent>>
uart_send(s) ==
    /\ uart_pc = "idle" /\ uart_pc' = IF s = <<>> THEN "idle" ELSE "poll"
    /\ str' = s
    /\ UNCHANGED <<fifo, shifting, registers, batch, line, sent>>

Poll ==
    /\ uart_pc = "poll" /\ LSR_THRE
    /\ uart_pc' = "load" /\ batch' = UART_FIFO_DEPTH
    /\ UNCHANGED <<fifo, shifting, registers, str, line, sent>>

Load ==
    /\ uart_pc = "load"
    /\ sent' = Append(sent, Head(str)) /\ fifo' = Written(Head(str))
    /\ str' = Tail(str) /\ batch' = batch - 1
    /\ uart_pc' = IF str' = <<>> THEN "idle" ELSE IF batch' > 0 THEN "load" ELSE "poll"
    /\ UNCHANGED <<shifting, registers, line>>

(* uart_wait_tx_done.                                                                *)
uart_wait_tx_done ==
    /\ uart_pc = "idle" /\ uart_pc' = "wait"
    /\ UNCHANGED <<fifo, shifting, registers, str, batch, line, sent>>
TxDone ==
    /\ uart_pc = "wait" /\ LSR_TEMT
    /\ uart_pc' = "idle"
    /\ UNCHANGED <<fifo, shifting, registers, str, batch, line, sent>>
------------------------------------------------------------------------------------
(* uart_set_cfg writes, one after the other, LCR (with DLAB), DLM, DLL, FCR, LCR and *)
(* IER.  DLL is address 0, and apb_uart lets FCR change the depth of the FIFO only   *)
(* while DLAB is set; the values of the divisor and of IER are left out.             *)
uart_set_cfg ==
    /\ uart_pc = "idle" /\ uart_pc' = "LCR_DLAB"
    /\ UNCHANGED <<fifo, shifting, registers, str, batch, line, sent>>

CfgOrder == [LCR_DLAB |-> "DLM", DLM |-> "DLL", DLL |-> "FCR", FCR |-> "LCR",
             LCR |-> "IER", IER |-> "idle"]
WriteCfg(clk_counter) ==
    /\ uart_pc \in DOMAIN CfgOrder /\ uart_pc' = CfgOrder[uart_pc]
    /\ UNCHANGED Uart
    /\ dlab' = IF uart_pc \in {"LCR_DLAB", "LCR"} THEN uart_pc = "LCR_DLAB" ELSE dlab
    /\ fifoEnable' = (fifoEnable \/ uart_pc = "FCR")
    /\ fifo64' = (fifo64 \/ (uart_pc = "FCR" /\ dlab))
    /\ fifo' = CASE uart_pc = "FCR" -> <<>>
                 [] uart_pc = "DLL" -> Written(clk_counter % 256)
                 [] OTHER -> fifo
    /\ UNCHANGED <<shifting, str, batch, line, sent>>

Transmit == TXStart \/ TXFinished
UartCall(clk_counter) == Poll \/ Load \/ TxDone \/ WriteCfg(clk_counter)
====================================================================================
