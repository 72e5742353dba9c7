------------------------------- MODULE QPrintfProofs -------------------------------
(* What printf writes reaches the line, and is what its arguments say: for both UARTs,*)
(* configured or not, for every depth of their FIFOs, and for all calls whose         *)
(* arguments fit their formats.  UartIInv carries the first, with the registers of    *)
(* the UART; PrintIInv the second, from the flags of a conversion to its last         *)
(* character.                                                                         *)
EXTENDS QPrintf, SequenceTheorems, FiniteSetTheorems, WellFoundedInduction, TLAPS

(* The characters on their way, whatever their values are, and their history.         *)
Characters(S) ==
    /\ fifo \in Seq(S) /\ shifting \in Seq(S) /\ line \in Seq(S)
    /\ sent \in Seq(S) /\ str \in Seq(S)

Configuring == uart_pc \in DOMAIN CfgOrder

(* The call in progress: one character that is not sent yet, while there is room for  *)
(* it once the test has passed; the configuration, before anything was sent; or the   *)
(* wait of a program that is about to exit.                                           *)
InCall ==
    /\ uart_pc \in {"idle", "poll", "load", "wait"} \cup DOMAIN CfgOrder
    /\ uart_pc \in {"poll", "load"} => Len(str) = 1
    /\ uart_pc \notin {"poll", "load"} => str = <<>>
    /\ dlab <=> uart_pc \in {"DLM", "DLL", "FCR", "LCR"}
    /\ uart_pc = "load" => TXFIFOWrite
    /\ pc = "boot" \/ Configuring => sent = <<>> /\ pc # "exit"
    /\ pc = "boot" => uart_pc = "idle"
    /\ pc = "exit" <=> uart_pc = "wait" \/ Exited

UartIInv ==
    /\ \E S : Characters(S)
    /\ Uart \in {"apb_uart", "apb_uart_sv"}
    /\ InCall /\ NothingLost
    /\ count = Len(sent) + Len(str)
    /\ Exited => fifo = <<>> /\ shifting = <<>>

LEMMA RoomIsSeen == UartIInv /\ LSR_THRE => TXFIFOWrite
<1> SUFFICES ASSUME UartIInv, LSR_THRE PROVE TXFIFOWrite OBVIOUS
<1>1. CASE Uart = "apb_uart" BY <1>1 DEF LSR_THRE
<1>2. CASE Uart = "apb_uart_sv"
    <2>1. fifo = <<>> /\ Len(<<>>) = 0 BY <1>2 DEF LSR_THRE
    <2>2. Depth \in Nat \ {0} BY UartAssumption DEF Depth
    <2> QED BY <1>2, <2>1, <2>2 DEF TXFIFOWrite
<1> QED BY <1>1, <1>2 DEF UartIInv

(* Sequences that are queued one behind the other.                                    *)
LEMMA Queued ==
    ASSUME NEW S, NEW a \in Seq(S), NEW b \in Seq(S), NEW c \in Seq(S), NEW x \in S
    PROVE  /\ a \o b \o Append(c, x) = Append(a \o b \o c, x)
           /\ (a \o b) \o <<>> \o c = a \o b \o c
           /\ c # <<>> => a \o <<Head(c)>> \o Tail(c) = a \o <<>> \o c
           /\ a \o <<>> \o <<>> = a
           /\ a \o b \o c = <<>> => a = <<>> /\ b = <<>> /\ c = <<>>
<1>1. a \o b \o Append(c, x) = Append(a \o b \o c, x) OBVIOUS
<1>2. (a \o b) \o <<>> \o c = a \o b \o c OBVIOUS
<1>3. c # <<>> => a \o <<Head(c)>> \o Tail(c) = a \o <<>> \o c OBVIOUS
<1>4. a \o <<>> \o <<>> = a OBVIOUS
<1>5. a \o b \o c = <<>> => a = <<>> /\ b = <<>> /\ c = <<>>
    <2>1. a \o b \o c \in Seq(S) /\ Len(a \o b \o c) = Len(a) + Len(b) + Len(c)
        OBVIOUS
    <2>2. Len(<<>>) = 0 /\ Len(a) \in Nat /\ Len(b) \in Nat /\ Len(c) \in Nat OBVIOUS
    <2>3. a \o b \o c = <<>> => Len(a) = 0 /\ Len(b) = 0 /\ Len(c) = 0 BY <2>1, <2>2
    <2> QED BY <2>3
<1> QED BY <1>1, <1>2, <1>3, <1>4, <1>5

LEMMA OneCharacter ==
    ASSUME NEW S, NEW q \in Seq(S), Len(q) = 1
    PROVE  Head(q) \in S /\ Tail(q) = <<>>
<1>1. q # <<>> OBVIOUS
<1>2. Head(q) \in S BY <1>1
<1>3. Tail(q) \in Seq(S) /\ Len(Tail(q)) = 0 BY <1>1
<1>4. \A t \in Seq(S) : Len(t) = 0 => t = <<>> OBVIOUS
<1>5. Tail(q) = <<>> BY <1>3, <1>4
<1> QED BY <1>2, <1>5
-----------------------------------------------------------------------------------
(* A step of the program that leaves the UART alone.                                  *)
LEMMA ComputingKeeps ==
    ASSUME UartIInv, UNCHANGED <<uartVars, count>>, pc # "exit",
           pc' \notin {"boot", "exit"}
    PROVE  UartIInv'
<1>1. UNCHANGED <<fifo, shifting, line, sent, str, Uart, dlab, fifoEnable, fifo64, uart_pc>>
    BY DEF uartVars, registers, call
<1>2. (\E S : Characters(S))' BY <1>1 DEF UartIInv, Characters
<1>3. TXFIFOWrite' = TXFIFOWrite BY <1>1 DEF TXFIFOWrite, Depth
<1>4. InCall' BY <1>1, <1>3 DEF UartIInv, InCall, Configuring, Exited
<1>5. NothingLost' BY <1>1 DEF UartIInv, NothingLost
<1> QED BY <1>1, <1>2, <1>4, <1>5 DEF UartIInv, Exited

LEMMA BootKeeps == ASSUME UartIInv, Boot PROVE UartIInv'
<1>1. pc = "boot" /\ pc' \in {"qprint", "print"} /\ UNCHANGED count BY DEF Boot
<1>2. CASE UNCHANGED uartVars BY <1>1, <1>2, ComputingKeeps
<1>3. CASE uart_set_cfg
    <2>1. uart_pc = "idle" /\ uart_pc' = "LCR_DLAB"
          /\ UNCHANGED <<fifo, shifting, line, sent, str, Uart, dlab, fifoEnable, fifo64>>
        BY <1>3 DEF uart_set_cfg, registers
    <2>2. (\E S : Characters(S))' BY <2>1 DEF UartIInv, Characters
    <2>3. InCall' BY <1>1, <2>1 DEF UartIInv, InCall, Configuring, Exited, CfgOrder
    <2>4. NothingLost' BY <2>1 DEF UartIInv, NothingLost
    <2> QED BY <1>1, <2>1, <2>2, <2>3, <2>4 DEF UartIInv, Exited
<1> QED BY <1>2, <1>3 DEF Boot

LEMMA PutcharKeeps == ASSUME UartIInv, putchar PROVE UartIInv'
<1> DEFINE c == Head(todo)
<1>1. /\ pc = "print" /\ pc' = pc /\ count' = count + 1
      /\ uart_pc = "idle" /\ uart_pc' = "poll" /\ str' = <<c>>
      /\ UNCHANGED <<fifo, shifting, line, sent, Uart, dlab, fifoEnable, fifo64>>
    BY DEF putchar, uart_sendchar, registers
<1> HIDE DEF c
<1>2. PICK S : Characters(S) BY DEF UartIInv
<1>3. PICK T : T = S \cup {c} OBVIOUS
<1>4. Characters(T)'
    <2>1. Seq(S) \subseteq Seq(S \cup {c}) OBVIOUS
    <2>2. <<c>> \in Seq(S \cup {c}) OBVIOUS
    <2>3. str' \in Seq(S \cup {c}) BY <1>1, <2>2
    <2>4. fifo \in Seq(S) /\ shifting \in Seq(S) /\ line \in Seq(S) /\ sent \in Seq(S)
        BY <1>2 DEF Characters
    <2>5. fifo' \in Seq(S \cup {c}) /\ shifting' \in Seq(S \cup {c}) BY <1>1, <2>1, <2>4
    <2>6. line' \in Seq(S \cup {c}) /\ sent' \in Seq(S \cup {c}) BY <1>1, <2>1, <2>4
    <2> QED BY <1>3, <2>3, <2>5, <2>6 DEF Characters
<1>5. str = <<>> /\ Len(str) = 0 /\ Len(str') = 1 /\ Len(sent) \in Nat
    BY <1>1, <1>2 DEF UartIInv, InCall, Characters
<1>6. InCall' BY <1>1, <1>5 DEF UartIInv, InCall, Configuring, Exited, CfgOrder
<1>7. NothingLost' BY <1>1 DEF UartIInv, NothingLost
<1>8. count' = Len(sent') + Len(str') BY <1>1, <1>5 DEF UartIInv
<1>9. (\E R : Characters(R))' BY <1>4
<1> QED BY <1>1, <1>6, <1>7, <1>8, <1>9 DEF UartIInv, Exited

LEMMA MainReturnsKeeps == ASSUME UartIInv, MainReturns PROVE UartIInv'
<1>1. /\ pc = "qprint" /\ pc' = "exit" /\ uart_pc = "idle" /\ uart_pc' = "wait"
      /\ UNCHANGED <<fifo, shifting, line, sent, str, Uart, dlab, fifoEnable, fifo64, count>>
    BY DEF MainReturns, uart_wait_tx_done, registers
<1>2. (\E S : Characters(S))' BY <1>1 DEF UartIInv, Characters
<1>3. InCall' BY <1>1 DEF UartIInv, InCall, Configuring, Exited, CfgOrder
<1>4. NothingLost' BY <1>1 DEF UartIInv, NothingLost
<1> QED BY <1>1, <1>2, <1>3, <1>4 DEF UartIInv, Exited
-----------------------------------------------------------------------------------
(* The accesses of the calls to the UART.                                             *)
LEMMA PollKeeps == ASSUME UartIInv, Poll, UNCHANGED printVars PROVE UartIInv'
<1>1. /\ uart_pc = "poll" /\ uart_pc' = "load" /\ LSR_THRE
      /\ UNCHANGED <<fifo, shifting, line, sent, str, Uart, dlab, fifoEnable, fifo64, count, pc>>
    BY DEF Poll, registers, printVars
<1>2. (\E S : Characters(S))' BY <1>1 DEF UartIInv, Characters
<1>3. TXFIFOWrite' BY <1>1, RoomIsSeen DEF TXFIFOWrite, Depth
<1>4. InCall' BY <1>1, <1>3 DEF UartIInv, InCall, Configuring, Exited, CfgOrder
<1>5. NothingLost' BY <1>1 DEF UartIInv, NothingLost
<1> QED BY <1>1, <1>2, <1>4, <1>5 DEF UartIInv, Exited

LEMMA LoadKeeps == ASSUME UartIInv, Load, UNCHANGED printVars PROVE UartIInv'
<1> DEFINE c == Head(str)
<1>1. /\ uart_pc = "load"
      /\ sent' = Append(sent, c) /\ fifo' = Written(c) /\ str' = Tail(str)
      /\ uart_pc' = IF str' = <<>> THEN "idle" ELSE IF batch' > 0 THEN "load" ELSE "poll"
      /\ UNCHANGED <<shifting, line, Uart, dlab, fifoEnable, fifo64, count, pc>>
    BY DEF Load, registers, printVars
<1>2. PICK S : Characters(S) BY DEF UartIInv
<1>3. fifo \in Seq(S) /\ shifting \in Seq(S) /\ line \in Seq(S) /\ sent \in Seq(S)
      /\ str \in Seq(S)
    BY <1>2 DEF Characters
<1>4. Len(str) = 1 /\ TXFIFOWrite /\ ~ dlab BY <1>1 DEF UartIInv, InCall
<1>5. c \in S /\ str' = <<>> /\ Len(str') = 0
    <2>1. str \in Seq(S) /\ Len(str) = 1 BY <1>3, <1>4
    <2>2. Head(str) \in S /\ Tail(str) = <<>> BY <2>1, OneCharacter
    <2>3. Len(<<>>) = 0 OBVIOUS
    <2> QED BY <1>1, <2>2, <2>3
<1> HIDE DEF c
<1>6. fifo' = Append(fifo, c) /\ uart_pc' = "idle" BY <1>1, <1>4, <1>5 DEF Written
<1>7. Characters(S)'
    <2>1. Append(fifo, c) \in Seq(S) /\ Append(sent, c) \in Seq(S) /\ <<>> \in Seq(S)
        BY <1>3, <1>5
    <2> QED BY <1>1, <1>3, <1>5, <1>6, <2>1 DEF Characters
<1>8. NothingLost'
    <2>1. line \o shifting \o Append(fifo, c) = Append(line \o shifting \o fifo, c)
        BY <1>3, <1>5, Queued
    <2> QED BY <1>1, <1>6, <2>1 DEF UartIInv, NothingLost
<1>9. count' = Len(sent') + Len(str')
    <2>1. Len(Append(sent, c)) = Len(sent) + 1 /\ Len(sent) \in Nat BY <1>3
    <2>2. count = Len(sent) + 1 BY <1>4 DEF UartIInv
    <2>3. Len(sent') = Len(sent) + 1 BY <1>1, <2>1
    <2>4. Len(sent') \in Nat /\ count' = Len(sent') BY <1>1, <2>1, <2>2, <2>3
    <2>5. Len(str') = 0 BY <1>5
    <2> QED BY <2>4, <2>5
<1>10. pc \notin {"boot", "exit"}
    BY <1>1 DEF UartIInv, InCall, Exited
<1>11. InCall' BY <1>1, <1>4, <1>5, <1>6, <1>10 DEF InCall, Configuring, Exited, CfgOrder
<1>12. (\E T : Characters(T))' BY <1>7
<1> QED BY <1>1, <1>8, <1>9, <1>10, <1>11, <1>12 DEF UartIInv, Exited

LEMMA TxDoneKeeps == ASSUME UartIInv, TxDone, UNCHANGED printVars PROVE UartIInv'
<1>1. /\ uart_pc = "wait" /\ uart_pc' = "idle" /\ fifo = <<>> /\ shifting = <<>>
      /\ UNCHANGED <<fifo, shifting, line, sent, str, Uart, dlab, fifoEnable, fifo64, count, pc>>
    BY DEF TxDone, LSR_TEMT, registers, printVars
<1>2. (\E S : Characters(S))' BY <1>1 DEF UartIInv, Characters
<1>3. InCall' BY <1>1 DEF UartIInv, InCall, Configuring, Exited, CfgOrder
<1>4. NothingLost' BY <1>1 DEF UartIInv, NothingLost
<1> QED BY <1>1, <1>2, <1>3, <1>4 DEF UartIInv

LEMMA WriteCfgKeeps ==
    ASSUME UartIInv, WriteCfg(clk_counter), UNCHANGED printVars PROVE UartIInv'
<1>1. /\ Configuring /\ uart_pc' = CfgOrder[uart_pc]
      /\ dlab' = IF uart_pc \in {"LCR_DLAB", "LCR"} THEN uart_pc = "LCR_DLAB" ELSE dlab
      /\ fifo' = CASE uart_pc = "FCR" -> <<>>
                   [] uart_pc = "DLL" -> Written(clk_counter % 256)
                   [] OTHER -> fifo
      /\ UNCHANGED <<shifting, line, sent, str, Uart, count, pc>>
    BY DEF WriteCfg, Configuring, printVars
<1>2. sent = <<>> /\ pc \notin {"boot", "exit"} /\ str = <<>>
    BY <1>1 DEF UartIInv, InCall, Configuring, CfgOrder
<1>3. fifo = <<>>
    <2>1. PICK S : Characters(S) BY DEF UartIInv
    <2>2. fifo \in Seq(S) /\ shifting \in Seq(S) /\ line \in Seq(S) BY <2>1 DEF Characters
    <2>3. line \o shifting \o fifo = <<>> BY <1>2 DEF UartIInv, NothingLost
    <2>4. Len(line \o shifting \o fifo) = Len(line) + Len(shifting) + Len(fifo)
          /\ Len(<<>>) = 0 /\ Len(line) \in Nat /\ Len(shifting) \in Nat /\ Len(fifo) \in Nat
        BY <2>2
    <2> QED BY <2>2, <2>3, <2>4
<1>4. fifo' = fifo
    <2>1. CASE uart_pc = "FCR" BY <1>1, <1>3, <2>1
    <2>2. CASE uart_pc = "DLL"
        <3>1. dlab BY <2>2 DEF UartIInv, InCall
        <3> QED BY <1>1, <2>2, <3>1 DEF Written
    <2>3. CASE uart_pc \notin {"FCR", "DLL"} BY <1>1, <2>3
    <2> QED BY <2>1, <2>2, <2>3
<1>5. uart_pc' \in {"DLM", "DLL", "FCR", "LCR", "IER", "idle"}
      /\ (dlab' <=> uart_pc' \in {"DLM", "DLL", "FCR", "LCR"})
    <2>1. dlab <=> uart_pc \in {"DLM", "DLL", "FCR", "LCR"} BY DEF UartIInv, InCall
    <2>2. uart_pc \in {"LCR_DLAB", "DLM", "DLL", "FCR", "LCR", "IER"}
        BY <1>1 DEF Configuring, CfgOrder
    <2>3. CASE uart_pc = "LCR_DLAB" BY <1>1, <2>1, <2>3 DEF CfgOrder
    <2>4. CASE uart_pc = "DLM" BY <1>1, <2>1, <2>4 DEF CfgOrder
    <2>5. CASE uart_pc = "DLL" BY <1>1, <2>1, <2>5 DEF CfgOrder
    <2>6. CASE uart_pc = "FCR" BY <1>1, <2>1, <2>6 DEF CfgOrder
    <2>7. CASE uart_pc = "LCR" BY <1>1, <2>1, <2>7 DEF CfgOrder
    <2>8. CASE uart_pc = "IER" BY <1>1, <2>1, <2>8 DEF CfgOrder
    <2> QED BY <2>2, <2>3, <2>4, <2>5, <2>6, <2>7, <2>8
<1>6. InCall' BY <1>1, <1>2, <1>5 DEF InCall, Configuring, Exited, CfgOrder
<1>7. (\E S : Characters(S))' BY <1>1, <1>4 DEF UartIInv, Characters
<1>8. NothingLost' BY <1>1, <1>4 DEF UartIInv, NothingLost
<1> QED BY <1>1, <1>2, <1>6, <1>7, <1>8 DEF UartIInv, Exited

LEMMA TransmitKeeps == ASSUME UartIInv, Transmit, UNCHANGED printVars PROVE UartIInv'
<1> USE DEF UartIInv
<1>1. UNCHANGED <<sent, str, Uart, dlab, fifoEnable, fifo64, uart_pc, count, pc>>
    BY DEF Transmit, TXStart, TXFinished, registers, call, printVars
<1>2. PICK S : Characters(S) OBVIOUS
<1>3. fifo \in Seq(S) /\ shifting \in Seq(S) /\ line \in Seq(S) /\ sent \in Seq(S)
      /\ str \in Seq(S)
    BY <1>2 DEF Characters
<1>4. CASE TXStart
    <2>1. shifting = <<>> /\ fifo # <<>> /\ shifting' = <<Head(fifo)>> /\ fifo' = Tail(fifo)
          /\ line' = line
        BY <1>4 DEF TXStart
    <2>2. Head(fifo) \in S /\ Tail(fifo) \in Seq(S) /\ <<Head(fifo)>> \in Seq(S)
          /\ Len(Tail(fifo)) = Len(fifo) - 1 /\ Len(fifo) \in Nat
        BY <1>3, <2>1
    <2>3. Characters(S)' BY <1>1, <1>3, <2>1, <2>2 DEF Characters
    <2>4. NothingLost'
        <3>1. line \o <<Head(fifo)>> \o Tail(fifo) = line \o <<>> \o fifo
            BY <1>3, <2>1, <2>2, Queued
        <3> QED BY <1>1, <2>1, <3>1 DEF NothingLost
    <2>5. TXFIFOWrite => TXFIFOWrite'
        <3>1. Depth' = Depth /\ Depth \in Nat BY <1>1, UartAssumption DEF Depth
        <3> QED BY <1>1, <2>1, <2>2, <3>1 DEF TXFIFOWrite
    <2>6. InCall' BY <1>1, <2>5 DEF InCall, Configuring, Exited
    <2>7. (\E T : Characters(T))' BY <2>3
    <2> QED BY <1>1, <2>1, <2>4, <2>6, <2>7 DEF Exited
<1>5. CASE TXFinished
    <2>1. shifting # <<>> /\ line' = line \o shifting /\ shifting' = <<>> /\ fifo' = fifo
        BY <1>5 DEF TXFinished
    <2>2. line \o shifting \in Seq(S) /\ <<>> \in Seq(S) BY <1>3
    <2>3. Characters(S)' BY <1>1, <1>3, <2>1, <2>2 DEF Characters
    <2>4. NothingLost'
        <3>1. (line \o shifting) \o <<>> \o fifo = line \o shifting \o fifo
            BY <1>3, <2>2
        <3> QED BY <1>1, <2>1, <3>1 DEF NothingLost
    <2>5. TXFIFOWrite' = TXFIFOWrite BY <1>1, <2>1 DEF TXFIFOWrite, Depth
    <2>6. InCall' BY <1>1, <2>5 DEF InCall, Configuring, Exited
    <2>7. (\E T : Characters(T))' BY <2>3
    <2> QED BY <1>1, <2>1, <2>4, <2>6, <2>7 DEF Exited
<1> QED BY <1>4, <1>5 DEF Transmit
-----------------------------------------------------------------------------------
LEMMA InitUartIInv == PrintInit => UartIInv
<1> SUFFICES ASSUME PrintInit PROVE UartIInv OBVIOUS
<1>1. /\ fifo = <<>> /\ shifting = <<>> /\ Uart \in {"apb_uart", "apb_uart_sv"}
      /\ dlab = FALSE /\ uart_pc = "idle" /\ str = <<>> /\ line = <<>> /\ sent = <<>>
      /\ pc = "boot" /\ count = 0
    BY DEF PrintInit, UartInit
<1>2. <<>> \in Seq({}) /\ <<>> \o <<>> \o <<>> = <<>> /\ Len(<<>>) = 0 OBVIOUS
<1>3. \E S : Characters(S) BY <1>1, <1>2 DEF Characters
<1>4. InCall BY <1>1 DEF InCall, Configuring, Exited, CfgOrder
<1> QED BY <1>1, <1>2, <1>3, <1>4 DEF UartIInv, NothingLost, Exited

LEMMA NextKeepsUartIInv == UartIInv /\ [PrintNext]_vars => UartIInv'
<1> SUFFICES ASSUME UartIInv, [PrintNext]_vars PROVE UartIInv' OBVIOUS
<1>1. CASE UNCHANGED vars
    <2>1. UNCHANGED <<fifo, shifting, line, sent, str, Uart, dlab, fifoEnable, fifo64,
                      uart_pc, count, pc>>
        BY <1>1 DEF vars, uartVars, printVars, registers, call
    <2>2. (\E S : Characters(S))' BY <2>1 DEF UartIInv, Characters
    <2>3. TXFIFOWrite' = TXFIFOWrite BY <2>1 DEF TXFIFOWrite, Depth
    <2>4. InCall' BY <2>1, <2>3 DEF UartIInv, InCall, Configuring, Exited
    <2>5. NothingLost' BY <2>1 DEF UartIInv, NothingLost
    <2> QED BY <2>1, <2>2, <2>4, <2>5 DEF UartIInv, Exited
<1>2. ASSUME Boot PROVE UartIInv' BY <1>2, BootKeeps
<1>3. ASSUME Character \/ Conversion \/ String \/ Absolute \/ Digit \/ Number \/ Converted
      PROVE  UartIInv'
    <2>1. UNCHANGED <<uartVars, count>> /\ pc # "exit" /\ pc' \notin {"boot", "exit"}
        <3>1. CASE Character BY <3>1 DEF Character
        <3>2. CASE Conversion BY <3>2 DEF Conversion
        <3>3. CASE String BY <3>3 DEF String
        <3>4. CASE Absolute BY <3>4 DEF Absolute
        <3>5. CASE Digit BY <3>5 DEF Digit
        <3>6. CASE Number BY <3>6 DEF Number
        <3>7. CASE Converted BY <3>7 DEF Converted, Printed
        <3> QED BY <1>3, <3>1, <3>2, <3>3, <3>4, <3>5, <3>6, <3>7
    <2> QED BY <2>1, ComputingKeeps
<1>4. ASSUME putchar PROVE UartIInv' BY <1>4, PutcharKeeps
<1>5. ASSUME MainReturns PROVE UartIInv' BY <1>5, MainReturnsKeeps
<1>6. ASSUME UartCall(clk_counter), UNCHANGED printVars PROVE UartIInv'
    BY <1>6, PollKeeps, LoadKeeps, TxDoneKeeps, WriteCfgKeeps DEF UartCall
<1>7. ASSUME Transmit, UNCHANGED printVars PROVE UartIInv' BY <1>7, TransmitKeeps
<1> QED BY <1>1, <1>2, <1>3, <1>4, <1>5, <1>6, <1>7 DEF PrintNext, Program

(* The invariant, for any program that prints: printf, puts and putchar on top of     *)

(* uart_sendchar, uart_set_cfg and uart_wait_tx_done.                                 *)
THEOREM UartIsConsistent == PrintSpec => []UartIInv
<1>1. PrintInit => UartIInv BY InitUartIInv
<1>2. UartIInv /\ [PrintNext]_vars => UartIInv' BY NextKeepsUartIInv
<1> QED BY <1>1, <1>2, PTL DEF PrintSpec

(* No character that printf or puts writes is lost on the way to the line, with       *)

(* either UART, in every mode and for every depth of its FIFO: the test of the line   *)
(* status before each character is enough.                                            *)
THEOREM NoCharacterLost == PrintSpec => []NothingLost
<1>1. UartIInv => NothingLost BY DEF UartIInv
<1> QED BY <1>1, UartIsConsistent, PTL

(* When crt0 returns from uart_wait_tx_done, the last character has left the shift    *)

(* register, and printf has counted every one.                                        *)
THEOREM WaitIsForTheLine == PrintSpec => []TxDoneMeansSent
<1>1. UartIInv => TxDoneMeansSent
    <2> SUFFICES ASSUME UartIInv, Exited
                 PROVE  line = sent /\ shifting = <<>> /\ count = Len(sent)
        BY DEF TxDoneMeansSent
    <2>1. fifo = <<>> /\ shifting = <<>> /\ str = <<>> BY DEF UartIInv, InCall, Exited
    <2>2. PICK S : Characters(S) BY DEF UartIInv
    <2>3. line \in Seq(S) /\ sent \in Seq(S) BY <2>2 DEF Characters
    <2>4. line \o <<>> \o <<>> = line /\ Len(<<>>) = 0 BY <2>3
    <2> QED BY <2>1, <2>3, <2>4 DEF UartIInv, NothingLost
<1> QED BY <1>1, UartIsConsistent, PTL
------------------------------------------------------------------------------------
(* The arithmetic of qprinti: the number that a word stands for, a half of a word, a  *)
(* sum of halves split again, and the quotient by a power of two.                     *)
Val(a) == a[1] * Half + a[2]
Modulus == 4294967296
IsHalf(n) == n \in Nat /\ n < Half
Splits(n, d, m) == d \in Nat /\ m \in Nat /\ IsHalf(m) /\ n = Half * d + m
Quotient(v, p, n) == n - p < p * v /\ p * v <= n

LEMMA HalfIs == Half = 65536 BY SMT DEF Half

LEMMA HalfRange == \A n : n \in 0 .. Half - 1 <=> IsHalf(n)
<1>1. Half \in Nat BY SMT, HalfIs
<1> QED BY SMT, <1>1 DEF IsHalf

LEMMA WordIs ==
    ASSUME NEW a \in Words
    PROVE  a = <<a[1], a[2]>> /\ IsHalf(a[1]) /\ IsHalf(a[2])
<1> DEFINE S == 0 .. Half - 1
<1>1. a \in S \X S BY DEF Words
<1> HIDE DEF S
<1>2. a = <<a[1], a[2]>> /\ a[1] \in S /\ a[2] \in S BY <1>1
<1> QED BY Zenon, <1>2, HalfRange DEF S

LEMMA HalvesWord ==
    ASSUME NEW hi, NEW lo, IsHalf(hi), IsHalf(lo)
    PROVE  <<hi, lo>> \in Words /\ Val(<<hi, lo>>) = hi * Half + lo
<1> DEFINE S == 0 .. Half - 1
<1>1. hi \in S /\ lo \in S BY Zenon, HalfRange
<1> HIDE DEF S
<1>2. <<hi, lo>> \in S \X S BY <1>1
<1>3. <<hi, lo>> \in Words BY Zenon, <1>2 DEF S, Words
<1>4. <<hi, lo>>[1] = hi /\ <<hi, lo>>[2] = lo BY SMT
<1> QED BY <1>3, <1>4, SMT DEF Val

LEMMA ValueIs ==
    ASSUME NEW a \in Words
    PROVE  Val(a) \in Nat /\ Val(a) < Modulus
BY SMT, WordIs, HalfIs DEF IsHalf, Val, Modulus

LEMMA SameValue ==
    ASSUME NEW a \in Words, NEW b \in Words, Val(a) = Val(b)
    PROVE  a = b
<1>1. a[1] = b[1] /\ a[2] = b[2] BY SMT, WordIs, HalfIs DEF Val, IsHalf
<1> QED BY SMT, <1>1, WordIs

LEMMA DivHalf == \A n \in Nat : Splits(n, n \div Half, n % Half)
BY SMT, HalfIs DEF Splits, IsHalf

LEMMA SplitsIs == \A n, d, m : Splits(n, d, m) => n = 65536 * d + m /\ m < 65536
BY SMT, HalfIs DEF Splits, IsHalf

LEMMA HalfNumber == \A n : IsHalf(n) <=> n \in Nat /\ n < 65536
BY SMT, HalfIs DEF IsHalf

LEMMA ValueOf == \A a : Val(a) = a[1] * 65536 + a[2]
BY SMT, HalfIs DEF Val

(* The operations, as numbers modulo 2^32.                                            *)
LEMMA PlusIs ==
    ASSUME NEW a \in Words, NEW b \in Words
    PROVE  /\ Plus[a][b] \in Words
           /\ \/ Val(Plus[a][b]) = Val(a) + Val(b)
              \/ Val(Plus[a][b]) = Val(a) + Val(b) - Modulus
<1>1. Plus[a][b] = <<(a[1] + b[1] + ((a[2] + b[2]) \div Half)) % Half, (a[2] + b[2]) % Half>>
    BY Zenon DEF Plus
<1>2. PICK x1 \in Nat, x2 \in Nat, y1 \in Nat, y2 \in Nat :
        /\ a[1] = x1 /\ a[2] = x2 /\ b[1] = y1 /\ b[2] = y2
        /\ IsHalf(x1) /\ IsHalf(x2) /\ IsHalf(y1) /\ IsHalf(y2)
    BY Zenon, WordIs DEF IsHalf
<1>3. PICK c \in Nat, l \in Nat :
        (x2 + y2) \div Half = c /\ (x2 + y2) % Half = l /\ Splits(x2 + y2, c, l)
    <2>1. x2 + y2 \in Nat BY SMT
    <2> QED BY Zenon, <2>1, DivHalf DEF Splits
<1>4. PICK d \in Nat, h \in Nat : (x1 + y1 + c) % Half = h /\ Splits(x1 + y1 + c, d, h)
    <2>1. x1 + y1 + c \in Nat BY SMT
    <2> QED BY Zenon, <2>1, DivHalf DEF Splits
<1>5. Plus[a][b] = <<h, l>> BY Zenon, <1>1, <1>2, <1>3, <1>4
<1>6. Plus[a][b] \in Words /\ Val(Plus[a][b]) = h * Half + l
    BY Zenon, <1>3, <1>4, <1>5, HalvesWord DEF Splits
<1>7. h * 65536 + l = x1 * 65536 + x2 + y1 * 65536 + y2 - d * 4294967296 /\ d \in {0, 1}
    BY SMT, <1>2, <1>3, <1>4, HalfNumber, SplitsIs
<1>8. Val(a) = x1 * 65536 + x2 /\ Val(b) = y1 * 65536 + y2 /\ Val(Plus[a][b]) = h * 65536 + l
    BY SMT, <1>2, <1>6, HalfIs, ValueOf
<1> QED BY SMT, <1>6, <1>7, <1>8 DEF Modulus

LEMMA WordOf ==
    ASSUME NEW n \in Nat, IsHalf(n)
    PROVE  Word(n) \in Words /\ Val(Word(n)) = n
<1>1. Word(n) = <<n \div Half, n % Half>> BY Zenon DEF Word
<1>2. n \div Half = 0 /\ n % Half = n BY SMT, HalfIs, HalfNumber
<1>3. IsHalf(0) /\ IsHalf(n) BY SMT, HalfNumber
<1>4. Word(n) \in Words /\ Val(Word(n)) = 0 * Half + n BY Zenon, <1>1, <1>2, <1>3, HalvesWord
<1> QED BY SMT, <1>4, HalfIs

LEMMA NegatedIs ==
    ASSUME NEW a \in Words
    PROVE  /\ Negated[a] \in Words
           /\ Val(Negated[a]) = IF Val(a) = 0 THEN 0 ELSE Modulus - Val(a)
<1>1. Negated[a] = Plus[<<Half - 1 - a[1], Half - 1 - a[2]>>][Word(1)] BY Zenon DEF Negated
<1>2. PICK x1 \in Nat, x2 \in Nat : a[1] = x1 /\ a[2] = x2 /\ IsHalf(x1) /\ IsHalf(x2)
    BY Zenon, WordIs DEF IsHalf
<1>3. PICK y1 \in Nat, y2 \in Nat :
        y1 = Half - 1 - x1 /\ y2 = Half - 1 - x2 /\ IsHalf(y1) /\ IsHalf(y2)
    BY SMT, <1>2, HalfIs, HalfNumber
<1>4. <<y1, y2>> \in Words /\ Val(<<y1, y2>>) = y1 * Half + y2 BY Zenon, <1>3, HalvesWord
<1>5. PICK f \in Words : f = <<y1, y2>> BY Zenon, <1>4
<1>6. Word(1) \in Words /\ Val(Word(1)) = 1 BY SMT, HalfNumber, WordOf
<1>7. Negated[a] = Plus[f][Word(1)] BY Zenon, <1>1, <1>2, <1>3, <1>5
<1>8. Val(f) = Modulus - 1 - Val(a)
    <2>1. Val(f) = y1 * Half + y2 /\ Val(a) = x1 * Half + x2
        BY Zenon, <1>2, <1>4, <1>5 DEF Val
    <2> QED BY SMT, <1>3, <2>1, HalfIs DEF Modulus
<1>9. /\ Negated[a] \in Words
      /\ \/ Val(Negated[a]) = Val(f) + Val(Word(1))
         \/ Val(Negated[a]) = Val(f) + Val(Word(1)) - Modulus
    BY Zenon, <1>6, <1>7, PlusIs
<1> QED BY SMT, <1>6, <1>8, <1>9, ValueIs DEF Modulus

LEMMA MinusIs ==
    ASSUME NEW a \in Words, NEW b \in Words
    PROVE  /\ Minus[a][b] \in Words
           /\ \/ Val(Minus[a][b]) = Val(a) - Val(b)
              \/ Val(Minus[a][b]) = Val(a) - Val(b) + Modulus
<1>1. Minus[a][b] = Plus[a][Negated[b]] BY Zenon DEF Minus
<1>2. Negated[b] \in Words BY Zenon, NegatedIs
<1>3. /\ Minus[a][b] \in Words
      /\ \/ Val(Minus[a][b]) = Val(a) + Val(Negated[b])
         \/ Val(Minus[a][b]) = Val(a) + Val(Negated[b]) - Modulus
    BY Zenon, <1>1, <1>2, PlusIs
<1> QED BY SMT, <1>3, NegatedIs, ValueIs DEF Modulus

LEMMA TimesIs ==
    ASSUME NEW k \in 0 .. 255, NEW a \in Words
    PROVE  /\ Times[k][a] \in Words
           /\ \E d \in Nat : Val(Times[k][a]) = k * Val(a) - d * Modulus
<1>1. Times[k][a] = <<((k * a[1]) + ((k * a[2]) \div Half)) % Half, (k * a[2]) % Half>>
    BY Zenon DEF Times
<1>2. PICK x1 \in Nat, x2 \in Nat : a[1] = x1 /\ a[2] = x2 /\ IsHalf(x1) /\ IsHalf(x2)
    BY Zenon, WordIs DEF IsHalf
<1>3. PICK p1 \in Nat, p2 \in Nat : p1 = k * x1 /\ p2 = k * x2 BY SMT
<1>4. PICK c \in Nat, l \in Nat : p2 \div Half = c /\ p2 % Half = l /\ Splits(p2, c, l)
    BY Zenon, DivHalf DEF Splits
<1>5. PICK d \in Nat, h \in Nat : (p1 + c) % Half = h /\ Splits(p1 + c, d, h)
    <2>1. p1 + c \in Nat BY SMT
    <2> QED BY Zenon, <2>1, DivHalf DEF Splits
<1>6. Times[k][a] = <<h, l>> BY Zenon, <1>1, <1>2, <1>3, <1>4, <1>5
<1>7. Times[k][a] \in Words /\ Val(Times[k][a]) = h * Half + l
    BY Zenon, <1>4, <1>5, <1>6, HalvesWord DEF Splits
<1>8. h * 65536 + l = p1 * 65536 + p2 - d * 4294967296 BY SMT, <1>4, <1>5, SplitsIs
<1>9. k * (x1 * 65536 + x2) = (k * x1) * 65536 + k * x2 BY SMT
<1>10. Val(a) = x1 * 65536 + x2 /\ Val(Times[k][a]) = h * 65536 + l
    BY SMT, <1>2, <1>7, HalfIs, ValueOf
<1>11. k * Val(a) = p1 * 65536 + p2 BY SMT, <1>3, <1>9, <1>10
<1>12. Val(Times[k][a]) = k * Val(a) - d * 4294967296 BY SMT, <1>8, <1>10, <1>11
<1> QED BY SMT, <1>7, <1>12 DEF Modulus

(* Shifting right by k divides by 2^k.                                                *)
LEMMA ShiftRightIs ==
    ASSUME NEW k \in {1, 2, 3, 4, 8, 16}, NEW a \in Words
    PROVE  ShiftRight[k][a] \in Words /\ Quotient(Val(ShiftRight[k][a]), 2 ^ k, Val(a))
<1>1. PICK x1 \in Nat, x2 \in Nat : a[1] = x1 /\ a[2] = x2 /\ IsHalf(x1) /\ IsHalf(x2)
    BY Zenon, WordIs DEF IsHalf
<1>2. Val(a) = x1 * 65536 + x2 /\ x1 < 65536 /\ x2 < 65536
    BY SMT, <1>1, ValueOf, HalfNumber
<1>3. ShiftRight[k][a] = <<x1 \div 2 ^ k, ((x1 % 2 ^ k) * 2 ^ (16 - k)) + (x2 \div 2 ^ k)>>
    <2>1. k \in 0 .. 16 BY SMT
    <2> QED BY Zenon, <1>1, <2>1 DEF ShiftRight
<1>4. CASE k = 1
    <2>1. PICK p \in Nat, q \in Nat : p = 2 ^ k /\ q = 2 ^ (16 - k) BY SMT, <1>4
    <2>2. p = 2 /\ q = 32768 BY SMT, <1>4, <2>1
    <2>3. PICK h \in Nat, n \in Nat, l \in Nat : x1 \div p = h /\ x1 % p = n /\ x2 \div p = l
        BY SMT, <2>2
    <2>4. x1 = 2 * h + n /\ n < 2 /\ 2 * l <= x2 /\ x2 < 2 * l + 2 BY SMT, <2>2, <2>3
    <2>5. PICK m \in Nat : m = n * q + l BY SMT, <2>2
    <2>6. IsHalf(h) /\ IsHalf(m) BY SMT, <1>2, <2>2, <2>4, <2>5, HalfNumber
    <2>7. ShiftRight[k][a] = <<h, m>> BY Zenon, <1>3, <2>1, <2>3, <2>5
    <2>8. ShiftRight[k][a] \in Words /\ Val(ShiftRight[k][a]) = h * Half + m
        BY Zenon, <2>6, <2>7, HalvesWord
    <2> QED BY SMT, <1>2, <2>1, <2>2, <2>4, <2>5, <2>8, HalfIs DEF Quotient
<1>5. CASE k = 2
    <2>1. PICK p \in Nat, q \in Nat : p = 2 ^ k /\ q = 2 ^ (16 - k) BY SMT, <1>5
    <2>2. p = 4 /\ q = 16384 BY SMT, <1>5, <2>1
    <2>3. PICK h \in Nat, n \in Nat, l \in Nat : x1 \div p = h /\ x1 % p = n /\ x2 \div p = l
        BY SMT, <2>2
    <2>4. x1 = 4 * h + n /\ n < 4 /\ 4 * l <= x2 /\ x2 < 4 * l + 4 BY SMT, <2>2, <2>3
    <2>5. PICK m \in Nat : m = n * q + l BY SMT, <2>2
    <2>6. IsHalf(h) /\ IsHalf(m) BY SMT, <1>2, <2>2, <2>4, <2>5, HalfNumber
    <2>7. ShiftRight[k][a] = <<h, m>> BY Zenon, <1>3, <2>1, <2>3, <2>5
    <2>8. ShiftRight[k][a] \in Words /\ Val(ShiftRight[k][a]) = h * Half + m
        BY Zenon, <2>6, <2>7, HalvesWord
    <2> QED BY SMT, <1>2, <2>1, <2>2, <2>4, <2>5, <2>8, HalfIs DEF Quotient
<1>6. CASE k = 3
    <2>1. PICK p \in Nat, q \in Nat : p = 2 ^ k /\ q = 2 ^ (16 - k) BY SMT, <1>6
    <2>2. p = 8 /\ q = 8192 BY SMT, <1>6, <2>1
    <2>3. PICK h \in Nat, n \in Nat, l \in Nat : x1 \div p = h /\ x1 % p = n /\ x2 \div p = l
        BY SMT, <2>2
    <2>4. x1 = 8 * h + n /\ n < 8 /\ 8 * l <= x2 /\ x2 < 8 * l + 8 BY SMT, <2>2, <2>3
    <2>5. PICK m \in Nat : m = n * q + l BY SMT, <2>2
    <2>6. IsHalf(h) /\ IsHalf(m) BY SMT, <1>2, <2>2, <2>4, <2>5, HalfNumber
    <2>7. ShiftRight[k][a] = <<h, m>> BY Zenon, <1>3, <2>1, <2>3, <2>5
    <2>8. ShiftRight[k][a] \in Words /\ Val(ShiftRight[k][a]) = h * Half + m
        BY Zenon, <2>6, <2>7, HalvesWord
    <2> QED BY SMT, <1>2, <2>1, <2>2, <2>4, <2>5, <2>8, HalfIs DEF Quotient
<1>7. CASE k = 4
    <2>1. PICK p \in Nat, q \in Nat : p = 2 ^ k /\ q = 2 ^ (16 - k) BY SMT, <1>7
    <2>2. p = 16 /\ q = 4096 BY SMT, <1>7, <2>1
    <2>3. PICK h \in Nat, n \in Nat, l \in Nat : x1 \div p = h /\ x1 % p = n /\ x2 \div p = l
        BY SMT, <2>2
    <2>4. x1 = 16 * h + n /\ n < 16 /\ 16 * l <= x2 /\ x2 < 16 * l + 16 BY SMT, <2>2, <2>3
    <2>5. PICK m \in Nat : m = n * q + l BY SMT, <2>2
    <2>6. IsHalf(h) /\ IsHalf(m) BY SMT, <1>2, <2>2, <2>4, <2>5, HalfNumber
    <2>7. ShiftRight[k][a] = <<h, m>> BY Zenon, <1>3, <2>1, <2>3, <2>5
    <2>8. ShiftRight[k][a] \in Words /\ Val(ShiftRight[k][a]) = h * Half + m
        BY Zenon, <2>6, <2>7, HalvesWord
    <2> QED BY SMT, <1>2, <2>1, <2>2, <2>4, <2>5, <2>8, HalfIs DEF Quotient
<1>8. CASE k = 8
    <2>1. PICK p \in Nat, q \in Nat : p = 2 ^ k /\ q = 2 ^ (16 - k) BY SMT, <1>8
    <2>2. p = 256 /\ q = 256 BY SMT, <1>8, <2>1
    <2>3. PICK h \in Nat, n \in Nat, l \in Nat : x1 \div p = h /\ x1 % p = n /\ x2 \div p = l
        BY SMT, <2>2
    <2>4. x1 = 256 * h + n /\ n < 256 /\ 256 * l <= x2 /\ x2 < 256 * l + 256 BY SMT, <2>2, <2>3
    <2>5. PICK m \in Nat : m = n * q + l BY SMT, <2>2
    <2>6. IsHalf(h) /\ IsHalf(m) BY SMT, <1>2, <2>2, <2>4, <2>5, HalfNumber
    <2>7. ShiftRight[k][a] = <<h, m>> BY Zenon, <1>3, <2>1, <2>3, <2>5
    <2>8. ShiftRight[k][a] \in Words /\ Val(ShiftRight[k][a]) = h * Half + m
        BY Zenon, <2>6, <2>7, HalvesWord
    <2> QED BY SMT, <1>2, <2>1, <2>2, <2>4, <2>5, <2>8, HalfIs DEF Quotient
<1>9. CASE k = 16
    <2>1. PICK p \in Nat, q \in Nat : p = 2 ^ k /\ q = 2 ^ (16 - k) BY SMT, <1>9
    <2>2. p = 65536 /\ q = 1 BY SMT, <1>9, <2>1
    <2>3. PICK h \in Nat, n \in Nat, l \in Nat : x1 \div p = h /\ x1 % p = n /\ x2 \div p = l
        BY SMT, <2>2
    <2>4. x1 = 65536 * h + n /\ n < 65536 /\ 65536 * l <= x2 /\ x2 < 65536 * l + 65536
        BY SMT, <2>2, <2>3
    <2>5. PICK m \in Nat : m = n * q + l BY SMT, <2>2
    <2>6. IsHalf(h) /\ IsHalf(m) BY SMT, <1>2, <2>2, <2>4, <2>5, HalfNumber
    <2>7. ShiftRight[k][a] = <<h, m>> BY Zenon, <1>3, <2>1, <2>3, <2>5
    <2>8. ShiftRight[k][a] \in Words /\ Val(ShiftRight[k][a]) = h * Half + m
        BY Zenon, <2>6, <2>7, HalvesWord
    <2> QED BY SMT, <1>2, <2>1, <2>2, <2>4, <2>5, <2>8, HalfIs DEF Quotient
<1> QED BY Zenon, <1>4, <1>5, <1>6, <1>7, <1>8, <1>9

LEMMA ShiftLeftIs ==
    ASSUME NEW a \in Words
    PROVE  /\ ShiftLeft[8][a] \in Words
           /\ \E d \in Nat : Val(ShiftLeft[8][a]) = 256 * Val(a) - d * Modulus
<1>1. PICK x1 \in Nat, x2 \in Nat : a[1] = x1 /\ a[2] = x2 /\ IsHalf(x1) /\ IsHalf(x2)
    BY Zenon, WordIs DEF IsHalf
<1>2. Val(a) = x1 * 65536 + x2 /\ x1 < 65536 /\ x2 < 65536
    BY SMT, <1>1, ValueOf, HalfNumber
<1>3. PICK k \in 0 .. 16 : k = 8 BY SMT
<1>4. ShiftLeft[k][a] = <<((x1 % 2 ^ (16 - k)) * 2 ^ k) + (x2 \div 2 ^ (16 - k)),
                          (x2 % 2 ^ (16 - k)) * 2 ^ k>>
    BY Zenon, <1>1 DEF ShiftLeft
<1>5. PICK p \in Nat, q \in Nat : p = 2 ^ k /\ q = 2 ^ (16 - k) BY SMT, <1>3
<1>6. p = 256 /\ q = 256 BY SMT, <1>3, <1>5
<1>7. PICK d \in Nat, n \in Nat, h \in Nat, l \in Nat :
        x1 \div q = d /\ x1 % q = n /\ x2 \div q = h /\ x2 % q = l
    BY SMT, <1>6
<1>8. x1 = 256 * d + n /\ n < 256 /\ x2 = 256 * h + l /\ l < 256 BY SMT, <1>6, <1>7
<1>9. PICK hi \in Nat, lo \in Nat : hi = n * p + h /\ lo = l * p BY SMT, <1>6
<1>10. IsHalf(hi) /\ IsHalf(lo) BY SMT, <1>2, <1>6, <1>8, <1>9, HalfNumber
<1>11. ShiftLeft[k][a] = <<hi, lo>> BY Zenon, <1>4, <1>5, <1>7, <1>9
<1>12. ShiftLeft[k][a] \in Words /\ Val(ShiftLeft[k][a]) = hi * Half + lo
    BY Zenon, <1>10, <1>11, HalvesWord
<1>13. Val(ShiftLeft[k][a]) = 256 * Val(a) - d * 4294967296
    BY SMT, <1>2, <1>6, <1>8, <1>9, <1>12, HalfIs
<1>14. PICK v \in Nat : v = 256 * Val(a) BY SMT, <1>2
<1>15. Val(ShiftLeft[k][a]) = v - d * Modulus BY SMT, <1>13, <1>14 DEF Modulus
<1>16. \E e \in Nat : Val(ShiftLeft[k][a]) = v - e * Modulus BY Zenon, <1>7, <1>15
<1>17. ShiftLeft[8][a] = ShiftLeft[k][a] BY SMT, <1>3
<1> QED BY SMT, <1>12, <1>14, <1>16, <1>17

(* The estimate is at most 15 tenths below the quotient.                              *)
LEMMA EstimateIs ==
    ASSUME NEW n \in Words
    PROVE  /\ Estimate[n] \in Words
           /\ 10 * Val(Estimate[n]) <= Val(n) /\ Val(n) < 10 * Val(Estimate[n]) + 16
<1>1. PICK s1 \in Words, s2 \in Words : s1 = ShiftRight[1][n] /\ s2 = ShiftRight[2][n]
    BY SMT, ShiftRightIs
<1>2. PICK q1 \in Words : q1 = Plus[s1][s2] BY Zenon, PlusIs
<1>3. PICK s3 \in Words : s3 = ShiftRight[4][q1] BY SMT, ShiftRightIs
<1>4. PICK q2 \in Words : q2 = Plus[q1][s3] BY Zenon, PlusIs
<1>5. PICK s4 \in Words : s4 = ShiftRight[8][q2] BY SMT, ShiftRightIs
<1>6. PICK q3 \in Words : q3 = Plus[q2][s4] BY Zenon, PlusIs
<1>7. PICK s5 \in Words : s5 = ShiftRight[16][q3] BY SMT, ShiftRightIs
<1>8. PICK q4 \in Words : q4 = Plus[q3][s5] BY Zenon, PlusIs
<1>9. PICK e \in Words : e = ShiftRight[3][q4] BY SMT, ShiftRightIs
<1>10. Estimate[n] = e
    BY Zenon, <1>1, <1>2, <1>3, <1>4, <1>5, <1>6, <1>7, <1>8, <1>9 DEF Estimate
<1>11. /\ Quotient(Val(s1), 2, Val(n)) /\ Quotient(Val(s2), 4, Val(n))
       /\ Quotient(Val(s3), 16, Val(q1)) /\ Quotient(Val(s4), 256, Val(q2))
       /\ Quotient(Val(s5), 65536, Val(q3)) /\ Quotient(Val(e), 8, Val(q4))
    <2>1. 2 ^ 1 = 2 /\ 2 ^ 2 = 4 /\ 2 ^ 3 = 8 /\ 2 ^ 4 = 16 /\ 2 ^ 8 = 256 /\ 2 ^ 16 = 65536
        BY SMT
    <2>2. /\ Quotient(Val(s1), 2 ^ 1, Val(n)) /\ Quotient(Val(s2), 2 ^ 2, Val(n))
          /\ Quotient(Val(s3), 2 ^ 4, Val(q1)) /\ Quotient(Val(s4), 2 ^ 8, Val(q2))
          /\ Quotient(Val(s5), 2 ^ 16, Val(q3)) /\ Quotient(Val(e), 2 ^ 3, Val(q4))
        BY SMT, <1>1, <1>3, <1>5, <1>7, <1>9, ShiftRightIs
    <2> QED BY SMT, <2>1, <2>2
<1>12. /\ Val(n) \in Nat /\ Val(n) < Modulus /\ Val(e) \in Nat
       /\ Val(s1) \in Nat /\ Val(s2) \in Nat /\ Val(s3) \in Nat /\ Val(s4) \in Nat
       /\ Val(s5) \in Nat /\ Val(q1) \in Nat /\ Val(q2) \in Nat /\ Val(q3) \in Nat
       /\ Val(q4) \in Nat
    BY Zenon, ValueIs
<1>13. Val(q1) = Val(s1) + Val(s2)
    <2>1. Val(q1) = Val(s1) + Val(s2) \/ Val(q1) = Val(s1) + Val(s2) - Modulus
        BY Zenon, <1>2, PlusIs
    <2> QED BY SMT, <1>11, <1>12, <2>1 DEF Quotient, Modulus
<1>14. Val(q2) = Val(q1) + Val(s3)
    <2>1. Val(q2) = Val(q1) + Val(s3) \/ Val(q2) = Val(q1) + Val(s3) - Modulus
        BY Zenon, <1>4, PlusIs
    <2> QED BY SMT, <1>11, <1>12, <1>13, <2>1 DEF Quotient, Modulus
<1>15. Val(q3) = Val(q2) + Val(s4)
    <2>1. Val(q3) = Val(q2) + Val(s4) \/ Val(q3) = Val(q2) + Val(s4) - Modulus
        BY Zenon, <1>6, PlusIs
    <2> QED BY SMT, <1>11, <1>12, <1>13, <1>14, <2>1 DEF Quotient, Modulus
<1>16. Val(q4) = Val(q3) + Val(s5)
    <2>1. Val(q4) = Val(q3) + Val(s5) \/ Val(q4) = Val(q3) + Val(s5) - Modulus
        BY Zenon, <1>8, PlusIs
    <2> QED BY SMT, <1>11, <1>12, <1>13, <1>14, <1>15, <2>1 DEF Quotient, Modulus
<1>17. 10 * Val(e) <= Val(n) /\ Val(n) < 10 * Val(e) + 16
    BY SMT, <1>11, <1>12, <1>13, <1>14, <1>15, <1>16 DEF Quotient, Modulus
<1> QED BY Zenon, <1>10, <1>17

(* Every unsigned int divided by ten, without a division (divu10): the estimate is at *)

(* most one too small, and the test of the rest tells.                                *)
LEMMA QuotientByTen ==
    ASSUME NEW n \in Words
    PROVE  divu10(n) \in Words /\ Val(divu10(n)) = Val(n) \div 10
<1>1. PICK e \in Words : e = Estimate[n] /\ 10 * Val(e) <= Val(n) /\ Val(n) < 10 * Val(e) + 16
    BY Zenon, EstimateIs
<1>2. PICK ten \in 0 .. 255 : ten = 10 BY SMT
<1>3. PICK t \in Words : t = Times[ten][e] BY Zenon, TimesIs
<1>4. PICK r \in Words : r = Minus[n][t] BY Zenon, MinusIs
<1>5. Word(6) \in Words /\ Val(Word(6)) = 6
    <2>1. IsHalf(6) /\ 6 \in Nat BY SMT, HalfNumber
    <2> QED BY Zenon, <2>1, WordOf
<1>6. PICK six \in Words : six = Word(6) /\ Val(six) = 6 BY SMT, <1>5
<1>7. PICK raised \in Words : raised = Plus[r][six] BY Zenon, PlusIs
<1>8. PICK d \in Words : d = ShiftRight[4][raised] /\ Quotient(Val(d), 2 ^ 4, Val(raised))
    BY SMT, ShiftRightIs
<1>9. PICK q \in Words : q = Plus[e][d] BY Zenon, PlusIs
<1>10. divu10(n) = q
    BY Zenon, <1>1, <1>2, <1>3, <1>4, <1>6, <1>7, <1>8, <1>9 DEF divu10
<1>11. /\ Val(n) \in Nat /\ Val(n) < Modulus /\ Val(e) \in Nat /\ Val(r) \in Nat
       /\ Val(r) < Modulus /\ Val(raised) \in Nat /\ Val(d) \in Nat /\ Val(q) \in Nat
       /\ Val(t) \in Nat /\ Val(t) < Modulus
    BY Zenon, ValueIs
<1>12. Val(t) = 10 * Val(e)
    <2>1. PICK c \in Nat : Val(t) = ten * Val(e) - c * Modulus BY Zenon, <1>3, TimesIs
    <2> QED BY SMT, <1>1, <1>2, <1>11, <2>1 DEF Modulus
<1>13. Val(r) = Val(n) - 10 * Val(e) /\ Val(r) < 16
    <2>1. Val(r) = Val(n) - Val(t) \/ Val(r) = Val(n) - Val(t) + Modulus
        BY Zenon, <1>4, MinusIs
    <2> QED BY SMT, <1>1, <1>11, <1>12, <2>1 DEF Modulus
<1>14. Val(raised) = Val(r) + 6
    <2>1. Val(raised) = Val(r) + Val(six) \/ Val(raised) = Val(r) + Val(six) - Modulus
        BY Zenon, <1>7, PlusIs
    <2> QED BY SMT, <1>6, <1>11, <1>13, <2>1 DEF Modulus
<1>15. (Val(r) < 10 => Val(d) = 0) /\ (Val(r) >= 10 => Val(d) = 1)
    <2>1. 2 ^ 4 = 16 BY SMT
    <2>2. Quotient(Val(d), 16, Val(raised)) BY SMT, <1>8, <2>1
    <2> QED BY SMT, <1>11, <1>13, <1>14, <2>2 DEF Quotient
<1>16. Val(q) = Val(e) + Val(d)
    <2>1. Val(q) = Val(e) + Val(d) \/ Val(q) = Val(e) + Val(d) - Modulus
        BY Zenon, <1>9, PlusIs
    <2> QED BY SMT, <1>1, <1>11, <1>13, <1>15, <2>1 DEF Modulus
<1>17. Val(q) = Val(n) \div 10
    <2>1. PICK N \in Nat, E \in Nat, R \in Nat, D \in Nat :
            N = Val(n) /\ E = Val(e) /\ R = Val(r) /\ D = Val(d)
        BY Zenon, <1>11
    <2>2. N = 10 * E + R /\ R < 16 BY SMT, <1>13, <2>1
    <2>3. (R < 10 => D = 0) /\ (R >= 10 => D = 1) BY SMT, <1>15, <2>1
    <2>4. PICK F \in Nat, Z \in 0 .. 9 : F = E + D /\ N = 10 * F + Z
        <3>1. CASE R < 10
            <4>1. E = E + D /\ N = 10 * E + R /\ R \in 0 .. 9 BY SMT, <2>2, <2>3, <3>1
            <4> QED BY SMT, <4>1
        <3>2. CASE R >= 10
            <4>1. E + 1 = E + D /\ N = 10 * (E + 1) + (R - 10) /\ R - 10 \in 0 .. 9
                BY SMT, <2>2, <2>3, <3>2
            <4> QED BY SMT, <4>1
        <3> QED BY SMT, <3>1, <3>2
    <2>5. N \div 10 = F BY SMT, <2>4
    <2> QED BY SMT, <1>16, <2>1, <2>4, <2>5
<1> QED BY Zenon, <1>10, <1>17

(* The product leaves 429496729 times the remainder, but for what 2^32 - 10 times     *)
(* 429496729 is short, and the two shifts make up for that: the upper four bits tell. *)
Indexes(n, q, r, x, y, sum, k, e) ==
    /\ n \in Nat /\ q \in Nat /\ r \in 0 .. 9 /\ x \in Nat /\ y \in Nat
    /\ sum \in Nat /\ k \in Nat /\ e \in Int
    /\ n = 10 * q + r /\ n < 4294967296
    /\ 2 * x <= n /\ n < 2 * x + 2 /\ 8 * y <= n /\ n < 8 * y + 8
    /\ sum = 429496729 * n + x + y - e * 4294967296 /\ sum < 4294967296
    /\ 268435456 * k <= sum /\ sum < 268435456 * k + 268435456

LEMMA TableIndex ==
    ASSUME NEW n, NEW q, NEW r, NEW x, NEW y, NEW sum, NEW k, NEW e,
           Indexes(n, q, r, x, y, sum, k, e)
    PROVE  remu10_table[k + 1] = r
<1>1. /\ n \in Nat /\ q \in Nat /\ r \in 0 .. 9 /\ x \in Nat /\ y \in Nat
       /\ sum \in Nat /\ k \in Nat /\ e \in Int
       /\ n = 10 * q + r /\ n < 4294967296
       /\ 2 * x <= n /\ n < 2 * x + 2 /\ 8 * y <= n /\ n < 8 * y + 8
       /\ sum = 429496729 * n + x + y - e * 4294967296 /\ sum < 4294967296
       /\ 268435456 * k <= sum /\ sum < 268435456 * k + 268435456
    BY DEF Indexes
<1> USE <1>1
<1>2. PICK v \in Int : v = 429496729 * r - 6 * q + x + y BY SMT
<1>3. PICK f \in Int : f = e - q BY SMT
<1>4. sum = v - f * 4294967296 BY SMT, <1>2, <1>3
<1>5. 429496729 * r <= v /\ 8 * v <= 8 * (429496729 * r) + 2 * q + 5 * r BY SMT, <1>2
<1>6. q <= 429496729 BY SMT
<1>7. 429496729 * r <= v /\ 8 * v <= 8 * (429496729 * r) + 858993458 + 5 * r BY SMT, <1>5, <1>6
<1>8. sum = v
    <2>1. 0 <= v /\ v < 4294967296 BY SMT, <1>7
    <2> QED BY SMT, <1>4, <2>1
<1>9. CASE r = 0
    <2>1. 0 <= sum /\ sum <= 107374182 BY SMT, <1>7, <1>8, <1>6, <1>9
    <2>2. k = 0 BY SMT, <2>1
    <2> QED BY SMT, <1>9, <2>2 DEF remu10_table
<1>10. CASE r = 1
    <2>1. 429496729 <= sum /\ sum <= 536870911 BY SMT, <1>7, <1>8, <1>6, <1>10
    <2>2. k = 1 BY SMT, <2>1
    <2> QED BY SMT, <1>10, <2>2 DEF remu10_table
<1>11. CASE r = 2
    <2>1. 858993458 <= sum /\ sum <= 966367641 BY SMT, <1>7, <1>8, <1>6, <1>11
    <2>2. k = 3 BY SMT, <2>1
    <2> QED BY SMT, <1>11, <2>2 DEF remu10_table
<1>12. CASE r = 3
    <2>1. 1288490187 <= sum /\ sum <= 1395864371 BY SMT, <1>7, <1>8, <1>6, <1>12
    <2>2. k = 4 \/ k = 5 BY SMT, <2>1
    <2> QED BY SMT, <1>12, <2>2 DEF remu10_table
<1>13. CASE r = 4
    <2>1. 1717986916 <= sum /\ sum <= 1825361100 BY SMT, <1>7, <1>8, <1>6, <1>13
    <2>2. k = 6 BY SMT, <2>1
    <2> QED BY SMT, <1>13, <2>2 DEF remu10_table
<1>14. CASE r = 5
    <2>1. 2147483645 <= sum /\ sum <= 2254857830 BY SMT, <1>7, <1>8, <1>6, <1>14
    <2>2. k = 7 \/ k = 8 BY SMT, <2>1
    <2> QED BY SMT, <1>14, <2>2 DEF remu10_table
<1>15. CASE r = 6
    <2>1. 2576980374 <= sum /\ sum <= 2684354560 BY SMT, <1>7, <1>8, <1>6, <1>15
    <2>2. k = 9 BY SMT, <2>1
    <2> QED BY SMT, <1>15, <2>2 DEF remu10_table
<1>16. CASE r = 7
    <2>1. 3006477103 <= sum /\ sum <= 3113851289 BY SMT, <1>7, <1>8, <1>6, <1>16
    <2>2. k = 11 BY SMT, <2>1
    <2> QED BY SMT, <1>16, <2>2 DEF remu10_table
<1>17. CASE r = 8
    <2>1. 3435973832 <= sum /\ sum <= 3543348019 BY SMT, <1>7, <1>8, <1>6, <1>17
    <2>2. k = 12 \/ k = 13 BY SMT, <2>1
    <2> QED BY SMT, <1>17, <2>2 DEF remu10_table
<1>18. CASE r = 9
    <2>1. 3865470561 <= sum /\ sum <= 3972844748 BY SMT, <1>7, <1>8, <1>6, <1>18
    <2>2. k = 14 BY SMT, <2>1
    <2> QED BY SMT, <1>18, <2>2 DEF remu10_table
<1> QED BY SMT, <1>9, <1>10, <1>11, <1>12, <1>13, <1>14, <1>15, <1>16, <1>17, <1>18

(* And the remainder (remu10), by a product that overflows and a table.               *)
LEMMA RemainderByTen ==
    ASSUME NEW n \in Words
    PROVE  remu10(n) = Val(n) % 10
<1> DEFINE next(w, byte) == Plus[ShiftLeft[8][w]][Times[byte][n]]
           after(c, byte) == 256 * c + byte
           Product(w, c) == w \in Words /\ \E d \in Int : Val(w) = c * Val(n) - d * Modulus
<1>1. ASSUME NEW w, NEW c \in Nat, Product(w, c), NEW byte \in 0 .. 255,
             NEW b \in Nat, b = after(c, byte)
      PROVE  Product(next(w, byte), b)
    <2>1. PICK sh \in Words : sh = ShiftLeft[8][w] BY Zenon, <1>1, ShiftLeftIs
    <2>2. PICK t \in Words : t = Times[byte][n] BY Zenon, <1>1, TimesIs
    <2>3. PICK p \in Words : p = Plus[sh][t] BY Zenon, PlusIs
    <2>4. PICK d1 \in Int : Val(w) = c * Val(n) - d1 * Modulus BY Zenon, <1>1
    <2>5. w \in Words BY Zenon, <1>1
    <2>6. PICK d2 \in Nat : Val(sh) = 256 * Val(w) - d2 * Modulus BY SMT, <2>1, <2>5, ShiftLeftIs
    <2>7. PICK d3 \in Nat : Val(t) = byte * Val(n) - d3 * Modulus BY Zenon, <2>2, TimesIs
    <2>8. PICK d4 \in {0, 1} : Val(p) = Val(sh) + Val(t) - d4 * Modulus
        <3>1. Val(p) = Val(sh) + Val(t) \/ Val(p) = Val(sh) + Val(t) - Modulus
            BY Zenon, <2>3, PlusIs
        <3>2. Val(sh) \in Nat /\ Val(t) \in Nat BY Zenon, ValueIs
        <3> QED BY SMT, <3>1, <3>2 DEF Modulus
    <2>9. PICK N \in Nat, W \in Nat, S \in Nat, T \in Nat, P \in Nat :
            N = Val(n) /\ W = Val(w) /\ S = Val(sh) /\ T = Val(t) /\ P = Val(p)
        BY Zenon, <1>1, ValueIs
    <2>10. PICK v \in Nat, x \in Nat, y \in Nat : v = c * N /\ x = byte * N /\ y = b * N
        BY SMT
    <2>11. y = 256 * v + x BY SMT, <1>1, <2>10
    <2>12. PICK d \in Int : d = 256 * d1 + d2 + d3 + d4 BY SMT
    <2>13. P = y - d * 4294967296
        <3>1. W = v - d1 * 4294967296 BY SMT, <2>4, <2>9, <2>10 DEF Modulus
        <3>2. S = 256 * W - d2 * 4294967296 BY SMT, <2>6, <2>9 DEF Modulus
        <3>3. T = x - d3 * 4294967296 BY SMT, <2>7, <2>9, <2>10 DEF Modulus
        <3>4. P = S + T - d4 * 4294967296 BY SMT, <2>8, <2>9 DEF Modulus
        <3> QED BY SMT, <2>11, <2>12, <3>1, <3>2, <3>3, <3>4
    <2>14. Val(p) = b * Val(n) - d * Modulus BY SMT, <2>9, <2>10, <2>13 DEF Modulus
    <2> QED BY Zenon, <2>1, <2>2, <2>3, <2>14
<1>2. PICK c1 \in 0 .. 255, c2 \in 0 .. 255 : c1 = 25 /\ c2 = 153 BY SMT
<1>3. PICK t \in Words : t = Times[c1][n] /\ Product(t, c1)
    <2>1. c1 \in Nat BY SMT
    <2>2. PICK t \in Words : t = Times[c1][n] BY Zenon, TimesIs
    <2>3. PICK d \in Nat : Val(t) = c1 * Val(n) - d * Modulus BY Zenon, <2>2, TimesIs
    <2>4. d \in Int BY SMT
    <2> QED BY Zenon, <2>2, <2>3, <2>4
<1>4. PICK d1 \in Nat, d2 \in Nat, d3 \in Nat :
        d1 = after(c1, c2) /\ d2 = after(d1, c2) /\ d3 = after(d2, c2)
    BY SMT
<1> HIDE DEF next, Product, after
<1>5. Product(next(t, c2), d1)
    <2>1. c1 \in Nat BY SMT
    <2> QED BY Zenon, <1>1, <1>3, <1>4, <2>1
<1>6. PICK w1 : w1 = next(t, c2) /\ Product(w1, d1) BY Zenon, <1>5
<1>7. PICK w2 : w2 = next(w1, c2) /\ Product(w2, d2) BY Zenon, <1>1, <1>4, <1>6
<1>8. Product(next(w2, c2), d3) BY Zenon, <1>1, <1>4, <1>7
<1>9. Product(next(next(next(t, c2), c2), c2), d3) BY Zenon, <1>6, <1>7, <1>8
<1>10. PICK w \in Words : w = next(next(next(t, c2), c2), c2)
    BY Zenon, <1>9 DEF Product
<1>11. PICK d \in Int : Val(w) = 429496729 * Val(n) - d * Modulus
    <2>1. PICK d \in Int : Val(w) = d3 * Val(n) - d * Modulus BY Zenon, <1>9, <1>10 DEF Product
    <2>2. d3 = 429496729 BY SMT, <1>2, <1>4 DEF after
    <2> QED BY SMT, <2>1, <2>2
<1>12. PICK s1 \in Words, s3 \in Words :
         /\ s1 = ShiftRight[1][n] /\ s3 = ShiftRight[3][n]
         /\ Quotient(Val(s1), 2 ^ 1, Val(n)) /\ Quotient(Val(s3), 2 ^ 3, Val(n))
    BY SMT, ShiftRightIs
<1>13. PICK a \in Words : a = Plus[w][s1] BY Zenon, PlusIs
<1>14. PICK sum \in Words : sum = Plus[a][s3] BY Zenon, PlusIs
<1>15. remu10(n) = remu10_table[(sum[1] \div 2 ^ 12) + 1]
    <2>1. w = next(next(next(Times[25][n], 153), 153), 153) BY SMT, <1>2, <1>3, <1>10
    <2> QED BY Zenon, <2>1, <1>12, <1>13, <1>14 DEF remu10, next
<1>16. PICK N \in Nat, W \in Nat, X \in Nat, Y \in Nat, A \in Nat, S \in Nat :
         /\ N = Val(n) /\ W = Val(w) /\ X = Val(s1) /\ Y = Val(s3) /\ A = Val(a)
         /\ S = Val(sum) /\ N < Modulus /\ S < Modulus
    BY Zenon, ValueIs
<1>17. PICK e \in Int : S = 429496729 * N + X + Y - e * 4294967296
    <2>1. A = W + X \/ A = W + X - 4294967296
        <3>1. Val(a) = Val(w) + Val(s1) \/ Val(a) = Val(w) + Val(s1) - Modulus
            BY Zenon, <1>13, PlusIs
        <3> QED BY SMT, <1>16, <3>1 DEF Modulus
    <2>2. S = A + Y \/ S = A + Y - 4294967296
        <3>1. Val(sum) = Val(a) + Val(s3) \/ Val(sum) = Val(a) + Val(s3) - Modulus
            BY Zenon, <1>14, PlusIs
        <3> QED BY SMT, <1>16, <3>1 DEF Modulus
    <2>3. W = 429496729 * N - d * 4294967296 BY SMT, <1>11, <1>16 DEF Modulus
    <2>4. PICK c \in {0, 1, 2} : S = W + X + Y - c * 4294967296
        <3>1. \/ S = W + X + Y - 0 * 4294967296 \/ S = W + X + Y - 1 * 4294967296
              \/ S = W + X + Y - 2 * 4294967296
            BY SMT, <2>1, <2>2
        <3> QED BY SMT, <3>1
    <2>5. PICK e \in Int : e = d + c BY SMT
    <2>6. S = 429496729 * N + X + Y - e * 4294967296 BY SMT, <2>3, <2>4, <2>5
    <2> QED BY SMT, <2>6
<1>18. PICK q \in Nat, r \in 0 .. 9 : N = 10 * q + r /\ r = Val(n) % 10 BY SMT, <1>16
<1>19. 2 * X <= N /\ N < 2 * X + 2 /\ 8 * Y <= N /\ N < 8 * Y + 8
    <2>1. 2 ^ 1 = 2 /\ 2 ^ 3 = 8 BY SMT
    <2>2. Quotient(X, 2, N) /\ Quotient(Y, 8, N) BY SMT, <1>12, <1>16, <2>1
    <2> QED BY SMT, <2>2 DEF Quotient
<1>20. PICK x1 \in Nat, x2 \in Nat : sum[1] = x1 /\ sum[2] = x2 /\ IsHalf(x1) /\ IsHalf(x2)
    BY Zenon, WordIs DEF IsHalf
<1>21. PICK k \in Nat : k = x1 \div 2 ^ 12 /\ 4096 * k <= x1 /\ x1 < 4096 * k + 4096
    <2>1. 2 ^ 12 = 4096 BY SMT
    <2> QED BY SMT, <2>1
<1>22. S = x1 * 65536 + x2 /\ x2 < 65536 BY SMT, <1>16, <1>20, ValueOf, HalfNumber
<1>23. 268435456 * k <= S /\ S < 268435456 * k + 268435456 BY SMT, <1>21, <1>22
<1>24. N < 4294967296 /\ S < 4294967296 BY SMT, <1>16 DEF Modulus
<1>25. remu10_table[k + 1] = r
    <2>1. Indexes(N, q, r, X, Y, S, k, e) BY SMT, <1>17, <1>18, <1>19, <1>23, <1>24 DEF Indexes
    <2> QED BY Zenon, <2>1, TableIndex
<1>26. remu10(n) = remu10_table[k + 1] BY SMT, <1>15, <1>20, <1>21
<1> QED BY SMT, <1>18, <1>25, <1>26

(* Whatever unsigned int is printed in base 10, the two functions that stand for the  *)
(* division the core is spared (divu10 and remu10) return its quotient and remainder. *)
THEOREM DivisionByTen ==
    \A n \in Words : Val(divu10(n)) = Val(n) \div 10 /\ remu10(n) = Val(n) % 10
BY Zenon, QuotientByTen, RemainderByTen
-----------------------------------------------------------------------------------
(* Recursive functions exist: a set of naturals has a smallest, a recurrence over the *)
(* places of a sequence has a function that follows it, and only one.                 *)
LEMMA SmallestOf ==
    ASSUME NEW S, S \subseteq Nat, S # {}
    PROVE  \E x \in S : \A y \in S : x <= y
<1> DEFINE UpTo == {0 .. x : x \in S}
<1>1. \A x \in S : 0 .. x \in FiniteSubsetsOf(Nat) BY FS_Interval DEF FiniteSubsetsOf
<1>2. UpTo \subseteq FiniteSubsetsOf(Nat) /\ UpTo # {} BY <1>1
<1>3. PICK m \in UpTo : \A l \in UpTo : ~ (<<l, m>> \in StrictSubsetOrdering(Nat))
    <2> HIDE DEF UpTo
    <2> QED BY <1>2, FS_StrictSubsetOrderingWellFounded, WFMin
<1>4. PICK x \in S : m = 0 .. x OBVIOUS
<1>5. ASSUME NEW y \in S, y < x PROVE FALSE
    <2>1. 0 .. y \in UpTo /\ 0 .. y \subseteq m /\ 0 .. y # m BY <1>4, <1>5
    <2>2. 0 .. y \in SUBSET Nat /\ m \in SUBSET Nat BY <1>4
    <2> QED BY <1>3, <2>1, <2>2 DEF StrictSubsetOrdering
<1> QED BY <1>5

(* A sequence of values each of which is made from the one before, of a function that *)
(* is defined by recursion: it exists, and no other one obeys the same equations.     *)
Follows(f, a, step, m) ==
    /\ f[0] = a
    /\ \A k \in 1 .. m : f[k] = step[k][f[k - 1]]

SameRule(f, g, S, a, step, n) ==
    /\ n \in Nat /\ f \in [0 .. n -> S] /\ Follows(f, a, step, n)
    /\ g[0] = a
    /\ \A k \in 1 .. n : g[k - 1] \in S => g[k] = step[k][g[k - 1]]

Agree(f, g, n) == g[n] = f[n]

LEMMA ChainExists ==
    ASSUME NEW S, NEW a \in S, NEW n \in Nat, NEW step \in [1 .. n -> [S -> S]]
    PROVE  \E f \in [0 .. n -> S] : Follows(f, a, step, n)
<1> DEFINE Good(m) == \E f \in [0 .. m -> S] : Follows(f, a, step, m)
           Bad == {m \in 0 .. n : ~ Good(m)}
<1>1. Good(0)
    <2> DEFINE f == [k \in 0 .. 0 |-> a]
    <2>1. f \in [0 .. 0 -> S] /\ f[0] = a OBVIOUS
    <2>2. \A k \in 1 .. 0 : FALSE OBVIOUS
    <2> QED BY <2>1, <2>2 DEF Follows
<1>2. ASSUME NEW m \in 0 .. n, m # 0, Good(m - 1) PROVE Good(m)
    <2>1. PICK f \in [0 .. m - 1 -> S] : Follows(f, a, step, m - 1) BY <1>2
    <2> DEFINE g == [k \in 0 .. m |-> IF k < m THEN f[k] ELSE step[m][f[m - 1]]]
    <2>2. m \in 1 .. n /\ m - 1 \in 0 .. m - 1 BY <1>2
    <2>3. step[m][f[m - 1]] \in S BY <2>2
    <2>4. g \in [0 .. m -> S] BY <2>3
    <2>5. g[0] = a /\ g[m] = step[m][g[m - 1]] BY <2>1, <2>2 DEF Follows
    <2>6. ASSUME NEW k \in 1 .. m, k # m PROVE g[k] = step[k][g[k - 1]]
        <3>1. k \in 1 .. m - 1 /\ k \in 0 .. m /\ k - 1 \in 0 .. m /\ k < m /\ k - 1 < m BY <2>6
        <3>2. g[k] = f[k] /\ g[k - 1] = f[k - 1] BY <3>1
        <3> QED BY <2>1, <3>1, <3>2 DEF Follows
    <2> QED BY <2>4, <2>5, <2>6 DEF Follows
<1> HIDE DEF Good
<1>3. Bad = {}
    <2>1. ASSUME Bad # {} PROVE FALSE
        <3>1. Bad \subseteq Nat BY SMT
        <3>2. PICK m \in Bad : \A l \in Bad : m <= l
            <4> HIDE DEF Bad
            <4> QED BY Zenon, <2>1, <3>1, SmallestOf
        <3>3. m \in 0 .. n /\ m # 0 BY <1>1
        <3>4. m - 1 \in 0 .. n /\ m - 1 \notin Bad BY <3>2, <3>3
        <3>5. Good(m) BY <1>2, <3>3, <3>4
        <3> QED BY <3>2, <3>5
    <2> QED BY <2>1
<1>4. Good(n) BY <1>3
<1> QED BY <1>4 DEF Good

LEMMA OneChain ==
    ASSUME NEW f, NEW g, NEW S, NEW a, NEW step, NEW n, SameRule(f, g, S, a, step, n)
    PROVE  Agree(f, g, n)
<1>1. /\ n \in Nat /\ f \in [0 .. n -> S] /\ Follows(f, a, step, n)
      /\ g[0] = a
      /\ \A k \in 1 .. n : g[k - 1] \in S => g[k] = step[k][g[k - 1]]
    BY DEF SameRule
<1> DEFINE Bad == {k \in 0 .. n : g[k] # f[k]}
<1>2. ASSUME Bad # {} PROVE FALSE
    <2>1. Bad \subseteq Nat BY SMT, <1>1
    <2>2. PICK m \in Bad : \A l \in Bad : m <= l
        <3> HIDE DEF Bad
        <3> QED BY Zenon, <1>2, <2>1, SmallestOf
    <2>3. m \in 1 .. n BY <1>1 DEF Follows
    <2>4. m - 1 \in 0 .. n /\ m - 1 \notin Bad BY <1>1, <2>2, <2>3
    <2>5. g[m - 1] = f[m - 1] /\ g[m - 1] \in S BY <1>1, <2>4
    <2>6. g[m] = f[m] BY <1>1, <2>3, <2>5 DEF Follows
    <2> QED BY <2>6
<1>3. n \in 0 .. n BY <1>1
<1> QED BY <1>2, <1>3 DEF Agree

(* The width of a conversion is a number.                                             *)
LEMMA DecimalIs ==
    ASSUME NEW digits \in Seq(Int)
    PROVE  Decimal(digits) \in Int
<1> DEFINE n == Len(digits)
           step == [k \in 1 .. n |-> [x \in Int |-> x * 10 + digits[k] - 48]]
           E(w) == [k \in 0 .. n |-> IF k = 0 THEN 0 ELSE (w[k - 1] * 10) + digits[k] - 48]
           W == CHOOSE w : w = E(w)
<1>1. n \in Nat OBVIOUS
<1>2. step \in [1 .. n -> [Int -> Int]] OBVIOUS
<1>3. \A k \in 1 .. n : \A x \in Int : step[k][x] = x * 10 + digits[k] - 48 OBVIOUS
<1>4. Decimal(digits) = W[n] BY Zenon DEF Decimal
<1> HIDE DEF n, step
<1>5. PICK a \in Int : a = 0 OBVIOUS
<1>6. PICK f \in [0 .. n -> Int] : Follows(f, a, step, n) BY Zenon, <1>1, <1>2, <1>5, ChainExists
<1>7. f = E(f)
    <2>1. \A k \in 0 .. n : f[k] = IF k = 0 THEN 0 ELSE (f[k - 1] * 10) + digits[k] - 48
        <3> SUFFICES ASSUME NEW k \in 0 .. n, k # 0
                     PROVE  f[k] = (f[k - 1] * 10) + digits[k] - 48
            BY <1>6, <1>5 DEF Follows
        <3>1. k \in 1 .. n /\ f[k - 1] \in Int BY <1>1
        <3> QED BY <1>3, <1>6, <3>1 DEF Follows
    <2> QED BY <2>1
<1>8. PICK w : w = E(w) /\ Decimal(digits) = w[n]
    <2>1. W = E(W)
        <3> HIDE DEF E
        <3> QED BY Zenon, <1>7
    <2> HIDE DEF W
    <2> QED BY Zenon, <1>4, <2>1
<1>9. \A k \in 0 .. n : w[k] = IF k = 0 THEN 0 ELSE (w[k - 1] * 10) + digits[k] - 48
    BY Zenon, <1>8
<1> HIDE DEF W, E
<1>10. SameRule(f, w, Int, a, step, n)
    <2>1. w[0] = a
        <3>1. 0 \in 0 .. n BY <1>1
        <3> QED BY <1>9, <1>5, <3>1
    <2>2. ASSUME NEW k \in 1 .. n, w[k - 1] \in Int PROVE w[k] = step[k][w[k - 1]]
        <3>1. k \in 0 .. n /\ k # 0 BY <1>1
        <3>2. w[k] = (w[k - 1] * 10) + digits[k] - 48 BY Zenon, <1>9, <3>1
        <3>3. PICK x \in Int : x = w[k - 1] BY <2>2
        <3>4. step[k][x] = x * 10 + digits[k] - 48 BY Zenon, <1>3, <3>3
        <3> QED BY Zenon, <3>2, <3>3, <3>4
    <2> QED BY Zenon, <1>1, <1>6, <2>1, <2>2 DEF SameRule
<1>11. Agree(f, w, n) BY Zenon, <1>10, OneChain
<1>12. n \in 0 .. n BY <1>1
<1> QED BY <1>8, <1>11, <1>12 DEF Agree

(* The words that the first digits of a number stand for, before it from, after it to.*)
With(b, w, ch) == Plus[Times[b][w]][Word(DigitValue(ch))]
Horner(h, b, digits) ==
    /\ h \in [0 .. Len(digits) -> Words]
    /\ \A k \in 1 .. Len(digits) : h[k] = With(b, h[k - 1], digits[k])
Spells(b, digits, from, to) ==
    \E h : Horner(h, b, digits) /\ h[0] = from /\ h[Len(digits)] = to

(* Value, which reads digits from the left, finds the word that they spell.           *)
LEMMA SpellsValue ==
    ASSUME NEW b, NEW digits \in Seq(Int), NEW w, Spells(b, digits, ZeroWord, w)
    PROVE  Value(digits, b) = w
<1> DEFINE n == Len(digits)
           step == [k \in 1 .. n |-> [x \in Words |-> With(b, x, digits[k])]]
           E(v) == [k \in 0 .. n |-> IF k = 0 THEN ZeroWord
                      ELSE Plus[Times[b][v[k - 1]]][Word(DigitValue(digits[k]))]]
           V == CHOOSE v : v = E(v)
<1>1. n \in Nat OBVIOUS
<1>2. \A k \in 1 .. n : \A x \in Words : step[k][x] = With(b, x, digits[k]) OBVIOUS
<1>3. Value(digits, b) = V[n] BY Zenon DEF Value
<1> HIDE DEF n, step
<1>4. PICK f \in [0 .. n -> Words] :
        /\ f[0] = ZeroWord /\ f[n] = w
        /\ \A k \in 1 .. n : f[k] = With(b, f[k - 1], digits[k])
    BY Zenon DEF Spells, Horner, n
<1>5. Follows(f, ZeroWord, step, n)
    <2> SUFFICES ASSUME NEW k \in 1 .. n PROVE f[k] = step[k][f[k - 1]]
        BY Zenon, <1>4 DEF Follows
    <2>1. k - 1 \in 0 .. n BY SMT, <1>1
    <2>2. f[k - 1] \in Words BY Zenon, <2>1
    <2> QED BY Zenon, <1>2, <1>4, <2>2
<1>6. f = E(f)
    <2>1. \A k \in 0 .. n : f[k] = E(f)[k]
        <3> SUFFICES ASSUME NEW k \in 0 .. n, k # 0
                     PROVE  f[k] = Plus[Times[b][f[k - 1]]][Word(DigitValue(digits[k]))]
            BY Zenon, <1>4
        <3>1. k \in 1 .. n BY SMT, <1>1
        <3> QED BY Zenon, <1>4, <3>1 DEF With
    <2>2. DOMAIN f = 0 .. n /\ DOMAIN E(f) = 0 .. n BY Zenon
    <2>3. f = [k \in 0 .. n |-> f[k]] BY Zenon, <1>4
    <2> QED BY Zenon, <2>1, <2>2, <2>3
<1>7. PICK v : v = E(v) /\ Value(digits, b) = v[n]
    <2>1. V = E(V)
        <3> HIDE DEF E
        <3> QED BY Zenon, <1>6
    <2> HIDE DEF V
    <2> QED BY Zenon, <1>3, <2>1
<1>8. \A k \in 0 .. n : v[k] = IF k = 0 THEN ZeroWord
                               ELSE Plus[Times[b][v[k - 1]]][Word(DigitValue(digits[k]))]
    BY Zenon, <1>7
<1> HIDE DEF V, E
<1>9. SameRule(f, v, Words, ZeroWord, step, n)
    <2>1. v[0] = ZeroWord
        <3>1. 0 \in 0 .. n BY SMT, <1>1
        <3> QED BY Zenon, <1>8, <3>1
    <2>2. ASSUME NEW k \in 1 .. n, v[k - 1] \in Words PROVE v[k] = step[k][v[k - 1]]
        <3>1. k \in 0 .. n /\ k # 0 BY SMT, <1>1
        <3>2. v[k] = With(b, v[k - 1], digits[k]) BY Zenon, <1>8, <3>1 DEF With
        <3> QED BY Zenon, <1>2, <2>2, <3>2
    <2> QED BY Zenon, <1>1, <1>4, <1>5, <2>1, <2>2 DEF SameRule
<1>10. Agree(f, v, n) BY Zenon, <1>9, OneChain
<1> QED BY Zenon, <1>4, <1>7, <1>10 DEF Agree

(* A digit more in front.                                                             *)
LEMMA SpellsMore ==
    ASSUME NEW b, NEW digits \in Seq(Int), NEW ch \in Int, NEW q \in Words, NEW w, NEW to,
           Spells(b, digits, w, to), w = With(b, q, ch)
    PROVE  Spells(b, <<ch>> \o digits, q, to)
<1>1. PICK h : Horner(h, b, digits) /\ h[0] = w /\ h[Len(digits)] = to BY Zenon DEF Spells
<1>2. PICK n \in Nat : n = Len(digits) OBVIOUS
<1>3. h \in [0 .. n -> Words] /\ \A k \in 1 .. n : h[k] = With(b, h[k - 1], digits[k])
    BY Zenon, <1>1, <1>2 DEF Horner
<1> DEFINE more == <<ch>> \o digits
           g == [k \in 0 .. n + 1 |-> IF k = 0 THEN q ELSE h[k - 1]]
<1>4. /\ more \in Seq(Int) /\ Len(more) = n + 1 /\ more[1] = ch
      /\ \A k \in 2 .. n + 1 : more[k] = digits[k - 1]
    BY SMT, <1>2
<1> HIDE DEF more
<1>5. g \in [0 .. n + 1 -> Words]
    <2>1. \A k \in 0 .. n + 1 : k # 0 => k - 1 \in 0 .. n BY SMT
    <2> QED BY Zenon, <1>3, <2>1
<1>6. g[0] = q /\ g[n + 1] = to
    <2>1. 0 \in 0 .. n + 1 /\ n + 1 \in 0 .. n + 1 /\ n + 1 # 0 /\ (n + 1) - 1 = n BY SMT
    <2> QED BY Zenon, <1>1, <1>2, <2>1
<1>7. ASSUME NEW k \in 1 .. n + 1 PROVE g[k] = With(b, g[k - 1], more[k])
    <2>1. k \in 0 .. n + 1 /\ k # 0 /\ k - 1 \in 0 .. n + 1 BY SMT
    <2>2. g[k] = h[k - 1] BY Zenon, <2>1
    <2>3. CASE k = 1
        <3>1. k - 1 = 0 BY SMT, <2>3
        <3>2. g[k - 1] = q /\ h[k - 1] = w /\ more[k] = ch BY Zenon, <1>1, <1>4, <1>6, <2>3, <3>1
        <3> QED BY Zenon, <2>2, <3>2
    <2>4. CASE k # 1
        <3>1. PICK j \in 1 .. n : j = k - 1 /\ j # 0 /\ k \in 2 .. n + 1 BY SMT, <2>4
        <3>2. g[k - 1] = h[j - 1] BY Zenon, <2>1, <3>1
        <3>3. h[j] = With(b, h[j - 1], digits[j]) BY Zenon, <1>3
        <3>4. more[k] = digits[j] BY Zenon, <1>4, <3>1
        <3> QED BY Zenon, <2>2, <3>1, <3>2, <3>3, <3>4
    <2> QED BY Zenon, <2>3, <2>4
<1> HIDE DEF g
<1>8. Horner(g, b, more) BY Zenon, <1>4, <1>5, <1>7 DEF Horner
<1> QED BY Zenon, <1>4, <1>6, <1>8 DEF Spells, more

(* Zeros in front of a number change nothing.                                         *)
LEMMA ZerosAdd ==
    ASSUME NEW b \in {10, 16}
    PROVE  With(b, ZeroWord, 48) = ZeroWord
<1>1. PICK d \in 0 .. 255 : d = b BY SMT
<1>2. ZeroWord \in Words /\ Val(ZeroWord) = 0
    <2>1. IsHalf(0) BY SMT, HalfNumber
    <2>2. ZeroWord \in Words /\ Val(ZeroWord) = 0 * Half + 0 BY Zenon, <2>1, HalvesWord DEF ZeroWord
    <2> QED BY SMT, <2>2, HalfIs
<1>3. DigitValue(48) = 0 BY SMT DEF DigitValue
<1>4. PICK o \in Words : o = Word(DigitValue(48)) /\ Val(o) = 0
    <2>1. IsHalf(0) /\ 0 \in Nat BY SMT, HalfNumber
    <2> QED BY Zenon, <1>3, <2>1, WordOf
<1>5. PICK t \in Words : t = Times[d][ZeroWord] BY Zenon, <1>2, TimesIs
<1>6. PICK c \in Nat : Val(t) = d * Val(ZeroWord) - c * Modulus BY Zenon, <1>2, <1>5, TimesIs
<1>7. Val(t) = 0
    <2>1. Val(t) \in Nat BY Zenon, ValueIs
    <2>2. d * Val(ZeroWord) = 0 BY SMT, <1>2
    <2> QED BY SMT, <1>6, <2>1, <2>2 DEF Modulus
<1>8. PICK p \in Words : p = Plus[t][o] BY Zenon, PlusIs
<1>9. Val(p) = 0
    <2>1. Val(p) = Val(t) + Val(o) \/ Val(p) = Val(t) + Val(o) - Modulus BY Zenon, <1>8, PlusIs
    <2>2. Val(p) \in Nat BY Zenon, ValueIs
    <2> QED BY SMT, <1>4, <1>7, <2>1, <2>2 DEF Modulus
<1>10. p = ZeroWord
    <2>1. Val(p) = Val(ZeroWord) BY Zenon, <1>2, <1>9
    <2> QED BY Zenon, <1>2, <2>1, SameValue
<1> QED BY Zenon, <1>1, <1>4, <1>5, <1>8, <1>10 DEF With

(* Zeros alone spell the word they are put in front of.                               *)
LEMMA SpellsZeros ==
    ASSUME NEW b \in {10, 16}, NEW digits \in Seq(Int), NEW m \in Nat, NEW to,
           Spells(b, digits, ZeroWord, to)
    PROVE  Spells(b, [k \in 1 .. m |-> 48] \o digits, ZeroWord, to)
<1>1. PICK h : Horner(h, b, digits) /\ h[0] = ZeroWord /\ h[Len(digits)] = to BY Zenon DEF Spells
<1>2. PICK n \in Nat : n = Len(digits) OBVIOUS
<1>3. h \in [0 .. n -> Words] /\ \A k \in 1 .. n : h[k] = With(b, h[k - 1], digits[k])
    BY Zenon, <1>1, <1>2 DEF Horner
<1> DEFINE more == [k \in 1 .. m |-> 48] \o digits
           g == [k \in 0 .. m + n |-> IF k <= m THEN ZeroWord ELSE h[k - m]]
<1>4. /\ more \in Seq(Int) /\ Len(more) = m + n /\ \A k \in 1 .. m : more[k] = 48
      /\ \A k \in m + 1 .. m + n : more[k] = digits[k - m]
    BY SMT, <1>2
<1> HIDE DEF more
<1>5. g \in [0 .. m + n -> Words]
    <2>1. \A k \in 0 .. m + n : ~ (k <= m) => k - m \in 0 .. n BY SMT
    <2>2. ZeroWord \in Words
        <3>1. 0 \in 0 .. n BY SMT
        <3> QED BY Zenon, <1>1, <1>3, <3>1
    <2> QED BY Zenon, <1>3, <2>1, <2>2
<1>6. g[0] = ZeroWord /\ g[m + n] = to
    <2>1. 0 \in 0 .. m + n /\ m + n \in 0 .. m + n /\ 0 <= m BY SMT
    <2>2. g[0] = ZeroWord BY Zenon, <2>1
    <2>3. CASE n = 0
        <3>1. m + n <= m BY SMT, <2>3
        <3>2. to = ZeroWord BY Zenon, <1>1, <1>2, <2>3
        <3> QED BY Zenon, <2>1, <2>2, <3>1, <3>2
    <2>4. CASE n # 0
        <3>1. ~ (m + n <= m) /\ (m + n) - m = n BY SMT, <2>4
        <3> QED BY Zenon, <1>1, <1>2, <2>1, <2>2, <3>1
    <2> QED BY Zenon, <2>3, <2>4
<1>7. ASSUME NEW k \in 1 .. m + n PROVE g[k] = With(b, g[k - 1], more[k])
    <2>1. k \in 0 .. m + n /\ k - 1 \in 0 .. m + n BY SMT
    <2>2. CASE k <= m
        <3>1. k - 1 <= m /\ k \in 1 .. m BY SMT, <2>2
        <3>2. g[k] = ZeroWord /\ g[k - 1] = ZeroWord /\ more[k] = 48
            BY Zenon, <1>4, <2>1, <2>2, <3>1
        <3> QED BY Zenon, <3>2, ZerosAdd
    <2>3. CASE ~ (k <= m)
        <3>1. PICK j \in 1 .. n : j = k - m /\ k \in m + 1 .. m + n BY SMT, <2>3
        <3>2. g[k] = h[j] /\ more[k] = digits[j] BY Zenon, <1>4, <2>1, <2>3, <3>1
        <3>3. g[k - 1] = h[j - 1]
            <4>1. CASE k - 1 <= m
                <5>1. j - 1 = 0 BY SMT, <2>3, <3>1, <4>1
                <5> QED BY Zenon, <1>1, <2>1, <4>1, <5>1
            <4>2. CASE ~ (k - 1 <= m)
                <5>1. (k - 1) - m = j - 1 BY SMT, <3>1
                <5> QED BY Zenon, <2>1, <4>2, <5>1
            <4> QED BY Zenon, <4>1, <4>2
        <3>4. h[j] = With(b, h[j - 1], digits[j]) BY Zenon, <1>3
        <3> QED BY Zenon, <3>2, <3>3, <3>4
    <2> QED BY Zenon, <2>2, <2>3
<1> HIDE DEF g
<1>8. Horner(g, b, more) BY Zenon, <1>4, <1>5, <1>7 DEF Horner
<1> QED BY Zenon, <1>4, <1>6, <1>8 DEF Spells, more

(* The letters of the conversions, as numbers.                                        *)
LEMMA LettersAre ==
    /\ Letters.d = 100 /\ Letters.u = 117 /\ Letters.x = 120 /\ Letters.X = 88
    /\ Letters.c = 99 /\ Letters.s = 115
    /\ Numbers = {100, 117, 120, 88} /\ Takers = {100, 117, 120, 88, 99, 115}
BY SMT DEF Letters, Numbers, Takers

IsHex == conv \in {Letters.x, Letters.X}
Base == IF IsHex THEN 16 ELSE 10
DigitChars ==
    (48 .. 57) \union CASE conv = Letters.x -> 97 .. 102 [] conv = Letters.X -> 65 .. 70
                        [] OTHER -> {}

(* A digit is what the division by the base leaves, and dividing gets the word back.  *)
LEMMA Recomposed ==
    ASSUME NEW b \in 1 .. 255, NEW w \in Words, NEW q \in Words, NEW r \in Nat, IsHalf(r),
           Val(w) = b * Val(q) + r
    PROVE  Plus[Times[b][q]][Word(r)] = w
<1>1. PICK d \in 0 .. 255 : d = b BY SMT
<1>2. PICK o \in Words : o = Word(r) /\ Val(o) = r
    <2> QED BY Zenon, WordOf
<1>3. PICK t \in Words : t = Times[d][q] BY Zenon, TimesIs
<1>4. PICK c \in Nat : Val(t) = d * Val(q) - c * Modulus BY Zenon, <1>3, TimesIs
<1>5. Val(w) \in Nat /\ Val(w) < Modulus /\ Val(q) \in Nat /\ Val(t) \in Nat BY Zenon, ValueIs
<1>6. PICK m \in Nat : m = d * Val(q) /\ Val(w) = m + r BY SMT, <1>1, <1>5
<1>7. Val(t) = m BY SMT, <1>4, <1>5, <1>6 DEF Modulus
<1>8. PICK p \in Words : p = Plus[t][o] BY Zenon, PlusIs
<1>9. Val(p) = Val(w)
    <2>1. Val(p) = Val(t) + Val(o) \/ Val(p) = Val(t) + Val(o) - Modulus BY Zenon, <1>8, PlusIs
    <2>2. Val(p) \in Nat BY Zenon, ValueIs
    <2> QED BY SMT, <1>2, <1>5, <1>6, <1>7, <2>1, <2>2 DEF Modulus
<1>10. p = w BY Zenon, <1>9, SameValue
<1> QED BY Zenon, <1>1, <1>2, <1>3, <1>8, <1>10

LEMMA DecimalDigit ==
    ASSUME NEW w \in Words, ~ IsHex
    PROVE  /\ Shorter(w) \in Words /\ DigitOf(w) \in 48 .. 57
           /\ w = With(10, Shorter(w), DigitOf(w))
<1>1. PICK q \in Words : q = divu10(w) /\ Val(q) = Val(w) \div 10 BY Zenon, QuotientByTen
<1>2. PICK r : r = remu10(w) /\ r = Val(w) % 10 BY Zenon, RemainderByTen
<1>3. Shorter(w) = q /\ DigitOf(w) = r + 48 BY Zenon, <1>1, <1>2 DEF Shorter, DigitOf, IsHex
<1>4. Val(w) \in Nat /\ Val(q) \in Nat BY Zenon, ValueIs
<1>5. r \in Nat /\ r < 10 /\ Val(w) = 10 * Val(q) + r
    <2>1. PICK n \in Nat, m \in Nat : n = Val(w) /\ m = Val(q) BY Zenon, <1>4
    <2>2. m = n \div 10 /\ r = n % 10 BY SMT, <1>1, <1>2, <2>1
    <2>3. r \in Nat /\ r < 10 /\ n = 10 * m + r BY SMT, <2>2
    <2> QED BY SMT, <2>1, <2>3
<1>6. PICK ch \in 48 .. 57 : ch = r + 48 /\ DigitValue(ch) = r BY SMT, <1>5 DEF DigitValue
<1>7. PICK b \in 1 .. 255 : b = 10 BY SMT
<1>8. Plus[Times[b][q]][Word(r)] = w
    <2>1. Val(w) = b * Val(q) + r /\ IsHalf(r) BY SMT, <1>5, <1>7, HalfNumber
    <2> QED BY Zenon, <1>5, <2>1, Recomposed
<1>9. w = With(b, q, ch) BY Zenon, <1>6, <1>8 DEF With
<1> QED BY SMT, <1>3, <1>6, <1>7, <1>9

LEMMA HexDigit ==
    ASSUME NEW w \in Words, IsHex
    PROVE  /\ Shorter(w) \in Words /\ DigitOf(w) \in DigitChars
           /\ w = With(16, Shorter(w), DigitOf(w))
<1>1. PICK q \in Words : q = ShiftRight[4][w] /\ Quotient(Val(q), 16, Val(w))
    <2>1. 4 \in {1, 2, 3, 4, 8, 16} /\ 2 ^ 4 = 16 BY SMT
    <2>2. ShiftRight[4][w] \in Words /\ Quotient(Val(ShiftRight[4][w]), 2 ^ 4, Val(w))
        BY SMT, <2>1, ShiftRightIs
    <2> QED BY SMT, <2>1, <2>2
<1>2. Shorter(w) = q BY Zenon, <1>1 DEF Shorter, IsHex
<1>3. PICK x1 \in Nat, x2 \in Nat : w[1] = x1 /\ w[2] = x2 BY Zenon, WordIs DEF IsHalf
<1>4. PICK l \in Nat, r \in 0 .. 15 : r = x2 % 16 /\ x2 = 16 * l + r BY SMT
<1>5. Val(w) = x1 * 65536 + x2 BY SMT, <1>3, ValueOf
<1>6. Val(w) = 16 * Val(q) + r
    <2>1. PICK v \in Nat : v = Val(q) BY Zenon, ValueIs
    <2>2. Val(w) - 16 < 16 * v /\ 16 * v <= Val(w) BY SMT, <1>1, <2>1 DEF Quotient
    <2>3. v = 4096 * x1 + l BY SMT, <1>4, <1>5, <2>2
    <2> QED BY SMT, <1>4, <1>5, <2>1, <2>3
<1>7. PICK ch : ch = DigitOf(w) /\ ch = IF r >= 10 THEN r - 10 + letbase ELSE r + 48
    BY SMT, <1>3, <1>4 DEF DigitOf, IsHex
<1>8. ch \in DigitChars /\ ch \in Nat /\ DigitValue(ch) = r
    <2>1. CASE r < 10
        <3>1. ch = r + 48 BY SMT, <1>7, <2>1
        <3> QED BY SMT, <2>1, <3>1 DEF DigitValue, DigitChars
    <2>2. CASE r >= 10 /\ conv = 120
        <3>1. ch = r + 87 BY SMT, <1>7, <2>2, LettersAre DEF letbase
        <3>2. DigitValue(ch) = r BY SMT, <2>2, <3>1 DEF DigitValue
        <3>3. DigitChars = (48 .. 57) \union (97 .. 102) BY SMT, <2>2, LettersAre DEF DigitChars
        <3> QED BY SMT, <2>2, <3>1, <3>2, <3>3
    <2>3. CASE r >= 10 /\ conv = 88
        <3>1. ch = r + 55 BY SMT, <1>7, <2>3, LettersAre DEF letbase
        <3>2. DigitValue(ch) = r BY SMT, <2>3, <3>1 DEF DigitValue
        <3>3. DigitChars = (48 .. 57) \union (65 .. 70) BY SMT, <2>3, LettersAre DEF DigitChars
        <3> QED BY SMT, <2>3, <3>1, <3>2, <3>3
    <2>4. conv = 120 \/ conv = 88 BY SMT, LettersAre DEF IsHex
    <2> QED BY SMT, <2>1, <2>2, <2>3, <2>4
<1>9. PICK b \in 1 .. 255 : b = 16 BY SMT
<1>10. Plus[Times[b][q]][Word(r)] = w
    <2>1. Val(w) = b * Val(q) + r /\ IsHalf(r) /\ r \in Nat BY SMT, <1>6, <1>9, HalfNumber
    <2> QED BY Zenon, <2>1, Recomposed
<1>11. w = With(b, q, ch) BY Zenon, <1>8, <1>10 DEF With
<1> QED BY SMT, <1>2, <1>7, <1>8, <1>9, <1>11

(* One turn of qprinti's loop takes off the last digit, and the last turn not a zero. *)
LEMMA DigitStep ==
    ASSUME NEW w \in Words
    PROVE  /\ Shorter(w) \in Words /\ DigitOf(w) \in DigitChars
           /\ w = With(Base, Shorter(w), DigitOf(w))
           /\ Shorter(w) = ZeroWord /\ DigitOf(w) = 48 => w = ZeroWord
<1>1. /\ Shorter(w) \in Words /\ DigitOf(w) \in DigitChars
      /\ w = With(Base, Shorter(w), DigitOf(w))
    <2>1. CASE IsHex BY SMT, <2>1, HexDigit DEF Base
    <2>2. CASE ~ IsHex
        <3>1. 48 .. 57 \subseteq DigitChars BY Zenon DEF DigitChars
        <3>2. Base = 10 BY Zenon, <2>2 DEF Base
        <3>3. /\ Shorter(w) \in Words /\ DigitOf(w) \in 48 .. 57
              /\ w = With(10, Shorter(w), DigitOf(w))
            BY Zenon, <2>2, DecimalDigit
        <3> QED BY Zenon, <3>1, <3>2, <3>3
    <2> QED BY <2>1, <2>2
<1>2. Base \in {10, 16} BY DEF Base
<1>3. PICK b \in {10, 16} : b = Base BY <1>2
<1>4. Shorter(w) = ZeroWord /\ DigitOf(w) = 48 => w = ZeroWord
    BY Zenon, <1>1, <1>3, ZerosAdd
<1> QED BY Zenon, <1>1, <1>4

Fill(n, c) == [k \in 1 .. n |-> c]
Beside(n, text) == IF right THEN text \o Fill(n, 32) ELSE Fill(n, 32) \o text

Filled(f, n, c) ==
    /\ f \in Seq(Int) /\ Len(f) = n /\ (n = 0 => f = <<>>)
    /\ \A k \in 1 .. n : f[k] = c

(* Padding is as long as it is asked for, and of one character.                       *)
LEMMA FillIs ==
    ASSUME NEW n \in Nat, NEW c \in Int
    PROVE  Filled(Fill(n, c), n, c)
<1>1. PICK f : f = Fill(n, c) OBVIOUS
<1>2. f = [k \in 1 .. n |-> c] BY Zenon, <1>1 DEF Fill
<1>3. f \in Seq(Int) /\ Len(f) = n /\ \A k \in 1 .. n : f[k] = c BY <1>2
<1>4. n = 0 => f = <<>> BY <1>3
<1> QED BY Zenon, <1>1, <1>3, <1>4 DEF Filled

(* One sequence behind another.                                                       *)
Sequel(a, l, b, m) == Len(a) = l /\ Len(b) = m
Joined(c, a, l, b, m) ==
    /\ c \in Seq(Int) /\ Len(c) = l + m
    /\ \A k \in 1 .. l : c[k] = a[k]
    /\ \A k \in 1 .. m : c[l + k] = b[k]

(* The characters of two sequences that are joined.                                   *)
LEMMA JoinedIs ==
    \A a, b \in Seq(Int), l, m \in Nat : Sequel(a, l, b, m) => Joined(a \o b, a, l, b, m)
<1> SUFFICES ASSUME NEW a \in Seq(Int), NEW b \in Seq(Int), NEW l \in Nat, NEW m \in Nat,
                    Sequel(a, l, b, m)
             PROVE  Joined(a \o b, a, l, b, m)
    BY Zenon
<1>1. Len(a) = l /\ Len(b) = m BY Zenon DEF Sequel
<1>2. PICK c \in Seq(Int) : c = a \o b
    <2>1. a \o b \in Seq(Int) BY SMT
    <2> QED BY Zenon, <2>1
<1>3. /\ Len(c) = Len(a) + Len(b)
      /\ \A k \in 1 .. Len(a) + Len(b) : c[k] = IF k <= Len(a) THEN a[k] ELSE b[k - Len(a)]
    BY <1>2, ConcatProperties
<1>4. ASSUME NEW k \in 1 .. l PROVE c[k] = a[k]
    <2>1. k \in 1 .. Len(a) + Len(b) /\ k <= Len(a) BY SMT, <1>1, <1>4
    <2> QED BY Zenon, <1>3, <2>1
<1>5. ASSUME NEW k \in 1 .. m PROVE c[l + k] = b[k]
    <2>1. l + k \in 1 .. Len(a) + Len(b) /\ ~ (l + k <= Len(a)) /\ (l + k) - Len(a) = k
        BY SMT, <1>1, <1>5
    <2> QED BY Zenon, <1>3, <2>1
<1> QED BY Zenon, <1>1, <1>2, <1>3, <1>4, <1>5 DEF Joined

(* A text beside other characters is where it was.                                    *)
LEMMA PartIs ==
    ASSUME NEW text \in Seq(Int), NEW rest \in Seq(Int)
    PROVE  /\ SubSeq(text \o rest, 1, Len(text)) = text
           /\ SubSeq(rest \o text, Len(rest) + 1, Len(rest) + Len(text)) = text
           /\ IsPrefix(text, text \o rest) /\ IsSuffix(text, rest \o text)
<1>1. PICK l \in Nat, m \in Nat : l = Len(text) /\ m = Len(rest) OBVIOUS
<1>2. PICK a \in Seq(Int), b \in Seq(Int) : a = text \o rest /\ b = rest \o text
    <2>1. text \o rest \in Seq(Int) /\ rest \o text \in Seq(Int) BY SMT
    <2> QED BY Zenon, <2>1
<1>3. /\ Len(a) = l + m /\ Len(b) = l + m
      /\ \A k \in 1 .. l : a[k] = text[k] /\ b[m + k] = text[k]
    BY SMT, <1>1, <1>2
<1>4. SubSeq(a, 1, l) = text
    <2>1. PICK part \in Seq(Int) : part = SubSeq(a, 1, l)
        <3>1. SubSeq(a, 1, l) \in Seq(Int) BY SMT, <1>3
        <3> QED BY Zenon, <3>1
    <2>2. Len(part) = l /\ \A k \in 1 .. l : part[k] = text[k] BY SMT, <1>3, <2>1
    <2> QED BY <1>1, <2>1, <2>2, SeqEqual
<1>5. SubSeq(b, m + 1, m + l) = text
    <2>1. PICK part \in Seq(Int) : part = SubSeq(b, m + 1, m + l)
        <3>1. SubSeq(b, m + 1, m + l) \in Seq(Int) BY SMT, <1>3
        <3> QED BY Zenon, <3>1
    <2>2. Len(part) = l /\ \A k \in 1 .. l : part[k] = text[k] BY SMT, <1>3, <2>1
    <2> QED BY <1>1, <2>1, <2>2, SeqEqual
<1>6. SubSeq(text, 1, l) = text BY <1>1, SubSeqFull
<1>7. IsPrefix(text, a)
    <2>1. Len(text) <= Len(a) BY SMT, <1>1, <1>3
    <2> QED BY Zenon, <1>1, <1>4, <1>6, <2>1 DEF IsPrefix
<1>8. IsSuffix(text, b)
    <2>1. PICK p \in Seq(Int), q \in Seq(Int) : p = Reverse(text) /\ q = Reverse(b)
        <3>1. Reverse(text) \in Seq(Int) /\ Reverse(b) \in Seq(Int) BY SMT, <1>1, <1>3 DEF Reverse
        <3> QED BY Zenon, <3>1
    <2>2. Len(p) = l /\ Len(q) = l + m /\ \A k \in 1 .. l : p[k] = q[k]
        <3>1. Len(p) = l /\ Len(q) = l + m BY SMT, <1>1, <1>3, <2>1 DEF Reverse
        <3>2. ASSUME NEW k \in 1 .. l PROVE p[k] = q[k]
            <4>1. p[k] = text[(l - k) + 1] BY SMT, <1>1, <2>1 DEF Reverse
            <4>2. q[k] = b[((l + m) - k) + 1] BY SMT, <1>3, <2>1 DEF Reverse
            <4>3. PICK j \in 1 .. l : j = (l - k) + 1 /\ ((l + m) - k) + 1 = m + j BY SMT
            <4> QED BY Zenon, <1>3, <4>1, <4>2, <4>3
        <3> QED BY <3>1, <3>2
    <2>3. SubSeq(p, 1, l) = SubSeq(q, 1, l)
        <3>1. PICK x \in Seq(Int), y \in Seq(Int) : x = SubSeq(p, 1, l) /\ y = SubSeq(q, 1, l)
            <4>1. SubSeq(p, 1, l) \in Seq(Int) /\ SubSeq(q, 1, l) \in Seq(Int) BY SMT, <2>2
            <4> QED BY Zenon, <4>1
        <3>2. Len(x) = l /\ Len(y) = l /\ \A k \in 1 .. l : x[k] = y[k] BY SMT, <2>2, <3>1
        <3> QED BY <3>1, <3>2, SeqEqual
    <2>4. Len(p) <= Len(q) BY SMT, <2>2
    <2> QED BY Zenon, <2>1, <2>2, <2>3, <2>4 DEF IsSuffix, IsPrefix
<1> QED BY Zenon, <1>1, <1>2, <1>4, <1>5, <1>7, <1>8

(* A text without blanks, with blanks on one side, is what is left without them.      *)
Clear(text) == text # <<>> /\ \A k \in 1 .. Len(text) : text[k] # 32
Trims(chars, text, n) ==
    /\ chars \in Seq(Int) /\ Len(chars) = n + Len(text)
    /\ Marks(chars) # {} /\ Trimmed(chars) = text
    /\ IF right THEN IsPrefix(text, chars) ELSE IsSuffix(text, chars)
    /\ n = 0 => chars = text

(* A text with blanks on one side of it is what is left when the blanks are trimmed.  *)
LEMMA BesideIs ==
    \A n \in Nat : \A text \in Seq(Int) : Clear(text) => Trims(Beside(n, text), text, n)
<1> SUFFICES ASSUME NEW n \in Nat, NEW text \in Seq(Int), Clear(text)
             PROVE  Trims(Beside(n, text), text, n)
    BY Zenon
<1>1. PICK chars : chars = Beside(n, text) OBVIOUS
<1>2. text # <<>> /\ \A k \in 1 .. Len(text) : text[k] # 32
    BY Zenon DEF Clear
<1>3. PICK l \in Nat : l = Len(text) /\ l > 0 BY SMT, <1>2
<1>4. PICK blanks \in Seq(Int) : /\ blanks = Fill(n, 32) /\ Len(blanks) = n
                                 /\ \A k \in 1 .. n : blanks[k] = 32
                                 /\ n = 0 => blanks = <<>>
    <2>1. PICK c \in Int : c = 32 BY SMT
    <2>2. PICK f : f = Fill(n, c) OBVIOUS
    <2>3. f \in Seq(Int) /\ Len(f) = n /\ (\A k \in 1 .. n : f[k] = c) /\ (n = 0 => f = <<>>)
        <3>1. Filled(f, n, c) BY Zenon, <1>2, <2>2, FillIs
        <3> QED BY Zenon, <3>1 DEF Filled
    <2> QED BY Zenon, <2>1, <2>2, <2>3
<1>5. chars = IF right THEN text \o blanks ELSE blanks \o text BY Zenon, <1>1, <1>4 DEF Beside
<1>6. PICK o \in Nat : /\ o = IF right THEN 0 ELSE n
                       /\ SubSeq(chars, o + 1, o + l) = text
                       /\ \A k \in o + 1 .. o + l : chars[k] # 32
                       /\ \A k \in 1 .. n + l : k \notin o + 1 .. o + l => chars[k] = 32
    <2>1. CASE right
        <3>1. chars = text \o blanks BY Zenon, <1>5, <2>1
        <3>2. SubSeq(chars, 1, l) = text BY Zenon, <1>2, <1>3, <3>1, PartIs
        <3>3. /\ \A k \in 1 .. l : chars[k] # 32
              /\ \A k \in 1 .. n + l : k \notin 1 .. l => chars[k] = 32
            BY SMT, <1>2, <1>3, <1>4, <3>1
        <3>4. PICK o \in Nat : o = 0 BY SMT
        <3>5. o + 1 = 1 /\ o + l = l BY SMT, <3>4
        <3> QED BY Zenon, <2>1, <3>2, <3>3, <3>4, <3>5
    <2>2. CASE ~ right
        <3>1. chars = blanks \o text BY Zenon, <1>5, <2>2
        <3>2. SubSeq(chars, n + 1, n + l) = text BY Zenon, <1>2, <1>3, <1>4, <3>1, PartIs
        <3>3. /\ \A k \in n + 1 .. n + l : chars[k] # 32
              /\ \A k \in 1 .. n + l : k \notin n + 1 .. n + l => chars[k] = 32
            BY SMT, <1>2, <1>3, <1>4, <3>1
        <3> QED BY Zenon, <1>2, <2>2, <3>2, <3>3
    <2> QED BY Zenon, <2>1, <2>2
<1>7. chars \in Seq(Int) /\ Len(chars) = n + l /\ (n = 0 => chars = text)
    <2>1. CASE right
        <3>1. text \o blanks \in Seq(Int) /\ Len(text \o blanks) = n + l BY SMT, <1>3, <1>4
        <3>2. text \o <<>> = text BY SMT
        <3> QED BY Zenon, <1>4, <1>5, <2>1, <3>1, <3>2
    <2>2. CASE ~ right 
        <3>1. blanks \o text \in Seq(Int) /\ Len(blanks \o text) = n + l BY SMT, <1>2, <1>3, <1>4
        <3>2. <<>> \o text = text BY SMT
        <3> QED BY Zenon, <1>4, <1>5, <2>2, <3>1, <3>2
    <2> QED BY Zenon, <2>1, <2>2
<1>8. o + l <= n + l BY SMT, <1>2, <1>6
<1>9. Marks(chars) = o + 1 .. o + l
    <2>1. DOMAIN chars = 1 .. n + l BY SMT, <1>7
    <2>2. \A k : k \in o + 1 .. o + l => k \in 1 .. n + l BY SMT, <1>8
    <2>3. ASSUME NEW k PROVE k \in Marks(chars) <=> k \in o + 1 .. o + l
        <3>1. k \in Marks(chars) <=> k \in 1 .. n + l /\ chars[k] # 32 BY Zenon, <2>1 DEF Marks
        <3>2. CASE k \in o + 1 .. o + l BY Zenon, <1>6, <2>2, <3>1, <3>2
        <3>3. CASE k \notin o + 1 .. o + l BY Zenon, <1>6, <3>1, <3>3
        <3> QED BY Zenon, <3>2, <3>3
    <2> QED BY Zenon, <2>3
<1>10. Min(o + 1 .. o + l) = o + 1
    <2> DEFINE Least(x) == x \in o + 1 .. o + l /\ \A y \in o + 1 .. o + l : x <= y
    <2>1. Least(o + 1) /\ \A x : Least(x) => x = o + 1 BY SMT, <1>3
    <2>2. Min(o + 1 .. o + l) = CHOOSE x : Least(x) BY Zenon DEF Min
    <2> HIDE DEF Least
    <2> QED BY Zenon, <2>1, <2>2
<1>11. Max(o + 1 .. o + l) = o + l
    <2> DEFINE Most(x) == x \in o + 1 .. o + l /\ \A y \in o + 1 .. o + l : x >= y
    <2>1. Most(o + l)
        <3>1. o + l \in o + 1 .. o + l /\ \A y \in o + 1 .. o + l : o + l >= y BY SMT, <1>3
        <3> QED BY Zenon, <3>1
    <2>2. ASSUME NEW x, Most(x) PROVE x = o + l
        <3>1. x \in o + 1 .. o + l /\ x >= o + l BY Zenon, <2>1, <2>2
        <3> QED BY SMT, <3>1
    <2>3. Max(o + 1 .. o + l) = CHOOSE x : Most(x) BY Zenon DEF Max
    <2> HIDE DEF Most
    <2> QED BY Zenon, <2>1, <2>3, <2>2
<1>12. Trimmed(chars) = text BY Zenon, <1>6, <1>9, <1>10, <1>11 DEF Trimmed
<1>13. Marks(chars) # {}
    <2>1. o + 1 \in o + 1 .. o + l BY SMT, <1>3
    <2> QED BY Zenon, <1>9, <2>1
<1>14. IF right THEN IsPrefix(text, chars) ELSE IsSuffix(text, chars)
    BY Zenon, <1>2, <1>4, <1>5, PartIs
<1> QED BY Zenon, <1>1, <1>3, <1>7, <1>12, <1>13, <1>14 DEF Trims

(* A string with its padding, and a number with its sign and its zeros.               *)
Sides(string, n, c) == IF right THEN string \o Fill(n, c) ELSE Fill(n, c) \o string
Numeral(m, t) == (IF neg THEN <<45>> ELSE <<>>) \o (Fill(m, 48) \o t)
SignLen == IF neg THEN 1 ELSE 0

(* qprints pads on one side, up to the width.                                         *)
LEMMA QprintsIs ==
    ASSUME NEW string \in Seq(Int), NEW w \in Int
    PROVE  \E n \in Nat, c \in Int :
             /\ qprints(string, w) = Sides(string, n, c)
             /\ n = IF w > Len(string) THEN w - Len(string) ELSE 0
             /\ c = IF w > 0 /\ zero THEN 48 ELSE 32
<1>1. PICK n \in Nat : n = IF w > Len(string) THEN w - Len(string) ELSE 0
    <2>1. PICK l \in Nat : l = Len(string) OBVIOUS
    <2>2. CASE w > l
        <3>1. w - l \in Nat BY SMT, <2>2
        <3> QED BY Zenon, <2>1, <2>2, <3>1
    <2>3. CASE ~ (w > l)
        <3>1. 0 \in Nat BY SMT
        <3> QED BY Zenon, <2>1, <2>3, <3>1
    <2> QED BY Zenon, <2>2, <2>3
<1>2. PICK c \in Int : c = IF w > 0 /\ zero THEN 48 ELSE 32
    <2>1. 48 \in Int /\ 32 \in Int BY SMT
    <2>2. CASE w > 0 /\ zero BY Zenon, <2>1, <2>2
    <2>3. CASE ~ (w > 0 /\ zero) BY Zenon, <2>1, <2>3
    <2> QED BY Zenon, <2>2, <2>3
<1>3. qprints(string, w) = Sides(string, n, c)
    BY Zenon, <1>1, <1>2 DEF qprints, Sides, Fill
<1> QED BY Zenon, <1>1, <1>2, <1>3

LEMMA NoFill == \A c : Fill(0, c) = <<>>
<1> SUFFICES ASSUME NEW c PROVE Fill(0, c) = <<>> OBVIOUS
<1>1. PICK f : f = [k \in 1 .. 0 |-> c] OBVIOUS
<1>2. f \in Seq({c}) /\ Len(f) = 0 BY <1>1
<1>3. f = <<>> BY <1>2
<1> QED BY Zenon, <1>1, <1>3 DEF Fill

(* With the width of the whole, a text has blanks on one side.                        *)
LEMMA BlanksOnly ==
    ASSUME NEW text \in Seq(Int), NEW w \in Int, ~ (w > 0 /\ zero)
    PROVE  \E n \in Nat : /\ qprints(text, w) = Beside(n, text)
                          /\ n = IF w > Len(text) THEN w - Len(text) ELSE 0
<1>1. PICK n \in Nat, c \in Int :
        /\ qprints(text, w) = Sides(text, n, c)
        /\ n = IF w > Len(text) THEN w - Len(text) ELSE 0
        /\ c = IF w > 0 /\ zero THEN 48 ELSE 32
    BY Zenon, QprintsIs
<1>2. c = 32 BY Zenon, <1>1
<1>3. Sides(text, n, c) = Beside(n, text) BY Zenon, <1>2 DEF Sides, Beside
<1> QED BY Zenon, <1>1, <1>3

(* With zeros for padding, a number has its zeros between its sign and its digits.    *)
LEMMA ZerosOnly ==
    ASSUME NEW t \in Seq(Int), NEW w \in Int, zero, ~ right
    PROVE  \E m \in Nat : /\ qprints(t, w) = Fill(m, 48) \o t
                          /\ m = IF w > Len(t) THEN w - Len(t) ELSE 0
<1>1. PICK n \in Nat, c \in Int :
        /\ qprints(t, w) = Sides(t, n, c)
        /\ n = IF w > Len(t) THEN w - Len(t) ELSE 0
        /\ c = IF w > 0 /\ zero THEN 48 ELSE 32
    BY Zenon, QprintsIs
<1>2. Len(t) \in Nat OBVIOUS
<1>3. n # 0 => w > 0 BY SMT, <1>1, <1>2
<1>4. Sides(t, n, c) = Fill(n, c) \o t BY Zenon DEF Sides
<1>5. Fill(n, c) = Fill(n, 48)
    <2>1. CASE n = 0 BY Zenon, <2>1, NoFill
    <2>2. CASE n # 0 BY Zenon, <1>1, <1>3, <2>2
    <2> QED BY Zenon, <2>1, <2>2
<1> QED BY Zenon, <1>1, <1>4, <1>5

Shaped(chars, t, m, n) ==
    /\ chars = Beside(n, Numeral(m, t))
    /\ m = 0 \/ n = 0
    /\ m # 0 => zero
    /\ n # 0 => ~ zero
    /\ n + m + SignLen + Len(t) >= width
    /\ m # 0 \/ n # 0 => n + m + SignLen + Len(t) = width

(* What is printed for a number: blanks, or its sign, zeros and its digits.           *)
LEMMA NumberShape ==
    ASSUME NEW t \in Seq(Int), width \in Int, ~ (zero /\ right)
    PROVE  \E m \in Nat, n \in Nat : Shaped(Signed(t), t, m, n)
<1>1. PICK l \in Nat : l = Len(t) OBVIOUS
<1>2. Numeral(0, t) = IF neg THEN <<45>> \o t ELSE t
    <2>1. <<>> \o t = t BY SMT
    <2>2. Fill(0, 48) = <<>> BY Zenon, NoFill
    <2> QED BY Zenon, <2>1, <2>2 DEF Numeral
<1>3. CASE zero /\ (neg => width # 0)
    <2>1. ~ right BY Zenon, <1>3
    <2>2. PICK w \in Int : w = IF neg THEN width - 1 ELSE width
        <3>1. width - 1 \in Int BY SMT
        <3> QED BY Zenon, <3>1
    <2>3. PICK m \in Nat : qprints(t, w) = Fill(m, 48) \o t /\ m = IF w > l THEN w - l ELSE 0
        BY Zenon, <1>1, <1>3, <2>1, ZerosOnly
    <2>4. PICK z \in Seq(Int) : z = Fill(m, 48) \o t
        <3>1. PICK c \in Int : c = 48 BY SMT
        <3>2. PICK f \in Seq(Int) : f = Fill(m, c) BY Zenon, FillIs DEF Filled
        <3>3. f \o t \in Seq(Int) BY SMT
        <3> QED BY Zenon, <3>1, <3>2, <3>3
    <2>5. <<>> \o z = z /\ <<45>> \o z \in Seq(Int) BY SMT
    <2>6. Signed(t) = Numeral(m, t)
        BY Zenon, <1>3, <2>2, <2>3, <2>4, <2>5 DEF Signed, Numeral
    <2>7. PICK text \in Seq(Int) : text = Numeral(m, t) BY Zenon, <2>4, <2>5 DEF Numeral
    <2>8. Beside(0, text) = text
        <3>1. <<>> \o text = text BY SMT
        <3> QED BY Zenon, <2>1, <3>1, NoFill DEF Beside
    <2>9. PICK n \in Nat : n = 0 BY SMT
    <2>10. n + m + SignLen + l >= width /\ (m # 0 => n + m + SignLen + l = width)
        <3>1. CASE neg
            <4>1. SignLen = 1 /\ w = width - 1 BY Zenon, <2>2, <3>1 DEF SignLen
            <4> QED BY SMT, <2>3, <2>9, <4>1
        <3>2. CASE ~ neg
            <4>1. SignLen = 0 /\ w = width BY Zenon, <2>2, <3>2 DEF SignLen
            <4> QED BY SMT, <2>3, <2>9, <4>1
        <3> QED BY Zenon, <3>1, <3>2
    <2>11. Shaped(Signed(t), t, m, n)
        BY Zenon, <1>1, <1>3, <2>6, <2>7, <2>8, <2>9, <2>10 DEF Shaped
    <2> QED BY Zenon, <2>11
<1>4. CASE ~ (zero /\ (neg => width # 0))
    <2>1. PICK text \in Seq(Int) : text = Numeral(0, t)
        <3>1. <<45>> \o t \in Seq(Int) BY SMT
        <3> QED BY Zenon, <1>2, <3>1
    <2>2. Len(text) = SignLen + l
        <3>1. Len(<<45>> \o t) = 1 + l /\ 0 + l = l BY SMT, <1>1
        <3> QED BY Zenon, <1>1, <1>2, <2>1, <3>1 DEF SignLen
    <2>3. ~ (width > 0 /\ zero)
        <3>1. width > 0 => width # 0 BY SMT
        <3> QED BY Zenon, <1>4, <3>1
    <2>4. Signed(t) = qprints(text, width) BY Zenon, <1>2, <1>4, <2>1 DEF Signed
    <2>5. PICK n \in Nat : /\ qprints(text, width) = Beside(n, text)
                           /\ n = IF width > Len(text) THEN width - Len(text) ELSE 0
        BY Zenon, <2>3, BlanksOnly
    <2>6. PICK m \in Nat : m = 0 BY SMT
    <2>7. PICK o \in {0, 1} : o = SignLen BY Zenon DEF SignLen
    <2>8. n + m + o + l >= width /\ (n # 0 => n + m + o + l = width /\ width > 0)
        BY SMT, <2>2, <2>5, <2>6, <2>7
    <2>9. n # 0 => ~ zero BY Zenon, <2>3, <2>8
    <2>10. Shaped(Signed(t), t, m, n)
        BY Zenon, <1>1, <2>1, <2>4, <2>5, <2>6, <2>7, <2>8, <2>9 DEF Shaped
    <2> QED BY Zenon, <2>10
<1> QED BY Zenon, <1>3, <1>4

(* A sequence of one character.                                                       *)
LEMMA OneIs ==
    ASSUME NEW x \in Int, NEW e, e = <<x>>
    PROVE  e \in Seq(Int) /\ Len(e) = 1 /\ e[1] = x
OBVIOUS

(* The digits of a number, and the number that is printed.                            *)
Magnitude == IF neg THEN Negated[Head(va)] ELSE Head(va)
Digits(t) ==
    /\ t \in Seq(Int) /\ t # <<>>
    /\ \A k \in 1 .. Len(t) : t[k] \in DigitChars
    /\ Head(t) = 48 => t = <<48>>
    /\ Spells(Base, t, ZeroWord, Magnitude)

(* Neither a blank nor the minus sign is a digit.                                     *)
LEMMA NoSigns == 32 \notin DigitChars /\ 45 \notin DigitChars /\ 48 \in DigitChars
<1>1. DigitChars \in {(48 .. 57) \union (97 .. 102), (48 .. 57) \union (65 .. 70), 48 .. 57}
    <2>1. (48 .. 57) \union {} = 48 .. 57 BY SMT
    <2> QED BY Zenon, <2>1 DEF DigitChars
<1> QED BY SMT, <1>1

(* Digits with zeros in front spell the same word, in digits of the same base.        *)
LEMMA DigitsWithZeros ==
    ASSUME NEW t, Digits(t), NEW m \in Nat, NEW z, z = Fill(m, 48) \o t
    PROVE  /\ z \in Seq(Int) /\ z # <<>> /\ Len(z) = m + Len(t) /\ Head(z) = z[1]
           /\ \A k \in 1 .. Len(z) : z[k] \in DigitChars
           /\ Value(z, Base) = Magnitude
           /\ Head(z) = 48 => z = <<48>> \/ m # 0
<1>1. t \in Seq(Int) BY Zenon DEF Digits
<1>2. PICK l \in Nat : l = Len(t) /\ l > 0
    <2>1. Len(t) \in Nat /\ Len(t) > 0 BY SMT, <1>1 DEF Digits
    <2> QED BY Zenon, <2>1
<1>3. PICK c \in Int : c = 48 BY SMT
<1>4. PICK f \in Seq(Int) : /\ f = Fill(m, c) /\ Len(f) = m /\ (m = 0 => f = <<>>)
                            /\ \A k \in 1 .. m : f[k] = c
    <2>1. PICK f : f = Fill(m, c) OBVIOUS
    <2>2. f \in Seq(Int) /\ Len(f) = m /\ (m = 0 => f = <<>>) /\ \A k \in 1 .. m : f[k] = c
        <3>1. Filled(f, m, c) BY Zenon, <2>1, FillIs
        <3> QED BY Zenon, <3>1 DEF Filled
    <2> QED BY Zenon, <2>1, <2>2
<1>5. z = f \o t BY Zenon, <1>3, <1>4
<1>6. Joined(z, f, m, t, l)
    <2>1. Sequel(f, m, t, l) BY Zenon, <1>1, <1>2, <1>4 DEF Sequel
    <2>2. Joined(f \o t, f, m, t, l) BY Zenon, <1>1, <1>2, <1>4, <2>1, JoinedIs
    <2> QED BY Zenon, <1>5, <2>2
<1>7. z \in Seq(Int) /\ Len(z) = m + l BY Zenon, <1>6 DEF Joined
<1>8. z # <<>> /\ Head(z) = z[1] BY SMT, <1>2, <1>7
<1>9. ASSUME NEW k \in 1 .. Len(z) PROVE z[k] \in DigitChars
    <2>1. CASE k <= m
        <3>1. k \in 1 .. m BY SMT, <1>7, <2>1
        <3>2. z[k] = f[k] BY Zenon, <1>6, <3>1 DEF Joined
        <3>3. z[k] = 48 BY Zenon, <1>3, <1>4, <3>2, <3>1
        <3> QED BY Zenon, <3>3, NoSigns
    <2>2. CASE ~ (k <= m)
        <3>1. PICK j \in 1 .. l : k = m + j
            <4>1. k - m \in 1 .. l /\ k = m + (k - m) BY SMT, <1>7, <2>2
            <4> QED BY Zenon, <4>1
        <3>2. z[k] = t[j] BY Zenon, <1>6, <3>1 DEF Joined
        <3> QED BY Zenon, <1>2, <3>2 DEF Digits
    <2> QED BY Zenon, <2>1, <2>2
<1>10. Value(z, Base) = Magnitude
    <2>1. PICK b \in {10, 16} : b = Base BY Zenon DEF Base
    <2>2. Spells(b, t, ZeroWord, Magnitude) BY Zenon, <2>1 DEF Digits
    <2>3. Spells(b, [k \in 1 .. m |-> 48] \o t, ZeroWord, Magnitude)
        BY Zenon, <1>1, <2>2, SpellsZeros
    <2>4. Spells(b, z, ZeroWord, Magnitude) BY Zenon, <2>3 DEF Fill
    <2>5. PICK w : w = Magnitude /\ Spells(b, z, ZeroWord, w) BY Zenon, <2>4
    <2>6. Value(z, b) = w BY Zenon, <1>7, <2>5, SpellsValue
    <2> QED BY Zenon, <2>1, <2>5, <2>6
<1>11. Head(z) = 48 => z = <<48>> \/ m # 0
    <2>1. CASE m = 0
        <3>1. <<>> \o t = t BY SMT, <1>1
        <3>2. z = t BY Zenon, <1>4, <1>5, <2>1, <3>1
        <3> QED BY Zenon, <3>2 DEF Digits
    <2> QED BY Zenon, <2>1
<1> QED BY Zenon, <1>2, <1>7, <1>8, <1>9, <1>10, <1>11

LEMMA ToSetIs ==
    ASSUME NEW z \in Seq(Int), NEW S, \A k \in 1 .. Len(z) : z[k] \in S
    PROVE  ToSet(z) \subseteq S
<1>1. DOMAIN z = 1 .. Len(z) BY SMT
<1> QED BY Zenon, <1>1 DEF ToSet

(* A number reads back as its argument, whatever its width and its flags are.         *)
LEMMA NumberReads ==
    ASSUME NEW t, Digits(t), width \in Int, ~ (zero /\ right), conv \in Numbers
    PROVE  Prints(Signed(t), Head(va))
<1>1. t \in Seq(Int) BY Zenon DEF Digits
<1>2. PICK m \in Nat, n \in Nat : Shaped(Signed(t), t, m, n) BY Zenon, <1>1, NumberShape
<1>3. PICK z : /\ z = Fill(m, 48) \o t
               /\ z \in Seq(Int) /\ z # <<>> /\ Len(z) = m + Len(t) /\ Head(z) = z[1]
               /\ \A k \in 1 .. Len(z) : z[k] \in DigitChars
               /\ Value(z, Base) = Magnitude
               /\ Head(z) = 48 => z = <<48>> \/ m # 0
    BY Zenon, DigitsWithZeros
<1>4. PICK l \in Nat : l = Len(z) /\ l > 0 BY SMT, <1>3
<1>5. PICK text \in Seq(Int) : /\ text = Numeral(m, t) /\ Len(text) = SignLen + l
                               /\ text # <<>>
                               /\ (\A k \in 1 .. Len(text) : text[k] # 32)
                               /\ (Head(text) = 45 <=> neg)
                               /\ (IF neg THEN Tail(text) = z ELSE text = z)
    <2>1. CASE neg
        <3>1. PICK text : text = <<45>> \o z OBVIOUS
        <3>2. text \in Seq(Int) /\ Len(text) = 1 + l /\ text[1] = 45
              /\ \A k \in 2 .. 1 + l : text[k] = z[k - 1]
            <4>1. PICK x \in Int, o \in Nat : x = 45 /\ o = 1 BY SMT
            <4>2. PICK minus : minus = <<x>> OBVIOUS
            <4>3. minus \in Seq(Int) /\ Len(minus) = o /\ minus[1] = x BY Zenon, <4>1, <4>2, OneIs
            <4>4. text = minus \o z BY Zenon, <3>1, <4>1, <4>2
            <4>5. /\ text \in Seq(Int) /\ Len(text) = o + l
                  /\ \A k \in 1 .. o : text[k] = minus[k]
                  /\ \A k \in 1 .. l : text[o + k] = z[k]
                <5>1. Sequel(minus, o, z, l) BY Zenon, <1>3, <1>4, <4>3 DEF Sequel
                <5>2. Joined(minus \o z, minus, o, z, l)
                    BY Zenon, <1>3, <1>4, <4>1, <4>3, <5>1, JoinedIs
                <5>3. Joined(text, minus, o, z, l) BY Zenon, <4>4, <5>2
                <5> QED BY Zenon, <5>3 DEF Joined
            <4>6. 1 \in 1 .. o BY SMT, <4>1
            <4>7. text[1] = 45 BY Zenon, <4>1, <4>3, <4>5, <4>6
            <4>8. ASSUME NEW k \in 2 .. 1 + l PROVE text[k] = z[k - 1]
                <5>1. k - 1 \in 1 .. l /\ o + (k - 1) = k BY SMT, <4>1
                <5> QED BY Zenon, <4>5, <5>1
            <4> QED BY Zenon, <4>1, <4>5, <4>7, <4>8
        <3>3. Head(text) = 45 /\ text # <<>> BY SMT, <3>2
        <3>4. Tail(text) = z
            <4>1. PICK r \in Seq(Int) : r = Tail(text) /\ Len(r) = l
                  /\ \A k \in 1 .. l : r[k] = text[k + 1]
                <5>1. PICK r : r = Tail(text) OBVIOUS
                <5>2. r \in Seq(Int) /\ Len(r) = l /\ \A k \in 1 .. l : r[k] = text[k + 1]
                    BY SMT, <3>2, <3>3, <5>1
                <5> QED BY Zenon, <5>1, <5>2
            <4>2. ASSUME NEW k \in 1 .. l PROVE r[k] = z[k]
                <5>1. k + 1 \in 2 .. 1 + l /\ (k + 1) - 1 = k BY SMT
                <5> QED BY Zenon, <3>2, <4>1, <5>1
            <4> QED BY <1>3, <1>4, <4>1, <4>2, SeqEqual
        <3>5. ASSUME NEW k \in 1 .. 1 + l PROVE text[k] # 32
            <4>1. CASE k = 1
                <5>1. 45 # 32 BY SMT
                <5> QED BY Zenon, <3>2, <4>1, <5>1
            <4>2. CASE k # 1
                <5>1. PICK j \in 1 .. l : j = k - 1 /\ k \in 2 .. 1 + l BY SMT, <4>2
                <5>2. text[k] \in DigitChars BY Zenon, <1>3, <1>4, <3>2, <5>1
                <5> QED BY Zenon, <5>2, NoSigns
            <4> QED BY Zenon, <4>1, <4>2
        <3>6. text = Numeral(m, t) BY Zenon, <1>3, <2>1, <3>1 DEF Numeral
        <3> QED BY Zenon, <2>1, <3>2, <3>3, <3>4, <3>5, <3>6 DEF SignLen
    <2>2. CASE ~ neg
        <3>1. <<>> \o z = z /\ 0 + l = l BY SMT, <1>3
        <3>2. z = Numeral(m, t) BY Zenon, <1>3, <2>2, <3>1 DEF Numeral
        <3>3. 1 \in 1 .. Len(z) BY SMT, <1>4
        <3>4. Head(z) # 45 BY Zenon, <1>3, <3>3, NoSigns
        <3>5. \A k \in 1 .. Len(z) : z[k] # 32 BY Zenon, <1>3, NoSigns
        <3> QED BY Zenon, <1>3, <1>4, <2>2, <3>1, <3>2, <3>4, <3>5 DEF SignLen
    <2> QED BY Zenon, <2>1, <2>2
<1>6. PICK chars : /\ chars = Signed(t) /\ chars = Beside(n, text)
                   /\ chars \in Seq(Int) /\ Len(chars) = n + Len(text)
                   /\ Marks(chars) # {} /\ Trimmed(chars) = text
                   /\ (IF right THEN IsPrefix(text, chars) ELSE IsSuffix(text, chars))
                   /\ (n = 0 => chars = text)
    <2>1. PICK chars : chars = Signed(t) /\ chars = Beside(n, text)
        BY Zenon, <1>2, <1>5 DEF Shaped
    <2>2. /\ chars \in Seq(Int) /\ Len(chars) = n + Len(text)
          /\ Marks(chars) # {} /\ Trimmed(chars) = text
          /\ (IF right THEN IsPrefix(text, chars) ELSE IsSuffix(text, chars))
          /\ (n = 0 => chars = text)
        <3>1. Clear(text) BY Zenon, <1>5 DEF Clear
        <3>2. Trims(chars, text, n) BY Zenon, <2>1, <3>1, BesideIs
        <3> QED BY Zenon, <3>2 DEF Trims
    <2> QED BY Zenon, <2>1, <2>2
<1>7. Len(chars) >= width /\ (m # 0 \/ n # 0 => Len(chars) = width)
    <2>1. PICK o \in {0, 1} : o = SignLen BY Zenon DEF SignLen
    <2>2. Len(chars) = n + m + o + Len(t) BY SMT, <1>1, <1>3, <1>4, <1>5, <1>6, <2>1
    <2> QED BY Zenon, <1>2, <2>1, <2>2 DEF Shaped
<1>8. Len(chars) > width \/ zero => text = chars
    <2>1. Len(chars) = width => ~ (Len(chars) > width) BY SMT, <1>6
    <2>2. n # 0 => ~ zero BY Zenon, <1>2 DEF Shaped
    <2> QED BY Zenon, <1>6, <1>7, <2>1, <2>2
<1>9. m # 0 => zero /\ Len(chars) = width BY Zenon, <1>2, <1>7 DEF Shaped
<1>10. ToSet(z) \subseteq DigitChars BY Zenon, <1>3, ToSetIs
<1>11. ReadsBack(chars, Head(va))
    <2>1. PICK minus \in BOOLEAN : minus <=> Head(text) = 45 BY Zenon
    <2>2. (IF minus THEN Tail(text) ELSE text) = z BY Zenon, <1>5, <2>1
    <2>3. minus <=> conv = Letters.d /\ IsNegative(Head(va)) BY Zenon, <1>5, <2>1 DEF neg
    <2>4. Value(z, Base) = IF minus THEN Negated[Head(va)] ELSE Head(va)
        BY Zenon, <1>3, <1>5, <2>1 DEF Magnitude
    <2>5. Head(z) = 48 => z = <<48>> \/ (zero /\ Len(chars) = width) BY Zenon, <1>3, <1>9
    <2>6. PICK base, letters : /\ base = IF conv \in {Letters.x, Letters.X} THEN 16 ELSE 10
                               /\ letters = CASE conv = Letters.x -> 97 .. 102
                                              [] conv = Letters.X -> 65 .. 70 [] OTHER -> {}
        OBVIOUS
    <2>7. base = Base /\ (48 .. 57) \union letters = DigitChars
        BY Zenon, <2>6 DEF Base, IsHex, DigitChars
    <2>8. /\ Marks(chars) # {} /\ z # <<>>
          /\ ToSet(z) \subseteq (48 .. 57) \union letters
          /\ Value(z, base) = IF minus THEN Negated[Head(va)] ELSE Head(va)
          /\ minus <=> conv = Letters.d /\ IsNegative(Head(va))
          /\ Head(z) = 48 => z = <<48>> \/ (zero /\ Len(chars) = width)
          /\ Len(chars) > width \/ zero => text = chars
          /\ IF right THEN IsPrefix(text, chars) ELSE IsSuffix(text, chars)
        BY Zenon, <1>3, <1>6, <1>8, <1>10, <2>3, <2>4, <2>5, <2>7
    <2>9. Trimmed(chars) = text BY Zenon, <1>6
    <2> QED BY Zenon, <2>1, <2>2, <2>6, <2>8, <2>9 DEF ReadsBack
<1>12. conv # Letters.c /\ conv # Letters.s BY SMT, LettersAre
<1> QED BY Zenon, <1>6, <1>7, <1>11, <1>12 DEF Prints

(* The same for a string.                                                             *)
Spoken(arg) ==
    IF conv = Letters.s THEN IF arg = NULL THEN Null ELSE arg
    ELSE IF arg[2] % 256 = 0 THEN <<>> ELSE <<arg[2] % 256>>

(* A string, or a character, is spelled as it is, whatever its width is.              *)
LEMMA StringReads ==
    ASSUME width \in Int, conv \in {Letters.c, Letters.s}, Spoken(Head(va)) \in Seq(Int)
    PROVE  Prints(qprints(Spoken(Head(va)), width), Head(va))
<1>1. PICK string \in Seq(Int) : string = Spoken(Head(va)) OBVIOUS
<1>2. PICK l \in Nat : l = Len(string) OBVIOUS
<1>3. PICK n \in Nat, c \in Int :
        /\ qprints(string, width) = Sides(string, n, c)
        /\ n = IF width > Len(string) THEN width - Len(string) ELSE 0
    BY Zenon, QprintsIs
<1>4. PICK f \in Seq(Int) : f = Fill(n, c) /\ Len(f) = n BY Zenon, FillIs DEF Filled
<1>5. PICK chars : /\ chars = qprints(string, width)
                   /\ chars = IF right THEN string \o f ELSE f \o string
    BY Zenon, <1>3, <1>4 DEF Sides
<1>6. IF right THEN IsPrefix(string, chars) ELSE IsSuffix(string, chars)
    BY Zenon, <1>5, PartIs
<1>7. Len(chars) = n + l
    <2>1. Sequel(string, l, f, n) /\ Sequel(f, n, string, l) BY Zenon, <1>2, <1>4 DEF Sequel
    <2>2. Joined(string \o f, string, l, f, n) /\ Joined(f \o string, f, n, string, l)
        BY Zenon, <1>1, <1>2, <1>3, <1>4, <2>1, JoinedIs
    <2>3. Len(string \o f) = l + n /\ Len(f \o string) = n + l BY Zenon, <2>2 DEF Joined
    <2>4. l + n = n + l BY SMT
    <2> QED BY Zenon, <1>5, <2>4, <2>3
<1>8. Len(chars) = (IF width > Len(string) THEN width ELSE Len(string)) /\ Len(chars) >= width
    BY SMT, <1>2, <1>3, <1>7
<1>9. Spelled(chars, string) BY Zenon, <1>6, <1>8 DEF Spelled
<1>10. conv \notin Numbers /\ Letters.c # Letters.s BY SMT, LettersAre
<1>11. CASE conv = Letters.c
    <2>1. string = IF Head(va)[2] % 256 = 0 THEN <<>> ELSE <<Head(va)[2] % 256>>
        BY Zenon, <1>1, <1>10, <1>11 DEF Spoken
    <2> QED BY Zenon, <1>1, <1>5, <1>8, <1>9, <1>10, <1>11, <2>1 DEF Prints
<1>12. CASE conv = Letters.s
    <2>1. string = IF Head(va) = NULL THEN Null ELSE Head(va) BY Zenon, <1>1, <1>12 DEF Spoken
    <2> QED BY Zenon, <1>1, <1>5, <1>8, <1>9, <1>10, <1>12, <2>1 DEF Prints
<1> QED BY Zenon, <1>11, <1>12

(* What is read of the format: never beyond its end.                                  *)
LEMMA LeadingIs ==
    ASSUME NEW f \in Seq(Int), NEW chars
    PROVE  Leading(f, chars) \in 0 .. Len(f)
<1>1. PICK l \in Nat : l = Len(f) OBVIOUS
<1> DEFINE S == {k \in DOMAIN f : \A j \in 1 .. k : f[j] \in chars}
<1>2. S \in SUBSET (1 .. l)
    <2>1. DOMAIN f = 1 .. l BY SMT, <1>1
    <2> QED BY Zenon, <2>1
<1>3. Leading(f, chars) = Cardinality(S) BY Zenon DEF Leading
<1> HIDE DEF S
<1>4. IsFiniteSet(1 .. l) /\ Cardinality(1 .. l) = IF 1 > l THEN 0 ELSE l - 1 + 1
    BY FS_Interval
<1>5. IsFiniteSet(S) /\ Cardinality(S) <= Cardinality(1 .. l) BY <1>2, <1>4, FS_Subset
<1>6. Cardinality(S) \in Nat BY <1>5, FS_CardinalityType
<1> QED BY SMT, <1>1, <1>3, <1>4, <1>5, <1>6

LEMMA PartOf ==
    ASSUME NEW f \in Seq(Int), NEW a \in Int, NEW b \in Int, a >= 1, b <= Len(f)
    PROVE  SubSeq(f, a, b) \in Seq(Int) /\ Len(SubSeq(f, a, b)) = IF a <= b THEN b - a + 1 ELSE 0
<1>1. \A k \in a .. b : f[k] \in Int BY SMT
<1> QED BY <1>1, SubSeqProperties

LEMMA DirectiveIs ==
    ASSUME NEW f \in Seq(Int)
    PROVE  Directive(f).width \in Int
<1>1. PICK n \in Nat : n = Len(f) OBVIOUS
<1>2. PICK left \in {0, 1} : left = IF f # <<>> /\ Head(f) = 45 THEN 1 ELSE 0 BY Zenon
<1>3. left <= n
    <2>1. CASE f = <<>>
        <3>1. left = 0 BY Zenon, <1>2, <2>1
        <3> QED BY SMT, <3>1
    <2>2. CASE f # <<>>
        <3>1. n >= 1 BY SMT, <1>1, <2>2
        <3> QED BY SMT, <3>1
    <2> QED BY Zenon, <2>1, <2>2
<1>4. PICK f1 \in Seq(Int) : f1 = SubSeq(f, left + 1, n) /\ Len(f1) = n - left
    <2>1. PICK a \in Int : a = left + 1 BY SMT
    <2>2. PICK f1 : f1 = SubSeq(f, a, n) OBVIOUS
    <2>3. f1 \in Seq(Int) /\ Len(f1) = IF a <= n THEN n - a + 1 ELSE 0
        BY SMT, <1>1, <2>1, <2>2, PartOf
    <2>4. Len(f1) = n - left BY SMT, <1>3, <2>1, <2>3
    <2> QED BY Zenon, <2>1, <2>2, <2>3, <2>4
<1>5. PICK zeros \in Nat : zeros = Leading(f1, {48}) /\ left + zeros <= n
    <2>1. Leading(f1, {48}) \in 0 .. Len(f1) BY Zenon, LeadingIs
    <2> QED BY SMT, <1>3, <1>4, <2>1
<1>6. PICK f2 \in Seq(Int) : f2 = SubSeq(f, left + zeros + 1, n) /\ Len(f2) = n - (left + zeros)
    <2>1. PICK a \in Int : a = left + zeros + 1 BY SMT
    <2>2. PICK f2 : f2 = SubSeq(f, a, n) OBVIOUS
    <2>3. f2 \in Seq(Int) /\ Len(f2) = IF a <= n THEN n - a + 1 ELSE 0
        BY SMT, <1>1, <2>1, <2>2, PartOf
    <2>4. Len(f2) = n - (left + zeros) BY SMT, <1>5, <2>1, <2>3
    <2> QED BY Zenon, <2>1, <2>2, <2>3, <2>4
<1>7. PICK m \in Nat : m = Leading(f2, 48 .. 57) /\ left + zeros + m <= n
    <2>1. Leading(f2, 48 .. 57) \in 0 .. Len(f2) BY Zenon, LeadingIs
    <2> QED BY SMT, <1>5, <1>6, <2>1
<1>8. PICK digits \in Seq(Int) : digits = SubSeq(f, left + zeros + 1, left + zeros + m)
    <2>1. PICK a \in Int, b \in Int : a = left + zeros + 1 /\ b = left + zeros + m /\ a >= 1
          /\ b <= Len(f)
        BY SMT, <1>1, <1>7
    <2>2. SubSeq(f, a, b) \in Seq(Int) BY Zenon, <2>1, PartOf
    <2> QED BY Zenon, <2>1, <2>2
<1>9. Directive(f).width = Decimal(digits)
    BY Zenon, <1>1, <1>2, <1>4, <1>5, <1>6, <1>7, <1>8 DEF Directive
<1> QED BY Zenon, <1>9, DecimalIs

LEMMA ConvertsIs ==
    ASSUME NEW f \in Seq(Int), Converts(f)
    PROVE  f # <<>>
<1>1. Leading(f, {Percent}) \in 0 .. Len(f) BY Zenon, LeadingIs
<1>2. Len(f) # 0 BY SMT, <1>1 DEF Converts
<1>3. Len(<<>>) = 0 OBVIOUS
<1> QED BY Zenon, <1>2, <1>3

(* What is printed is characters.                                                     *)
LEMMA QprintsChars ==
    ASSUME NEW string \in Seq(Int), NEW w \in Int
    PROVE  qprints(string, w) \in Seq(Int)
<1>1. PICK n \in Nat, c \in Int : qprints(string, w) = Sides(string, n, c) BY Zenon, QprintsIs
<1>2. PICK f \in Seq(Int) : f = Fill(n, c) BY Zenon, FillIs DEF Filled
<1>3. string \o f \in Seq(Int) /\ f \o string \in Seq(Int) BY SMT
<1> QED BY Zenon, <1>1, <1>2, <1>3 DEF Sides

LEMMA SignedChars ==
    ASSUME NEW string \in Seq(Int), width \in Int
    PROVE  Signed(string) \in Seq(Int)
<1>1. width - 1 \in Int BY SMT
<1>2. PICK minus \in Seq(Int) : minus = <<45>>
    <2>1. <<45>> \in Seq(Int) BY SMT
    <2> QED BY Zenon, <2>1
<1>3. PICK long \in Seq(Int) : long = minus \o string
    <2>1. minus \o string \in Seq(Int) BY SMT
    <2> QED BY Zenon, <2>1
<1>4. PICK a \in Seq(Int) : a = qprints(string, width - 1) BY Zenon, <1>1, QprintsChars
<1>5. minus \o a \in Seq(Int) BY SMT
<1>6. qprints(long, width) \in Seq(Int) /\ qprints(string, width) \in Seq(Int)
    BY Zenon, QprintsChars
<1> QED BY Zenon, <1>2, <1>3, <1>4, <1>5, <1>6 DEF Signed

(* No digits yet stand for what is left of the number.                                *)
LEMMA SpellsNone ==
    ASSUME NEW b, NEW w \in Words
    PROVE  Spells(b, <<>>, w, w)
<1> DEFINE h == [k \in 0 .. 0 |-> w]
<1>1. h \in [0 .. 0 -> Words] /\ h[0] = w
    <2>1. 0 \in 0 .. 0 BY SMT
    <2> QED BY Zenon, <2>1
<1>2. Len(<<>>) = 0 /\ \A k \in 1 .. 0 : FALSE BY SMT
<1> HIDE DEF h
<1>3. Horner(h, b, <<>>) BY Zenon, <1>1, <1>2 DEF Horner
<1> QED BY Zenon, <1>1, <1>2, <1>3 DEF Spells

LEMMA ZeroIs == ZeroWord \in Words /\ Val(ZeroWord) = 0 /\ ~ IsNegative(ZeroWord)
<1>1. IsHalf(0) BY SMT, HalfNumber
<1>2. ZeroWord \in Words /\ Val(ZeroWord) = 0 * Half + 0 BY Zenon, <1>1, HalvesWord DEF ZeroWord
<1>3. Half \div 2 = 32768 BY SMT, HalfIs
<1>4. ZeroWord[1] = 0 BY SMT DEF ZeroWord
<1> QED BY SMT, <1>2, <1>3, <1>4, HalfIs DEF IsNegative

LEMMA NegatedNotZero ==
    ASSUME NEW a \in Words, a # ZeroWord
    PROVE  Negated[a] \in Words /\ Negated[a] # ZeroWord
<1>1. Val(a) # 0 BY Zenon, ZeroIs, SameValue
<1>2. PICK b \in Words : b = Negated[a] /\ Val(b) = Modulus - Val(a) BY Zenon, <1>1, NegatedIs
<1>3. Val(b) # 0
    <2>1. Val(a) \in Nat /\ Val(a) < Modulus BY Zenon, ValueIs
    <2> QED BY SMT, <1>2, <2>1 DEF Modulus
<1> QED BY Zenon, <1>2, <1>3, ZeroIs

Output == SubSeq(sent, start + 1, Len(sent)) \o str \o todo
Converting == pc \in {"qprinti", "digits", "qprints"} \/ (pc = "print" /\ conv # Text)

(* The program, and the sequences it works on.                                        *)
Ranges ==
    /\ width \in Int
    /\ todo \in Seq(Int) /\ str \in Seq(Int) /\ sent \in Seq(Int)
    /\ start \in Nat /\ start <= Len(sent)
    /\ pc \in {"boot", "qprint", "qprinti", "digits", "qprints", "print", "exit"}
    /\ pc = "boot" => format = <<>> /\ va = <<>> /\ conv = Text
    /\ pc = "exit" => va = <<>>
    /\ pc = "qprinti" => conv \in Numbers /\ u = Head(va) /\ s = <<>>
    /\ pc = "digits" => conv \in Numbers
    /\ pc = "qprints" => conv \in {Letters.c, Letters.s}
    /\ pc = "print" => conv \in Takers \union {Text}
    /\ pc \in {"qprinti", "digits", "qprints"} => uart_pc = "idle" /\ start = Len(sent)

(* The arguments that are left are those of the rest of the format, behind that of    *)
(* the conversion.                                                                    *)
Left(remaining) ==
    /\ Fit(remaining)
    /\ format \in DOMAIN remaining /\ \A f \in DOMAIN remaining : f \in Seq(Int)
    /\ IF Converting
       THEN va # <<>> /\ Fits(conv, Head(va)) /\ Tail(va) = remaining[format]
       ELSE va = remaining[format]

(* The digits so far and what is left of the number make up its absolute value.       *)
Spelling ==
    pc = "digits" =>
        /\ u \in Words /\ s \in Seq(Int) /\ \A k \in 1 .. Len(s) : s[k] \in DigitChars
        /\ Spells(Base, s, u, Magnitude)
        /\ u = ZeroWord => s # <<>> /\ (Head(s) = 48 => s = <<48>>)

(* What is sent, on its way or still to be sent of a conversion is its argument.        *)
Printing ==
    pc = "print" /\ conv # Text /\ ~ (zero /\ right) =>
        \E chars, arg : chars = Output /\ arg = Head(va) /\ Prints(chars, arg)

(* Inductive together with UartIInv.                                                  *)
PrintIInv == Ranges /\ (\E remaining : Left(remaining)) /\ Spelling /\ Printing

(* The output of a conversion is the same however much of it is sent.                 *)
LEMMA NothingYet ==
    ASSUME NEW a \in Seq(Int), NEW b \in Seq(Int)
    PROVE  SubSeq(a, Len(a) + 1, Len(a)) \o <<>> \o b = b
<1>1. SubSeq(a, Len(a) + 1, Len(a)) = <<>> BY SubSeqEmpty
<1>2. <<>> \o <<>> \o b = b OBVIOUS
<1> QED BY <1>1, <1>2

LEMMA OneMore ==
    ASSUME NEW a \in Seq(Int), NEW k \in Nat, k <= Len(a), NEW c \in Int
    PROVE  /\ SubSeq(a, k + 1, Len(a)) \in Seq(Int)
           /\ SubSeq(Append(a, c), k + 1, Len(Append(a, c)))
                = Append(SubSeq(a, k + 1, Len(a)), c)
<1>1. PICK n \in Nat : n = Len(a) OBVIOUS
<1>2. PICK d \in Seq(Int) : d = Append(a, c) /\ Len(d) = n + 1
    <2>1. Append(a, c) \in Seq(Int) /\ Len(Append(a, c)) = n + 1 BY SMT, <1>1
    <2> QED BY Zenon, <2>1
<1>3. /\ d[n + 1] = c /\ \A j \in 1 .. n : d[j] = a[j] BY SMT, <1>1, <1>2
<1>4. PICK x \in Seq(Int) : x = SubSeq(a, k + 1, n) /\ Len(x) = n - k
                            /\ \A j \in 1 .. n - k : x[j] = a[k + j]
    <2>1. PICK x : x = SubSeq(a, k + 1, n) OBVIOUS
    <2>2. x \in Seq(Int) /\ Len(x) = n - k /\ \A j \in 1 .. n - k : x[j] = a[k + j]
        BY SMT, <1>1, <2>1
    <2> QED BY Zenon, <2>1, <2>2
<1>5. PICK y \in Seq(Int) : y = SubSeq(d, k + 1, n + 1) /\ Len(y) = n + 1 - k
                            /\ \A j \in 1 .. n + 1 - k : y[j] = d[k + j]
    <2>1. PICK y : y = SubSeq(d, k + 1, n + 1) OBVIOUS
    <2>2. y \in Seq(Int) /\ Len(y) = n + 1 - k /\ \A j \in 1 .. n + 1 - k : y[j] = d[k + j]
        <3>1. PICK low \in Int, high \in Int : low = k + 1 /\ high = n + 1 BY SMT
        <3>2. \A i \in low .. high : d[i] \in Int BY SMT, <1>1, <1>2, <3>1
        <3>3. y = SubSeq(d, low, high) BY Zenon, <2>1, <3>1
        <3>4. /\ y \in Seq(Int) /\ Len(y) = IF low <= high THEN high - low + 1 ELSE 0
              /\ \A i \in 1 .. high - low + 1 : y[i] = d[low + i - 1]
            BY <3>2, <3>3, SubSeqProperties
        <3>5. Len(y) = n + 1 - k BY SMT, <1>1, <3>1, <3>4
        <3>6. ASSUME NEW j \in 1 .. n + 1 - k PROVE y[j] = d[k + j]
            <4>1. j \in 1 .. high - low + 1 /\ low + j - 1 = k + j BY SMT, <3>1
            <4> QED BY Zenon, <3>4, <4>1
        <3> QED BY Zenon, <3>4, <3>5, <3>6
    <2> QED BY Zenon, <2>1, <2>2
<1>6. PICK z \in Seq(Int) : z = Append(x, c) /\ Len(z) = n + 1 - k
                            /\ z[n + 1 - k] = c /\ \A j \in 1 .. n - k : z[j] = x[j]
    <2>1. PICK z : z = Append(x, c) OBVIOUS
    <2>2. z \in Seq(Int) /\ Len(z) = n + 1 - k BY SMT, <1>1, <1>4, <2>1
    <2>3. z[n + 1 - k] = c /\ \A j \in 1 .. n - k : z[j] = x[j]
        <3>1. z[Len(x) + 1] = c /\ \A j \in 1 .. Len(x) : z[j] = x[j] BY <2>1, AppendProperties
        <3>2. Len(x) + 1 = n + 1 - k BY SMT, <1>4
        <3> QED BY Zenon, <1>4, <3>1, <3>2
    <2> QED BY Zenon, <2>1, <2>2, <2>3
<1>7. ASSUME NEW j \in 1 .. Len(y) PROVE y[j] = z[j]
    <2>1. j \in 1 .. n + 1 - k BY Zenon, <1>5, <1>7
    <2>2. y[j] = d[k + j] BY Zenon, <1>5, <2>1
    <2>3. CASE j = n + 1 - k
        <3>1. k + j = n + 1 BY SMT, <2>3
        <3> QED BY Zenon, <1>3, <1>6, <2>2, <2>3, <3>1
    <2>4. CASE j # n + 1 - k
        <3>1. k + n + 1 - k = n + 1 /\ n - k \in Nat BY SMT, <1>1
        <3>2. j \in 1 .. n - k /\ k + j \in 1 .. n BY SMT, <2>1, <2>4
        <3> QED BY Zenon, <1>3, <1>4, <1>6, <2>2, <3>2
    <2> QED BY Zenon, <2>3, <2>4
<1>8. y = z BY <1>5, <1>6, <1>7, SeqEqual
<1> QED BY Zenon, <1>1, <1>2, <1>4, <1>5, <1>6, <1>8

(* What stays is what is printed, and what is left.                                   *)
LEMMA PrintsSame ==
    ASSUME NEW chars, NEW arg, Prints(chars, arg), UNCHANGED <<conv, width, zero, right>>,
           conv \in Takers
    PROVE  Prints(chars, arg)'
<1>1. conv' = conv /\ width' = width /\ zero' = zero /\ right' = right BY Zenon
<1>2. ReadsBack(chars, arg)' = ReadsBack(chars, arg) BY SMT, <1>1 DEF ReadsBack
<1>3. \A string : Spelled(chars, string)' = Spelled(chars, string) BY SMT, <1>1 DEF Spelled
<1>4. /\ conv \in Numbers => conv # Letters.c /\ conv # Letters.s
      /\ conv \in Numbers \/ conv = Letters.c \/ conv = Letters.s
      /\ Letters.c # Letters.s
    BY SMT, LettersAre
<1>5. CASE conv \in Numbers BY Zenon, <1>1, <1>2, <1>4, <1>5 DEF Prints
<1>6. CASE conv = Letters.c BY Zenon, <1>1, <1>3, <1>4, <1>6 DEF Prints
<1>7. CASE conv = Letters.s BY Zenon, <1>1, <1>3, <1>4, <1>7 DEF Prints
<1> QED BY Zenon, <1>4, <1>5, <1>6, <1>7

(* The letters of numbers are not those of strings, and none is taken for a text.     *)
LEMMA LettersDiffer ==
    /\ Text \notin Takers /\ Numbers \subseteq Takers /\ {Letters.c, Letters.s} \subseteq Takers
    /\ \A l \in Numbers : l \notin {Letters.c, Letters.s}
    /\ \A l \in Takers : l \in Numbers \/ l \in {Letters.c, Letters.s}
BY SMT, LettersAre DEF Text

(* Between two characters, none waits to be sent.                                     *)
LEMMA IdleIsEmpty == UartIInv /\ uart_pc = "idle" => str = <<>>
BY DEF UartIInv, InCall

LEMMA LeftSame ==
    ASSUME \E remaining : Left(remaining), UNCHANGED <<format, va, conv>>, Converting' <=> Converting
    PROVE  (\E remaining : Left(remaining))'
<1>1. format' = format /\ va' = va /\ conv' = conv BY Zenon
<1>2. PICK remaining : Left(remaining) BY Zenon
<1>3. /\ Fit(remaining)
      /\ format \in DOMAIN remaining /\ \A f \in DOMAIN remaining : f \in Seq(Int)
      /\ Converting => va # <<>> /\ Fits(conv, Head(va)) /\ Tail(va) = remaining[format]
      /\ ~ Converting => va = remaining[format]
    BY Zenon, <1>2 DEF Left
<1>4. Left(remaining)' BY Zenon, <1>1, <1>3 DEF Left
<1> QED BY Zenon, <1>4

LEMMA SpellingSame ==
    ASSUME Spelling, UNCHANGED <<u, s, conv, va>>, pc' = pc
    PROVE  Spelling'
<1>1. u' = u /\ s' = s /\ conv' = conv /\ va' = va BY Zenon
<1>2. DigitChars' = DigitChars BY SMT, <1>1 DEF DigitChars
<1>3. Base' = Base BY Zenon, <1>1 DEF Base, IsHex
<1>4. Magnitude' = Magnitude BY Zenon, <1>1 DEF Magnitude, neg
<1> QED BY Zenon, <1>1, <1>2, <1>3, <1>4 DEF Spelling

LEMMA PrintingSame ==
    ASSUME Ranges, Printing, UNCHANGED <<conv, width, zero, right, va>>, pc' = pc, Output' = Output
    PROVE  Printing'
<1>1. conv' = conv /\ width' = width /\ zero' = zero /\ right' = right /\ va' = va BY Zenon
<1> DEFINE Reads == pc = "print" /\ conv # Text /\ ~ (zero /\ right)
<1>2. Reads' <=> Reads BY SMT, <1>1
<1>3. Printing' <=> (Reads' => (\E chars, arg : chars = Output /\ arg = Head(va)
                                               /\ Prints(chars, arg))')
    BY Zenon DEF Printing
<1>4. Printing <=> (Reads => \E chars, arg : chars = Output /\ arg = Head(va)
                                             /\ Prints(chars, arg))
    BY Zenon DEF Printing
<1>5. Reads => pc = "print" /\ conv # Text BY Zenon
<1> HIDE DEF Reads
<1>6. CASE ~ Reads BY Zenon, <1>6, <1>2, <1>3
<1>7. CASE Reads
    <2>1. PICK chars, arg : chars = Output /\ arg = Head(va) /\ Prints(chars, arg)
        BY Zenon, <1>7, <1>4
    <2>2. conv \in Takers BY Zenon, <1>7, <1>5 DEF Ranges
    <2>3. Prints(chars, arg)' BY Zenon, <2>1, <2>2, PrintsSame
    <2> QED BY Zenon, <1>1, <1>3, <2>1, <2>3
<1> QED BY Zenon, <1>6, <1>7

(* Steps of the UART that send nothing.                                               *)
LEMMA QuietKeeps ==
    ASSUME PrintIInv, UNCHANGED printVars, UNCHANGED <<str, sent>>,
           uart_pc = "idle" => uart_pc' = "idle"
    PROVE  PrintIInv'
<1>1. UNCHANGED <<pc, format, va, conv, width, zero, right, u, s, todo, start, str, sent>>
    BY DEF printVars, pad
<1>2. Ranges' BY <1>1 DEF PrintIInv, Ranges
<1>3. Converting' = Converting BY <1>1 DEF Converting
<1>4. (\E remaining : Left(remaining))' BY Zenon, <1>1, <1>3, LeftSame DEF PrintIInv
<1>5. Spelling' BY Zenon, <1>1, SpellingSame DEF PrintIInv
<1>6. Output' = Output BY <1>1 DEF Output
<1>7. Printing' BY Zenon, <1>1, <1>6, PrintingSame DEF PrintIInv
<1> QED BY Zenon, <1>2, <1>4, <1>5, <1>7 DEF PrintIInv

LEMMA SendingKeeps ==
    ASSUME UartIInv, PrintIInv, Load, UNCHANGED printVars
    PROVE  PrintIInv'
<1>1. UNCHANGED <<pc, format, va, conv, width, zero, right, u, s, todo, start>>
    BY DEF printVars, pad
<1>2. uart_pc = "load" /\ Len(str) = 1 BY DEF Load, UartIInv, InCall
<1>3. PICK c \in Int : c = Head(str) /\ str = <<c>> /\ Tail(str) = <<>>
    <2>1. str \in Seq(Int) BY DEF PrintIInv, Ranges
    <2>2. Head(str) \in Int /\ Tail(str) = <<>> BY <1>2, <2>1, OneCharacter
    <2>3. str = <<Head(str)>> BY <1>2, <2>1
    <2> QED BY Zenon, <2>2, <2>3
<1>4. sent' = Append(sent, c) /\ str' = <<>> BY <1>3 DEF Load
<1>5. sent \in Seq(Int) /\ start \in Nat /\ start <= Len(sent) /\ todo \in Seq(Int)
    BY DEF PrintIInv, Ranges
<1>6. sent' \in Seq(Int) /\ str' \in Seq(Int) /\ start <= Len(sent')
    <2>1. Append(sent, c) \in Seq(Int) /\ Len(Append(sent, c)) = Len(sent) + 1 BY <1>5
    <2>2. Len(sent') = Len(sent) + 1 /\ Len(sent) \in Nat BY <1>4, <1>5, <2>1
    <2>3. <<>> \in Seq(Int) OBVIOUS
    <2> QED BY <1>4, <1>5, <2>1, <2>2, <2>3
<1>7. pc \notin {"qprinti", "digits", "qprints"} BY <1>2 DEF PrintIInv, Ranges
<1>8. Ranges' BY <1>1, <1>6, <1>7 DEF PrintIInv, Ranges
<1>9. Converting' = Converting BY <1>1 DEF Converting
<1>10. (\E remaining : Left(remaining))' BY Zenon, <1>1, <1>9, LeftSame DEF PrintIInv
<1>11. Spelling' BY Zenon, <1>1, SpellingSame DEF PrintIInv
<1>12. Output' = Output
    <2>1. SubSeq(sent, start + 1, Len(sent)) \in Seq(Int) BY SMT, <1>5, PartOf
    <2>2. PICK x \in Seq(Int) : x = SubSeq(sent, start + 1, Len(sent)) BY Zenon, <2>1
    <2>3. SubSeq(sent', start + 1, Len(sent')) = Append(x, c) BY <1>4, <1>5, <2>2, OneMore
    <2>4. Append(x, c) \o <<>> \o todo = x \o <<c>> \o todo
        <3>1. Append(x, c) = x \o <<c>> BY AppendIsConcat
        <3>2. PICK y \in Seq(Int) : y = Append(x, c)
            <4>1. Append(x, c) \in Seq(Int) BY AppendProperties
            <4> QED BY Zenon, <4>1
        <3>3. y \o <<>> = y BY ConcatEmptySeq
        <3> QED BY Zenon, <3>1, <3>2, <3>3
    <2> QED BY Zenon, <1>1, <1>3, <1>4, <2>2, <2>3, <2>4 DEF Output
<1>13. Printing' BY Zenon, <1>1, <1>12, PrintingSame DEF PrintIInv
<1> QED BY Zenon, <1>8, <1>10, <1>11, <1>13 DEF PrintIInv

(* putchar takes the next character of a conversion.                                  *)
LEMMA PuttingKeeps ==
    ASSUME UartIInv, PrintIInv, putchar
    PROVE  PrintIInv'
<1>1. UNCHANGED <<pc, format, va, conv, width, zero, right, u, s, start, sent>>
    BY DEF putchar, uart_sendchar, pad
<1>2. pc = "print" /\ todo # <<>> /\ str = <<>> /\ str' = <<Head(todo)>> /\ todo' = Tail(todo)
    BY IdleIsEmpty DEF putchar, uart_sendchar
<1>3. todo \in Seq(Int) /\ sent \in Seq(Int) /\ start \in Nat /\ start <= Len(sent)
    BY DEF PrintIInv, Ranges
<1>4. Head(todo) \in Int /\ todo' \in Seq(Int) /\ str' \in Seq(Int) BY <1>2, <1>3
<1>5. Ranges' BY <1>1, <1>2, <1>4 DEF PrintIInv, Ranges
<1>6. Converting' = Converting BY <1>1 DEF Converting
<1>7. (\E remaining : Left(remaining))' BY Zenon, <1>1, <1>6, LeftSame DEF PrintIInv
<1>8. Spelling' BY Zenon, <1>1, SpellingSame DEF PrintIInv
<1>9. Output' = Output
    <2>1. SubSeq(sent, start + 1, Len(sent)) \in Seq(Int) BY SMT, <1>3, PartOf
    <2>2. PICK x \in Seq(Int) : x = SubSeq(sent, start + 1, Len(sent)) BY Zenon, <2>1
    <2>3. x \o <<Head(todo)>> \o Tail(todo) = x \o <<>> \o todo BY <1>2, <1>3
    <2> QED BY Zenon, <1>1, <1>2, <2>2, <2>3 DEF Output
<1>10. Printing' BY Zenon, <1>1, <1>9, PrintingSame DEF PrintIInv
<1> QED BY Zenon, <1>5, <1>7, <1>8, <1>10 DEF PrintIInv

(* What may be printed fits, from the first call on.                                  *)
LEMMA CharactersAre == ASSUME NEW f \in Seq(1 .. 255) PROVE f \in Seq(Int)
<1>1. 1 .. 255 \subseteq Int BY SMT
<1> QED BY <1>1, SeqMonotonic

LEMMA SuffixIs ==
    ASSUME NEW f \in Seq(1 .. 255), NEW g \in Suffixes(f)
    PROVE  g \in Seq(Int)
<1>1. f \in Seq(Int) BY Zenon, CharactersAre
<1>2. CASE g = <<>> BY <1>2
<1>3. CASE g # <<>>
    <2>1. PICK l \in 1 .. Len(f) : g = SubSeq(f, l, Len(f)) BY Zenon, <1>3 DEF Suffixes
    <2>2. l \in Int /\ l >= 1 /\ Len(f) \in Int BY <1>1
    <2>3. SubSeq(f, l, Len(f)) \in Seq(Int) BY SMT, <1>1, <2>2, PartOf
    <2> QED BY Zenon, <2>1, <2>3
<1> QED BY Zenon, <1>2, <1>3

(* Nothing is printed yet.                                                            *)
LEMMA InitPrintIInv == PrintInit => PrintIInv
<1> SUFFICES ASSUME PrintInit PROVE PrintIInv OBVIOUS
<1>1. /\ uart_pc = "idle" /\ str = <<>> /\ sent = <<>> /\ pc = "boot" /\ format = <<>>
      /\ va = <<>> /\ conv = Text /\ width = 0 /\ todo = <<>> /\ start = 0
    BY DEF PrintInit, UartInit
<1>2. <<>> \in Seq(Int) /\ Len(<<>>) = 0 OBVIOUS
<1>3. Ranges BY <1>1, <1>2 DEF Ranges
<1>4. \E remaining : Left(remaining)
    <2> DEFINE remaining == [f \in {<<>>} |-> <<>>]
    <2>1. DOMAIN remaining = {<<>>} /\ remaining[<<>>] = <<>> BY Zenon
    <2> HIDE DEF remaining
    <2>2. Fit(remaining) BY Zenon, <2>1 DEF Fit
    <2>3. ~ Converting BY <1>1 DEF Converting
    <2> QED BY Zenon, <1>1, <1>2, <2>1, <2>2, <2>3 DEF Left
<1>5. Spelling /\ Printing BY <1>1 DEF Spelling, Printing
<1> QED BY Zenon, <1>3, <1>4, <1>5 DEF PrintIInv

(* The first call starts with arguments that fit its format.                          *)
LEMMA BootKeepsPrint ==
    ASSUME PrintIInv, Boot
    PROVE  PrintIInv'
<1>1. pc = "boot" /\ UNCHANGED <<conv, width, zero, right, u, s, start, str, sent>>
    BY DEF Boot, uart_set_cfg, uartVars, call, pad
<1>2. conv' = Text BY <1>1 DEF PrintIInv, Ranges
<1>3. PICK print \in Calls :
        \/ /\ print.function = "printf" /\ pc' = "qprint"
           /\ format' = print.format /\ va' = print.args
           /\ UNCHANGED todo
        \/ /\ print.function = "puts" /\ pc' = "print"
           /\ todo' = Append(print.format, 10)
           /\ UNCHANGED <<format, va>>
    BY DEF Boot
<1>4. print.format \in Seq(1 .. 255) BY CallsAssumption
<1>5. todo' \in Seq(Int)
    <2>1. PICK f \in Seq(Int) : f = print.format
        <3>1. print.format \in Seq(Int) BY Zenon, <1>4, CharactersAre
        <3> QED BY Zenon, <3>1
    <2>2. Append(f, 10) \in Seq(Int) BY SMT
    <2> QED BY Zenon, <1>3, <2>1, <2>2 DEF PrintIInv, Ranges
<1>6. pc' \in {"qprint", "print"} BY <1>3
<1>7. Ranges' BY <1>1, <1>2, <1>5, <1>6 DEF PrintIInv, Ranges
<1>8. (\E remaining : Left(remaining))'
    <2>1. ~ Converting /\ ~ Converting' BY <1>1, <1>2, <1>6 DEF Converting
    <2>2. CASE format' = print.format /\ va' = print.args /\ print.function = "printf"
        <3>1. PICK places \in SUBSET Suffixes(print.format) :
                \E remaining \in [places -> Suffixes(print.args)] :
                    /\ print.format \in places /\ remaining[print.format] = print.args
                    /\ Fit(remaining)
            BY Zenon, <2>2, CallsAssumption
        <3>2. PICK remaining \in [places -> Suffixes(print.args)] :
                    /\ print.format \in places /\ remaining[print.format] = print.args
                    /\ Fit(remaining)
            BY Zenon, <3>1
        <3>3. DOMAIN remaining = places BY Zenon, <3>2
        <3>4. \A f \in places : f \in Seq(Int) BY Zenon, <1>4, <3>1, SuffixIs
        <3>5. Left(remaining)' BY Zenon, <2>1, <2>2, <3>2, <3>3, <3>4 DEF Left
        <3> QED BY Zenon, <3>5
    <2>3. CASE UNCHANGED <<format, va>> BY Zenon, <1>1, <2>1, <2>3, LeftSame DEF PrintIInv
    <2> QED BY Zenon, <1>3, <2>2, <2>3
<1>9. Spelling' /\ Printing' BY <1>2, <1>6 DEF Spelling, Printing
<1> QED BY Zenon, <1>7, <1>8, <1>9 DEF PrintIInv

(* The next place of the format, where the arguments that are left are again those    *)

(* that the rest takes.                                                               *)
LEMMA RestFits ==
    ASSUME NEW remaining, Fit(remaining), NEW f \in DOMAIN remaining, f # <<>>,
           \A g \in DOMAIN remaining : g \in Seq(Int)
    PROVE  /\ Rest(f) \in DOMAIN remaining /\ f \in Seq(Int)
           /\ Converts(f) /\ Letter(f) \in Takers =>
                /\ remaining[f] # <<>> /\ Fits(Letter(f), Head(remaining[f]))
                /\ Tail(remaining[f]) = remaining[Rest(f)]
           /\ ~ (Converts(f) /\ Letter(f) \in Takers) => remaining[Rest(f)] = remaining[f]
BY Zenon DEF Fit

(* A character of the format is printed as it is.                                     *)
LEMMA CharacterKeeps ==
    ASSUME PrintIInv, Character
    PROVE  PrintIInv'
<1>1. /\ pc = "qprint" /\ format # <<>> /\ ~ Converts(format) /\ todo' = <<Head(format)>>
      /\ format' = Rest(format) /\ conv' = Text /\ pc' = "print"
      /\ UNCHANGED <<uart_pc, str, sent, va, width, start>>
    BY DEF Character, uartVars, call, pad
<1>2. PICK remaining : Left(remaining) BY Zenon DEF PrintIInv
<1>3. ~ Converting /\ ~ Converting' BY <1>1 DEF Converting
<1>4. /\ Fit(remaining) /\ format \in DOMAIN remaining
      /\ \A f \in DOMAIN remaining : f \in Seq(Int)
      /\ va = remaining[format]
    BY Zenon, <1>2, <1>3 DEF Left
<1>5. Rest(format) \in DOMAIN remaining /\ remaining[Rest(format)] = va /\ format \in Seq(Int)
    BY Zenon, <1>1, <1>4, RestFits
<1>6. Left(remaining)' BY Zenon, <1>1, <1>3, <1>4, <1>5 DEF Left
<1>7. todo' \in Seq(Int) BY <1>1, <1>5
<1>8. Ranges' BY <1>1, <1>7 DEF PrintIInv, Ranges
<1>9. Spelling' /\ Printing' BY <1>1 DEF Spelling, Printing
<1> QED BY Zenon, <1>6, <1>8, <1>9 DEF PrintIInv

(* A conversion finds the argument it takes, and starts with no digit.                *)
LEMMA ConversionKeeps ==
    ASSUME PrintIInv, Conversion
    PROVE  PrintIInv'
<1>1. /\ pc = "qprint" /\ Converts(format) /\ uart_pc = "idle"
      /\ width' = Directive(Tail(format)).width
      /\ conv' = Letter(format) /\ format' = Rest(format)
      /\ pc' = IF conv' \in Numbers THEN "qprinti"
               ELSE IF conv' \in Takers THEN "qprints" ELSE "qprint"
      /\ u' = IF conv' \in Numbers THEN Head(va) ELSE u
      /\ s' = <<>> /\ start' = Len(sent)
      /\ UNCHANGED <<uart_pc, str, sent, va, todo>>
    BY DEF Conversion, uartVars, call
<1>2. PICK remaining : Left(remaining) BY Zenon DEF PrintIInv
<1>3. ~ Converting BY <1>1 DEF Converting
<1>4. /\ Fit(remaining) /\ format \in DOMAIN remaining
      /\ \A f \in DOMAIN remaining : f \in Seq(Int)
      /\ va = remaining[format]
    BY Zenon, <1>2, <1>3 DEF Left
<1>5. format # <<>> BY Zenon, <1>1, <1>4, ConvertsIs
<1>6. /\ Rest(format) \in DOMAIN remaining /\ format \in Seq(Int)
      /\ conv' \in Takers =>
           va # <<>> /\ Fits(conv', Head(va)) /\ Tail(va) = remaining[Rest(format)]
      /\ conv' \notin Takers => remaining[Rest(format)] = va
    BY Zenon, <1>1, <1>4, <1>5, RestFits
<1>7. pc' \in {"qprinti", "qprints", "qprint"} /\ (pc' \in {"qprinti", "qprints"} <=> conv' \in Takers)
    BY Zenon, <1>1, LettersDiffer
<1>8. Converting' <=> conv' \in Takers BY <1>7 DEF Converting
<1>9. Left(remaining)' BY Zenon, <1>1, <1>4, <1>6, <1>8 DEF Left
<1>10. width' \in Int
    <2>1. Tail(format) \in Seq(Int) BY <1>5, <1>6
    <2> QED BY Zenon, <1>1, <2>1, DirectiveIs
<1>11. /\ pc' = "qprinti" => conv' \in Numbers
       /\ pc' = "qprints" => conv' \in {Letters.c, Letters.s}
    BY Zenon, <1>1, LettersDiffer
<1>12. start' \in Nat /\ start' <= Len(sent') BY <1>1 DEF PrintIInv, Ranges
<1>13. Ranges' BY <1>1, <1>7, <1>10, <1>11, <1>12 DEF PrintIInv, Ranges
<1>14. Spelling' /\ Printing' BY <1>7 DEF Spelling, Printing
<1> QED BY Zenon, <1>9, <1>13, <1>14 DEF PrintIInv

(* The argument of a conversion that is over is taken.                                *)
LEMMA ConvertedKeeps ==
    ASSUME PrintIInv, Converted
    PROVE  PrintIInv'
<1>1. /\ pc = "print" /\ pc' = "qprint" /\ va' = IF conv = Text THEN va ELSE Tail(va)
      /\ UNCHANGED <<uart_pc, str, sent, format, conv, width, todo, start>>
    BY DEF Converted, Printed, uartVars, call, pad
<1>2. PICK remaining : Left(remaining) BY Zenon DEF PrintIInv
<1>3. (Converting <=> conv # Text) /\ ~ Converting' BY <1>1 DEF Converting
<1>4. va' = remaining[format] BY Zenon, <1>1, <1>2, <1>3 DEF Left
<1>5. Left(remaining)' BY Zenon, <1>1, <1>2, <1>3, <1>4 DEF Left
<1>6. Ranges' BY <1>1 DEF PrintIInv, Ranges
<1>7. Spelling' /\ Printing' BY <1>1 DEF Spelling, Printing
<1> QED BY Zenon, <1>5, <1>6, <1>7 DEF PrintIInv

(* The next call, or the end of main, when the format and the arguments are used up.  *)
LEMMA ReturningKeeps ==
    ASSUME PrintIInv, MainReturns
    PROVE  PrintIInv'
<1>1. /\ pc = "qprint" /\ format = <<>> /\ pc' = "exit"
      /\ UNCHANGED <<str, sent, format, va, conv, width, todo, start>>
    BY DEF MainReturns, uart_wait_tx_done, pad
<1>2. PICK remaining : Left(remaining) BY Zenon DEF PrintIInv
<1>3. ~ Converting /\ ~ Converting' BY <1>1 DEF Converting
<1>4. va = <<>> BY Zenon, <1>1, <1>2, <1>3 DEF Left, Fit
<1>5. (\E left : Left(left))' BY Zenon, <1>1, <1>3, LeftSame DEF PrintIInv
<1>6. Ranges' BY <1>1, <1>4 DEF PrintIInv, Ranges
<1>7. Spelling' /\ Printing' BY <1>1 DEF Spelling, Printing
<1> QED BY Zenon, <1>5, <1>6, <1>7 DEF PrintIInv

(* A string or a character is padded to its width.                                    *)
LEMMA StringKeeps ==
    ASSUME UartIInv, PrintIInv, String
    PROVE  PrintIInv'
<1>1. /\ pc = "qprints" /\ pc' = "print" /\ todo' = qprints(Spoken(Head(va)), width)
      /\ UNCHANGED <<uart_pc, str, sent, format, va, conv, width, zero, right, u, s, start>>
    BY DEF String, Spoken, uartVars, call, pad
<1>2. /\ conv \in {Letters.c, Letters.s} /\ uart_pc = "idle" /\ start = Len(sent)
      /\ width \in Int /\ sent \in Seq(Int)
    BY <1>1 DEF PrintIInv, Ranges
<1>3. str = <<>> BY Zenon, <1>2, IdleIsEmpty
<1>4. conv \in Takers /\ conv # Text BY Zenon, <1>2, LettersDiffer
<1>5. Converting /\ Converting' BY <1>1, <1>4 DEF Converting
<1>6. PICK remaining : Left(remaining) BY Zenon DEF PrintIInv
<1>7. Fits(conv, Head(va)) BY Zenon, <1>5, <1>6 DEF Left
<1>8. PICK arg : arg = Head(va) OBVIOUS
<1>9. Spoken(Head(va)) \in Seq(Int)
    <2>1. CASE conv = Letters.s
        <3>1. arg \in Seq(1 .. 255) \union {NULL} BY Zenon, <1>7, <1>8, <2>1 DEF Fits
        <3>2. Null \in Seq(Int) BY SMT DEF Null
        <3>3. arg \in Seq(1 .. 255) => arg \in Seq(Int) BY Zenon, CharactersAre
        <3>4. Spoken(arg) = IF arg = NULL THEN Null ELSE arg BY Zenon, <2>1 DEF Spoken
        <3> QED BY Zenon, <1>8, <3>1, <3>2, <3>3, <3>4
    <2>2. CASE conv # Letters.s
        <3>1. arg \in Words BY Zenon, <1>7, <1>8, <2>2 DEF Fits
        <3>2. PICK x \in Nat : x = arg[2] BY Zenon, <3>1, WordIs DEF IsHalf
        <3>3. PICK y \in Int : y = x % 256 BY SMT
        <3>4. <<y>> \in Seq(Int) /\ <<>> \in Seq(Int) BY SMT
        <3>5. arg[2] % 256 = y BY SMT, <3>2, <3>3
        <3>6. Spoken(arg) = IF arg[2] % 256 = 0 THEN <<>> ELSE <<arg[2] % 256>>
            BY Zenon, <2>2 DEF Spoken
        <3>7. Spoken(arg) = IF y = 0 THEN <<>> ELSE <<y>> BY SMT, <3>5, <3>6
        <3> QED BY Zenon, <1>8, <3>4, <3>7
    <2> QED BY Zenon, <2>1, <2>2
<1>10. PICK chars \in Seq(Int) : chars = qprints(Spoken(Head(va)), width)
    BY Zenon, <1>2, <1>9, QprintsChars
<1>11. todo' = chars BY Zenon, <1>1, <1>10
<1>12. Ranges' BY <1>1, <1>4, <1>11 DEF PrintIInv, Ranges
<1>13. (\E left : Left(left))' BY Zenon, <1>1, <1>5, LeftSame DEF PrintIInv
<1>14. Spelling' BY <1>1 DEF Spelling
<1>15. Output' = chars
    <2>1. SubSeq(sent, Len(sent) + 1, Len(sent)) \o <<>> \o chars = chars
        BY Zenon, <1>2, NothingYet
    <2> QED BY Zenon, <1>1, <1>2, <1>3, <1>11, <2>1 DEF Output
<1>16. Prints(chars, arg) BY Zenon, <1>2, <1>8, <1>9, <1>10, StringReads
<1>17. Prints(chars, arg)' BY Zenon, <1>1, <1>4, <1>16, PrintsSame
<1>18. Head(va)' = arg BY Zenon, <1>1, <1>8
<1>19. Printing' BY Zenon, <1>15, <1>17, <1>18 DEF Printing
<1> QED BY Zenon, <1>12, <1>13, <1>14, <1>19 DEF PrintIInv

(* The absolute value, and no digit of it yet but for zero.                           *)
LEMMA AbsoluteKeeps ==
    ASSUME PrintIInv, Absolute
    PROVE  PrintIInv'
<1>1. /\ pc = "qprinti" /\ pc' = "digits" /\ u' = (IF neg THEN Negated[u] ELSE u)
      /\ s' = (IF u = ZeroWord THEN <<48>> ELSE <<>>)
      /\ UNCHANGED <<uart_pc, str, sent, format, va, conv, width, todo, start>>
    BY DEF Absolute, uartVars, call, pad
<1>2. conv \in Numbers /\ u = Head(va) /\ uart_pc = "idle" /\ start = Len(sent)
    BY <1>1 DEF PrintIInv, Ranges
<1>3. Converting /\ Converting' BY <1>1 DEF Converting
<1>4. PICK remaining : Left(remaining) BY Zenon DEF PrintIInv
<1>5. PICK n \in Words : n = u
    <2>1. Fits(conv, Head(va)) BY Zenon, <1>3, <1>4 DEF Left
    <2>2. conv # Letters.s BY Zenon, <1>2, LettersDiffer
    <2> QED BY Zenon, <1>2, <2>1, <2>2 DEF Fits
<1>6. PICK w \in Words : w = u' /\ w = Magnitude /\ (w = ZeroWord => n = ZeroWord)
                         /\ (n = ZeroWord => w = ZeroWord)
    <2>1. CASE neg
        <3>1. n # ZeroWord BY Zenon, <1>2, <1>5, <2>1, ZeroIs DEF neg
        <3>2. Negated[n] \in Words /\ Negated[n] # ZeroWord BY Zenon, <3>1, NegatedNotZero
        <3> QED BY Zenon, <1>1, <1>2, <1>5, <2>1, <3>1, <3>2 DEF Magnitude
    <2>2. CASE ~ neg BY Zenon, <1>1, <1>2, <1>5, <2>2 DEF Magnitude
    <2> QED BY Zenon, <2>1, <2>2
<1>7. PICK b \in {10, 16} : b = Base BY Zenon DEF Base
<1>8. PICK t \in Seq(Int) : /\ t = s' /\ (\A k \in 1 .. Len(t) : t[k] \in DigitChars)
                            /\ Spells(b, t, w, w)
                            /\ w = ZeroWord => t # <<>> /\ t = <<48>>
    <2>1. <<>> \in Seq(Int) /\ Len(<<>>) = 0 /\ \A k \in 1 .. 0 : FALSE BY SMT
    <2>2. CASE n = ZeroWord
        <3>1. PICK x \in Int : x = 48 BY SMT
        <3>2. PICK t : t = <<x>> OBVIOUS
        <3>3. t \in Seq(Int) /\ Len(t) = 1 /\ t[1] = x BY Zenon, <3>2, OneIs
        <3>4. t # <<>>
            <4>1. 1 # 0 BY SMT
            <4>2. Len(<<>>) = 0 BY SMT
            <4> QED BY Zenon, <3>3, <4>1, <4>2
        <3>5. t = <<x>> \o <<>> BY SMT, <3>1, <3>2
        <3>6. w = With(b, w, x) BY Zenon, <1>6, <2>2, <3>1, ZerosAdd
        <3>7. Spells(b, <<x>> \o <<>>, w, w) BY Zenon, <2>1, <3>6, SpellsNone, SpellsMore
        <3>8. \A k \in 1 .. Len(t) : k = 1 BY SMT, <3>3
        <3>9. \A k \in 1 .. Len(t) : t[k] \in DigitChars BY Zenon, <3>1, <3>3, <3>8, NoSigns
        <3> QED BY Zenon, <1>1, <1>5, <2>2, <3>1, <3>2, <3>3, <3>4, <3>5, <3>7, <3>9
    <2>3. CASE n # ZeroWord
        <3>1. s' = <<>> BY Zenon, <1>1, <1>5, <2>3
        <3> QED BY Zenon, <1>6, <2>1, <2>3, <3>1, SpellsNone
    <2> QED BY Zenon, <2>2, <2>3
<1>9. UNCHANGED <<DigitChars, Base, Magnitude>>
    <2>1. DigitChars' = DigitChars BY SMT, <1>1 DEF DigitChars
    <2>2. Base' = Base BY Zenon, <1>1 DEF Base, IsHex
    <2>3. Magnitude' = Magnitude BY Zenon, <1>1 DEF Magnitude, neg
    <2> QED BY Zenon, <2>1, <2>2, <2>3
<1>10. Spelling' BY Zenon, <1>6, <1>7, <1>8, <1>9 DEF Spelling
<1>11. Ranges' BY <1>1, <1>2 DEF PrintIInv, Ranges
<1>12. (\E left : Left(left))' BY Zenon, <1>1, <1>3, LeftSame DEF PrintIInv
<1>13. Printing' BY <1>1 DEF Printing
<1> QED BY Zenon, <1>10, <1>11, <1>12, <1>13 DEF PrintIInv

(* A digit more, in front of those that are there.                                    *)
LEMMA DigitKeeps ==
    ASSUME PrintIInv, Digit
    PROVE  PrintIInv'
<1>1. /\ pc = "digits" /\ pc' = "digits" /\ u # ZeroWord
      /\ s' = <<DigitOf(u)>> \o s /\ u' = Shorter(u)
      /\ UNCHANGED <<uart_pc, str, sent, format, va, conv, width, todo, start>>
    BY DEF Digit, uartVars, call, pad
<1>2. /\ u \in Words /\ s \in Seq(Int) /\ \A k \in 1 .. Len(s) : s[k] \in DigitChars
      /\ Spells(Base, s, u, Magnitude)
    BY Zenon, <1>1 DEF PrintIInv, Spelling
<1>3. PICK n \in Words, q \in Words, ch \in DigitChars :
        /\ n = u /\ q = Shorter(n) /\ ch = DigitOf(n) /\ n = With(Base, q, ch)
        /\ q = ZeroWord /\ ch = 48 => n = ZeroWord
    BY Zenon, <1>2, DigitStep
<1>4. PICK x \in Int : x = ch
    <2>1. DigitChars \in {(48 .. 57) \union (97 .. 102), (48 .. 57) \union (65 .. 70), 48 .. 57}
        <3>1. (48 .. 57) \union {} = 48 .. 57 BY SMT
        <3> QED BY Zenon, <3>1 DEF DigitChars
    <2>2. ch \in Int BY SMT, <2>1
    <2> QED BY Zenon, <2>2
<1>5. PICK t \in Seq(Int), l \in Nat : t = s /\ l = Len(t)
    <2>1. PICK t \in Seq(Int) : t = s BY Zenon, <1>2
    <2>2. Len(t) \in Nat BY <2>1
    <2> QED BY Zenon, <2>1, <2>2
<1>6. PICK b, m : b = Base /\ m = Magnitude OBVIOUS
<1>7. Spells(b, <<x>> \o t, q, m)
    <2>1. Spells(b, t, n, m) BY Zenon, <1>2, <1>3, <1>5, <1>6
    <2>2. n = With(b, q, x) BY Zenon, <1>3, <1>4, <1>5, <1>6
    <2> QED BY Zenon, <2>1, <2>2, SpellsMore
<1>8. PICK one \in Seq(Int), o \in Nat : one = <<x>> /\ Len(one) = o /\ one[1] = x /\ o = 1
    <2>1. PICK one : one = <<x>> OBVIOUS
    <2>2. one \in Seq(Int) /\ Len(one) = 1 /\ one[1] = x BY Zenon, <2>1, OneIs
    <2>3. 1 \in Nat BY SMT
    <2> QED BY Zenon, <2>1, <2>2, <2>3
<1>9. PICK longer \in Seq(Int) : longer = one \o t /\ Joined(longer, one, o, t, l)
    <2>1. Sequel(one, o, t, l) BY Zenon, <1>5, <1>6, <1>8 DEF Sequel
    <2>2. Joined(one \o t, one, o, t, l) BY Zenon, <1>5, <1>6, <1>8, <2>1, JoinedIs
    <2> QED BY Zenon, <2>2 DEF Joined
<1>10. longer = s' /\ q = u' BY Zenon, <1>1, <1>3, <1>4, <1>5, <1>6, <1>8, <1>9
<1>11. Len(longer) = o + l /\ longer[1] = x /\ \A k \in 1 .. l : longer[o + k] = t[k]
    <2>1. 1 \in 1 .. o BY SMT, <1>8
    <2> QED BY Zenon, <1>8, <1>9, <2>1 DEF Joined
<1>12. ASSUME NEW k \in 1 .. Len(longer) PROVE longer[k] \in DigitChars
    <2>1. CASE k = 1 BY Zenon, <1>3, <1>4, <1>11, <2>1
    <2>2. CASE k # 1
        <3>1. PICK j \in 1 .. l : k = o + j
            <4>1. k - 1 \in 1 .. l /\ k = o + (k - 1) BY SMT, <1>8, <1>11, <2>2
            <4> QED BY Zenon, <4>1
        <3> QED BY Zenon, <1>2, <1>5, <1>6, <1>11, <3>1
    <2> QED BY Zenon, <2>1, <2>2
<1>13. q = ZeroWord => longer # <<>> /\ Head(longer) # 48
    <2>1. longer # <<>> /\ Head(longer) = longer[1] BY SMT, <1>8, <1>11
    <2> QED BY Zenon, <1>1, <1>3, <1>4, <1>11, <2>1
<1>14. UNCHANGED <<DigitChars, Base, Magnitude>>
    <2>1. DigitChars' = DigitChars BY SMT, <1>1 DEF DigitChars
    <2>2. Base' = Base BY Zenon, <1>1 DEF Base, IsHex
    <2>3. Magnitude' = Magnitude BY Zenon, <1>1 DEF Magnitude, neg
    <2> QED BY Zenon, <2>1, <2>2, <2>3
<1>15. Spells(b, longer, q, m) BY Zenon, <1>7, <1>8, <1>9
<1>16. Spelling' BY Zenon, <1>5, <1>6, <1>10, <1>12, <1>13, <1>14, <1>15 DEF Spelling
<1>17. Ranges' BY <1>1 DEF PrintIInv, Ranges
<1>18. Converting' = Converting BY <1>1 DEF Converting
<1>19. (\E left : Left(left))' BY Zenon, <1>1, <1>18, LeftSame DEF PrintIInv
<1>20. Printing' BY <1>1 DEF Printing
<1> QED BY Zenon, <1>16, <1>17, <1>19, <1>20 DEF PrintIInv

(* The digits are complete: they get their sign and their zeros.                      *)
LEMMA NumberKeeps ==
    ASSUME UartIInv, PrintIInv, Number
    PROVE  PrintIInv'
<1>1. /\ pc = "digits" /\ pc' = "print" /\ u = ZeroWord /\ todo' = Signed(s)
      /\ UNCHANGED <<uart_pc, str, sent, format, va, conv, width, zero, right, start>>
    BY DEF Number, uartVars, call, pad
<1>2. /\ conv \in Numbers /\ uart_pc = "idle" /\ start = Len(sent)
      /\ width \in Int /\ sent \in Seq(Int)
    BY <1>1 DEF PrintIInv, Ranges
<1>3. str = <<>> BY Zenon, <1>2, IdleIsEmpty
<1>4. conv \in Takers /\ conv # Text BY Zenon, <1>2, LettersDiffer
<1>5. Converting /\ Converting' BY <1>1, <1>4 DEF Converting
<1>6. PICK t \in Seq(Int) : t = s /\ Digits(t)
    BY Zenon, <1>1 DEF PrintIInv, Spelling, Digits
<1>7. PICK chars \in Seq(Int) : chars = Signed(t)
    <2>1. t \in Seq(Int) BY Zenon, <1>6
    <2>2. Signed(t) \in Seq(Int) BY Zenon, <1>2, <2>1, SignedChars
    <2> QED BY Zenon, <2>2
<1>8. PICK arg : arg = Head(va) OBVIOUS
<1>9. todo' = chars BY Zenon, <1>1, <1>6, <1>7
<1>10. Ranges' BY <1>1, <1>4, <1>9 DEF PrintIInv, Ranges
<1>11. (\E left : Left(left))' BY Zenon, <1>1, <1>5, LeftSame DEF PrintIInv
<1>12. Spelling' BY <1>1 DEF Spelling
<1>13. Output' = chars
    <2>1. SubSeq(sent, Len(sent) + 1, Len(sent)) \o <<>> \o chars = chars
        BY Zenon, <1>2, NothingYet
    <2> QED BY Zenon, <1>1, <1>2, <1>3, <1>9, <2>1 DEF Output
<1>14. Head(va)' = arg BY Zenon, <1>1, <1>8
<1>15. CASE ~ (zero /\ right)
    <2>1. Prints(chars, arg) BY Zenon, <1>2, <1>6, <1>7, <1>8, <1>15, NumberReads
    <2>2. Prints(chars, arg)' BY Zenon, <1>1, <1>4, <2>1, PrintsSame
    <2> QED BY Zenon, <1>10, <1>11, <1>12, <1>13, <1>14, <2>2 DEF PrintIInv, Printing
<1>16. CASE zero /\ right
    <2>1. (zero /\ right)' BY SMT, <1>1, <1>16
    <2> QED BY Zenon, <1>10, <1>11, <1>12, <2>1 DEF PrintIInv, Printing
<1> QED BY Zenon, <1>15, <1>16
-----------------------------------------------------------------------------------
(* Every step of the program and of the UART keeps the invariant.                     *)
LEMMA NextKeepsPrintIInv == UartIInv /\ PrintIInv /\ [PrintNext]_vars => PrintIInv'
<1> SUFFICES ASSUME UartIInv, PrintIInv, [PrintNext]_vars PROVE PrintIInv' OBVIOUS
<1>1. CASE UNCHANGED vars
    <2>1. UNCHANGED printVars /\ UNCHANGED <<str, sent>> /\ uart_pc' = uart_pc
        BY <1>1 DEF vars, uartVars, call
    <2> QED BY Zenon, <2>1, QuietKeeps
<1>2. CASE Boot BY Zenon, <1>2, BootKeepsPrint
<1>3. CASE Character BY Zenon, <1>3, CharacterKeeps
<1>4. CASE Conversion BY Zenon, <1>4, ConversionKeeps
<1>5. CASE String BY Zenon, <1>5, StringKeeps
<1>6. CASE Absolute BY Zenon, <1>6, AbsoluteKeeps
<1>7. CASE Digit BY Zenon, <1>7, DigitKeeps
<1>8. CASE Number BY Zenon, <1>8, NumberKeeps
<1>9. CASE putchar BY Zenon, <1>9, PuttingKeeps
<1>10. CASE Converted BY Zenon, <1>10, ConvertedKeeps
<1>11. CASE MainReturns BY Zenon, <1>11, ReturningKeeps
<1>12. CASE UartCall(clk_counter) /\ UNCHANGED printVars
    <2>1. CASE Load BY Zenon, <1>12, <2>1, SendingKeeps
    <2>2. CASE Poll \/ TxDone \/ WriteCfg(clk_counter)
        <3>1. uart_pc # "idle" /\ UNCHANGED <<str, sent>>
            BY <2>2 DEF Poll, TxDone, WriteCfg, CfgOrder
        <3> QED BY Zenon, <1>12, <3>1, QuietKeeps
    <2> QED BY Zenon, <1>12, <2>1, <2>2 DEF UartCall
<1>13. CASE Transmit /\ UNCHANGED printVars
    <2>1. UNCHANGED <<str, sent>> /\ uart_pc' = uart_pc
        BY <1>13 DEF Transmit, TXStart, TXFinished, call
    <2> QED BY Zenon, <1>13, <2>1, QuietKeeps
<1> QED BY <1>1, <1>2, <1>3, <1>4, <1>5, <1>6, <1>7, <1>8, <1>9, <1>10, <1>11, <1>12, <1>13
        DEF PrintNext, Program

(* When a conversion is over, its output is what was sent.                            *)
LEMMA PrintedIs == UartIInv /\ PrintIInv => PrintsArguments
<1> SUFFICES ASSUME UartIInv, PrintIInv PROVE PrintsArguments OBVIOUS
<1>1. ASSUME Printed, conv # Text, ~ (zero /\ right)
      PROVE  Prints(SubSeq(sent, start + 1, Len(sent)), Head(va))
    <2>1. pc = "print" /\ todo = <<>> /\ str = <<>> BY <1>1, IdleIsEmpty DEF Printed
    <2>2. PICK chars, arg : chars = Output /\ arg = Head(va) /\ Prints(chars, arg)
        BY Zenon, <1>1, <2>1 DEF PrintIInv, Printing
    <2>3. Output = SubSeq(sent, start + 1, Len(sent))
        <3>1. sent \in Seq(Int) /\ start \in Nat /\ start <= Len(sent)
            BY DEF PrintIInv, Ranges
        <3>2. SubSeq(sent, start + 1, Len(sent)) \in Seq(Int) BY SMT, <3>1, PartOf
        <3>3. PICK x \in Seq(Int) : x = SubSeq(sent, start + 1, Len(sent)) BY Zenon, <3>2
        <3>4. x \o <<>> \o <<>> = x OBVIOUS
        <3> QED BY Zenon, <2>1, <3>3, <3>4 DEF Output
    <2> QED BY Zenon, <2>2, <2>3
<1>2. Exited => va = <<>> BY DEF PrintIInv, Ranges, Exited
<1> QED BY Zenon, <1>1, <1>2 DEF PrintsArguments

(* What a conversion has printed, when it is over, is its argument: a number in its   *)

(* base, with its sign, and at most the zeros its width asks for; a string as it is;  *)
(* and no more padding than the width asks for.                                       *)
THEOREM ArgumentsPrinted == PrintSpec => []PrintsArguments
<1>1. PrintInit => PrintIInv BY InitPrintIInv
<1>2. UartIInv /\ PrintIInv /\ [PrintNext]_vars => PrintIInv' BY NextKeepsPrintIInv
<1>3. UartIInv /\ PrintIInv => PrintsArguments BY PrintedIs
<1> QED BY <1>1, <1>2, <1>3, UartIsConsistent, PTL DEF PrintSpec
====================================================================================
