---------------------------------- MODULE MCPrintf ----------------------------------
(* Printing over a small FIFO: every conversion with and without a width and flags,  *)
(* of arguments at the edges of 32 bits; and uart_send, for a run of its own.        *)
EXTENDS QPrintf

MCWords ==
    {ZeroWord, Word(9), Word(10), Word(2748), <<18838, 722>>,       \* 1234567890
     <<Half \div 2, 0>>, <<Half - 1, Half - 1>>}
MCFlags == {<<>>, <<48, 50>>, <<45, 49, 50>>, <<48, 49, 50>>, <<49, 50>>}
MCStrings == {NULL, <<>>, <<97, 98, 99>>}
Printf(f, a) == [function |-> "printf", format |-> f, args |-> a]
MCCalls ==
    {Printf(<<Percent>> \o flags \o <<letter>>, <<arg>>) :
         flags \in MCFlags, letter \in Numbers, arg \in MCWords}
    \union {Printf(<<Percent>> \o flags \o <<Letters.s>>, <<arg>>) :
         flags \in MCFlags, arg \in MCStrings}
    \union {Printf(<<Percent>> \o flags \o <<Letters.c>>, <<arg>>) :
         flags \in MCFlags, arg \in {ZeroWord, Word(97)}}
    \union {Printf(<<97, Percent, Percent, Percent, 100, Percent, 122, 98, Percent, 115, Percent>>,
                   <<Word(42), <<99, 100>>>>),
            [function |-> "puts", format |-> <<97, Percent>>, args |-> <<>>]}
------------------------------------------------------------------------------------
(* uart_send of a string longer than the FIFO, with or without uart_set_cfg.         *)
MCString == [k \in 1 .. Fifo64 + 1 |-> 96 + k]
SendInit == PrintInit
SendProgram ==
    \/ /\ pc = "boot" /\ pc' = "send"
       /\ uart_set_cfg \/ UNCHANGED uartVars
    \/ /\ pc = "send" /\ pc' = "exit" /\ uart_send(MCString)
    \/ UartCall(clk_counter) /\ UNCHANGED pc
SendNext ==
    /\ SendProgram \/ (Transmit /\ UNCHANGED pc)
    /\ UNCHANGED <<format, va, conv, width, pad, u, s, todo, count, start>>
SendSpec == SendInit /\ [][SendNext]_vars
====================================================================================
