SPECIFICATION PrintSpec
CONSTANTS
    Fifo16 = 2
    Fifo64 = 3
    UART_FIFO_DEPTH = 3
    clk_counter = 1
    Calls <- MCCalls
INVARIANTS
    NothingLost
    PrintsArguments
    TxDoneMeansSent
PROPERTY
    ProgramEnds
CHECK_DEADLOCK FALSE
