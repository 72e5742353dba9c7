SPECIFICATION SendSpec
CONSTANTS
    Fifo16 = 2
    Fifo64 = 4
    UART_FIFO_DEPTH = 4
    clk_counter = 1
    Calls <- MCCalls
INVARIANT NothingLost
CHECK_DEADLOCK FALSE
