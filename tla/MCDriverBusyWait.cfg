SPECIFICATION DriverSpec
CONSTANTS
    in = in
    pad1f = pad1f
    pad80 = pad80
    padzero = padzero
    unknown = unknown
    ByteLanes <- MCByteLanes
    CfgBytes <- MCByteLanes
    InLane <- MCInLane
    ZeroLane <- MCZeroLane
    X <- MCX
    InputByte <- MCInputByte
    Pad1F <- MCPad1F
    Pad80 <- MCPad80
    PadZero <- MCPadZero
    NoBlock = none
    RateLanes = 21
    OutLanes = 8
    Rounds = 24
    Depth = 42
    MaxBlocks = 1
    CTRL_WORDS = 4
    STAT_WORDS = 4
    CFG_ADDR_BITS = 3
    Gaps = {6}
    InLens = {8}
    OutLens = {16}
INVARIANT BusyWaitsForAccelerator
