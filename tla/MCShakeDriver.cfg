SPECIFICATION FairDriverSpec
CONSTANTS
    in = in
    pad1f = pad1f
    pad80 = pad80
    padzero = padzero
    unknown = unknown
    ByteLanes <- MCByteLanes
    CfgBytes <- MCByteLanes
    InLane <- MCInLane
    ZeroLane <- MCZeroLane
    X <- MCX
    InputByte <- MCInputByte
    Pad1F <- MCPad1F
    Pad80 <- MCPad80
    PadZero <- MCPadZero
    NoBlock = none
    RateLanes = 6
    OutLanes = 4
    Rounds = 6
    Depth = 12
    MaxBlocks = 1
    CTRL_WORDS = 4
    STAT_WORDS = 4
    CFG_ADDR_BITS = 3
    Gaps = {2, 3, 5}
    InLens = {0, 5, 46}
    OutLens = {1, 2, 17, 32}
INVARIANTS HashesPaddedInput MemoryGetsHash
PROPERTY DriverReturns
