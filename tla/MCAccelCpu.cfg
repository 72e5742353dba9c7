SPECIFICATION TopSpec
CONSTANTS
    cpu = cpu
    other = other
    unknown = unknown
    ByteLanes <- MCByteLanes
    CfgBytes <- MCCfgBytes
    InLane <- MCInLane
    ZeroLane <- MCZeroLane
    X <- MCX
    Requests <- MCRequests
    FreeRequests <- MCFreeRequests
    NoBlock = none
    RateLanes = 2
    OutLanes = 2
    Rounds = 2
    Depth = 4
    MaxBlocks = 1
    CTRL_WORDS = 4
    STAT_WORDS = 4
    CFG_ADDR_BITS = 3
INVARIANTS FsmHonoursProtocol IsolatedJob
PROPERTIES MemoryHeldByJob ConfigClosedAfterDone
