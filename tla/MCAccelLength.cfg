SPECIFICATION JobSpec
CONSTANTS
    in = in
    unknown = unknown
    ByteLanes <- MCByteLanes
    InLane <- MCInLane
    ZeroLane <- MCZeroLane
    X <- MCX
    InputBlocks <- MCInputBlocks
    Lengths <- MCLengths
    NoBlock = none
    RateLanes = 21
    OutLanes = 8
    Rounds = 24
    Depth = 42
    MaxBlocks = 1
INVARIANT EveryByteOfTheHash
