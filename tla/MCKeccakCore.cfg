SPECIFICATION FairSpec
CONSTANTS
    z = z
    a = a
    InLane <- MCInLane
    ZeroLane <- MCZeroLane
    ByteLanes = {0}
    NoBlock = none
    RateLanes = 2
    OutLanes = 2
    Rounds = 4
    MaxBlocks = 3
INVARIANTS TypeOK RoundSchedule EveryBlockAbsorbedOnce OutputOfFinishedState
PROPERTY BlockGetsPermuted
