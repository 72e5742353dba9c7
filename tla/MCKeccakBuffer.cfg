SPECIFICATION Spec
CONSTANTS
    Lane = {z, a}
    ZeroLane = z
    RateLanes = 4
    OutLanes = 3
INVARIANTS TypeOK FullMeansBlock BlockInOrder OutputInOrder
PROPERTY OutputUninterrupted
