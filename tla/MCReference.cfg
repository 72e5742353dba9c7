SPECIFICATION MCSpec
CONSTANTS
    num_tests = 10
    ByteBits = 3
    HashRates <- MCHashRates
    Chunks = {0, 1, 2, 3, 5, 6, 8, 15, 18}
    MaxInput = 19
    MaxOutput = 18
    LaneBits = 6
    DuplexRates = {2, 5, 6, 7}
    InLens = {0, 1, 2, 3, 4, 5, 6}
    OutLens = {0, 4}
    MaxCalls = 2
    MDBytes <- MCMDBytes
    HashBitLens <- MCHashBitLens
    Inputs <- MCInputs
    DuplexRhoMax <- MCDuplexRhoMax
    Unaligned <- MCUnaligned
    SeedBytes = 5
    Turns = 2
    Lines = 2
INVARIANTS
    HardwareIsReference SoftwareIsReference ByteOrder RecordedVectors
    AbsorbsInput PadsInput OutputIsStream
    BlocksTellInputs
    AnswersMatch SuccessMeansComplete
PROPERTY SqueezingIsFinal
CHECK_DEADLOCK FALSE
