SPECIFICATION MCSpec
CONSTANTS
    PadByte = pad
    EndByte = end
    Unknown = unknown
    StateBytes = 8
    FixedBytes = {pad, end, unknown, shakePad, sha3Pad, cshakePad, sep128, sep256, cstm}
    Rate = 6
    DigestBytes = 4
    MaxMessage = 14
    MaxOutput = 14
    SHAKE128_RATE = 6
    SHAKE256_RATE = 4
    SHA3_256_RATE = 4
    SHA3_384_RATE = 3
    SHA3_512_RATE = 2
    ShakePad = shakePad
    Sha3Pad = sha3Pad
    CShakePad = cshakePad
    Sha3_256Bytes = 1
    Sha3_384Bytes = 2
    Sha3_512Bytes = 1
    SepBytes = 2
    SepByte <- MCSepByte
    sep128 = sep128
    sep256 = sep256
    cstm = cstm
    Functions = {"sha3_384"}
    MaxInput = 13
    MaxAsked = 13
    Parts = {"oneShot"}
INVARIANT StartsFromZero
CHECK_DEADLOCK FALSE
