SPECIFICATION MCSpec
CONSTANTS
    PadByte = pad
    EndByte = end
    Unknown = unknown
    StateBytes = 8
    FixedBytes = {pad, end, unknown, shakePad, sha3Pad, cshakePad, sep128, sep256, cstm}
    Rate = 6
    DigestBytes = 4
    MaxMessage = 14
    MaxOutput = 14
    SHAKE128_RATE = 6
    SHAKE256_RATE = 4
    SHA3_256_RATE = 4
    SHA3_384_RATE = 3
    SHA3_512_RATE = 2
    ShakePad = shakePad
    Sha3Pad = sha3Pad
    CShakePad = cshakePad
    Sha3_256Bytes = 1
    Sha3_384Bytes = 2
    Sha3_512Bytes = 1
    SepBytes = 2
    SepByte <- MCSepByte
    sep128 = sep128
    sep256 = sep256
    cstm = cstm
    Functions = {"shake128", "shake128_absorb", "shake256", "shake256_absorb", "cshake128_simple", "cshake256_simple", "sha3_256", "sha3_512"}
    MaxInput = 13
    MaxAsked = 13
    Parts = {"inc", "oneShot"}
INVARIANTS
    AbsorbsMessage HashesMessage OutputIsStream DigestIsPrefix
    StartsFromZero ReturnsStream
CHECK_DEADLOCK FALSE
