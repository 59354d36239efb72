CONSTANTS
    RamEnd = 15
    RramStart = 24
    RramEnd = 47
    FlashBase = 64
    FlashEnd = 84
    WordSize = 2
    BlockAlign = 4
    BlockMax = 8
    ReadBuf = 4
    SetBuf = 8
    HeaderSize = 2
    FuseBits = 3
    Boots <- MCBoots
    Bases <- MCBases
    Targets <- MCTargets
    FileSizes <- MCFileSizes
    ZeroSizes <- MCZeroSizes
    Seconds <- MCSeconds
SPECIFICATION Spec
CHECK_DEADLOCK FALSE
INVARIANTS LoadedInPlace  OutsideUntouched NoFalseFailure
PROPERTIES FusesFollowImage
