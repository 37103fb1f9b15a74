SPECIFICATION ProbeSpec
CONSTANTS
    LimbCount = 3
    Radix = 4
    TopRadix = 2
    ByteRadix = 2
    BytesPerLimb = 2
    EncodedSize = 6
    Lengths = {0, 5, 6, 7}
    Commands <- AllCommands
INVARIANTS
    ProbeInv
    CanonicalOnReturn
    NoCarryIsLost
    FoldsOnce
    AcceptsExactly
    AnswersExactly
PROPERTIES
    IsExact
    EveryCommandIsAnswered
CHECK_DEADLOCK FALSE
