SPECIFICATION Spec
CONSTANTS
    LimbCount = 3
    Radix = 4
    TopRadix = 2
    Q = 61
    Order <- SmallOrder
    Complement <- SmallComplement
    Inputs <- OperandPairs
INVARIANTS
    CircuitInv
    Sound
    Complete
    HintsAreForced
CHECK_DEADLOCK FALSE
