SPECIFICATION AuditSpec
CONSTANTS
    Digests = {d1}
    NoDigest = NoDigest
    MaxEvents = 8
    MaxBehind = 2
INVARIANTS
    AuditInv
    StreamIsContinuous
    ServesOnAuditedEvidence
PROPERTIES
    ImplementsGate
CHECK_DEADLOCK FALSE
