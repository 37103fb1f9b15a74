SPECIFICATION Spec
CONSTANTS
    Runs = {g1}
    Pipelines = {p1, p2}
    NCircuits = 1
    NVersions = 2
    Right <- AllRight
    Profile <- AllRight
    Kills = TRUE
    Edits <- OneEdit
    Exclusive = TRUE
    EditsDuringWork = TRUE
    CheckDuringPipelines = TRUE
CONSTRAINT NoThree
SYMMETRY ProcessSymmetry
INVARIANTS
    ProofInv
    AcceptedOfOneCeremony
    RecordedCircuitWasProved
    RecordedGenesisIsAboutIt
    ProofsGoStaleByEdits
    NoStaleProofs
    RejectionIsDue
    NoFalseRefusal
    OwnerHolds
CHECK_DEADLOCK FALSE
