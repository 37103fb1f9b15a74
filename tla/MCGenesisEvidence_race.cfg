SPECIFICATION Spec
CONSTANTS
    Runs = {r1, r2}
    NReports = 1
    NSources = 1
    NVersions = 2
    Backend <- OneBackend
    Right <- AllRight
    Exclusive = FALSE
    Kills = TRUE
    Edits <- OneEdit
    EditsDuringRuns = TRUE
    CheckDuringRuns = TRUE
SYMMETRY RunSymmetry
INVARIANTS
    EvidenceInv
    AcceptedIsOneRun
CHECK_DEADLOCK FALSE
