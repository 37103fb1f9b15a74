SPECIFICATION Spec
CONSTANTS
    Runs = {r1, r2}
    NReports = 2
    NSources = 2
    NVersions = 2
    Backend <- TwoBackends
    Right <- LastCaseBroken
    Exclusive = TRUE
    Kills = TRUE
    Edits <- EditAndRevert
    EditsDuringRuns = TRUE
    CheckDuringRuns = TRUE
SYMMETRY RunSymmetry
INVARIANTS
    TreeIsOwned
    AcceptedPassed
    NoStaleAcceptance
    NoFalseAlarm
PROPERTIES
    ImplementsStore
CHECK_DEADLOCK FALSE
