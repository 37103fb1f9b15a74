SPECIFICATION Spec
CONSTANTS
    Runs = {r1}
    NReports = 1
    NSources = 1
    NVersions = 2
    Backend <- OneBackend
    Right <- AllRight
    Exclusive = TRUE
    Kills = FALSE
    Edits <- OneEdit
    EditsDuringRuns = TRUE
    CheckDuringRuns = FALSE
INVARIANTS
    RecordedSourcesWereTested
CHECK_DEADLOCK FALSE
