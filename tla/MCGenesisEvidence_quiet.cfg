SPECIFICATION FairSpec
CONSTANTS
    Runs = {r1, r2}
    NReports = 1
    NSources = 2
    NVersions = 2
    Backend <- LastBackend
    Right <- AllRight
    Exclusive = FALSE
    Kills = FALSE
    Edits <- OneEdit
    EditsDuringRuns = FALSE
    CheckDuringRuns = FALSE
INVARIANTS
    SourcesRest
    RecordedSourcesWereTested
PROPERTIES
    EveryRunEnds
CHECK_DEADLOCK FALSE
