SPECIFICATION RootSpec
CONSTANTS
    NDirectories = 4
    Levels = 3
INVARIANTS
    ShallowSearchIsExact
    FirstCandidateDecides
CHECK_DEADLOCK FALSE
