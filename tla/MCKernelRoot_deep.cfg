SPECIFICATION RootSpec
CONSTANTS
    NDirectories = 4
    Levels = 3
INVARIANTS
    FindsRoot
CHECK_DEADLOCK FALSE
