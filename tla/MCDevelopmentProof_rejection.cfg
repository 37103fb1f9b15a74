SPECIFICATION Spec
CONSTANTS
    Runs = {}
    Pipelines = {p1, p2}
    NCircuits = 1
    NVersions = 1
    Right <- AllRight
    Profile <- AllRight
    Kills = FALSE
    Edits <- NoEdit
    Exclusive = TRUE
    EditsDuringWork = FALSE
    CheckDuringPipelines = TRUE
INVARIANTS
    RejectedForTheReason
CHECK_DEADLOCK FALSE
