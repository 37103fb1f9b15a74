SPECIFICATION FairSdkSpec
CONSTANTS
    Runs = {g1}
    Pipelines = {p1, p2}
    ClientRun = g1
    ClientPipeline = p1
    Alone = TRUE
    NCircuits = 2
    NVersions = 2
    Right <- LastBroken
    Profile <- FirstLarger
    Kills = TRUE
    Edits <- OneEdit
    Exclusive = TRUE
    EditsDuringWork = TRUE
    CheckDuringPipelines = FALSE
CONSTRAINT NoCrashTaken
INVARIANTS
    ResultIsOfTheCall
    VerifiedWhatWasProved
PROPERTIES
    CallsEnd
CHECK_DEADLOCK FALSE
