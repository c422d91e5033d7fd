SPECIFICATION Spec
CONSTANTS
    PageSize = 2
    Names <- MCNames
    Rank <- MCRank
    Volumes = {"v1", "v2"}
    Jobs <- MCJobs
    StartStates <- MCStartStates
    MaxEdits = 3
    MaxFaults = 1
CHECK_DEADLOCK FALSE
INVARIANTS
    TypeOK
    SuccessIsReal
    ExitTellsWork
    CalmRunsSucceed
PROPERTIES
    RemovesWhatItShowed
    Terminates
