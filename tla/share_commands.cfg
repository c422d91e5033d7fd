SPECIFICATION Spec
CONSTANTS
    Ids <- MCIds
    Category <- MCCategory
    Administrators = "administrators"
    AdminFlagged = {}
    Inventory <- MCInventory
    NfsClients <- MCNfsClients
    Width <- MCWidth
    Flags = {"ro", "rw"}
    PageSize = 2
    Rank <- MCRank
    Volumes = {"v1", "usb"}
    CanonicalVolume = {"v1"}
    Descs = {"new", "old"}
    Unavailable <- MCUnavailable
    FreshAcls <- MCFreshAcls
    Jobs <- MCJobs
    StartStates <- MCStartStates
    EditRules <- MCEditRules
    MaxEdits = 2
    MaxFaults = 1
CHECK_DEADLOCK FALSE
INVARIANTS
    TypeOK
    SuccessIsReal
    ReportIsTrue
    CalmRunsSucceed
PROPERTIES
    OneFamilyChanges
    Terminates
