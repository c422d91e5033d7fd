SPECIFICATION PersistentSpec
CONSTANTS
    N = 2
    D = 2
    Volumes = {"v1", "usb"}
    Canonical = {"v1"}
    Descs = {"", "old", "new"}
    NoDesc = ""
    Omitted = "omitted"
    Finite = {1024}
    Principals = {"alice", "bob"}
    Known = {"alice"}
    Administrators = "administrators"
    NfsRules = {"none", "r1"}
    NoRules = "none"
    BadRules = "kerberos"
    FreshAcls <- MCFreshAcls
    Documents <- FaultDocuments
    StartStates <- FaultStates
    Edits <- FaultEdits
    MaxEdits = 1
    MaxFaults = 2
INVARIANTS
    TypeOK
    EarlyExitWroteNothing
    ReportMatchesWork
    CleanMeansConverged
    RerunResumes
PROPERTIES
    Terminates
    RerunsConverge
