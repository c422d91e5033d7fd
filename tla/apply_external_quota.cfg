SPECIFICATION Spec
CONSTANTS
    N = 2
    D = 2
    Volumes = {"v1", "usb"}
    Canonical = {"v1"}
    Descs = {"", "old", "new"}
    NoDesc = ""
    Omitted = "omitted"
    Finite = {1024}
    Principals = {"alice", "bob"}
    Known = {"alice"}
    Administrators = "administrators"
    NfsRules = {"none", "r1"}
    NoRules = "none"
    BadRules = "kerberos"
    FreshAcls <- MCFreshAcls
    Documents <- ExposedDocuments
    StartStates <- ExposedStates
    Edits <- NoEdits
    MaxEdits = 0
    MaxFaults = 0
INVARIANT
    ScalarsReachPlan
