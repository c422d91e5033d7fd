SPECIFICATION Spec
CONSTANTS
    N = 2
    D = 1
    Volumes = {"v1", "usb"}
    Canonical = {"v1"}
    Descs = {"", "a", "b"}
    NoDesc = ""
    Omitted = "omitted"
    Finite = {4, 6, 8, 12}
    Principals = {"alice"}
    Known = {"alice"}
    Administrators = "administrators"
    NfsRules = {"none", "r1"}
    NoRules = "none"
    BadRules = "kerberos"
    Imports = {p, q}
    Jobs <- WritingJobs
    Hosts = {"nas1", "nas2"}
    NoHost = "nohost"
    QUOTA_MIB_PER_GIB = 4
    MAX_QUOTA_API_MIB = 11
    StartFiles <- OneFile
    StartLives <- OneLives
    FileEdits <- None
    LiveEdits <- None
    MaxEdits = 0
    MaxFaults = 0
SYMMETRY Interchangeable
CHECK_DEADLOCK FALSE
PROPERTY
    OthersPreserved
