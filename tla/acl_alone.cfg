SPECIFICATION PersistentSpec
CONSTANTS
    Ids <- MCIds
    Category <- MCCategory
    Administrators = "administrators"
    AdminFlagged = {"synadmin"}
    Inventory <- MCInventory
    Clients = {"c1"}
    Observed = "c1"
    Requests <- OneRequests
    StartAcls <- MCStartAcls
    MaxEdits = 1
    MaxFaults = 2
INVARIANTS
    TypeOK
    EarlyExitSentNothing
    PartialReportIsTrue
    UndisturbedRunSucceeds
PROPERTIES
    Terminates
    RerunsConverge
