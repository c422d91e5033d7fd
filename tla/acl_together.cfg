SPECIFICATION Spec
CONSTANTS
    Ids <- MCIds
    Category <- MCCategory
    Administrators = "administrators"
    AdminFlagged = {"synadmin", "administrators"}
    Inventory <- MCInventory
    Clients = {"c1", "c2"}
    Observed = "c1"
    Requests <- TwoRequests
    StartAcls <- OneStart
    MaxEdits = 0
    MaxFaults = 1
INVARIANT
    SuccessIsReal
PROPERTIES
    AdministratorsPreserved
    ReplacesSerially
