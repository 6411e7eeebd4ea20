\* Every inventory of at most four rows of the instance, under three policy files.
CONSTANTS
    Name = {0, 1, 2, 3, 4}
    FlashName = 0
    ID = {1, 2, 3}
    LongID = {3}
    sda = sda
    sdb = sdb
    sdc = sdc
    Device <- MCDevice
    NoDevice = NoDevice
    Ancestors <- MCAncestors
    AssignedRows <- MCAssignedRows
    UnassignedRows <- MCUnassignedRows
    Policies <- MCPolicies
    MaxRows = 4
SPECIFICATION InventorySpec
INVARIANTS OnePerDisk AllOrNothing OrderIrrelevant
