\* Three slots and four cards; two hardware changes and one failing command.
CONSTANTS
    PCI = {1, 2, 3}
    a = a
    b = b
    c = c
    d = d
    addr = addr
    NoCard = NoCard
    NoSAS = NoSAS
    Card <- MCCard
    SAS <- MCSAS
    Driver <- MCDriver
    Probed <- MCProbed
    MaxChanges = 2
    MaxFaults = 1
SPECIFICATION IdentitySpec
INVARIANT UniqueIdentities
PROPERTY RightCards
