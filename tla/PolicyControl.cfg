CONSTANTS
    Disk = {d1, d2}
    Client = {c1, c2}
    Ops <- AllKinds
SPECIFICATION Spec
SYMMETRY DisksAndClients
INVARIANT FileInForce
PROPERTIES ImplementsRegister DurableUnlessSyncFailed
