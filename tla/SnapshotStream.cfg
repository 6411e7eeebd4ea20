\* Three connections in flight, a buffer of two frames, three snapshots.
SPECIFICATION FairSpec
CONSTANTS
    Conn = {c1, c2, c3}
    None = None
    BufferSize = 2
    MaxSnap = 3
INVARIANT HandsOverLatest
PROPERTIES PublishedInOrder EveryConnectionServed
