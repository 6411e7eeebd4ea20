\* Two incarnations of a sensor, one writer, one reader, one labeller.
SPECIFICATION FairSpec
CONSTANTS
    Obj = {o1, o2}
    Writer = {w1}
    Reader = {r1}
    Labeller = {l1}
    Label = {la, lb}
    None = None
    Timeouts = {1, 2}
    MaxWrites = 2
    MaxTime = 2
INVARIANTS Lifetimes FreshOrFailsafe
PROPERTIES StableInside DropEnds
