\* Two failures and two changes of what the guest reports.
SPECIFICATION FairSpec
CONSTANTS
    d1 = d1  d2 = d2  h1 = h1  la = la  lb = lb
    Sensor = {d1, d2, h1}
    Label = {la, lb}
    Absent = Absent  Unlabelled = Unlabelled  Nil = Nil  Error = Error
    MaxFaults = 2
    MaxGuestChanges = 2
    GuestTopologies <- MCGuestTopologies
INVARIANTS TopologyApplied CacheCurrent SubscribersCurrent
PROPERTIES SaveIsDurable EventsAreComplete Converges
