SPECIFICATION Spec
CONSTANTS
    CapacityBytes = 22
    kAlignment = 4
    SizeMod = 256
    Requests = {0, 3, 5}
    Tags = {t1, t2}
    NoTag = NoTag
INVARIANTS
    Partition
    Coalesced
    TotalsMatch
    RefusedOnlyWhenFull
PROPERTIES
    ImplementsArena
    ReleaseAllReturns
