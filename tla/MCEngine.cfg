SPECIFICATION ESpec
CONSTANTS
    a = a
    v1 = v1
    v2 = v2
    m1 = m1
    Threads = {p, q}
    Tags = {1, 2, 3}
    Blocks = {b1, b2}
    NoTag = NoTag
    Mapped = Mapped
    Inputs <- MCInputs
    Malformed = {}
    MaxBatch = 1
    Params = {2}
    Snapshots <- MCSnapshots
    MaxCalls = 6
    Names = {n1, n2}
    Paths = {f}
    NoFile = NoFile
INVARIANTS
    RegistrySound
    NoOrphanBlocks
PROPERTIES
    RegistryChangeIsolated
    SavesAndLoadsExact
    EveryCallReturns
