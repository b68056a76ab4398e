SPECIFICATION Spec
CONSTANTS
    a = a
    b = b
    v1 = v1
    v2 = v2
    m1 = m1
    m2 = m2
    bad = bad
    Threads = {p, q}
    Tags = {c1, c2}
    Blocks = {b1, b2, b3}
    NoTag = NoTag
    Mapped = Mapped
    Inputs <- MCInputs
    Malformed <- MCMalformed
    MaxBatch = 2
    Params = {0, 2}
    Snapshots <- MCSnapshots
    MaxCalls = 3
SYMMETRY Symmetry
INVARIANTS
    TypeOK
    BlocksAccounted
    IndexAgrees
PROPERTIES
    ReadersStable
    CallsShrink
    ImplementsVectorStore
