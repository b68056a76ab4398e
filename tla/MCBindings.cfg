SPECIFICATION BSpec
CONSTANTS
    a = a
    v1 = v1
    m1 = m1
    Threads = {p, q}
    Tags = {1, 2}
    Blocks = {b1}
    NoTag = NoTag
    Mapped = Mapped
    Inputs <- MCInputs
    Malformed = {}
    MaxBatch = 1
    Params = {1, 2}
    Snapshots <- MCSnapshots
    MaxCalls = 4
    Names = {n1, n2}
    Paths = {f}
    NoFile = NoFile
    PyInts <- MCPyInts
    NoK = NoK
    LongMax = 15
    UintMax = 7
INVARIANTS
    BTypeOK
    OneThreadInCore
    CoreNeverWaits
    QueryReturnsK
PROPERTIES
    PythonRuns
