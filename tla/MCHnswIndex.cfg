SPECIFICATION Spec
CONSTANTS
    Ids = {1, 2, 3, 4}
    Points <- MCPoints
    VectorsOf <- MCVectorsOf
    Dist <- MCDist
    m = 2
    UintMod = 16
    ef_construction = 2
    MaxLevel = 1
    Ks = {1, 3}
    Efs = {0, 5}
    MaxOps = 5
    NoNode = NoNode
INVARIANTS
    IndexAgrees
    GraphSound
    SearchExact
    NothingCutOff
    RoundTrip
PROPERTY
    ImplementsLayeredGraph
