SPECIFICATION Spec
CONSTANTS
    Threads = {p}
    Ids = {1, 2, 3}
    Points = {0, 2, 5}
    Nlists = {0, 2, 3}
    Nprobes = {0, 2}
    Ks = {0, 2}
    Shuffles <- MCShuffles
    kMaxKMeansIterations = 12
VIEW LiveState
INVARIANTS
    IndexAgrees
    CellsCoverLive
    SearchExact
