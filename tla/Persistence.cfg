SPECIFICATION Spec
CONSTANTS
    Procs = {p}
    Calls = {"s1", "s2"}
    Loads = {l1}
    NoFile = "none"
    Foreign = {"old", "alien", "newer", "damaged"}
    MaxClock = 1
INVARIANTS
    OwnFilesLoad
PROPERTIES
    ImplementsSnapshotFile
    MappingsStable
