SPECIFICATION Spec
CONSTANTS
    kHeader = 2
    kAlignment = 4
    MaxDim = 4
    MaxName = 3
    Captured <- MCCaptured
    CellValues = {0, 1, 2, 3, 5, 9, 12}
    checksum <- crc64_ecma
CHECK_DEADLOCK FALSE
INVARIANTS
    RoundTrip
    ContentDamageRejected
    AcceptedInBounds
