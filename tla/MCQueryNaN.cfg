SPECIFICATION Spec
CONSTANTS
    FloatMax = 50
    Lanes = 2
    KernelInputs <- MCKernelInputs
    Ids = {1}
    Vectors <- MCLargeVectors
    Malformed <- MCMalformed
    Ks = {0, 1, 2, 4}
CHECK_DEADLOCK FALSE
INVARIANTS
    DistancesNeverNaN
