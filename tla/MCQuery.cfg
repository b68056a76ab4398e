SPECIFICATION Spec
CONSTANTS
    FloatMax = 50
    Lanes = 2
    KernelInputs <- MCKernelInputs
    Ids = {1, 2, 3}
    Vectors <- MCVectors
    Malformed <- MCMalformed
    Ks = {0, 1, 2, 4}
CHECK_DEADLOCK FALSE
INVARIANTS
    AnswerComplete
    NearestFirst
    KernelsAgree
