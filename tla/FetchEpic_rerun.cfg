SPECIFICATION Spec
CONSTANTS
    v1 = v1
    v2 = v2
    Videos = {v1, v2}
    MaxBatches = 2
    IOFails = FALSE
INVARIANTS
    RefusedForCause
