SPECIFICATION Spec
CONSTANTS
    i1 = i1
    i2 = i2
    Items = {i1, i2}
    Failed = {"timeout", "error"}
    MaxAttempts = 2
    MayKill = TRUE
SYMMETRY Interchangeable
INVARIANTS
    ResumedRunIsWhole
