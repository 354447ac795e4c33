SPECIFICATION Spec
CONSTANTS
    i1 = i1
    i2 = i2
    Items = {i1, i2}
    Failed = {"timeout", "error"}
    MaxAttempts = 3
    MayKill = TRUE
SYMMETRY Interchangeable
INVARIANTS
    FreshRunHeals
    FileNeverAhead
    NoDoubleCounting
    ResumePreservesAgreement
    ContestedIsReported
PROPERTIES
    AnswersSurviveResume
