SPECIFICATION Spec
CONSTANTS
    v1 = v1
    v2 = v2
    Videos = {v1, v2}
    MaxBatches = 3
    IOFails = TRUE
SYMMETRY Interchangeable
INVARIANTS
    PublishedIsVerified
    ManifestIsTrue
    WriterIsLocked
PROPERTIES
    FetchedIsKept
