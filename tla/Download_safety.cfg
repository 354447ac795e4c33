SPECIFICATION Spec
CONSTANTS
    c1 = c1
    c2 = c2
    n1 = n1
    n2 = n2
    n3 = n3
    right = right
    wrong = wrong
    None = None
    Callers = {c1, c2}
    Inodes = {n1, n2, n3}
    Bodies = {right, wrong}
    Wanted = right
    Size = 2
    Tries = 2
    MaxCrashes = 1
SYMMETRY Interchangeable
CHECK_DEADLOCK FALSE
INVARIANTS
    PublishedIsWhole
    PartialHasOneWriter
    ReportedIsDurable
PROPERTIES
    NeverClobbered
    CompletePartialKept
