SPECIFICATION Spec
CONSTANTS
    None = None
    Torn = Torn
    Videos = {1, 2}
    Annotations <- TheAnnotations
    Contexts = {"single-session", "history"}
    Limit = 2
    MaxVideos = 2
    MaxCurrent = 4
    Durations = {None, 3, 5}
    Sources = {1}
    Chunk = 2
    Rate = 1
    Slack = 2
    Tolerance = 1
    Pools = {1, 2}
    Disk = {9, 15}
    MinFree = 1
    Faults = 1
CHECK_DEADLOCK FALSE
INVARIANTS
    LoadedIsWhole
    PastIsWholeFutureIsAbsent
    ReserveIsKept
    PoolEndsClean
