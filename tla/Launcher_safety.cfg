SPECIFICATION Spec
CONSTANTS
    m1 = m1
    i1 = i1
    i2 = i2
    c1 = c1
    v1 = v1
    v2 = v2
    Models = {m1}
    Tracks = {"blind", "memory"}
    Items = {i1, i2}
    Configs = {c1}
    Commits = {v1, v2}
    Workers = 1
    Launches = 3
    Kills = 1
    InTurn = TRUE
    None = None
    Torn = Torn
SYMMETRY Interchangeable
INVARIANTS
    RowsMatchMarker
    VerdictsAreTrue
