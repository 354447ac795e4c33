SPECIFICATION Spec
CONSTANTS
    e1 = e1
    e2 = e2
    s1 = s1
    s2 = s2
    i1 = i1
    i2 = i2
    i3 = i3
    None = None
    Envs = {e1, e2}
    Sessions = {s1, s2}
    Items = {i1, i2, i3}
    SessionsOf <- MCSessionsOf
    EnvOf <- MCEnvOf
    Mode = "memory"
    Faults = {"exit"}
    Expires = {}
    PipeRoom = 4
INVARIANTS
    CrashFailsTheRest
