SPECIFICATION KillFairSpec
CONSTANTS
    None = None
    Labels = {chrome}
    Callers = {c1}
    MaxBrowsers = 1
    MaxGen = 2
    MaxId = 1
    BufCap = 1
    MaxBogus = 0
    MaxFlips = 2
INVARIANT KillSettles
PROPERTIES
    KillSevers
    CallEnds
