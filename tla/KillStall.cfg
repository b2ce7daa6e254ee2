SPECIFICATION StalledHostSpec
CONSTANTS
    None = None
    Labels = {chrome}
    Callers = {c1}
    MaxBrowsers = 1
    MaxGen = 1
    MaxId = 1
    BufCap = 1
    MaxBogus = 0
    MaxFlips = 1
PROPERTIES
    KillSevers
