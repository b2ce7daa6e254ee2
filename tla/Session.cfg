SPECIFICATION Spec
CONSTANTS
    None = None
    Labels = {chrome, brave}
    Callers = {c1}
    MaxBrowsers = 2
    MaxGen = 2
    MaxId = 2
    BufCap = 1
    MaxBogus = 2
SYMMETRY Symmetry
INVARIANTS
    RouteStable
    NoStrandedCaller
    NoOrphanSocket
PROPERTIES
    SlotClearedByOwner
    PromiseKept
