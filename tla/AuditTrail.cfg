SPECIFICATION FairSpec
CONSTANTS
    t1 = t1
    t2 = t2
    broker = broker
    Procs = {broker}
    Writers = {t1, t2}
    ProcOf <- MCProcOf
    Inodes = {1, 2, 3, 4}
    None = None
    MaxRecords = 4
    Cap = 2
    MaxLine = 2
    Lengths = {2}
    Prompt = {t1}
    MaxFaults = 2
INVARIANTS
    GapAccounted
    PageWhole
PROPERTIES
    KeepsHistory
    RecordReturns
CHECK_DEADLOCK FALSE
