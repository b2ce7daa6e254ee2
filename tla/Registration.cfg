SPECIFICATION Spec
CONSTANTS
    Others = {"brave"}
    Dirs = {"dir"}
    OSes = {"macos", "linux", "windows"}
    cli = cli
    host = host
    Procs = {cli, host}
    Odd <- MCOdd
    MaxCommands = 2
    MaxFaults = 1
SYMMETRY ProcSymmetry
INVARIANT LabelHonest
PROPERTIES
    NoOrphan
    ReportTrue
CHECK_DEADLOCK FALSE
