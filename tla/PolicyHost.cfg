SPECIFICATION Spec
CONSTANTS
  w1 = w1
  w2 = w2
  Writers = {w1, w2}
  TrueFields = {"cdpMode"}
  FalseFields = {}
  GrowFields = {}
  ZeroTopFields = {"hostReverifyMs"}
  ToolFields = {}
  Tools = {}
  MsMax = 1
  RevMax = 2
  ToolsMax = 1
  Requests <- MCRequests
  GatedTools = {"page_snapshot", "console_get"}
  GrantsOf <- MCGrantsOf
  DebuggerTools = {"console_get"}
  RingMax = 2
  MaxKeys = 2
  MaxEpoch = 1
  MaxWrites = 3
  MaxFaults = 1
SYMMETRY WriterSymmetry
INVARIANTS
  StoreSound
  RevisionUnique
  NoDeadKeyBaseline
PROPERTIES
  NoRelaxWithoutTap
  RollbackExact
CHECK_DEADLOCK FALSE
