CONSTANTS
  MemSize = 11
  Modulus = 64
  MaxMalloc = 8
  ReportSize = 1
  Mallocs <- MCMallocs
  Callocs <- MCCallocs
  Reallocs <- MCReallocs
  Values = {1, 2, 255}
  MaxCalls = 4
SPECIFICATION Spec
INVARIANTS HeapKept ReportsRight
PROPERTY FreesJudged
CHECK_DEADLOCK FALSE
