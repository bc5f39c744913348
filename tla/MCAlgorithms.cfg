SPECIFICATION Spec
CONSTANTS
  BlockSize = 2
  IntMax = 3
  NoBound = 99
  SelectGrowth = 2
  SelectCapacity = 1
  FastJoinThreshold = 2
  LeafFanout = 2
  InternalFanout = 2
  UnsignedModulus = 256
  Unit = 16
  Separation = 1
  DepthBound = 5
  SizeBound = 10
  MaxCalls = 5
  Keys = {1, 2, 3}
INVARIANTS
  TablesRight
  AnswersRight
  ProgramsRight
CHECK_DEADLOCK FALSE
