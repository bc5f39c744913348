SPECIFICATION FairSpec
CONSTANTS
  BufSize = 2
  Originals <- Files
  Sizes <- Calls
  Targets <- Places
  Byte = {1, 2}
  MaxPos = 5
INVARIANTS CacheAtOffset
PROPERTIES ImplementsFile CallsReturn
CHECK_DEADLOCK FALSE
