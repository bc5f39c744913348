SPECIFICATION FairSpec
CONSTANTS
  NProc = 2
  NLow = 2
  NPages = 5
  NFrames = 17
  NTables = 4
  Walks <- MCWalks
  Boot = 1
  Image <- MCImage
  Heap <- MCHeap
  MaxValue = 1
INVARIANT KernelInv
PROPERTIES PagesReturned EveryoneRuns ImplementsProcesses
CHECK_DEADLOCK FALSE
