CONSTANTS
  Clients = {"c1", "c2"}
  Scripts <- MCScripts
  ChunkSize = 2
  BufSize = 3
  Text <- MCText
  Digit <- MCDigit
  MaxDeaths = 1
SPECIFICATION Spec
INVARIANTS RepliesWhole LoadedWhole EndsAsKnown
PROPERTY EveryoneServed
CHECK_DEADLOCK FALSE
