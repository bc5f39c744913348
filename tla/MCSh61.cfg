CONSTANTS
  Scripts <- MCScripts
  Programs <- MCPrograms
  Files = {"f"}
  Writable = {"f", "g"}
  Env = {"home"}
  PipeSize = 1
  MaxProcs = 8
  MaxMishaps = 1
SPECIFICATION ShellSpec
INVARIANT ListsRunAsTheyRead
PROPERTIES PromptIsClean LinesEnd
CHECK_DEADLOCK FALSE
