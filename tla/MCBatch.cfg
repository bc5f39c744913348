SPECIFICATION FairSpec
CONSTANTS
  Columns = {"c1", "c2"}
  Programs <- Safe
  NoVar = "NoVar"
  Estimates = {FALSE}
INVARIANTS StagesInOrder BatchSame
PROPERTY BatchEnds
