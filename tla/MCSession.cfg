CONSTANTS
  SlotOrder <- MCSlotOrder
  Numeral <- MCNumeral
  Queries <- MCQueries
  Files <- MCFiles
  Disks <- MCDisks
  TooLong <- MCTooLong
  Room = 1
  MaxRows = 3
  MaxStatements = 6
SPECIFICATION SessionSpec
INVARIANT SelectionsStayRight
PROPERTIES ImplementsStore RowsTogether FailedChangesAreKnown
CHECK_DEADLOCK FALSE
