SPECIFICATION Spec
CONSTANTS
  Workers = {w1, w2, w3, w4}
  NoTask = NoTask
  Size = 5
  MinChunk = 2
  MaxChunks = 3
  Selections = 2
  Matches <- SomeMatches
  SampledFrom = 5
SYMMETRY WorkerSymmetry
INVARIANTS ScansAgree SharedAlive NothingLeaks
