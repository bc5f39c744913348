SPECIFICATION Spec
CONSTANTS
  Width = 2
  Height = 5
  Balls = {b1, b2}
  Warps = {}
  NoBall = NoBall
  Layout <- PaddleBoard
  Strength <- PaddleStrength
  WarpIn <- NoWarps
  WarpOut <- NoWarps
  Paddle = TRUE
  PaddleWidth = 1
  StoppedAtStart = {TRUE, FALSE}
SYMMETRY BallSymmetry
INVARIANTS BricksWhole MoveAssertion MovesDiagonally
