SPECIFICATION FairSpec
CONSTANTS
  Width = 2
  Height = 5
  Balls = {b1, b2}
  Warps = {"w1", "w2"}
  NoBall = NoBall
  Layout <- WarpBoard
  Strength <- WarpStrength
  WarpIn <- WarpIns
  WarpOut <- WarpOuts
  Paddle = FALSE
  PaddleWidth = 1
  StoppedAtStart = {FALSE}
INVARIANTS BoardInv WakeupComing
PROPERTY TunnelDelivers
