----------------------------- MODULE MCBreakout -----------------------------
(* Boards for model checking; each is one main() can set up.               *)
EXTENDS Breakout, TLC

(* A board of Width x Height cells that is empty but for the cells of f.   *)
Board(W, H, f) ==
  [p \in (0 .. W - 1) \X (0 .. H - 1) |-> IF p \in DOMAIN f THEN f[p] ELSE "empty"]
Bricks(L, s) == [p \in DOMAIN L |-> IF L[p] = "obstacle" THEN s ELSE 0]

(* ./breakout61 -w 2 -h 5 -b 2 -s 1 -W 2 -B 0: a tunnel, each end of it a *)
(* thread, and a sticky cell                                               *)
WarpBoard == Board(2, 5, (<<0,0>> :> "warp") @@ (<<1,2>> :> "warp") @@ (<<0,1>> :> "sticky"))
WarpStrength == Bricks(WarpBoard, 0)
WarpIns == [w \in Warps |-> IF w = "w1" THEN <<0,0>> ELSE <<1,2>>]
WarpOuts == [w \in Warps |-> IF w = "w1" THEN <<1,2>> ELSE <<0,0>>]

(* ./breakout61 -P -w 2 -h 5 -b 2 -s 1 -B 1: bricks, paddle, trash        *)
PaddleBoard ==
  Board(2, 5, [p \in (0 .. 1) \X {0} |-> "obstacle"] @@ [p \in (0 .. 1) \X {4} |-> "trash"]
              @@ (<<0,3>> :> "paddle") @@ (<<1,1>> :> "sticky"))
PaddleStrength == Bricks(PaddleBoard, 1)
BallSymmetry == Permutations(Balls)
NoWarps == [w \in {} |-> <<0,0>>]
=============================================================================
