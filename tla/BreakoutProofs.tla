---------------------------- MODULE BreakoutProofs ----------------------------
(***************************************************************************)
(* Safety of breakout61 for every board, every number of balls and every   *)
(* set of tunnels.                                                         *)
(***************************************************************************)
EXTENDS Breakout, SequenceTheorems, TLAPS

-----------------------------------------------------------------------------
(* The inductive invariant: BoardInv and what its parts rest on.           *)

(* Warp and sticky cells are never made or unmade, and the row the paddle  *)
(* thread rewrites holds no brick.                                         *)
FixedCells ==
  \A p \in Pos :
    /\ type[p] = "warp" <=> Layout[p] = "warp"
    /\ type[p] = "sticky" <=> Layout[p] = "sticky"
    /\ type[p] = "obstacle" <=> strength[p] > 0
    /\ p[2] = PaddleRow => strength[p] = 0

(* The row mutexes: two balls that hold theirs are three rows apart.       *)
RowsExclusive ==
  \A a, b \in Balls :
    a # b /\ bpc[a] \in HoldsRows /\ bpc[b] \in HoldsRows =>
      pos[a][2] - pos[b][2] > 2 \/ pos[b][2] - pos[a][2] > 2

(* The thread of a ball in a tunnel waits for `stopped` to become false.   *)
Parked == {"check", "towait", "sleep", "relock"}

(* What is known of a ball at each stage of its way through a tunnel.      *)
TunnelStages ==
  /\ \A b \in Balls : bpc[b] = "accept" => stopped[b]
  /\ \A b \in Balls : Queued(b) => stopped[b] /\ bpc[b] \in Parked
  /\ \A w \in Warps : wpc[w] \in {"tunnel", "ball"} =>
       wball[w] \in Balls /\ stopped[wball[w]] /\ bpc[wball[w]] \in Parked
  /\ \A w \in Warps : wpc[w] \in {"row", "notify"} =>
       /\ wball[w] \in Balls /\ ~ stopped[wball[w]]
       /\ bpc[wball[w]] \in {"sleep", "relock"}
       /\ pos[wball[w]] = WarpOut[w]

(* A ball that fell off is on its way out: in no cell, and not stopped.    *)
DeadStayDead ==
  \A b \in Balls :
    /\ mval[b] < 0 => bpc[b] \in {"check", "delete", "gone"} /\ ~ stopped[b] /\ ~ InCell(b)
    /\ bpc[b] \in {"delete", "gone"} => mval[b] < 0

(* Only a ball stuck in a cell has a zero in its direction.                *)
Directions ==
  \A b \in Balls : dir[b][1] = 0 \/ dir[b][2] = 0 => stopped[b] /\ ~ InTunnel(b)

(* The far end of a tunnel never holds a stopped ball, so that one that is *)
(* overwritten there was not waiting to be released.                       *)
ExitsRun ==
  \A w \in Warps : ball[WarpOut[w]] # NoBall => ~ stopped[ball[WarpOut[w]]]

CollidersRun == \A b \in Balls : bpc[b] = "collide" => ~ stopped[b]

IInv ==
  /\ TypeOK /\ FixedCells /\ RowsExclusive /\ TunnelStages /\ DeadStayDead
  /\ Directions /\ ExitsRun /\ CollidersRun /\ BoardInv

(* With `stopped` initialised, only sticky cells stop a ball on the board. *)
StuckOnSticky ==
  \A p \in Pos : ball[p] # NoBall /\ stopped[ball[p]] => Layout[p] = "sticky"

-----------------------------------------------------------------------------
(* Where the cells that move() reads and writes lie, whatever it bounces   *)
(* off: within one row of the ball and, if it moves, not where it is.      *)
LEMMA Neighbours ==
  ASSUME TypeOK, NEW b \in Balls
  PROVE  /\ pos[b] \in Pos
         /\ pos[b][1] \in Int /\ pos[b][2] \in Int
         /\ Bounced(b) \in (-1 .. 1) \X (-1 .. 1)
         /\ <<- Bounced(b)[1], - Bounced(b)[2]>> \in (-1 .. 1) \X (-1 .. 1)
         /\ dir[b][1] # 0 => Bounced(b)[1] # 0 /\ - Bounced(b)[1] # 0
         /\ dir[b][2] # 0 => Bounced(b)[2] # 0 /\ - Bounced(b)[2] # 0
         /\ NextCell(b)[2] - pos[b][2] \in -1 .. 1
         /\ Ahead(b)[2] - pos[b][2] \in -1 .. 1
         /\ dir[b][1] # 0 => NextCell(b) # pos[b]
<1>1. pos[b] \in (0 .. Width - 1) \X (0 .. Height - 1) /\ dir[b] \in (-1 .. 1) \X (-1 .. 1)
  BY DEF TypeOK, Pos
<1>2. pos[b][1] \in Int /\ pos[b][2] \in Int /\ dir[b][1] \in -1 .. 1 /\ dir[b][2] \in -1 .. 1
  BY <1>1, BoardAssumption
<1>3. /\ Bounced(b)[1] \in {dir[b][1], - dir[b][1]}
      /\ Bounced(b)[2] \in {dir[b][2], - dir[b][2]}
      /\ Bounced(b) = <<Bounced(b)[1], Bounced(b)[2]>>
  BY DEF Bounced
<1>4. /\ NextCell(b)[1] = pos[b][1] + Bounced(b)[1]
      /\ NextCell(b)[2] = pos[b][2] + Bounced(b)[2]
      /\ Ahead(b)[2] = pos[b][2] + dir[b][2]
  BY DEF NextCell, Ahead
<1>5. Bounced(b)[1] \in -1 .. 1 /\ Bounced(b)[2] \in -1 .. 1
  BY <1>2, <1>3
<1>6. QED
  BY <1>1, <1>2, <1>3, <1>4, <1>5 DEF Pos

(* The row mutexes are free for a ball, or for a warp's exit, when every   *)
(* ball that holds its own is far enough away.                             *)
LEMMA RowsFreeMeans ==
  ASSUME TypeOK
  PROVE  /\ \A b \in Balls : RowsFree(RowsOf(b)) =>
              \A a \in Balls : bpc[a] \in HoldsRows =>
                pos[a][2] - pos[b][2] > 2 \/ pos[b][2] - pos[a][2] > 2
         /\ \A r \in Int : RowsFree({r}) =>
              \A a \in Balls : bpc[a] \in HoldsRows => pos[a][2] - r > 1 \/ r - pos[a][2] > 1
<1>1. \A b \in Balls : pos[b][2] \in Int
  BY Neighbours
<1>2. ASSUME NEW b \in Balls, RowsFree(RowsOf(b)), NEW a \in Balls, bpc[a] \in HoldsRows
      PROVE  pos[a][2] - pos[b][2] > 2 \/ pos[b][2] - pos[a][2] > 2
  <2>1. \A r \in RowsOf(b) : r \notin RowsOf(a)
    BY <1>2 DEF RowsFree
  <2>2. pos[b][2] - 1 \notin RowsOf(a) /\ pos[b][2] + 1 \notin RowsOf(a) /\ pos[b][2] \notin RowsOf(a)
    BY <2>1 DEF RowsOf
  <2>3. pos[a][2] \in Int /\ pos[b][2] \in Int
    BY <1>1
  <2>4. QED
    BY <2>2, <2>3 DEF RowsOf
<1>3. ASSUME NEW r \in Int, RowsFree({r}), NEW a \in Balls, bpc[a] \in HoldsRows
      PROVE  pos[a][2] - r > 1 \/ r - pos[a][2] > 1
  <2>1. r \notin RowsOf(a)
    BY <1>3 DEF RowsFree
  <2>2. QED
    BY <1>1, <2>1 DEF RowsOf
<1>4. QED
  BY <1>2, <1>3

(* hit_obstacle changes obstacles only, and breaks a brick exactly when    *)
(* its strength is used up.                                                *)
LEMMA HitKeepsCells ==
  ASSUME TypeOK, FixedCells, NEW S, HitObstacles(S)
  PROVE  /\ type' \in [Pos -> CellType] /\ strength' \in [Pos -> Nat]
         /\ FixedCells'
<1>1. type \in [Pos -> CellType] /\ strength \in [Pos -> Nat]
  BY DEF TypeOK
<1>2. type' \in [Pos -> CellType] /\ strength' \in [Pos -> Nat]
  BY <1>1 DEF HitObstacles, CellType
<1>3. ASSUME NEW p \in Pos
      PROVE  /\ type'[p] = "warp" <=> Layout[p] = "warp"
             /\ type'[p] = "sticky" <=> Layout[p] = "sticky"
             /\ type'[p] = "obstacle" <=> strength'[p] > 0
             /\ p[2] = PaddleRow => strength'[p] = 0
  BY <1>1 DEF HitObstacles, FixedCells
<1>4. QED
  BY <1>2, <1>3 DEF FixedCells

(* A ball on the board or in a tunnel is alive: the ones that are deleted  *)
(* fell off before, and no ball in a tunnel did.                           *)
LEMMA AliveNext ==
  ASSUME TypeOK', TunnelStages', DeadStayDead'
  PROVE  \A a \in Balls : InCell(a)' \/ InTunnel(a)' => Alive(a)'
<1>1. ASSUME NEW a \in Balls, InCell(a)' PROVE Alive(a)'
  BY <1>1 DEF DeadStayDead, Alive
<1>2. ASSUME NEW a \in Balls, InTunnel(a)' PROVE Alive(a)'
  <2>1. CASE bpc'[a] = "accept"
    BY <2>1 DEF Alive
  <2>2. CASE Queued(a)'
    BY <2>2 DEF Alive, TunnelStages, Parked
  <2>3. CASE \E w \in Warps : Carried(w)' = a
    BY <2>3, BoardAssumption DEF Alive, Carried, TunnelStages, Parked
  <2>4. QED
    BY <1>2, <2>1, <2>2, <2>3 DEF InTunnel
<1>3. QED
  BY <1>1, <1>2

-----------------------------------------------------------------------------
(* The steps of a ball's thread that take or drop locks, test `stopped`,   *)
(* sleep and wake up, and a move() that finds the ball stopped.            *)
LEMMA LockSteps ==
  ASSUME IInv, NEW b \in Balls,
         \/ LockBall(b) \/ LockRows(b) \/ MoveStopped(b) \/ CheckStopped(b)
         \/ Sleep(b) \/ SpuriousWakeup(b) \/ Relock(b) \/ DeleteBall(b)
  PROVE  IInv'
<1> USE DEF IInv
<1>1. /\ UNCHANGED <<cellVars, motionVars, hit, warpVars, paddleVars, aborted>>
      /\ bpc'[b] \in BallPC /\ bpc' = [bpc EXCEPT ![b] = bpc'[b]]
      /\ mval'[b] \in -1 .. 1 /\ mval' = [mval EXCEPT ![b] = mval'[b]]
      /\ bpc[b] \notin {"accept", "collide"} /\ bpc'[b] \notin {"accept", "collide"}
      /\ bpc'[b] \in HoldsRows => RowsFree(RowsOf(b))
      /\ bpc[b] \in Parked /\ stopped[b] => bpc'[b] \in Parked
      /\ bpc[b] \in {"sleep", "relock"} => bpc'[b] \in {"sleep", "relock"} \/ BallMutexFree(b)
      /\ mval'[b] < 0 => mval[b] < 0 /\ bpc'[b] \in {"check", "delete", "gone"}
      /\ bpc'[b] \in {"delete", "gone"} => mval'[b] < 0
  BY SMTT(30) DEF LockBall, LockRows, MoveStopped, CheckStopped, Sleep, SpuriousWakeup, Relock,
     DeleteBall, Return, At, TypeOK, DeadStayDead, BallPC, HoldsBall, HoldsRows, Parked
<1>2. TypeOK'
  BY <1>1 DEF TypeOK, cellVars, motionVars, warpVars, paddleVars
<1>3. FixedCells' /\ ExitsRun'
  BY <1>1 DEF FixedCells, ExitsRun, cellVars, motionVars
<1>4. RowsExclusive'
  BY <1>1, RowsFreeMeans, ZenonT(60) DEF RowsExclusive, TypeOK, motionVars
<1>5. /\ \A a \in Balls : Queued(a)' = Queued(a) /\ InCell(a)' = InCell(a)
      /\ \A w \in Warps : Carried(w)' = Carried(w)
  BY <1>1 DEF Queued, InCell, Carried, cellVars, warpVars
<1>6. \A a \in Balls : InTunnel(a)' <=> InTunnel(a)
  BY <1>1, <1>5 DEF InTunnel, TypeOK
<1>7. TunnelStages'
  <2>1. \A a \in Balls : bpc'[a] # bpc[a] => a = b
    BY <1>1 DEF TypeOK
  <2>2. /\ stopped' = stopped /\ pos' = pos /\ wpc' = wpc /\ wball' = wball
    BY <1>1 DEF motionVars, warpVars
  <2>3. \A a \in Balls : bpc'[a] = "accept" => stopped'[a]
    BY <1>1, <2>1, <2>2 DEF TunnelStages
  <2>4. \A a \in Balls : Queued(a)' => stopped'[a] /\ bpc'[a] \in Parked
    BY <1>1, <1>5, <2>1, <2>2 DEF TunnelStages
  <2>5. ASSUME NEW w \in Warps, wpc'[w] \in {"tunnel", "ball"}
        PROVE  wball'[w] \in Balls /\ stopped'[wball'[w]] /\ bpc'[wball'[w]] \in Parked
    BY <1>1, <2>1, <2>2, <2>5 DEF TunnelStages
  <2>6. ASSUME NEW w \in Warps, wpc'[w] \in {"row", "notify"}
        PROVE  /\ wball'[w] \in Balls /\ ~ stopped'[wball'[w]]
               /\ bpc'[wball'[w]] \in {"sleep", "relock"} /\ pos'[wball'[w]] = WarpOut[w]
    BY <1>1, <2>1, <2>2, <2>6 DEF TunnelStages, BallMutexFree
  <2>7. QED
    BY <2>3, <2>4, <2>5, <2>6 DEF TunnelStages
<1>8. DeadStayDead'
  BY <1>1, <1>5 DEF DeadStayDead, TypeOK, motionVars
<1>9. Directions' /\ CollidersRun'
  BY <1>1, <1>6 DEF Directions, CollidersRun, TypeOK, motionVars
<1>10. ball' = ball /\ pos' = pos /\ dir' = dir /\ hit' = hit /\ stopped' = stopped
       /\ warp_balls' = warp_balls
  BY <1>1 DEF cellVars, motionVars, warpVars
<1>11. \A a \in Balls : InCell(a) \/ InTunnel(a) => Alive(a)'
  BY <1>2, <1>5, <1>6, <1>7, <1>8, AliveNext
<1>12. CellsPointBack'
  BY <1>10, <1>11, BoardAssumption DEF BoardInv, CellsPointBack, InCell, TypeOK
<1>13. TunnelsDisjoint'
  <2>1. \A a \in Balls : InTunnel(a)' => ~ InCell(a)' /\ Alive(a)'
    BY <1>5, <1>6, <1>11 DEF BoardInv, TunnelsDisjoint
  <2>2. \A a \in Balls : bpc'[a] # "accept"  \/ bpc[a] = "accept"
    BY <1>1 DEF TypeOK
  <2>3. \A w \in Warps : Queued(Carried(w))' = Queued(Carried(w))
    BY <1>5, <1>10 DEF Queued
  <2>4. QED
    BY <1>5, <1>10, <2>1, <2>2, <2>3 DEF BoardInv, TunnelsDisjoint
<1>14. StoppedAccountedFor'
  BY <1>6, <1>10 DEF BoardInv, StoppedAccountedFor
<1>15. VictimHeld'
  <2>1. ASSUME NEW a \in Balls, bpc'[a] = "collide"
        PROVE  /\ hit'[a] \in Balls \ {a} /\ BallAt(Ahead(a))' = hit'[a]
               /\ Alive(hit[a])' /\ bpc'[hit'[a]] \notin HoldsRows
    <3>1. bpc[a] = "collide"
      BY <1>1, <2>1 DEF TypeOK
    <3>2. /\ hit[a] \in Balls \ {a} /\ BallAt(Ahead(a)) = hit[a] /\ Ahead(a)' = Ahead(a)
          /\ bpc[hit[a]] \notin HoldsRows
      BY <1>10, <3>1 DEF BoardInv, VictimHeld, Ahead
    <3>3. Ahead(a) \in Pos /\ ball[Ahead(a)] = hit[a] /\ pos[hit[a]] = Ahead(a)
      BY <3>2, BoardAssumption DEF BallAt, BoardInv, CellsPointBack
    <3>4. bpc'[hit[a]] \notin HoldsRows
      <4>1. pos[hit[a]][2] - pos[a][2] \in -1 .. 1
        BY <3>3, Neighbours
      <4>2. bpc[a] \in HoldsRows
        BY <3>1 DEF HoldsRows
      <4>3. pos[a][2] \in Int /\ pos[hit[a]][2] \in Int
        BY <3>2, Neighbours
      <4>4. hit[a] = b => ~ RowsFree(RowsOf(b))
        BY <4>1, <4>2, <4>3, RowsFreeMeans
      <4>5. QED
        BY <1>1, <3>2, <4>4 DEF TypeOK
    <3>5. QED
      BY <1>10, <1>11, <3>2, <3>3, <3>4 DEF InCell, BallAt
  <2>2. QED
    BY <1>10, <2>1 DEF VictimHeld
<1>16. QED
  BY <1>2, <1>3, <1>4, <1>7, <1>8, <1>9, <1>12, <1>13, <1>14, <1>15 DEF BoardInv

-----------------------------------------------------------------------------
(* What is known of a ball that moves: it is in one cell and no tunnel,    *)
(* runs diagonally, nobody has hit it, and whoever else holds row mutexes, *)
(* or was hit by one who does, is out of its reach.                        *)
LEMMA Mover ==
  ASSUME IInv, NEW b \in Balls, bpc[b] \in {"move", "collide"}, ~ stopped[b]
  PROVE  /\ ~ InTunnel(b) /\ dir[b][1] # 0 /\ dir[b][2] # 0
         /\ mval[b] \in 0 .. 1
         /\ \A w \in Warps : wpc[w] \in {"tunnel", "ball", "row", "notify"} => wball[w] # b
         /\ \A a \in Balls \ {b} : bpc[a] \in HoldsRows =>
              pos[a][2] - pos[b][2] > 2 \/ pos[b][2] - pos[a][2] > 2
         /\ \A a \in Balls : bpc[a] = "collide" => hit[a] # b
<1> USE DEF IInv
<1>1. \A w \in Warps : wpc[w] \in {"tunnel", "ball", "row", "notify"} => wball[w] # b
  BY DEF TunnelStages, Parked
<1>2. ~ InTunnel(b)
  BY <1>1, BoardAssumption DEF InTunnel, TunnelStages, Parked, Carried
<1>3. dir[b][1] # 0 /\ dir[b][2] # 0
  BY DEF Directions
<1>4. mval[b] \in 0 .. 1
  <2>1. mval[b] \in -1 .. 1 /\ ~ (mval[b] < 0)
    BY DEF DeadStayDead, TypeOK
  <2>2. QED
    BY <2>1
<1>5. \A a \in Balls \ {b} : bpc[a] \in HoldsRows =>
        pos[a][2] - pos[b][2] > 2 \/ pos[b][2] - pos[a][2] > 2
  BY DEF RowsExclusive, HoldsRows
<1>6. \A a \in Balls : bpc[a] = "collide" => hit[a] # b
  BY DEF BoardInv, VictimHeld, HoldsRows
<1>7. QED
  BY <1>1, <1>2, <1>3, <1>4, <1>5, <1>6

(* While a ball works under its row mutexes, the balls that others hit     *)
(* stay where they were hit.                                               *)
LEMMA OthersHold ==
  ASSUME IInv, NEW b \in Balls, bpc[b] \in HoldsRows,
         TypeOK', TunnelStages', DeadStayDead',
         \A p \in Pos : ball'[p] # ball[p] => p[2] - pos[b][2] \in -1 .. 1,
         \A a \in Balls \ {b} :
           /\ bpc'[a] = "collide" => bpc[a] = "collide"
           /\ bpc'[a] \in HoldsRows => bpc[a] \in HoldsRows
           /\ bpc[a] = "collide" => pos'[a] = pos[a] /\ dir'[a] = dir[a] /\ hit'[a] = hit[a],
         NEW a \in Balls \ {b}, bpc'[a] = "collide", hit[a] # b
  PROVE  /\ hit'[a] \in Balls \ {a} /\ BallAt(Ahead(a))' = hit'[a]
         /\ Alive(hit[a])' /\ bpc'[hit'[a]] \notin HoldsRows
<1> USE DEF IInv
<1>1. /\ bpc[a] = "collide" /\ bpc[a] \in HoldsRows /\ hit'[a] = hit[a]
      /\ Ahead(a)' = Ahead(a)
  BY DEF HoldsRows, Ahead
<1>2. /\ hit[a] \in Balls \ {a} /\ BallAt(Ahead(a)) = hit[a] /\ bpc[hit[a]] \notin HoldsRows
  BY <1>1 DEF BoardInv, VictimHeld
<1>3. Ahead(a) \in Pos /\ ball[Ahead(a)] = hit[a]
  BY <1>2, BoardAssumption DEF BallAt
<1>4. ball'[Ahead(a)] = hit[a]
  <2>1. Ahead(a)[2] - pos[a][2] \in -1 .. 1 /\ pos[a][2] \in Int /\ pos[b][2] \in Int
    BY Neighbours
  <2>2. pos[a][2] - pos[b][2] > 2 \/ pos[b][2] - pos[a][2] > 2
    BY <1>1 DEF RowsExclusive
  <2>3. Ahead(a)[2] \in Int
    BY <1>3, BoardAssumption DEF Pos
  <2>4. QED
    BY <1>3, <2>1, <2>2, <2>3
<1>5. Alive(hit[a])'
  BY <1>2, <1>3, <1>4, AliveNext DEF InCell
<1>6. QED
  BY <1>1, <1>2, <1>3, <1>4, <1>5 DEF BallAt

(* A ball falls off the board.                                             *)
LEMMA TrashStep ==
  ASSUME IInv, NEW b \in Balls, MoveTrash(b)
  PROVE  IInv'
<1> USE DEF IInv
<1>0. /\ bpc[b] = "move" /\ ~ stopped[b] /\ ball[pos[b]] = b /\ pos[b] \in Pos
      /\ bpc' = [bpc EXCEPT ![b] = "check"] /\ mval' = [mval EXCEPT ![b] = -1]
      /\ ball' = [ball EXCEPT ![pos[b]] = NoBall] /\ dir' = [dir EXCEPT ![b] = Bounced(b)]
      /\ UNCHANGED <<pos, stopped, hit, wpc, wball, warp_balls, px, pdx, sweep, aborted>>
  BY DEF MoveTrash, OnBoard, At, Return, warpVars, paddleVars, TypeOK
<1>1. TypeOK' /\ FixedCells'
  <2>1. FixedCells' /\ type' \in [Pos -> CellType] /\ strength' \in [Pos -> Nat]
    BY HitKeepsCells DEF MoveTrash
  <2>2. dir' \in [Balls -> (-1 .. 1) \X (-1 .. 1)]
    BY <1>0, Neighbours DEF TypeOK
  <2>3. bpc' \in [Balls -> BallPC] /\ mval' \in [Balls -> -1 .. 1] /\ ball' \in [Pos -> Balls \cup {NoBall}]
    BY <1>0 DEF TypeOK, BallPC, HoldsBall, HoldsRows
  <2>4. QED
    BY <1>0, <2>1, <2>2, <2>3 DEF TypeOK
<1>2. RowsExclusive' /\ CollidersRun'
  BY <1>0 DEF RowsExclusive, CollidersRun, TypeOK, HoldsRows
<1>3. TunnelStages'
  BY <1>0, Mover DEF TunnelStages, TypeOK, Queued, Parked, InTunnel
<1>4. DeadStayDead'
  <2>1. \A a \in Balls : InCell(a)' => InCell(a) /\ a # b
    BY <1>0, BoardAssumption DEF InCell, BoardInv, CellsPointBack, TypeOK
  <2>2. QED
    BY <1>0, <2>1 DEF DeadStayDead, TypeOK
<1>5. \A a \in Balls : (Queued(a)' <=> Queued(a)) /\ (InTunnel(a)' <=> InTunnel(a))
  BY <1>0 DEF InTunnel, Queued, Carried, TypeOK
<1>6. Directions'
  BY <1>0, <1>5, Mover, Neighbours DEF Directions, TypeOK
<1>7. ExitsRun'
  BY <1>0 DEF ExitsRun, TypeOK
<1>8. \A a \in Balls : InCell(a)' => InCell(a)
  BY <1>0, BoardAssumption DEF InCell, TypeOK
<1>9. CellsPointBack'
  BY <1>0, <1>1, <1>3, <1>4, AliveNext DEF BoardInv, CellsPointBack, InCell, TypeOK
<1>10. TunnelsDisjoint'
  BY <1>0, <1>1, <1>3, <1>4, <1>5, <1>8, AliveNext DEF BoardInv, TunnelsDisjoint, Queued, Carried, TypeOK
<1>11. StoppedAccountedFor'
  BY <1>0, <1>5, BoardAssumption DEF BoardInv, StoppedAccountedFor, TypeOK, CellsPointBack
<1>12. VictimHeld'
  <2>1. ASSUME NEW a \in Balls, bpc'[a] = "collide"
        PROVE  /\ hit'[a] \in Balls \ {a} /\ BallAt(Ahead(a))' = hit'[a]
               /\ Alive(hit[a])' /\ bpc'[hit'[a]] \notin HoldsRows
    <3>1. a # b /\ bpc[a] = "collide" /\ hit[a] # b
      BY <1>0, <2>1, Mover DEF TypeOK
    <3>2. \A p \in Pos : ball'[p] # ball[p] => p[2] - pos[b][2] \in -1 .. 1
      <4>1. pos[b][2] \in Int /\ \A p \in Pos : ball'[p] # ball[p] => p = pos[b]
        BY <1>0, Neighbours DEF TypeOK
      <4>2. QED
        BY <4>1
    <3>3. QED
      BY <1>0, <1>1, <1>3, <1>4, <2>1, <3>1, <3>2, OthersHold DEF HoldsRows, TypeOK
  <2>2. QED
    BY <2>1 DEF VictimHeld
<1>13. QED
  BY <1>1, <1>2, <1>3, <1>4, <1>6, <1>7, <1>9, <1>10, <1>11, <1>12 DEF BoardInv

(* A ball bounces off an obstacle straight ahead, and stays where it is.   *)
LEMMA ObstacleStep ==
  ASSUME IInv, NEW b \in Balls, MoveObstacle(b)
  PROVE  IInv'
<1> USE DEF IInv
<1>0. /\ bpc[b] = "move" /\ ~ stopped[b]
      /\ bpc' = [bpc EXCEPT ![b] = "check"] /\ mval' = [mval EXCEPT ![b] = 0]
      /\ dir' = [dir EXCEPT ![b] = <<- Bounced(b)[1], - Bounced(b)[2]>>]
      /\ UNCHANGED <<ball, pos, stopped, hit, wpc, wball, warp_balls, px, pdx, sweep, aborted>>
  BY DEF MoveObstacle, OnBoard, At, Return, warpVars, paddleVars
<1>1. TypeOK' /\ FixedCells'
  <2>1. FixedCells' /\ type' \in [Pos -> CellType] /\ strength' \in [Pos -> Nat]
    BY HitKeepsCells DEF MoveObstacle
  <2>2. dir' \in [Balls -> (-1 .. 1) \X (-1 .. 1)]
    BY <1>0, Neighbours DEF TypeOK
  <2>3. bpc' \in [Balls -> BallPC] /\ mval' \in [Balls -> -1 .. 1]
    BY <1>0 DEF TypeOK, BallPC, HoldsBall, HoldsRows
  <2>4. QED
    BY <1>0, <2>1, <2>2, <2>3 DEF TypeOK
<1>2. RowsExclusive' /\ CollidersRun'
  BY <1>0 DEF RowsExclusive, CollidersRun, TypeOK, HoldsRows
<1>3. TunnelStages'
  BY <1>0, Mover DEF TunnelStages, TypeOK, Queued, Parked, InTunnel
<1>4. \A a \in Balls :
        (Queued(a)' <=> Queued(a)) /\ (InTunnel(a)' <=> InTunnel(a)) /\ (InCell(a)' <=> InCell(a))
  BY <1>0 DEF InTunnel, Queued, Carried, InCell, TypeOK
<1>5. DeadStayDead'
  BY <1>0, <1>4 DEF DeadStayDead, TypeOK
<1>6. Directions'
  BY <1>0, <1>4, Mover, Neighbours DEF Directions, TypeOK
<1>7. ExitsRun'
  BY <1>0 DEF ExitsRun, TypeOK
<1>8. CellsPointBack'
  BY <1>0, <1>1, <1>3, <1>5, AliveNext DEF BoardInv, CellsPointBack, InCell, TypeOK
<1>9. TunnelsDisjoint'
  BY <1>0, <1>1, <1>3, <1>4, <1>5, AliveNext DEF BoardInv, TunnelsDisjoint, Queued, Carried, TypeOK
<1>10. StoppedAccountedFor'
  BY <1>0, <1>4 DEF BoardInv, StoppedAccountedFor
<1>11. VictimHeld'
  <2>1. ASSUME NEW a \in Balls, bpc'[a] = "collide"
        PROVE  /\ hit'[a] \in Balls \ {a} /\ BallAt(Ahead(a))' = hit'[a]
               /\ Alive(hit[a])' /\ bpc'[hit'[a]] \notin HoldsRows
    <3>1. a # b /\ bpc[a] = "collide" /\ hit[a] # b
      BY <1>0, <2>1, Mover DEF TypeOK
    <3>2. QED
      BY <1>0, <1>1, <1>3, <1>5, <2>1, <3>1, OthersHold DEF HoldsRows, TypeOK
  <2>2. QED
    BY <2>1 DEF VictimHeld
<1>12. QED
  BY <1>1, <1>2, <1>3, <1>5, <1>6, <1>7, <1>8, <1>9, <1>10, <1>11 DEF BoardInv

(* A ball moves into the free cell ahead, and stops there if it is sticky. *)
LEMMA IntoStep ==
  ASSUME IInv, NEW b \in Balls, MoveInto(b)
  PROVE  IInv'
<1> USE DEF IInv
<1> DEFINE q == NextCell(b)
<1>0. /\ bpc[b] = "move" /\ ~ stopped[b] /\ ball[pos[b]] = b /\ pos[b] \in Pos
      /\ bpc' = [bpc EXCEPT ![b] = "check"] /\ mval' = [mval EXCEPT ![b] = 1]
      /\ pos' = [pos EXCEPT ![b] = q]
      /\ ball' = [ball EXCEPT ![pos[b]] = NoBall, ![q] = b]
      /\ UNCHANGED <<hit, wpc, wball, warp_balls, px, pdx, sweep, aborted>>
  BY DEF MoveInto, OnBoard, At, Return, warpVars, paddleVars, TypeOK
<1>1. /\ q \in Pos /\ ball[q] = NoBall /\ q # pos[b]
      /\ \/ /\ type[q] = "sticky"
            /\ dir' = [dir EXCEPT ![b] = <<0, 0>>] /\ stopped' = [stopped EXCEPT ![b] = TRUE]
         \/ /\ type[q] = "empty"
            /\ dir' = [dir EXCEPT ![b] = Bounced(b)] /\ stopped' = [stopped EXCEPT ![b] = FALSE]
  <2>1. q \in Pos /\ ball[q] = NoBall /\ type[q] \in {"empty", "sticky"} /\ TypeAt(q) = type[q]
    BY DEF MoveInto, TypeAt, BallAt
  <2>2. q # pos[b]
    BY <1>0, <2>1, BoardAssumption
  <2>3. CASE type[q] = "sticky"
    BY <2>1, <2>2, <2>3 DEF MoveInto
  <2>4. CASE type[q] = "empty"
    <3>1. stopped' = [stopped EXCEPT ![b] = (TypeAt(q) = "sticky")] /\ TypeAt(q) # "sticky"
      BY <2>1, <2>4 DEF MoveInto
    <3>2. (TypeAt(q) = "sticky") = FALSE
      BY <3>1
    <3>3. QED
      BY <2>1, <2>2, <2>4, <3>1, <3>2 DEF MoveInto
  <2>5. QED
    BY <2>1, <2>3, <2>4
<1>2. TypeOK' /\ FixedCells'
  <2>1. FixedCells' /\ type' \in [Pos -> CellType] /\ strength' \in [Pos -> Nat]
    BY HitKeepsCells DEF MoveInto
  <2>2. dir' \in [Balls -> (-1 .. 1) \X (-1 .. 1)]
    <3>1. <<0, 0>> \in (-1 .. 1) \X (-1 .. 1)
      OBVIOUS
    <3>2. Bounced(b) \in (-1 .. 1) \X (-1 .. 1)
      BY Neighbours
    <3>3. QED
      BY <1>1, <3>1, <3>2 DEF TypeOK
  <2>3. /\ bpc' \in [Balls -> BallPC] /\ mval' \in [Balls -> -1 .. 1] /\ pos' \in [Balls -> Pos]
    BY <1>0, <1>1 DEF TypeOK, BallPC, HoldsBall, HoldsRows
  <2>4. ball' \in [Pos -> Balls \cup {NoBall}] /\ stopped' \in [Balls -> BOOLEAN]
    BY <1>0, <1>1 DEF TypeOK
  <2>5. QED
    BY <1>0, <2>1, <2>2, <2>3, <2>4 DEF TypeOK
<1>3. RowsExclusive' /\ CollidersRun'
  BY <1>0, <1>1 DEF RowsExclusive, CollidersRun, TypeOK, HoldsRows
<1>4. TunnelStages'
  BY <1>0, <1>1, Mover DEF TunnelStages, TypeOK, Queued, Parked, InTunnel
<1>5. /\ \A a \in Balls : (Queued(a)' <=> Queued(a)) /\ (InTunnel(a)' <=> InTunnel(a))
      /\ ~ InTunnel(b) /\ InCell(b)
  BY <1>0, Mover DEF InTunnel, Queued, Carried, TypeOK, InCell
<1>6. \A a \in Balls : InCell(a)' => InCell(a)
  BY <1>0, <1>1, <1>5, BoardAssumption DEF InCell, TypeOK
<1>7. DeadStayDead'
  BY <1>0, <1>1, <1>6 DEF DeadStayDead, TypeOK
<1>8. Directions'
  BY <1>0, <1>1, <1>5, Mover, Neighbours, ZenonT(60) DEF Directions, TypeOK
<1>9. ExitsRun'
  <2>1. \A w \in Warps : WarpOut[w] # q /\ WarpOut[w] \in Pos
    BY <1>1, BoardAssumption DEF FixedCells
  <2>2. QED
    <3>1. \A w \in Warps : ball'[WarpOut[w]] # NoBall =>
            ball'[WarpOut[w]] = ball[WarpOut[w]] /\ ball[WarpOut[w]] # b
      BY <1>0, <1>1, <2>1 DEF TypeOK, BoardInv, CellsPointBack
    <3>2. \A w \in Warps : ball[WarpOut[w]] \in Balls \cup {NoBall}
      BY <2>1 DEF TypeOK
    <3>3. QED
      BY <1>1, <3>1, <3>2, ZenonT(60) DEF ExitsRun, TypeOK
<1>10. CellsPointBack'
  <2>1. \A p \in Pos : ball'[p] # NoBall => p # pos[b] /\ (p = q \/ ball'[p] = ball[p])
    BY <1>0, <1>1 DEF TypeOK
  <2>2. \A p \in Pos : ball'[p] # NoBall => pos'[ball'[p]] = p
    BY <1>0, <1>1, <2>1 DEF BoardInv, CellsPointBack, TypeOK
  <2>3. QED
    BY <1>2, <1>4, <1>7, <2>2, AliveNext DEF CellsPointBack, InCell, TypeOK
<1>11. TunnelsDisjoint'
  <2>1. \A a \in Balls : InTunnel(a)' => ~ InCell(a)' /\ Alive(a)'
    BY <1>2, <1>4, <1>5, <1>6, <1>7, AliveNext DEF BoardInv, TunnelsDisjoint
  <2>2. \A w \in Warps : Carried(w)' = Carried(w) /\ (Queued(Carried(w))' <=> Queued(Carried(w)))
    BY <1>0 DEF Carried, Queued
  <2>3. \A a \in Balls : bpc'[a] = "accept" => bpc[a] = "accept"
    BY <1>0 DEF TypeOK
  <2>4. QED
    BY <1>0, <1>5, <2>1, <2>2, <2>3 DEF BoardInv, TunnelsDisjoint
<1>12. StoppedAccountedFor'
  BY <1>0, <1>1, <1>5, BoardAssumption DEF BoardInv, StoppedAccountedFor, TypeOK, CellsPointBack
<1>13. VictimHeld'
  <2>1. ASSUME NEW a \in Balls, bpc'[a] = "collide"
        PROVE  /\ hit'[a] \in Balls \ {a} /\ BallAt(Ahead(a))' = hit'[a]
               /\ Alive(hit[a])' /\ bpc'[hit'[a]] \notin HoldsRows
    <3>1. a # b /\ bpc[a] = "collide" /\ hit[a] # b
      BY <1>0, <2>1, Mover DEF TypeOK
    <3>2. \A p \in Pos : ball'[p] # ball[p] => p[2] - pos[b][2] \in -1 .. 1
      <4>1. /\ pos[b][2] \in Int /\ q[2] - pos[b][2] \in -1 .. 1
            /\ \A p \in Pos : ball'[p] # ball[p] => p = pos[b] \/ p = q
        BY <1>0, Neighbours DEF TypeOK
      <4>2. QED
        BY <4>1
    <3>3. QED
      BY <1>0, <1>1, <1>2, <1>4, <1>7, <2>1, <3>1, <3>2, OthersHold, ZenonT(60) DEF HoldsRows, TypeOK
  <2>2. QED
    BY <2>1 DEF VictimHeld
<1>14. QED
  BY <1>2, <1>3, <1>4, <1>7, <1>8, <1>9, <1>10, <1>11, <1>12, <1>13 DEF BoardInv

(* A ball leaves the board for a tunnel, its thread still at its door.     *)
LEMMA WarpStep ==
  ASSUME IInv, NEW b \in Balls, MoveWarp(b)
  PROVE  IInv'
<1> USE DEF IInv
<1>0. /\ bpc[b] = "move" /\ ~ stopped[b] /\ ball[pos[b]] = b /\ pos[b] \in Pos
      /\ bpc' = [bpc EXCEPT ![b] = "accept"] /\ stopped' = [stopped EXCEPT ![b] = TRUE]
      /\ ball' = [ball EXCEPT ![pos[b]] = NoBall] /\ dir' = [dir EXCEPT ![b] = Bounced(b)]
      /\ UNCHANGED <<pos, mval, hit, wpc, wball, warp_balls, px, pdx, sweep, aborted>>
  BY DEF MoveWarp, OnBoard, At, warpVars, paddleVars, TypeOK
<1>1. TypeOK' /\ FixedCells'
  <2>1. FixedCells' /\ type' \in [Pos -> CellType] /\ strength' \in [Pos -> Nat]
    BY HitKeepsCells DEF MoveWarp
  <2>2. dir' \in [Balls -> (-1 .. 1) \X (-1 .. 1)]
    BY <1>0, Neighbours DEF TypeOK
  <2>3. bpc' \in [Balls -> BallPC] /\ stopped' \in [Balls -> BOOLEAN] /\ ball' \in [Pos -> Balls \cup {NoBall}]
    BY <1>0 DEF TypeOK, BallPC, HoldsBall, HoldsRows
  <2>4. QED
    BY <1>0, <2>1, <2>2, <2>3 DEF TypeOK
<1>2. RowsExclusive' /\ CollidersRun'
  BY <1>0 DEF RowsExclusive, CollidersRun, TypeOK, HoldsRows
<1>3. TunnelStages'
  BY <1>0, Mover DEF TunnelStages, TypeOK, Queued, Parked, InTunnel
<1>4. /\ \A a \in Balls : Queued(a)' <=> Queued(a)
      /\ \A w \in Warps : Carried(w)' = Carried(w) /\ (Queued(Carried(w))' <=> Queued(Carried(w)))
      /\ ~ Queued(b) /\ \A w \in Warps : Carried(w) # b
  BY <1>0, Mover DEF InTunnel, Queued, Carried
<1>5. \A a \in Balls : InCell(a)' => InCell(a) /\ a # b
  BY <1>0, BoardAssumption DEF InCell, BoardInv, CellsPointBack, TypeOK
<1>6. DeadStayDead'
  BY <1>0, <1>5, Mover DEF DeadStayDead, TypeOK
<1>7. \A a \in Balls : InTunnel(a)' <=> InTunnel(a) \/ a = b
  BY <1>0, <1>4 DEF InTunnel, TypeOK
<1>8. Directions'
  BY <1>0, <1>7, Mover, Neighbours DEF Directions, TypeOK
<1>9. ExitsRun'
  <2>1. \A w \in Warps : WarpOut[w] \in Pos /\ ball[WarpOut[w]] \in Balls \cup {NoBall}
    BY BoardAssumption DEF TypeOK
  <2>2. \A w \in Warps : ball'[WarpOut[w]] # NoBall =>
          ball'[WarpOut[w]] = ball[WarpOut[w]] /\ ball[WarpOut[w]] # b
    BY <1>0, <2>1 DEF TypeOK, BoardInv, CellsPointBack
  <2>3. QED
    BY <1>0, <2>1, <2>2 DEF ExitsRun, TypeOK
<1>10. CellsPointBack'
  BY <1>0, <1>1, <1>3, <1>6, AliveNext DEF BoardInv, CellsPointBack, InCell, TypeOK
<1>11. TunnelsDisjoint'
  <2>1. \A a \in Balls : InTunnel(a)' => ~ InCell(a)' /\ Alive(a)'
    BY <1>1, <1>3, <1>5, <1>6, <1>7, AliveNext DEF BoardInv, TunnelsDisjoint
  <2>2. \A a \in Balls : bpc'[a] = "accept" => bpc[a] = "accept" \/ a = b
    BY <1>0 DEF TypeOK
  <2>3. QED
    BY <1>0, <1>4, <2>1, <2>2 DEF BoardInv, TunnelsDisjoint
<1>12. StoppedAccountedFor'
  BY <1>0, <1>7, BoardAssumption DEF BoardInv, StoppedAccountedFor, TypeOK, CellsPointBack
<1>13. VictimHeld'
  <2>1. ASSUME NEW a \in Balls, bpc'[a] = "collide"
        PROVE  /\ hit'[a] \in Balls \ {a} /\ BallAt(Ahead(a))' = hit'[a]
               /\ Alive(hit[a])' /\ bpc'[hit'[a]] \notin HoldsRows
    <3>1. a # b /\ bpc[a] = "collide" /\ hit[a] # b
      BY <1>0, <2>1, Mover DEF TypeOK
    <3>2. \A p \in Pos : ball'[p] # ball[p] => p[2] - pos[b][2] \in -1 .. 1
      <4>1. pos[b][2] \in Int /\ \A p \in Pos : ball'[p] # ball[p] => p = pos[b]
        BY <1>0, Neighbours DEF TypeOK
      <4>2. QED
        BY <4>1
    <3>3. QED
      BY <1>0, <1>1, <1>3, <1>6, <2>1, <3>1, <3>2, OthersHold DEF HoldsRows, TypeOK
  <2>2. QED
    BY <2>1 DEF VictimHeld
<1>14. QED
  BY <1>1, <1>2, <1>3, <1>6, <1>8, <1>9, <1>10, <1>11, <1>12, <1>13 DEF BoardInv

(* The tunnel takes the ball in at the back of its deque.                  *)
LEMMA AcceptStep ==
  ASSUME IInv, NEW b \in Balls, AcceptBall(b)
  PROVE  IInv'
<1> USE DEF IInv
<1>0. PICK w \in Warps :
      /\ bpc[b] = "accept" /\ bpc' = [bpc EXCEPT ![b] = "check"] /\ mval' = [mval EXCEPT ![b] = 0]
      /\ warp_balls' = [warp_balls EXCEPT ![w] = Append(@, b)]
      /\ wpc' = [wpc EXCEPT ![w] = IF @ = "sleep" THEN "lock" ELSE @]
      /\ UNCHANGED <<type, strength, ball, pos, dir, stopped, hit, wball, px, pdx, sweep, aborted>>
  BY DEF AcceptBall, At, Return, cellVars, motionVars, paddleVars
<1>1. /\ warp_balls[w] \in Seq(Balls) /\ Append(warp_balls[w], b) \in Seq(Balls)
      /\ Len(warp_balls[w]) \in Nat /\ DOMAIN warp_balls[w] = 1 .. Len(warp_balls[w])
      /\ DOMAIN warp_balls'[w] = 1 .. Len(warp_balls[w]) + 1
      /\ \A i \in 1 .. Len(warp_balls[w]) : warp_balls'[w][i] = warp_balls[w][i]
      /\ warp_balls'[w][Len(warp_balls[w]) + 1] = b
      /\ warp_balls' \in [Warps -> Seq(Balls)]
      /\ \A v \in Warps \ {w} : warp_balls'[v] = warp_balls[v]
  BY <1>0, LenProperties, AppendProperties DEF TypeOK
<1>2. \A v \in Warps : wpc'[v] = wpc[v] \/ (wpc[v] = "sleep" /\ wpc'[v] = "lock")
  <2>1. wpc' = [wpc EXCEPT ![w] = wpc'[w]] /\ (wpc'[w] = wpc[w] \/ (wpc[w] = "sleep" /\ wpc'[w] = "lock"))
    BY <1>0 DEF TypeOK
  <2>2. QED
    BY <2>1 DEF TypeOK
<1>3. TypeOK'
  <2>1. wpc' \in [Warps -> WarpPC] /\ bpc' \in [Balls -> BallPC] /\ mval' \in [Balls -> -1 .. 1]
    BY <1>0 DEF TypeOK, WarpPC, BallPC, HoldsBall, HoldsRows
  <2>2. QED
    BY <1>0, <1>1, <2>1 DEF TypeOK
<1>4. FixedCells' /\ ExitsRun' /\ RowsExclusive' /\ CollidersRun'
  BY <1>0 DEF FixedCells, ExitsRun, RowsExclusive, CollidersRun, TypeOK, HoldsRows
<1>5. /\ \A a : Queued(a)' <=> Queued(a) \/ a = b
      /\ \A v \in Warps : Carried(v)' = Carried(v)
  <2>1. \A x : x \in Range(warp_balls'[w]) <=> x \in Range(warp_balls[w]) \/ x = b
    BY <1>1 DEF Range
  <2>2. \A v \in Warps : Carried(v)' = Carried(v)
    BY <1>0, <1>2 DEF Carried
  <2>3. QED
    BY <1>1, <2>1, <2>2 DEF Queued
<1>6. ~ Queued(b) /\ (\A v \in Warps : Carried(v) # b) /\ ~ InCell(b) /\ stopped[b]
  BY <1>0 DEF BoardInv, TunnelsDisjoint, InTunnel, TunnelStages
<1>7. \A a \in Balls : InTunnel(a)' <=> InTunnel(a)
  BY <1>0, <1>5 DEF InTunnel, TypeOK
<1>8. TunnelStages'
  <2>1. \A v \in Warps : wpc'[v] \in {"tunnel", "ball", "row", "notify"} => wpc'[v] = wpc[v]
    BY <1>2
  <2>2. QED
    BY <1>0, <1>5, <1>6, <2>1 DEF TunnelStages, TypeOK, Parked
<1>9. DeadStayDead'
  BY <1>0 DEF DeadStayDead, TypeOK, InCell
<1>10. Directions' /\ StoppedAccountedFor'
  BY <1>0, <1>7 DEF Directions, BoardInv, StoppedAccountedFor
<1>11. CellsPointBack'
  BY <1>0, <1>3, <1>8, <1>9, AliveNext DEF BoardInv, CellsPointBack, InCell, TypeOK
<1>12. TunnelsDisjoint'
  <2>1. \A a \in Balls : InTunnel(a)' => ~ InCell(a)' /\ Alive(a)'
    BY <1>0, <1>3, <1>7, <1>8, <1>9, AliveNext DEF BoardInv, TunnelsDisjoint, InCell
  <2>2. \A a \in Balls : bpc'[a] = "accept" => bpc[a] = "accept" /\ a # b
    BY <1>0 DEF TypeOK
  <2>3. \A v \in Warps : ~ Queued(Carried(v))'
    BY <1>5, <1>6 DEF BoardInv, TunnelsDisjoint
  <2>4. \A v \in Warps : \A i \in DOMAIN warp_balls[v] : warp_balls[v][i] # b
    BY <1>6 DEF Queued, Range
  <2>5. \A u, v \in Warps : \A i \in DOMAIN warp_balls'[u], j \in DOMAIN warp_balls'[v] :
          warp_balls'[u][i] = warp_balls'[v][j] => u = v /\ i = j
    <3>1. ASSUME NEW v \in Warps, NEW i \in DOMAIN warp_balls'[v]
          PROVE  \/ v = w /\ i = Len(warp_balls[w]) + 1 /\ warp_balls'[v][i] = b
                 \/ i \in DOMAIN warp_balls[v] /\ warp_balls'[v][i] = warp_balls[v][i]
                    /\ warp_balls'[v][i] # b
      <4>1. CASE v = w /\ i = Len(warp_balls[w]) + 1
        BY <1>1, <4>1
      <4>2. CASE v = w /\ i # Len(warp_balls[w]) + 1
        BY <1>1, <2>4, <3>1, <4>2
      <4>3. CASE v # w
        BY <1>1, <2>4, <3>1, <4>3
      <4>4. QED
        BY <4>1, <4>2, <4>3
    <3>2. QED
      BY <3>1 DEF BoardInv, TunnelsDisjoint
  <2>6. QED
    BY <1>5, <2>1, <2>2, <2>3, <2>5 DEF BoardInv, TunnelsDisjoint
<1>13. VictimHeld'
  <2>1. ASSUME NEW a \in Balls, bpc'[a] = "collide"
        PROVE  /\ hit'[a] \in Balls \ {a} /\ BallAt(Ahead(a))' = hit'[a]
               /\ Alive(hit[a])' /\ bpc'[hit'[a]] \notin HoldsRows
    <3>1. a # b /\ bpc[a] = "collide" /\ hit[a] # b
      BY <1>0, <2>1 DEF TypeOK, BoardInv, VictimHeld, HoldsRows
    <3>2. QED
      BY <1>0, <1>3, <1>8, <1>9, <2>1, <3>1, OthersHold DEF HoldsRows, TypeOK
  <2>2. QED
    BY <2>1 DEF VictimHeld
<1>14. QED
  BY <1>3, <1>4, <1>8, <1>9, <1>10, <1>11, <1>12, <1>13 DEF BoardInv

(* A ball meets another one and wakes it; both stay where they are.        *)
LEMMA CollideStep ==
  ASSUME IInv, NEW b \in Balls, MoveCollide(b)
  PROVE  IInv'
<1> USE DEF IInv
<1>p. PICK v : v = BallAt(NextCell(b))
  OBVIOUS
<1>0. /\ bpc[b] = "move" /\ ~ stopped[b]
      /\ hit' = [hit EXCEPT ![b] = v]
      /\ bpc' = [bpc EXCEPT ![b] = "collide", ![v] = Woken(v)]
      /\ dir' = [dir EXCEPT ![b] = Bounced(b)]
      /\ UNCHANGED <<ball, pos, stopped, mval, wpc, wball, warp_balls, px, pdx, sweep, aborted>>
  BY <1>p DEF MoveCollide, OnBoard, At, warpVars, paddleVars
<1>1. /\ v \in Balls \ {b} /\ NextCell(b) \in Pos /\ ball[NextCell(b)] = v /\ pos[v] = NextCell(b)
      /\ Ahead(b)' = NextCell(b)
  <2>1. v # NoBall /\ NextCell(b) \in Pos /\ ball[NextCell(b)] = v
    BY <1>p DEF MoveCollide, BallAt
  <2>2. v \in Balls /\ pos[v] = NextCell(b)
    BY <2>1 DEF TypeOK, BoardInv, CellsPointBack
  <2>3. NextCell(b) # pos[b]
    BY <1>0, Mover, Neighbours
  <2>4. Ahead(b)' = NextCell(b)
    BY <1>0 DEF Ahead, NextCell, TypeOK
  <2>5. QED
    BY <2>1, <2>2, <2>3, <2>4
<1>2. bpc[v] \notin HoldsRows
  <2>1. pos[v][2] - pos[b][2] \in -1 .. 1 /\ pos[v][2] \in Int /\ pos[b][2] \in Int
    BY <1>1, Neighbours
  <2>2. QED
    BY <1>0, <1>1, <2>1, Mover
<1>3. /\ bpc'[b] = "collide" /\ bpc'[v] \notin HoldsRows
      /\ \A a \in Balls \ {b} : bpc'[a] = bpc[a] \/ (bpc[a] = "sleep" /\ bpc'[a] = "relock")
      /\ bpc' \in [Balls -> BallPC]
  BY <1>0, <1>1, <1>2 DEF Woken, TypeOK, BallPC, HoldsBall, HoldsRows
<1>4. TypeOK' /\ FixedCells'
  <2>1. FixedCells' /\ type' \in [Pos -> CellType] /\ strength' \in [Pos -> Nat]
    BY HitKeepsCells DEF MoveCollide
  <2>2. dir' \in [Balls -> (-1 .. 1) \X (-1 .. 1)]
    BY <1>0, Neighbours DEF TypeOK
  <2>3. hit' \in [Balls -> Balls \cup {NoBall}]
    BY <1>0, <1>1 DEF TypeOK
  <2>4. QED
    BY <1>0, <1>3, <2>1, <2>2, <2>3 DEF TypeOK
<1>5. RowsExclusive' /\ CollidersRun'
  BY <1>0, <1>3 DEF RowsExclusive, CollidersRun, HoldsRows
<1>6. TunnelStages'
  <2>1. \A w \in Warps : wpc[w] \in {"tunnel", "ball", "row", "notify"} => wball[w] # b
    BY <1>0, Mover
  <2>2. \A a \in Balls : Queued(a)' => Queued(a) /\ a # b
    BY <1>0, Mover DEF Queued, InTunnel
  <2>3. QED
    BY <1>0, <1>3, <2>1, <2>2 DEF TunnelStages, Parked
<1>7. /\ \A a \in Balls : /\ (Queued(a)' <=> Queued(a)) /\ (InTunnel(a)' <=> InTunnel(a))
                          /\ (InCell(a)' <=> InCell(a))
      /\ \A w \in Warps : Carried(w)' = Carried(w) /\ (Queued(Carried(w))' <=> Queued(Carried(w)))
  BY <1>0, <1>3 DEF InTunnel, Queued, Carried, InCell
<1>8. DeadStayDead'
  BY <1>0, <1>3, <1>7, Mover DEF DeadStayDead
<1>9. Directions'
  BY <1>0, <1>7, Mover, Neighbours DEF Directions, TypeOK
<1>10. ExitsRun'
  BY <1>0 DEF ExitsRun, TypeOK
<1>11. CellsPointBack'
  BY <1>0, <1>4, <1>6, <1>8, AliveNext, ZenonT(60) DEF BoardInv, CellsPointBack, InCell, TypeOK
<1>12. TunnelsDisjoint'
  <2>1. \A a \in Balls : InTunnel(a)' => ~ InCell(a)' /\ Alive(a)'
    BY <1>4, <1>6, <1>7, <1>8, AliveNext DEF BoardInv, TunnelsDisjoint
  <2>2. \A a \in Balls : bpc'[a] = "accept" => bpc[a] = "accept"
    BY <1>3
  <2>3. warp_balls' = warp_balls
    BY <1>0
  <2>4. QED
    BY <1>7, <2>1, <2>2, <2>3 DEF BoardInv, TunnelsDisjoint
<1>13. StoppedAccountedFor'
  BY <1>0, <1>7 DEF BoardInv, StoppedAccountedFor
<1>14. VictimHeld'
  <2>1. ASSUME NEW a \in Balls, bpc'[a] = "collide"
        PROVE  /\ hit'[a] \in Balls \ {a} /\ BallAt(Ahead(a))' = hit'[a]
               /\ Alive(hit[a])' /\ bpc'[hit'[a]] \notin HoldsRows
    <3>1. CASE a = b
      <4>1. hit'[b] = v /\ BallAt(Ahead(b))' = v
        BY <1>0, <1>1 DEF BallAt, TypeOK
      <4>2. Alive(v)'
        BY <1>0, <1>1, <1>4, <1>6, <1>8, AliveNext DEF InCell
      <4>3. QED
        BY <1>1, <1>3, <3>1, <4>1, <4>2 DEF Alive, HoldsRows
    <3>2. CASE a # b
      <4>1. bpc[a] = "collide" /\ hit[a] # b
        BY <1>0, <1>3, <2>1, <3>2, Mover
      <4>2. \A c \in Balls \ {b} :
              /\ bpc'[c] = "collide" => bpc[c] = "collide"
              /\ bpc'[c] \in HoldsRows => bpc[c] \in HoldsRows
              /\ pos'[c] = pos[c] /\ dir'[c] = dir[c] /\ hit'[c] = hit[c]
        BY <1>0, <1>3 DEF HoldsRows, TypeOK
      <4>3. bpc[b] \in HoldsRows /\ \A p \in Pos : ball'[p] = ball[p]
        BY <1>0 DEF HoldsRows
      <4>4. QED
        BY <1>4, <1>6, <1>8, <2>1, <3>2, <4>1, <4>2, <4>3, OthersHold
    <3>3. QED
      BY <3>1, <3>2
  <2>2. QED
    BY <2>1 DEF VictimHeld
<1>15. QED
  BY <1>4, <1>5, <1>6, <1>8, <1>9, <1>10, <1>11, <1>12, <1>13, <1>14 DEF BoardInv

(* The second half of a collision: directions change hands and the ball    *)
(* that was hit is released.                                               *)
LEMMA FinishStep ==
  ASSUME IInv, NEW b \in Balls, FinishCollide(b)
  PROVE  IInv'
<1> USE DEF IInv
<1>p. PICK v : v = hit[b]
  OBVIOUS
<1>0. /\ bpc[b] = "collide" /\ ~ stopped[b]
      /\ bpc' = [bpc EXCEPT ![b] = "check"] /\ mval' = [mval EXCEPT ![b] = 0]
      /\ hit' = [hit EXCEPT ![b] = NoBall] /\ stopped' = [stopped EXCEPT ![v] = FALSE]
      /\ UNCHANGED <<type, strength, ball, pos, wpc, wball, warp_balls, px, pdx, sweep, aborted>>
  BY <1>p DEF FinishCollide, At, Return, CollidersRun, cellVars, warpVars, paddleVars
<1>1. v \in Balls \ {b} /\ bpc[v] \notin HoldsRows /\ Ahead(b) \in Pos /\ ball[Ahead(b)] = v
  BY <1>p, <1>0, BoardAssumption DEF BoardInv, VictimHeld, BallAt
<1>2. InCell(v) /\ ~ InTunnel(v) /\ Alive(v)
  BY <1>1, BoardAssumption DEF InCell, BoardInv, TunnelsDisjoint, CellsPointBack
<1>3. PICK d \in (-1 .. 1) \X (-1 .. 1) :
        /\ dir' = [dir EXCEPT ![v] = dir[b], ![b] = d]
        /\ d[1] # 0 /\ d[2] # 0
  <2>1. dir[b] \in (-1 .. 1) \X (-1 .. 1) /\ dir[b][1] # 0 /\ dir[b][2] # 0
    BY <1>0, Mover DEF TypeOK
  <2> DEFINE swap(i) == IF dir[v][i] # dir[b][i] THEN - dir[b][i] ELSE dir[b][i]
  <2>2. dir' = [dir EXCEPT ![v] = dir[b], ![b] = <<swap(1), swap(2)>>]
    BY <1>p DEF FinishCollide
  <2>3. swap(1) \in -1 .. 1 /\ swap(2) \in -1 .. 1 /\ swap(1) # 0 /\ swap(2) # 0
    BY <2>1
  <2> HIDE DEF swap
  <2>4. <<swap(1), swap(2)>> \in (-1 .. 1) \X (-1 .. 1)
    BY <2>3
  <2>5. QED
    BY <2>2, <2>3, <2>4
<1>4. TypeOK'
  <2>1. dir' \in [Balls -> (-1 .. 1) \X (-1 .. 1)]
    BY <1>1, <1>3 DEF TypeOK
  <2>2. bpc' \in [Balls -> BallPC] /\ mval' \in [Balls -> -1 .. 1]
    BY <1>0 DEF TypeOK, BallPC, HoldsBall, HoldsRows
  <2>3. hit' \in [Balls -> Balls \cup {NoBall}] /\ stopped' \in [Balls -> BOOLEAN]
    BY <1>0 DEF TypeOK
  <2>4. QED
    BY <1>0, <2>1, <2>2, <2>3 DEF TypeOK
<1>5. FixedCells' /\ RowsExclusive' /\ CollidersRun'
  BY <1>0, <1>1 DEF FixedCells, RowsExclusive, CollidersRun, TypeOK, HoldsRows
<1>6. \A a \in Balls : /\ (Queued(a)' <=> Queued(a)) /\ (InTunnel(a)' <=> InTunnel(a))
                       /\ (InCell(a)' <=> InCell(a))
  BY <1>0 DEF InTunnel, Queued, Carried, InCell, TypeOK
<1>7. \A w \in Warps : /\ Carried(w)' = Carried(w) /\ (Queued(Carried(w))' <=> Queued(Carried(w)))
                       /\ wpc[w] \in {"tunnel", "ball", "row"} => wball[w] # v
  BY <1>0, <1>1, <1>2 DEF Queued, Carried, InTunnel
<1>8. TunnelStages'
  <2>1. \A w \in Warps : wpc[w] \in {"tunnel", "ball", "row", "notify"} => wball[w] # b
    BY <1>0, Mover
  <2>2. \A a \in Balls : Queued(a)' => Queued(a) /\ a # b /\ a # v
    BY <1>0, <1>2, Mover DEF Queued, InTunnel
  <2>3. \A a \in Balls : bpc'[a] = "accept" => bpc[a] = "accept" /\ a # v
    BY <1>0, <1>1 DEF TypeOK, HoldsRows
  <2>4. QED
    BY <1>0, <1>7, <2>1, <2>2, <2>3 DEF TunnelStages, Parked, TypeOK
<1>9. DeadStayDead'
  BY <1>0, <1>6 DEF DeadStayDead, TypeOK
<1>10. Directions'
  <2>1. dir[b][1] # 0 /\ dir[b][2] # 0
    BY <1>0, Mover
  <2>2. \A a \in Balls : dir'[a][1] = 0 \/ dir'[a][2] = 0 => a # v /\ dir'[a] = dir[a]
    BY <1>1, <1>3, <2>1 DEF TypeOK
  <2>3. QED
    BY <1>0, <1>6, <2>2 DEF Directions, TypeOK
<1>11. ExitsRun'
  BY <1>0, BoardAssumption DEF ExitsRun, TypeOK
<1>12. CellsPointBack'
  BY <1>0, <1>4, <1>8, <1>9, AliveNext DEF BoardInv, CellsPointBack, InCell, TypeOK
<1>13. TunnelsDisjoint'
  <2>1. \A a \in Balls : InTunnel(a)' => ~ InCell(a)' /\ Alive(a)'
    BY <1>4, <1>6, <1>8, <1>9, AliveNext DEF BoardInv, TunnelsDisjoint
  <2>2. \A a \in Balls : bpc'[a] = "accept" => bpc[a] = "accept"
    BY <1>0 DEF TypeOK
  <2>3. QED
    BY <1>0, <1>6, <1>7, <2>1, <2>2 DEF BoardInv, TunnelsDisjoint
<1>14. StoppedAccountedFor'
  BY <1>0, <1>6 DEF BoardInv, StoppedAccountedFor, TypeOK
<1>15. VictimHeld'
  <2>1. ASSUME NEW a \in Balls, bpc'[a] = "collide"
        PROVE  /\ hit'[a] \in Balls \ {a} /\ BallAt(Ahead(a))' = hit'[a]
               /\ Alive(hit[a])' /\ bpc'[hit'[a]] \notin HoldsRows
    <3>1. a # b /\ bpc[a] = "collide" /\ hit[a] # b
      BY <1>0, <2>1, Mover DEF TypeOK
    <3>2. \A c \in Balls \ {b} : bpc[c] = "collide" => dir'[c] = dir[c]
      BY <1>1, <1>3 DEF TypeOK, HoldsRows
    <3>3. bpc[b] \in HoldsRows
      BY <1>0 DEF HoldsRows
    <3>4. \A c \in Balls \ {b} : bpc'[c] = bpc[c] /\ pos'[c] = pos[c] /\ hit'[c] = hit[c]
      BY <1>0 DEF TypeOK
    <3>5. QED
      BY <1>0, <1>4, <1>8, <1>9, <2>1, <3>1, <3>2, <3>3, <3>4, OthersHold
  <2>2. QED
    BY <2>1 DEF VictimHeld
<1>16. QED
  BY <1>4, <1>5, <1>8, <1>9, <1>10, <1>11, <1>12, <1>13, <1>14, <1>15 DEF BoardInv

-----------------------------------------------------------------------------
(* A warp thread that sleeps, wakes up or lets its mutex go moves no ball. *)
LEMMA WarpIdleSteps ==
  ASSUME IInv, NEW w \in Warps,
         \/ WarpTake(w) /\ warp_balls[w] = <<>>
         \/ WarpSpuriousWakeup(w) \/ WarpUnlock(w)
  PROVE  IInv'
<1> USE DEF IInv
<1>1. /\ wpc' \in [Warps -> WarpPC]
      /\ \A v \in Warps : \/ wpc'[v] = wpc[v]
                          \/ wpc[v] \in {"lock", "sleep"} /\ wpc'[v] \in {"lock", "sleep"}
                          \/ wpc[v] = "tunnel" /\ wpc'[v] = "ball"
      /\ UNCHANGED <<type, strength, ball, pos, dir, stopped, bpc, mval, hit, wball, warp_balls,
                     px, pdx, sweep, aborted>>
  BY DEF WarpTake, WarpSpuriousWakeup, WarpUnlock, WarpAt, TypeOK, WarpPC, cellVars, motionVars,
     paddleVars
<1>2. TypeOK'
  BY <1>1 DEF TypeOK
<1>3. /\ FixedCells' /\ ExitsRun' /\ RowsExclusive' /\ CollidersRun' /\ DeadStayDead'
      /\ CellsPointBack' /\ VictimHeld'
  BY <1>1, SMTT(30) DEF FixedCells, ExitsRun, RowsExclusive, CollidersRun, DeadStayDead, BoardInv,
     CellsPointBack, VictimHeld, InCell, Alive, BallAt, Ahead
<1>4. /\ \A a : Queued(a)' <=> Queued(a)
      /\ \A v \in Warps : Carried(v)' = Carried(v)
      /\ \A a : (InTunnel(a)' <=> InTunnel(a)) /\ (InCell(a)' <=> InCell(a)) /\ (Alive(a)' <=> Alive(a))
  BY <1>1 DEF Queued, Carried, InTunnel, InCell, Alive
<1>5. TunnelStages'
  BY <1>1, <1>4 DEF TunnelStages
<1>6. Directions' /\ StoppedAccountedFor' /\ TunnelsDisjoint'
  BY <1>1, <1>4 DEF Directions, BoardInv, StoppedAccountedFor, TunnelsDisjoint
<1>7. QED
  BY <1>2, <1>3, <1>5, <1>6 DEF BoardInv

(* A warp thread takes the first ball of its deque.                        *)
LEMMA WarpTakeStep ==
  ASSUME IInv, NEW w \in Warps, WarpTake(w), warp_balls[w] # <<>>
  PROVE  IInv'
<1> USE DEF IInv
<1>p. PICK b : b = Head(warp_balls[w])
  OBVIOUS
<1>0. /\ wpc[w] = "lock" /\ wpc' = [wpc EXCEPT ![w] = "tunnel"]
      /\ wball' = [wball EXCEPT ![w] = b]
      /\ warp_balls' = [warp_balls EXCEPT ![w] = Tail(@)]
      /\ UNCHANGED <<type, strength, ball, pos, dir, stopped, bpc, mval, hit, px, pdx, sweep, aborted>>
  BY <1>p DEF WarpTake, WarpAt, cellVars, motionVars, paddleVars
<1>1. /\ Len(warp_balls[w]) \in Nat \ {0} /\ DOMAIN warp_balls[w] = 1 .. Len(warp_balls[w])
      /\ DOMAIN warp_balls'[w] = 1 .. Len(warp_balls[w]) - 1
      /\ \A i \in 1 .. Len(warp_balls[w]) - 1 : warp_balls'[w][i] = warp_balls[w][i + 1]
      /\ b = warp_balls[w][1] /\ b \in Balls
      /\ warp_balls' \in [Warps -> Seq(Balls)]
      /\ \A v \in Warps \ {w} : warp_balls'[v] = warp_balls[v]
  <2>1. warp_balls[w] \in Seq(Balls)
    BY DEF TypeOK
  <2>2. /\ Len(warp_balls[w]) \in Nat \ {0} /\ DOMAIN warp_balls[w] = 1 .. Len(warp_balls[w])
        /\ Tail(warp_balls[w]) \in Seq(Balls) /\ Head(warp_balls[w]) \in Balls
        /\ Len(Tail(warp_balls[w])) = Len(warp_balls[w]) - 1
        /\ DOMAIN Tail(warp_balls[w]) = 1 .. Len(warp_balls[w]) - 1
        /\ \A i \in 1 .. Len(warp_balls[w]) - 1 : Tail(warp_balls[w])[i] = warp_balls[w][i + 1]
        /\ Head(warp_balls[w]) = warp_balls[w][1]
    BY <2>1, EmptySeq, LenProperties, HeadTailProperties
  <2>3. QED
    BY <1>p, <1>0, <2>2 DEF TypeOK
<1>2. TypeOK'
  BY <1>0, <1>1 DEF TypeOK, WarpPC
<1>3. /\ FixedCells' /\ ExitsRun' /\ RowsExclusive' /\ CollidersRun' /\ DeadStayDead'
      /\ CellsPointBack' /\ VictimHeld'
  BY <1>0, SMTT(30) DEF FixedCells, ExitsRun, RowsExclusive, CollidersRun, DeadStayDead, BoardInv,
     CellsPointBack, VictimHeld, InCell, Alive, BallAt, Ahead
<1>4. Queued(b) /\ (\A v \in Warps : Carried(v) # b) /\ Carried(w) = NoBall
  <2>1. Queued(b)
    BY <1>1 DEF Queued, Range
  <2>2. Carried(w) = NoBall
    BY <1>0 DEF Carried
  <2>3. QED
    BY <2>1, <2>2 DEF BoardInv, TunnelsDisjoint
<1>5. \A a : Queued(a)' <=> Queued(a) /\ a # b
  <2>1. ASSUME NEW a, Queued(a)' PROVE Queued(a) /\ a # b
    <3>0. PICK v \in Warps : \E i \in DOMAIN warp_balls'[v] : warp_balls'[v][i] = a
      BY <2>1 DEF Queued, Range
    <3>1. PICK i \in DOMAIN warp_balls'[v] : warp_balls'[v][i] = a
      BY <3>0
    <3>2. CASE v = w
      <4>1. i + 1 \in DOMAIN warp_balls[w] /\ i + 1 # 1 /\ 1 \in DOMAIN warp_balls[w]
            /\ a = warp_balls[w][i + 1]
        BY <1>1, <3>1, <3>2
      <4>2. QED
        BY <1>1, <4>1 DEF Queued, Range, BoardInv, TunnelsDisjoint
    <3>3. CASE v # w
      <4>1. i \in DOMAIN warp_balls[v] /\ a = warp_balls[v][i] /\ 1 \in DOMAIN warp_balls[w]
        BY <1>1, <3>1, <3>3
      <4>2. QED
        BY <1>1, <3>3, <4>1 DEF Queued, Range, BoardInv, TunnelsDisjoint
    <3>4. QED
      BY <3>2, <3>3
  <2>2. ASSUME NEW a, Queued(a), a # b PROVE Queued(a)'
    <3>0. PICK v \in Warps : \E i \in DOMAIN warp_balls[v] : warp_balls[v][i] = a
      BY <2>2 DEF Queued, Range
    <3>1. PICK i \in DOMAIN warp_balls[v] : warp_balls[v][i] = a
      BY <3>0
    <3>2. CASE v = w
      <4>1. i # 1 /\ i \in 1 .. Len(warp_balls[w]) /\ Len(warp_balls[w]) \in Nat
        BY <1>1, <2>2, <3>1, <3>2
      <4>2. i - 1 \in DOMAIN warp_balls'[w] /\ (i - 1) + 1 = i
        BY <1>1, <4>1
      <4>3. warp_balls'[w][i - 1] = a
        BY <1>1, <3>1, <3>2, <4>2
      <4>4. QED
        BY <4>2, <4>3 DEF Queued, Range
    <3>3. CASE v # w
      BY <1>1, <3>1, <3>3 DEF Queued, Range
    <3>4. QED
      BY <3>2, <3>3
  <2>3. QED
    BY <2>1, <2>2
<1>6. Carried(w)' = b /\ \A v \in Warps \ {w} : Carried(v)' = Carried(v)
  BY <1>0 DEF Carried, TypeOK
<1>7. \A a \in Balls : /\ (InTunnel(a)' <=> InTunnel(a)) /\ (InCell(a)' <=> InCell(a))
                       /\ (Alive(a)' <=> Alive(a))
  BY <1>0, <1>1, <1>4, <1>5, <1>6, BoardAssumption DEF InTunnel, InCell, Alive
<1>8. TunnelStages'
  <2>1. stopped[b] /\ bpc[b] \in Parked
    BY <1>1, <1>4 DEF TunnelStages
  <2>2. QED
    BY <1>0, <1>1, <1>5, <2>1 DEF TunnelStages, TypeOK
<1>9. Directions' /\ StoppedAccountedFor'
  BY <1>0, <1>7 DEF Directions, BoardInv, StoppedAccountedFor
<1>10. TunnelsDisjoint'
  <2>1. ASSUME NEW v \in Warps, NEW i \in DOMAIN warp_balls'[v]
        PROVE  \/ v = w /\ i + 1 \in DOMAIN warp_balls[v] /\ warp_balls'[v][i] = warp_balls[v][i + 1]
               \/ v # w /\ i \in DOMAIN warp_balls[v] /\ warp_balls'[v][i] = warp_balls[v][i]
    BY <1>1, <2>1
  <2>2. \A u, v \in Warps : \A i \in DOMAIN warp_balls'[u], j \in DOMAIN warp_balls'[v] :
          warp_balls'[u][i] = warp_balls'[v][j] => u = v /\ i = j
    <3>1. ASSUME NEW u \in Warps, NEW v \in Warps, NEW i \in DOMAIN warp_balls'[u],
                 NEW j \in DOMAIN warp_balls'[v], warp_balls'[u][i] = warp_balls'[v][j]
          PROVE  u = v /\ i = j
      <4>1. CASE u = w /\ v = w
        <5>1. i \in Int /\ j \in Int /\ i + 1 = j + 1
          BY <1>1, <2>1, <3>1, <4>1, SMTT(30) DEF BoardInv, TunnelsDisjoint
        <5>2. QED
          BY <4>1, <5>1
      <4>2. CASE ~ (u = w /\ v = w)
        BY <2>1, <3>1, <4>2 DEF BoardInv, TunnelsDisjoint
      <4>3. QED
        BY <4>1, <4>2
    <3>2. QED
      BY <3>1
  <2>3. \A u, v \in Warps : Carried(u)' # NoBall /\ Carried(u)' = Carried(v)' => u = v
    BY <1>4, <1>6 DEF BoardInv, TunnelsDisjoint
  <2>4. \A v \in Warps : ~ Queued(Carried(v))'
    BY <1>5, <1>6 DEF BoardInv, TunnelsDisjoint
  <2>5. \A a \in Balls : bpc'[a] = "accept" => ~ Queued(a)' /\ \A v \in Warps : Carried(v)' # a
    BY <1>0, <1>4, <1>5, <1>6 DEF BoardInv, TunnelsDisjoint
  <2>6. \A a \in Balls : InTunnel(a)' => ~ InCell(a)' /\ Alive(a)'
    BY <1>7 DEF BoardInv, TunnelsDisjoint
  <2>7. QED
    BY <2>2, <2>3, <2>4, <2>5, <2>6 DEF TunnelsDisjoint
<1>11. QED
  BY <1>2, <1>3, <1>8, <1>9, <1>10 DEF BoardInv

(* The warp thread takes the ball's mutex, and moves it to the exit.       *)
LEMMA WarpLockBallStep ==
  ASSUME IInv, NEW w \in Warps, WarpLockBall(w)
  PROVE  IInv'
<1> USE DEF IInv
<1>p. PICK b : b = wball[w]
  OBVIOUS
<1>0. /\ wpc[w] = "ball" /\ BallMutexFree(b) /\ wpc' = [wpc EXCEPT ![w] = "row"]
      /\ stopped' = [stopped EXCEPT ![b] = FALSE] /\ pos' = [pos EXCEPT ![b] = WarpOut[w]]
      /\ UNCHANGED <<type, strength, ball, dir, bpc, mval, hit, wball, warp_balls, px, pdx, sweep, aborted>>
  BY <1>p DEF WarpLockBall, WarpAt, cellVars, paddleVars
<1>1. /\ b \in Balls /\ b # NoBall /\ stopped[b] /\ bpc[b] \in {"sleep", "relock"}
      /\ Carried(w) = b /\ WarpOut[w] \in Pos
  BY <1>p, <1>0, BoardAssumption DEF TunnelStages, Parked, BallMutexFree, HoldsBall, Carried
<1>2. InTunnel(b) /\ ~ InCell(b) /\ ~ Queued(b) /\ \A v \in Warps : Carried(v) = b => v = w
  BY <1>1 DEF BoardInv, TunnelsDisjoint, InTunnel
<1>3. \A v \in Warps : v # w /\ wpc[v] \in {"tunnel", "ball", "row", "notify"} => wball[v] # b
  BY <1>1, <1>2 DEF Carried, TunnelStages
<1>4. TypeOK'
  BY <1>0, <1>1 DEF TypeOK, WarpPC
<1>5. ~ stopped'[b] /\ \A a \in Balls \ {b} : pos'[a] = pos[a] /\ stopped'[a] = stopped[a]
  BY <1>0, <1>1 DEF TypeOK
<1>6. FixedCells' /\ ExitsRun' /\ RowsExclusive' /\ CollidersRun'
  <2>1. FixedCells' /\ RowsExclusive' /\ CollidersRun'
    BY <1>0, <1>1, <1>5 DEF FixedCells, RowsExclusive, CollidersRun, HoldsRows
  <2>2. \A v \in Warps : ball[WarpOut[v]] \in Balls \cup {NoBall}
    BY BoardAssumption DEF TypeOK
  <2>3. ExitsRun'
    BY <1>0, <1>5, <2>2 DEF ExitsRun
  <2>4. QED
    BY <2>1, <2>3
<1>7. /\ \A a : Queued(a)' <=> Queued(a)
      /\ \A v \in Warps : Carried(v)' = Carried(v) /\ (Queued(Carried(v))' <=> Queued(Carried(v)))
      /\ \A a : /\ (InTunnel(a)' <=> InTunnel(a)) /\ (InCell(a)' <=> InCell(a))
                /\ (Alive(a)' <=> Alive(a))
  BY <1>0 DEF Queued, Carried, InTunnel, InCell, Alive, TypeOK
<1>8. TunnelStages'
  <2>1. \A v \in Warps \ {w} : wpc'[v] = wpc[v] /\ wball'[v] = wball[v]
    BY <1>0 DEF TypeOK
  <2>2. wpc'[w] = "row" /\ wball'[w] = b /\ pos'[b] = WarpOut[w] /\ ~ stopped'[b]
    BY <1>0, <1>1, <1>p DEF TypeOK
  <2>3. \A a \in Balls : bpc'[a] = "accept" => stopped'[a]
    BY <1>0, <1>1, <1>5 DEF TunnelStages
  <2>4. \A a \in Balls : Queued(a)' => stopped'[a] /\ bpc'[a] \in Parked
    BY <1>0, <1>2, <1>5, <1>7 DEF TunnelStages
  <2>5. ASSUME NEW v \in Warps, wpc'[v] \in {"tunnel", "ball"}
        PROVE  wball'[v] \in Balls /\ stopped'[wball'[v]] /\ bpc'[wball'[v]] \in Parked
    BY <1>0, <1>3, <1>5, <2>1, <2>2, <2>5 DEF TunnelStages
  <2>6. ASSUME NEW v \in Warps, wpc'[v] \in {"row", "notify"}
        PROVE  /\ wball'[v] \in Balls /\ ~ stopped'[wball'[v]]
               /\ bpc'[wball'[v]] \in {"sleep", "relock"} /\ pos'[wball'[v]] = WarpOut[v]
    BY <1>0, <1>1, <1>3, <1>5, <2>1, <2>2, <2>6 DEF TunnelStages
  <2>7. QED
    BY <2>3, <2>4, <2>5, <2>6 DEF TunnelStages
<1>9. DeadStayDead'
  BY <1>0, <1>1, <1>5, <1>7 DEF DeadStayDead
<1>10. Directions'
  BY <1>0, <1>2, <1>5, <1>7 DEF Directions
<1>11. CellsPointBack'
  BY <1>0, <1>2, <1>5, <1>7, BoardAssumption DEF BoardInv, CellsPointBack, InCell, TypeOK
<1>12. TunnelsDisjoint'
  BY <1>0, <1>7 DEF BoardInv, TunnelsDisjoint
<1>13. StoppedAccountedFor'
  BY <1>0, <1>1, <1>4, <1>5, <1>7 DEF BoardInv, StoppedAccountedFor
<1>14. VictimHeld'
  <2>1. \A a \in Balls : bpc[a] = "collide" => Ahead(a)' = Ahead(a) /\ BallAt(Ahead(a))' = BallAt(Ahead(a))
    BY <1>0, <1>1, <1>5 DEF Ahead, BallAt
  <2>2. QED
    BY <1>0, <1>7, <2>1 DEF BoardInv, VictimHeld
<1>15. QED
  BY <1>4, <1>6, <1>8, <1>9, <1>10, <1>11, <1>12, <1>13, <1>14 DEF BoardInv

(* The ball appears at the exit, and takes the place of whatever lay there. *)
LEMMA WarpRevealStep ==
  ASSUME IInv, NEW w \in Warps, WarpReveal(w)
  PROVE  IInv'
<1> USE DEF IInv
<1>p. PICK b, e : b = wball[w] /\ e = WarpOut[w]
  OBVIOUS
<1>0. /\ wpc[w] = "row" /\ RowsFree({e[2]}) /\ wpc' = [wpc EXCEPT ![w] = "notify"]
      /\ ball' = [ball EXCEPT ![e] = b]
      /\ UNCHANGED <<type, strength, pos, dir, stopped, bpc, mval, hit, wball, warp_balls,
                     px, pdx, sweep, aborted>>
  BY <1>p DEF WarpReveal, WarpAt, motionVars, paddleVars
<1>1. /\ b \in Balls /\ b # NoBall /\ ~ stopped[b] /\ bpc[b] \in {"sleep", "relock"} /\ pos[b] = e
      /\ Carried(w) = b /\ e \in Pos /\ Layout[e] = "warp"
  BY <1>p, <1>0, BoardAssumption DEF TunnelStages, Carried
<1>2. InTunnel(b) /\ ~ InCell(b) /\ ~ Queued(b) /\ \A v \in Warps : Carried(v) = b => v = w
  BY <1>1 DEF BoardInv, TunnelsDisjoint, InTunnel
<1>3. TypeOK'
  BY <1>0, <1>1 DEF TypeOK, WarpPC
<1>4. FixedCells' /\ RowsExclusive' /\ CollidersRun'
  BY <1>0 DEF FixedCells, RowsExclusive, CollidersRun, HoldsRows
<1>5. ExitsRun'
  <2>1. \A v \in Warps : WarpOut[v] \in Pos /\ (WarpOut[v] # e => ball'[WarpOut[v]] = ball[WarpOut[v]])
    BY <1>0, BoardAssumption DEF TypeOK
  <2>2. ball'[e] = b
    BY <1>0, <1>1 DEF TypeOK
  <2>3. QED
    BY <1>0, <1>1, <2>1, <2>2 DEF ExitsRun
<1>6. /\ \A a : Queued(a)' <=> Queued(a)
      /\ Carried(w)' = NoBall
      /\ \A v \in Warps \ {w} : Carried(v)' = Carried(v)
  BY <1>0 DEF Queued, Carried, TypeOK
<1>7. /\ \A a \in Balls : InTunnel(a)' <=> InTunnel(a) /\ a # b
      /\ \A a \in Balls : InCell(a)' => InCell(a) \/ a = b
  <2>1. \A a \in Balls : InTunnel(a)' <=> InTunnel(a) /\ a # b
    BY <1>0, <1>1, <1>2, <1>6, BoardAssumption DEF InTunnel
  <2>2. \A p \in Pos : ball'[p] = ball[p] \/ ball'[p] = b
    BY <1>0 DEF TypeOK
  <2>3. QED
    BY <2>1, <2>2 DEF InCell
<1>8. TunnelStages'
  <2>1. \A v \in Warps : wpc'[v] = wpc[v] \/ (wpc[v] = "row" /\ wpc'[v] = "notify")
    BY <1>0 DEF TypeOK
  <2>2. QED
    BY <1>0, <1>6, <2>1 DEF TunnelStages
<1>9. DeadStayDead'
  BY <1>0, <1>1, <1>7 DEF DeadStayDead
<1>10. Directions'
  BY <1>0, <1>7 DEF Directions
<1>11. CellsPointBack'
  <2>1. \A p \in Pos : ball'[p] = ball[p] \/ (p = e /\ ball'[p] = b)
    BY <1>0 DEF TypeOK
  <2>2. Alive(b)' /\ \A a : Alive(a)' <=> Alive(a)
    BY <1>0, <1>1 DEF Alive
  <2>3. QED
    BY <1>0, <1>1, <2>1, <2>2 DEF BoardInv, CellsPointBack
<1>12. TunnelsDisjoint'
  <2>1. \A a \in Balls : InTunnel(a)' => ~ InCell(a)' /\ Alive(a)'
    BY <1>3, <1>7, <1>8, <1>9, AliveNext DEF BoardInv, TunnelsDisjoint
  <2>2. \A v \in Warps : ~ Queued(Carried(v))'
    <3>1. ~ Queued(NoBall)
      BY BoardAssumption DEF Queued, Range, TypeOK
    <3>2. QED
      BY <1>6, <3>1 DEF BoardInv, TunnelsDisjoint
  <2>3. \A u, v \in Warps : Carried(u)' # NoBall /\ Carried(u)' = Carried(v)' => u = v
    BY <1>6 DEF BoardInv, TunnelsDisjoint
  <2>4. \A a \in Balls : bpc'[a] = "accept" => ~ Queued(a)' /\ \A v \in Warps : Carried(v)' # a
    BY <1>0, <1>6, BoardAssumption DEF BoardInv, TunnelsDisjoint
  <2>5. warp_balls' = warp_balls
    BY <1>0
  <2>6. QED
    BY <2>1, <2>2, <2>3, <2>4, <2>5 DEF BoardInv, TunnelsDisjoint
<1>13. StoppedAccountedFor'
  <2>1. ASSUME NEW a \in Balls, stopped'[a] PROVE ball'[pos'[a]] = a \/ InTunnel(a)'
    <3>1. stopped[a] /\ a # b /\ pos'[a] = pos[a] /\ pos[a] \in Pos
      BY <1>0, <1>1, <2>1 DEF TypeOK
    <3>2. CASE InTunnel(a)
      BY <1>7, <3>1, <3>2
    <3>3. CASE ball[pos[a]] = a
      <4>1. pos[a] # e
        BY <1>p, <3>1, <3>3, BoardAssumption DEF ExitsRun
      <4>2. QED
        BY <1>0, <3>1, <3>3, <4>1 DEF TypeOK
    <3>4. QED
      BY <3>1, <3>2, <3>3 DEF BoardInv, StoppedAccountedFor
  <2>2. QED
    BY <2>1 DEF StoppedAccountedFor
<1>14. VictimHeld'
  <2>1. ASSUME NEW a \in Balls, bpc[a] = "collide"
        PROVE  Ahead(a)' = Ahead(a) /\ BallAt(Ahead(a))' = BallAt(Ahead(a))
    <3>1. Ahead(a)' = Ahead(a)
      BY <1>0 DEF Ahead
    <3>2. Ahead(a) # e
      <4>1. Ahead(a)[2] - pos[a][2] \in -1 .. 1 /\ pos[a][2] \in Int
        BY Neighbours
      <4>2. e[2] \in Int
        BY <1>1, Neighbours
      <4>3. pos[a][2] - e[2] > 1 \/ e[2] - pos[a][2] > 1
        BY <1>0, <2>1, <4>2, RowsFreeMeans DEF HoldsRows
      <4>4. QED
        BY <4>1, <4>2, <4>3
    <3>3. QED
      BY <1>0, <3>1, <3>2 DEF BallAt, TypeOK
  <2>2. \A a : Alive(a)' <=> Alive(a)
    BY <1>0 DEF Alive
  <2>3. QED
    BY <1>0, <2>1, <2>2 DEF BoardInv, VictimHeld
<1>15. QED
  BY <1>3, <1>4, <1>5, <1>8, <1>9, <1>10, <1>11, <1>12, <1>13, <1>14 DEF BoardInv

(* The warp thread wakes the ball it revealed and drops its mutex.         *)
LEMMA WarpNotifyStep ==
  ASSUME IInv, NEW w \in Warps, WarpNotify(w)
  PROVE  IInv'
<1> USE DEF IInv
<1>p. PICK b : b = wball[w]
  OBVIOUS
<1>0. /\ wpc[w] = "notify" /\ wpc' = [wpc EXCEPT ![w] = "lock"]
      /\ wball' = [wball EXCEPT ![w] = NoBall] /\ bpc' = [bpc EXCEPT ![b] = Woken(b)]
      /\ UNCHANGED <<type, strength, ball, pos, dir, stopped, mval, hit, warp_balls, px, pdx, sweep, aborted>>
  BY <1>p DEF WarpNotify, WarpAt, cellVars, motionVars, paddleVars
<1>1. b \in Balls /\ bpc[b] \in {"sleep", "relock"} /\ ~ stopped[b]
  BY <1>p, <1>0 DEF TunnelStages
<1>2. bpc'[b] = "relock" /\ \A a \in Balls \ {b} : bpc'[a] = bpc[a]
  BY <1>0, <1>1 DEF Woken, TypeOK
<1>3. TypeOK'
  BY <1>0, <1>1 DEF TypeOK, WarpPC, BallPC, Woken
<1>4. FixedCells' /\ ExitsRun' /\ RowsExclusive' /\ CollidersRun'
  BY <1>0, <1>2 DEF FixedCells, ExitsRun, RowsExclusive, CollidersRun, HoldsRows
<1>5. /\ \A a : Queued(a)' <=> Queued(a)
      /\ \A v \in Warps : Carried(v)' = Carried(v) /\ (Queued(Carried(v))' <=> Queued(Carried(v)))
      /\ \A a \in Balls : /\ (InTunnel(a)' <=> InTunnel(a)) /\ (InCell(a)' <=> InCell(a))
                          /\ (Alive(a)' <=> Alive(a))
  <2>1. \A v \in Warps : Carried(v)' = Carried(v)
    BY <1>0 DEF Carried, TypeOK
  <2>2. \A a : Queued(a)' <=> Queued(a)
    BY <1>0 DEF Queued
  <2>3. \A v \in Warps : Queued(Carried(v))' <=> Queued(Carried(v))
    BY <2>1, <2>2 DEF Queued
  <2>4. \A a \in Balls : (InTunnel(a)' <=> InTunnel(a)) /\ (InCell(a)' <=> InCell(a)) /\ (Alive(a)' <=> Alive(a))
    BY <1>0, <1>1, <1>2, <2>1, <2>2 DEF InTunnel, InCell, Alive
  <2>5. QED
    BY <2>1, <2>2, <2>3, <2>4
<1>6. TunnelStages'
  <2>1. \A v \in Warps \ {w} : wpc'[v] = wpc[v] /\ wball'[v] = wball[v]
    BY <1>0 DEF TypeOK
  <2>2. wpc'[w] = "lock"
    BY <1>0 DEF TypeOK
  <2>3. QED
    BY <1>0, <1>2, <1>5, <2>1, <2>2 DEF TunnelStages, Parked
<1>7. DeadStayDead' /\ Directions'
  BY <1>0, <1>1, <1>2, <1>5 DEF DeadStayDead, Directions
<1>8. CellsPointBack' /\ StoppedAccountedFor'
  <2>1. \A p \in Pos : ball[p] \in Balls \cup {NoBall}
    BY DEF TypeOK
  <2>2. QED
    BY <1>0, <1>5, <2>1 DEF BoardInv, CellsPointBack, StoppedAccountedFor
<1>9. TunnelsDisjoint'
  <2>1. \A a \in Balls : bpc'[a] = "accept" => bpc[a] = "accept"
    BY <1>2
  <2>2. QED
    BY <1>0, <1>5, <2>1 DEF BoardInv, TunnelsDisjoint
<1>10. VictimHeld'
  BY <1>0, <1>2, <1>5 DEF BoardInv, VictimHeld, BallAt, Ahead, HoldsRows
<1>11. QED
  BY <1>3, <1>4, <1>6, <1>7, <1>8, <1>9, <1>10 DEF BoardInv

(* The paddle thread writes its row's types, and no brick lies there.      *)
LEMMA PaddleSteps ==
  ASSUME IInv, PaddleThread
  PROVE  IInv'
<1> USE DEF IInv
<1>0. UNCHANGED <<strength, ball, pos, dir, stopped, bpc, mval, hit, wpc, wball, warp_balls, aborted>>
  BY DEF PaddleThread, PaddleAim, PaddleStore, motionVars, warpVars, cellVars
<1>1. TypeOK' /\ FixedCells'
  <2>1. CASE PaddleAim
    <3>1. PICK mean \in 0 .. Width - 1 :
            /\ px' = IF px + pdx >= 0 /\ px + pdx + PaddleWidth <= Width THEN px + pdx ELSE px
            /\ pdx' = Clamp(mean - (px' + PaddleWidth \div 2))
      BY <2>1 DEF PaddleAim
    <3>2. px \in 0 .. Width - PaddleWidth /\ pdx \in -2 .. 2 /\ Width \in Nat /\ PaddleWidth \in Nat
      BY BoardAssumption DEF TypeOK
    <3>3. px' \in 0 .. Width - PaddleWidth
      BY <3>1, <3>2
    <3>4. \A d \in Int : Clamp(d) \in -2 .. 2
      BY DEF Clamp
    <3>5. PaddleWidth \div 2 \in Int
      BY <3>2
    <3>6. mean - (px' + PaddleWidth \div 2) \in Int
      BY <3>2, <3>3, <3>5
    <3>7. pdx' \in -2 .. 2
      BY <3>1, <3>4, <3>6
    <3>8. sweep' \in SUBSET (0 .. Width - 1) /\ type' = type
      BY <2>1 DEF PaddleAim, cellVars
    <3>9. QED
      BY <1>0, <3>3, <3>7, <3>8 DEF TypeOK, FixedCells
  <2>2. ASSUME NEW x \in 0 .. Width - 1, PaddleStore(x) PROVE TypeOK' /\ FixedCells'
    <3>1. \E t \in {"paddle", "empty"} : type' = [type EXCEPT ![<<x, PaddleRow>>] = t]
      BY <2>2 DEF PaddleStore
    <3>2. PICK t \in {"paddle", "empty"} : type' = [type EXCEPT ![<<x, PaddleRow>>] = t]
      BY <3>1
    <3>3. px' = px /\ pdx' = pdx /\ sweep' \in SUBSET (0 .. Width - 1) /\ type' \in [Pos -> CellType]
      <4>1. px' = px /\ pdx' = pdx /\ sweep' = sweep \ {x}
        BY <2>2 DEF PaddleStore
      <4>2. type' \in [Pos -> CellType]
        BY <3>2 DEF TypeOK, CellType
      <4>3. QED
        BY <4>1, <4>2 DEF TypeOK
    <3>4. \A p \in Pos : type'[p] = type[p] \/ (p[2] = PaddleRow /\ type'[p] = t)
      BY <3>2 DEF TypeOK
    <3>5. \A p \in Pos : p[2] = PaddleRow => Layout[p] \notin {"obstacle", "sticky", "warp"}
      <4>1. PaddleRow \in Int
        BY BoardAssumption DEF PaddleRow
      <4>2. QED
        BY <4>1, BoardAssumption
    <3>6. FixedCells'
      <4>1. ASSUME NEW p \in Pos, p[2] = PaddleRow, type'[p] = t
            PROVE  /\ type'[p] = "warp" <=> Layout[p] = "warp"
                   /\ type'[p] = "sticky" <=> Layout[p] = "sticky"
                   /\ type'[p] = "obstacle" <=> strength'[p] > 0
                   /\ p[2] = PaddleRow => strength'[p] = 0
        <5>1. strength'[p] = 0
          BY <1>0, <4>1 DEF FixedCells
        <5>2. QED
          BY <3>5, <4>1, <5>1
      <4>2. QED
        BY <1>0, <3>4, <4>1 DEF FixedCells
    <3>7. QED
      BY <1>0, <3>3, <3>6 DEF TypeOK
  <2>3. QED
    BY <2>1, <2>2 DEF PaddleThread
<1>2. ExitsRun' /\ RowsExclusive' /\ CollidersRun' /\ DeadStayDead'
  BY <1>0 DEF ExitsRun, RowsExclusive, CollidersRun, DeadStayDead, InCell
<1>3. CellsPointBack' /\ VictimHeld'
  BY <1>0 DEF BoardInv, CellsPointBack, VictimHeld, Alive, BallAt, Ahead
<1>4. /\ \A a : Queued(a)' <=> Queued(a)
      /\ \A v \in Warps : Carried(v)' = Carried(v)
      /\ \A a : (InTunnel(a)' <=> InTunnel(a)) /\ (InCell(a)' <=> InCell(a)) /\ (Alive(a)' <=> Alive(a))
  BY <1>0 DEF Queued, Carried, InTunnel, InCell, Alive
<1>5. TunnelStages'
  BY <1>0, <1>4 DEF TunnelStages
<1>6. Directions' /\ StoppedAccountedFor' /\ TunnelsDisjoint'
  BY <1>0, <1>4 DEF Directions, BoardInv, StoppedAccountedFor, TunnelsDisjoint
<1>7. QED
  BY <1>1, <1>2, <1>3, <1>5, <1>6 DEF BoardInv

-----------------------------------------------------------------------------
(* main() starts the threads with every ball in a cell of its own.         *)
LEMMA InitIInv == Init => IInv
<1> SUFFICES ASSUME Init PROVE IInv
  OBVIOUS
<1>1. TypeOK
  <2>1. ball \in [Pos -> Balls \cup {NoBall}]
    BY DEF Init
  <2>2. dir \in [Balls -> (-1 .. 1) \X (-1 .. 1)]
    <3>1. {-1, 1} \X {-1, 1} \subseteq (-1 .. 1) \X (-1 .. 1)
      OBVIOUS
    <3>2. QED
      BY <3>1 DEF Init
  <2>3. stopped \in [Balls -> BOOLEAN] /\ pos \in [Balls -> Pos]
    BY BoardAssumption DEF Init
  <2>4. px \in 0 .. Width - PaddleWidth /\ pdx \in -2 .. 2 /\ sweep \in SUBSET (0 .. Width - 1)
    BY BoardAssumption DEF Init
  <2>5. bpc \in [Balls -> BallPC] /\ mval \in [Balls -> -1 .. 1]
    BY DEF Init, BallPC, HoldsBall, HoldsRows
  <2>6. QED
    BY <2>1, <2>2, <2>3, <2>4, <2>5, BoardAssumption, EmptySeq DEF Init, TypeOK, WarpPC
<1>2. FixedCells
  <2>1. PaddleRow \in Int
    BY BoardAssumption DEF PaddleRow
  <2>2. \A p \in Pos : p[2] = PaddleRow => Strength[p] = 0
    BY <2>1, BoardAssumption
  <2>3. QED
    BY <2>2, BoardAssumption DEF Init, FixedCells
<1>3. \A a \in Balls : ~ Queued(a) /\ ~ InTunnel(a) /\ mval[a] = 0 /\ bpc[a] = "lock"
  BY BoardAssumption DEF Init, Queued, InTunnel, Carried, Range
<1>4. \A p \in Pos : ball[p] # NoBall => ball[p] \in Balls /\ pos[ball[p]] = p
  BY DEF Init
<1>5. \A a \in Balls : ball[pos[a]] = a
  <2>1. ASSUME NEW a \in Balls PROVE ball[pos[a]] = a
    <3>1. pos[a] \in Pos
      BY <1>1 DEF TypeOK
    <3>2. ball[pos[a]] = CHOOSE b \in Balls : pos[b] = pos[a]
      BY <3>1 DEF Init
    <3>3. ball[pos[a]] \in Balls /\ pos[ball[pos[a]]] = pos[a]
      BY <3>2
    <3>4. QED
      BY <3>3 DEF Init
  <2>2. QED
    BY <2>1
<1>6. RowsExclusive /\ CollidersRun /\ DeadStayDead
  BY <1>3 DEF RowsExclusive, CollidersRun, HoldsRows, DeadStayDead
<1>7. TunnelStages
  BY <1>3 DEF TunnelStages, Init
<1>8. Directions
  BY DEF Init, Directions
<1>9. ExitsRun
  <2>1. \A w \in Warps : WarpOut[w] \in Pos /\ Layout[WarpOut[w]] = "warp"
    BY BoardAssumption
  <2>2. \A a \in Balls : Layout[pos[a]] \in {"empty", "sticky"}
    BY DEF Init
  <2>3. \A w \in Warps : ball[WarpOut[w]] = NoBall
    BY <1>4, <2>1, <2>2
  <2>4. QED
    BY <2>3 DEF ExitsRun
<1>10. CellsPointBack /\ StoppedAccountedFor /\ VictimHeld
  BY <1>3, <1>4, <1>5 DEF CellsPointBack, StoppedAccountedFor, VictimHeld, Alive
<1>11. TunnelsDisjoint
  <2>1. \A w \in Warps : DOMAIN warp_balls[w] = {} /\ Carried(w) = NoBall
    BY DEF Init, Carried
  <2>2. QED
    BY <1>3, <2>1 DEF TunnelsDisjoint, Queued, Range
<1>12. QED
  BY <1>1, <1>2, <1>6, <1>7, <1>8, <1>9, <1>10, <1>11 DEF IInv, BoardInv

(* A failed assertion changes nothing but the fate of the process.         *)
LEMMA AbortStep ==
  ASSUME IInv, NEW b \in Balls, MoveAborts(b)
  PROVE  IInv'
<1> USE DEF IInv
<1>1. /\ aborted' = TRUE
      /\ UNCHANGED <<type, strength, ball, pos, dir, stopped, bpc, mval, hit, wpc, wball, warp_balls,
                     px, pdx, sweep>>
  BY DEF MoveAborts, cellVars, motionVars, warpVars, paddleVars
<1>2. TypeOK'
  BY <1>1 DEF TypeOK
<1>3. /\ FixedCells' /\ ExitsRun' /\ RowsExclusive' /\ CollidersRun' /\ DeadStayDead'
      /\ CellsPointBack' /\ VictimHeld'
  BY <1>1 DEF FixedCells, ExitsRun, RowsExclusive, CollidersRun, DeadStayDead, BoardInv,
     CellsPointBack, VictimHeld, InCell, Alive, BallAt, Ahead
<1>4. /\ \A a : Queued(a)' <=> Queued(a)
      /\ \A v \in Warps : Carried(v)' = Carried(v)
      /\ \A a : (InTunnel(a)' <=> InTunnel(a)) /\ (InCell(a)' <=> InCell(a)) /\ (Alive(a)' <=> Alive(a))
  BY <1>1 DEF Queued, Carried, InTunnel, InCell, Alive
<1>5. TunnelStages' /\ Directions' /\ StoppedAccountedFor' /\ TunnelsDisjoint'
  BY <1>1, <1>4 DEF TunnelStages, Directions, BoardInv, StoppedAccountedFor, TunnelsDisjoint
<1>6. QED
  BY <1>2, <1>3, <1>5 DEF BoardInv

(* Whatever any thread does next, the invariant survives.                  *)
LEMMA NextIInv == IInv /\ [Next]_vars => IInv'
<1> SUFFICES ASSUME IInv, [Next]_vars PROVE IInv'
  OBVIOUS
<1>1. ASSUME NEW b \in Balls, BallThread(b) \/ SpuriousWakeup(b) PROVE IInv'
  BY <1>1, LockSteps, AbortStep, CollideStep, FinishStep, WarpStep, AcceptStep, TrashStep,
     ObstacleStep, IntoStep DEF BallThread, Move
<1>2. ASSUME NEW w \in Warps, WarpThread(w) \/ WarpSpuriousWakeup(w) PROVE IInv'
  BY <1>2, WarpIdleSteps, WarpTakeStep, WarpLockBallStep, WarpRevealStep, WarpNotifyStep
     DEF WarpThread
<1>3. CASE PaddleThread
  BY <1>3, PaddleSteps
<1>4. CASE UNCHANGED vars
  <2>1. UNCHANGED <<type, strength, ball, pos, dir, stopped, bpc, mval, hit, wpc, wball, warp_balls,
                    px, pdx, sweep, aborted>>
    BY <1>4 DEF vars, cellVars, motionVars, warpVars, paddleVars
  <2>2. /\ \A a : Queued(a)' <=> Queued(a)
        /\ \A v \in Warps : Carried(v)' = Carried(v)
        /\ \A a : (InTunnel(a)' <=> InTunnel(a)) /\ (InCell(a)' <=> InCell(a)) /\ (Alive(a)' <=> Alive(a))
    BY <2>1 DEF Queued, Carried, InTunnel, InCell, Alive
  <2>3. TypeOK' /\ FixedCells' /\ RowsExclusive' /\ TunnelStages'
    BY <2>1, <2>2 DEF IInv, TypeOK, FixedCells, RowsExclusive, TunnelStages
  <2>4. DeadStayDead' /\ Directions' /\ ExitsRun' /\ CollidersRun'
    BY <2>1, <2>2 DEF IInv, DeadStayDead, Directions, ExitsRun, CollidersRun
  <2>5. CellsPointBack' /\ TunnelsDisjoint' /\ StoppedAccountedFor' /\ VictimHeld'
    BY <2>1, <2>2 DEF IInv, BoardInv, CellsPointBack, TunnelsDisjoint, StoppedAccountedFor,
       VictimHeld, BallAt, Ahead
  <2>6. QED
    BY <2>3, <2>4, <2>5 DEF IInv, BoardInv
<1>5. QED
  BY <1>1, <1>2, <1>3, <1>4 DEF Next, Ended

-----------------------------------------------------------------------------
LEMMA Inductive == Spec => []IInv
<1>1. QED
  BY InitIInv, NextIInv, PTL DEF Spec

(***************************************************************************)
(* On every board, no ball is lost, doubled or used after its deletion:    *)
(* cells and balls agree, a ball is in one place of one tunnel until it is *)
(* revealed, a stopped ball is where something can release it, and a ball  *)
(* that was hit outlives the collision.                                    *)
(***************************************************************************)
THEOREM BallsKept == Spec => []BoardInv
<1>1. IInv => BoardInv
  BY DEF IInv
<1>2. QED
  BY <1>1, Inductive, PTL

(***************************************************************************)
(* A cell is a brick exactly while it has strength left, on every board on *)
(* which main() keeps bricks out of the paddle's row.                      *)
(***************************************************************************)
THEOREM BricksStayWhole == Spec => []BricksWhole
<1>1. IInv => BricksWhole
  BY DEF IInv, BricksWhole, FixedCells
<1>2. QED
  BY <1>1, Inductive, PTL

(***************************************************************************)
(* Whatever ball collides with whatever other, no running ball is left     *)
(* with a zero in its direction.                                           *)
(***************************************************************************)
THEOREM RunningIsDiagonal == Spec => []MovesDiagonally
<1>1. IInv => MovesDiagonally
  BY DEF IInv, MovesDiagonally, Directions
<1>2. QED
  BY <1>1, Inductive, PTL

-----------------------------------------------------------------------------
(* A ball stops on the board only where it moves into a sticky cell.       *)
LEMMA NextStuck ==
  ASSUME IInv, StuckOnSticky, [Next]_vars
  PROVE  StuckOnSticky'
<1> USE DEF IInv
<1>1. CASE UNCHANGED <<ball, stopped>>
  BY <1>1 DEF StuckOnSticky
<1>2. ASSUME NEW b \in Balls, MoveTrash(b) PROVE StuckOnSticky'
  BY <1>2, BoardAssumption DEF MoveTrash, StuckOnSticky, TypeOK
<1>3. ASSUME NEW b \in Balls, FinishCollide(b) PROVE StuckOnSticky'
  BY <1>3, BoardAssumption DEF FinishCollide, cellVars, StuckOnSticky, TypeOK
<1>4. ASSUME NEW b \in Balls, MoveWarp(b) PROVE StuckOnSticky'
  <2>1. /\ ball' = [ball EXCEPT ![pos[b]] = NoBall] /\ stopped' = [stopped EXCEPT ![b] = TRUE]
    BY <1>4 DEF MoveWarp
  <2>2. \A p \in Pos : ball'[p] # NoBall => ball'[p] = ball[p] /\ ball[p] # b /\ ball[p] \in Balls
    BY <2>1 DEF TypeOK, BoardInv, CellsPointBack
  <2>3. QED
    BY <2>1, <2>2 DEF StuckOnSticky, TypeOK
<1>5. ASSUME NEW b \in Balls, MoveInto(b) PROVE StuckOnSticky'
  <2>1. PICK q : q = NextCell(b) /\ q \in Pos /\ TypeAt(q) = type[q]
    BY <1>5 DEF MoveInto, TypeAt
  <2>2. /\ ball' = [ball EXCEPT ![pos[b]] = NoBall, ![q] = b]
        /\ stopped' = [stopped EXCEPT ![b] = (type[q] = "sticky")]
    BY <1>5, <2>1 DEF MoveInto
  <2>3. stopped'[b] => type[q] = "sticky"
    BY <2>2 DEF TypeOK
  <2>4. stopped'[b] => Layout[q] = "sticky"
    BY <2>1, <2>3 DEF FixedCells
  <2>5. \A p \in Pos : ball'[p] # NoBall =>
          (p = q /\ ball'[p] = b) \/ (ball'[p] = ball[p] /\ ball[p] # b /\ ball[p] \in Balls)
    BY <2>1, <2>2 DEF TypeOK, BoardInv, CellsPointBack
  <2>6. \A a \in Balls \ {b} : stopped'[a] = stopped[a]
    BY <2>2 DEF TypeOK
  <2>7. QED
    BY <2>4, <2>5, <2>6 DEF StuckOnSticky
<1>6. ASSUME NEW w \in Warps, WarpLockBall(w) PROVE StuckOnSticky'
  BY <1>6, BoardAssumption DEF WarpLockBall, cellVars, StuckOnSticky, TypeOK
<1>7. ASSUME NEW w \in Warps, WarpReveal(w) PROVE StuckOnSticky'
  <2>1. /\ ball' = [ball EXCEPT ![WarpOut[w]] = wball[w]] /\ stopped' = stopped
        /\ ~ stopped[wball[w]]
    BY <1>7 DEF WarpReveal, WarpAt, motionVars, TunnelStages
  <2>2. QED
    BY <2>1 DEF StuckOnSticky, TypeOK
<1>8. QED
  BY <1>1, <1>2, <1>3, <1>4, <1>5, <1>6, <1>7
     DEF Next, BallThread, Move, WarpThread, PaddleThread, Ended, vars, cellVars, motionVars,
         LockBall, LockRows, MoveStopped, MoveAborts, MoveCollide, AcceptBall, MoveObstacle,
         CheckStopped, Sleep, Relock, DeleteBall, SpuriousWakeup, WarpTake, WarpUnlock, WarpNotify,
         WarpSpuriousWakeup, PaddleAim, PaddleStore

(* Who resets `stopped` of a ball that may sleep is a warp thread on its   *)
(* way to notify it, or has hit the ball in a sticky cell.                 *)
LEMMA NextWakeup ==
  ASSUME IInv, IInv', StuckOnSticky, WakeupComing, [Next]_vars
  PROVE  WakeupComing'
<1> USE DEF IInv
<1> DEFINE Waits(a) == bpc[a] \in {"towait", "sleep"}
           Coming(a) == \E w \in Warps : wpc[w] \in {"row", "notify"} /\ wball[w] = a
<1>1. SUFFICES ASSUME NEW a \in Balls, Waits(a)', ~ stopped'[a], Layout[pos'[a]] # "sticky"
               PROVE  Coming(a)'
  BY ZenonT(60) DEF WakeupComing, FixedCells, TypeOK
<1>2. Waits(a) /\ ~ stopped[a] /\ Layout[pos[a]] # "sticky" => Coming(a)
  BY DEF WakeupComing, FixedCells, TypeOK
<1>3. ASSUME NEW b \in Balls, BallThread(b) \/ SpuriousWakeup(b) PROVE Coming(a)'
  <2>0. Coming(a) => Coming(a)'
    BY <1>3
       DEF BallThread, Move, warpVars, LockBall, LockRows, MoveStopped, MoveAborts, MoveCollide,
       FinishCollide, MoveWarp, AcceptBall, MoveTrash, MoveObstacle, MoveInto,
       CheckStopped, Sleep, Relock, DeleteBall, SpuriousWakeup, TypeOK
  <2>1. CASE \/ LockBall(b) \/ LockRows(b) \/ MoveStopped(b) \/ CheckStopped(b) \/ Sleep(b)
             \/ SpuriousWakeup(b) \/ Relock(b) \/ DeleteBall(b)
    BY <1>1, <1>2, <2>0, <2>1
       DEF LockBall, LockRows, MoveStopped, CheckStopped, Sleep, SpuriousWakeup, Relock, DeleteBall,
           Return, At, TypeOK, motionVars
  <2>2. CASE MoveAborts(b)
    BY <1>1, <1>2, <2>0, <2>2 DEF MoveAborts, motionVars
  <2>3. CASE MoveCollide(b)
    BY <1>1, <1>2, <2>0, <2>3 DEF MoveCollide, Woken, TypeOK
  <2>4. CASE FinishCollide(b)
    <3>1. PICK v : v = hit[b]
      OBVIOUS
    <3>2. /\ bpc' = [bpc EXCEPT ![b] = "check"] /\ stopped' = [stopped EXCEPT ![v] = FALSE]
          /\ pos' = pos /\ bpc[b] = "collide"
      BY <2>4, <3>1 DEF FinishCollide, Return, At
    <3>3. v \in Balls /\ Ahead(b) \in Pos /\ ball[Ahead(b)] = v
      BY <3>1, <3>2, BoardAssumption DEF BoardInv, VictimHeld, BallAt
    <3>4. stopped[v] => Layout[pos[v]] = "sticky"
      BY <3>3, BoardAssumption DEF StuckOnSticky, BoardInv, CellsPointBack
    <3>5. QED
      BY <1>1, <1>2, <2>0, <3>2, <3>3, <3>4 DEF TypeOK
  <2>5. CASE MoveWarp(b) \/ AcceptBall(b) \/ MoveTrash(b) \/ MoveObstacle(b) \/ MoveInto(b)
    <3>1. a # b
      BY <1>1, <2>5 DEF MoveWarp, AcceptBall, MoveTrash, MoveObstacle, MoveInto, Return, TypeOK
    <3>2. bpc'[a] = bpc[a] /\ stopped'[a] = stopped[a] /\ pos'[a] = pos[a]
      BY <2>5, <3>1, SMTT(30)
         DEF MoveWarp, AcceptBall, MoveTrash, MoveObstacle, MoveInto, Return, TypeOK, motionVars
    <3>3. QED
      BY <1>1, <1>2, <2>0, <3>2
  <2>6. QED
    BY <1>3, <2>1, <2>2, <2>3, <2>4, <2>5 DEF BallThread, Move
<1>4. ASSUME NEW w \in Warps, WarpThread(w) \/ WarpSpuriousWakeup(w) PROVE Coming(a)'
  <2>1. CASE WarpTake(w) \/ WarpUnlock(w) \/ WarpSpuriousWakeup(w)
    <3>1. UNCHANGED <<bpc, stopped, pos>>
      BY <2>1 DEF WarpTake, WarpUnlock, WarpSpuriousWakeup, motionVars
    <3>2. \A v \in Warps : wpc[v] \in {"row", "notify"} => wpc'[v] = wpc[v] /\ wball'[v] = wball[v]
      BY <2>1 DEF WarpTake, WarpUnlock, WarpSpuriousWakeup, WarpAt, TypeOK
    <3>3. QED
      BY <1>1, <1>2, <3>1, <3>2
  <2>2. CASE WarpLockBall(w)
    <3>1. /\ wpc' = [wpc EXCEPT ![w] = "row"] /\ wball' = wball /\ bpc' = bpc
          /\ stopped' = [stopped EXCEPT ![wball[w]] = FALSE]
          /\ pos' = [pos EXCEPT ![wball[w]] = WarpOut[w]]
      BY <2>2 DEF WarpLockBall
    <3>2. CASE a = wball[w]
      BY <3>1, <3>2 DEF TypeOK
    <3>3. CASE a # wball[w]
      BY <1>1, <1>2, <3>1, <3>3 DEF TypeOK
    <3>4. QED
      BY <3>2, <3>3
  <2>3. CASE WarpReveal(w)
    <3>1. wpc' = [wpc EXCEPT ![w] = "notify"] /\ UNCHANGED <<wball, bpc, stopped, pos>>
      BY <2>3 DEF WarpReveal, motionVars
    <3>2. QED
      BY <1>1, <1>2, <3>1 DEF TypeOK
  <2>4. CASE WarpNotify(w)
    <3>1. /\ wpc' = [wpc EXCEPT ![w] = "lock"] /\ wball' = [wball EXCEPT ![w] = NoBall]
          /\ bpc' = [bpc EXCEPT ![wball[w]] = Woken(wball[w])]
          /\ UNCHANGED <<stopped, pos>> /\ wpc[w] = "notify"
      BY <2>4 DEF WarpNotify, WarpAt, motionVars
    <3>2. bpc[wball[w]] \in {"sleep", "relock"}
      BY <3>1 DEF TunnelStages
    <3>3. a # wball[w]
      BY <1>1, <3>1, <3>2 DEF Woken, TypeOK
    <3>4. bpc'[a] = bpc[a]
      BY <3>1, <3>3 DEF TypeOK
    <3>5. Coming(a)
      BY <1>1, <1>2, <3>1, <3>4
    <3>6. QED
      BY <3>1, <3>3, <3>5 DEF TypeOK
  <2>5. QED
    BY <1>4, <2>1, <2>2, <2>3, <2>4 DEF WarpThread
<1>5. CASE PaddleThread \/ UNCHANGED vars
  <2>1. UNCHANGED <<bpc, stopped, pos, wpc, wball>>
    BY <1>5 DEF PaddleThread, PaddleAim, PaddleStore, vars, motionVars, warpVars
  <2>2. QED
    BY <1>1, <1>2, <2>1
<1>6. QED
  BY <1>3, <1>4, <1>5 DEF Next, Ended

(***************************************************************************)
(* Where `stopped` is initialised (std::atomic<bool> since C++20), no      *)
(* wakeup is lost between warp_thread and ball_thread: whoever clears      *)
(* `stopped` of a ball that sleeps, or is about to, notifies it after, but *)
(* for a ball released from a sticky cell.                                 *)
(***************************************************************************)
THEOREM NoWakeupLost ==
  ASSUME StoppedAtStart \subseteq {FALSE}
  PROVE  Spec => []WakeupComing
<1>1. Init => StuckOnSticky /\ WakeupComing
  <2>1. SUFFICES ASSUME Init PROVE StuckOnSticky /\ WakeupComing
    OBVIOUS
  <2>2. \A a \in Balls : ~ stopped[a] /\ bpc[a] = "lock"
    BY <2>1 DEF Init
  <2>3. \A p \in Pos : ball[p] # NoBall => ball[p] \in Balls
    BY <2>1 DEF Init
  <2>4. QED
    BY <2>2, <2>3 DEF StuckOnSticky, WakeupComing
<1>2. IInv /\ IInv' /\ StuckOnSticky /\ WakeupComing /\ [Next]_vars
        => StuckOnSticky' /\ WakeupComing'
  BY NextStuck, NextWakeup
<1>3. QED
  BY <1>1, <1>2, Inductive, PTL DEF Spec

-----------------------------------------------------------------------------
(* Without tunnels a ball that has not fallen off lies where it thinks.    *)
InPlace == \A b \in Balls : mval[b] >= 0 => ball[pos[b]] = b

(* The only thing that takes a ball off its cell is then the trash.        *)
LEMMA NextInPlace ==
  ASSUME Warps = {}, IInv, InPlace, [Next]_vars
  PROVE  InPlace' /\ (MoveAssertion => MoveAssertion')
<1> USE DEF IInv
<1>1. ASSUME NEW b \in Balls, BallThread(b) \/ SpuriousWakeup(b)
      PROVE  InPlace' /\ (MoveAssertion => MoveAssertion')
  <2>0. bpc[b] \in HoldsRows => mval[b] >= 0
    <3>1. mval[b] \in -1 .. 1 /\ (bpc[b] \in HoldsRows => ~ (mval[b] < 0))
      BY DEF DeadStayDead, HoldsRows, TypeOK
    <3>2. QED
      BY <3>1
  <2>1. CASE \/ LockBall(b) \/ LockRows(b) \/ CheckStopped(b) \/ Sleep(b)
             \/ SpuriousWakeup(b) \/ Relock(b) \/ DeleteBall(b)
    BY <2>1
       DEF LockBall, LockRows, CheckStopped, Sleep, SpuriousWakeup, Relock, DeleteBall,
           InPlace, MoveAssertion, cellVars, motionVars
  <2>2. CASE MoveStopped(b) \/ MoveCollide(b) \/ FinishCollide(b) \/ MoveObstacle(b)
    <3>1. /\ ball' = ball /\ pos' = pos /\ aborted' = aborted
          /\ \A a \in Balls : mval'[a] >= 0 => mval[a] >= 0
      BY <2>0, <2>2 DEF MoveStopped, MoveCollide, FinishCollide, MoveObstacle, Return, OnBoard, At,
         TypeOK, cellVars, motionVars, HoldsRows
    <3>2. QED
      BY <3>1 DEF InPlace, MoveAssertion
  <2>3. CASE MoveAborts(b)
    <3>1. bpc[b] = "move" /\ ball[pos[b]] # b
      BY <2>3 DEF MoveAborts, At
    <3>2. QED
      BY <2>0, <3>1 DEF InPlace, HoldsRows
  <2>4. CASE MoveWarp(b)
    <3>1. NextCell(b) \in Pos /\ Layout[NextCell(b)] = "warp"
      BY <2>4 DEF MoveWarp, TypeAt, FixedCells
    <3>2. QED
      BY <3>1, BoardAssumption
  <2>5. CASE AcceptBall(b)
    BY <2>5 DEF AcceptBall
  <2>6. CASE MoveTrash(b)
    <3>1. /\ mval' = [mval EXCEPT ![b] = -1] /\ ball' = [ball EXCEPT ![pos[b]] = NoBall]
          /\ pos' = pos /\ aborted' = aborted /\ ball[pos[b]] = b
      BY <2>6 DEF MoveTrash, OnBoard, Return
    <3>2. \A a \in Balls : mval'[a] >= 0 => a # b /\ mval[a] >= 0
      BY <3>1 DEF TypeOK
    <3>3. QED
      BY <3>1, <3>2 DEF InPlace, MoveAssertion, TypeOK
  <2>7. CASE MoveInto(b)
    <3>1. PICK q : q = NextCell(b) /\ q \in Pos /\ ball[q] = NoBall
      BY <2>7 DEF MoveInto, BallAt, TypeAt
    <3>2. /\ mval' = [mval EXCEPT ![b] = 1] /\ pos' = [pos EXCEPT ![b] = q]
          /\ ball' = [ball EXCEPT ![pos[b]] = NoBall, ![q] = b]
          /\ aborted' = aborted /\ ball[pos[b]] = b
      BY <2>7, <3>1 DEF MoveInto, OnBoard, Return
    <3>3. \A a \in Balls \ {b} : mval'[a] = mval[a] /\ pos'[a] = pos[a]
      BY <3>2 DEF TypeOK
    <3>4. pos'[b] = q /\ ball'[q] = b
      BY <3>1, <3>2 DEF TypeOK
    <3>5. \A p \in Pos : p # pos[b] /\ p # q => ball'[p] = ball[p]
      BY <3>2 DEF TypeOK
    <3>6. \A a \in Balls \ {b} : ball[pos[a]] = a => pos[a] # pos[b] /\ pos[a] # q
      BY <3>1, <3>2, BoardAssumption
    <3>7. QED
      BY <3>2, <3>3, <3>4, <3>5, <3>6 DEF InPlace, MoveAssertion, TypeOK
  <2>8. QED
    BY <1>1, <2>1, <2>2, <2>3, <2>4, <2>5, <2>6, <2>7 DEF BallThread, Move
<1>2. CASE PaddleThread \/ UNCHANGED vars
  <2>1. UNCHANGED <<ball, pos, mval, aborted>>
    BY <1>2 DEF PaddleThread, PaddleAim, PaddleStore, vars, cellVars, motionVars
  <2>2. QED
    BY <2>1 DEF InPlace, MoveAssertion
<1>3. QED
  BY <1>1, <1>2 DEF Next, Ended

(***************************************************************************)
(* assert(ccur.ball == this) never fails on a board without tunnels.  With *)
(* tunnels it may: a revealed ball takes the place of one that lies at the *)
(* exit.                                                                   *)
(***************************************************************************)
THEOREM AssertionHoldsWithoutTunnels ==
  ASSUME Warps = {}
  PROVE  Spec => []MoveAssertion
<1>1. Init => InPlace /\ MoveAssertion
  <2>1. SUFFICES ASSUME Init PROVE InPlace /\ MoveAssertion
    OBVIOUS
  <2>2. ASSUME NEW a \in Balls PROVE ball[pos[a]] = a
    <3>1. pos[a] \in Pos
      BY <2>1 DEF Init
    <3>2. ball[pos[a]] = CHOOSE b \in Balls : pos[b] = pos[a]
      BY <2>1, <3>1 DEF Init
    <3>3. ball[pos[a]] \in Balls /\ pos[ball[pos[a]]] = pos[a]
      BY <3>2
    <3>4. QED
      BY <2>1, <3>3 DEF Init
  <2>3. QED
    BY <2>1, <2>2 DEF Init, InPlace, MoveAssertion
<1>2. IInv /\ InPlace /\ MoveAssertion /\ [Next]_vars => InPlace' /\ MoveAssertion'
  BY NextInPlace
<1>3. QED
  BY <1>1, <1>2, Inductive, PTL DEF Spec
=============================================================================
