------------------------------- MODULE Breakout -------------------------------
(***************************************************************************)
(* breakout61: a board of cells shared by one thread per ball, one thread  *)
(* per warp tunnel and a paddle thread (board.cc, breakout61.cc).          *)
(*                                                                         *)
(* Locks, in the order they nest: a ball's ball_mutex, the mutexes of the  *)
(* rows around it, a warp's warp_mutex.  Who holds a lock follows from     *)
(* where the threads are, so the locks are state functions and not         *)
(* variables.  The three row mutexes are taken by one std::scoped_lock,    *)
(* which backs off until it has all of them: taking them is one step.      *)
(* Everything move() does under the row mutexes is one step as well,       *)
(* except where it is visible to a thread that does not need those         *)
(* mutexes: a collision's two writes to the other ball, and the wait for   *)
(* the warp mutex.                                                         *)
(***************************************************************************)
EXTENDS Integers, Sequences, FiniteSets, Functions

CONSTANTS
  Width, Height,      \* board size
  Balls, Warps,       \* ball threads and warp threads
  NoBall,             \* nullptr
  Layout,             \* the cell types main() places before the balls
  Strength,           \* the strength of the bricks
  WarpIn, WarpOut,    \* a warp's source cell (s_x,s_y), the cell (x,y) it leads to
  Paddle,             \* the -P option
  PaddleWidth,        \* pw: 8 in main(), scaled to the board
  StoppedAtStart      \* what the uninitialised pong_ball::stopped may hold

Pos == (0 .. Width - 1) \X (0 .. Height - 1)
CellType == {"empty", "sticky", "warp", "trash", "obstacle", "paddle"}
PaddleRow == Height - 2

ASSUME BoardAssumption ==
  /\ Width \in Nat /\ Width >= 2
  /\ Height \in Nat /\ Height >= 2
  /\ NoBall \notin Balls
  /\ Layout \in [Pos -> CellType]
  /\ Strength \in [Pos -> Nat]
  /\ \A p \in Pos : Layout[p] = "obstacle" <=> Strength[p] > 0
  /\ WarpIn \in [Warps -> Pos] /\ WarpOut \in [Warps -> Pos]
  /\ \A p \in Pos : Layout[p] = "warp" => \E w \in Warps : WarpIn[w] = p
  /\ \A v, w \in Warps : WarpOut[v] = WarpOut[w] => v = w
  /\ \A w \in Warps : Layout[WarpOut[w]] = "warp" /\ Layout[WarpIn[w]] = "warp"
  /\ \A p \in Pos : Layout[p] \in {"obstacle", "sticky", "warp"} => p[2] < PaddleRow
  /\ Paddle \in BOOLEAN
  /\ PaddleWidth \in 1 .. Width
  /\ StoppedAtStart \in SUBSET BOOLEAN

VARIABLES
  type, strength, ball,          \* the fields of each pong_cell
  pos, dir, stopped,             \* of each pong_ball: (x,y), (dx,dy), stopped
  bpc, mval, hit,                \* each ball thread, move()'s result, cnext.ball
  wpc, wball, warp_balls,        \* each warp thread, its local b, its deque
  px, pdx, sweep,                \* the paddle thread: px, dx, columns to rewrite
  aborted                        \* the assertion in move() failed

cellVars == <<type, strength, ball>>
motionVars == <<pos, dir, stopped>>
warpVars == <<wpc, wball, warp_balls>>
paddleVars == <<px, pdx, sweep>>
vars == <<cellVars, motionVars, bpc, mval, hit, warpVars, paddleVars, aborted>>

(***************************************************************************)
(* Ball threads.  "lock": about to take ball_mutex.  "rows": has it, is    *)
(* about to take the row mutexes.  "move": in move().  "collide": has      *)
(* notified the ball it hit.  "accept": in accept_ball.  "check": at the   *)
(* test of `stopped`.  "towait": has read stopped as true.  "sleep": in    *)
(* ball_cv.wait.  "relock": woken, retakes ball_mutex.  "delete", "gone".  *)
(***************************************************************************)
HoldsRows == {"move", "collide", "accept"}
HoldsBall == {"rows", "check", "towait"} \cup HoldsRows
BallPC == HoldsBall \cup {"lock", "sleep", "relock", "delete", "gone"}

(***************************************************************************)
(* Warp threads.  "lock": about to take warp_mutex.  "sleep": in           *)
(* warp_cv.wait.  "tunnel": hides a ball, warp_mutex held.  "ball": wants  *)
(* the ball's ball_mutex.  "row": has it, wants the row.  "notify".        *)
(***************************************************************************)
WarpPC == {"lock", "sleep", "tunnel", "ball", "row", "notify"}

BallMutexFree(b) ==
  /\ bpc[b] \notin HoldsBall
  /\ \A w \in Warps : wball[w] = b => wpc[w] \notin {"row", "notify"}

\* A slip: move() locks its own row only.
RowsOf_Own(b) == {pos[b][2]}
RowsOf(b) == {pos[b][2] - 1, pos[b][2], pos[b][2] + 1}
RowsFree(R) == \A b \in Balls : bpc[b] \in HoldsRows => RowsOf(b) \cap R = {}
WarpMutexFree(w) == wpc[w] # "tunnel"

-----------------------------------------------------------------------------
(* main(): any placement of the balls on free empty or sticky cells. *)
Init ==
  /\ type = Layout /\ strength = Strength
  /\ pos \in [Balls -> {p \in Pos : p[2] <= Height - 3 /\ Layout[p] \in {"empty", "sticky"}}]
  /\ \A a, b \in Balls : pos[a] = pos[b] => a = b
  /\ ball = [p \in Pos |-> IF \E b \in Balls : pos[b] = p
                           THEN CHOOSE b \in Balls : pos[b] = p ELSE NoBall]
  /\ dir \in [Balls -> {-1, 1} \X {-1, 1}]
  /\ stopped \in [Balls -> StoppedAtStart]
  /\ bpc = [b \in Balls |-> "lock"]
  /\ mval = [b \in Balls |-> 0]
  /\ hit = [b \in Balls |-> NoBall]
  /\ wpc = [w \in Warps |-> "lock"]
  /\ wball = [w \in Warps |-> NoBall]
  /\ warp_balls = [w \in Warps |-> <<>>]
  /\ px = 0 /\ pdx = 1 /\ sweep = {}
  /\ aborted = FALSE

-----------------------------------------------------------------------------
(* A failed assertion ends every thread of the process. *)
At(b, s) == bpc[b] = s /\ ~aborted
WarpAt(w, s) == wpc[w] = s /\ ~aborted

(* board.cell(x, y): off the board there is only obstacle_cell, whose      *)
(* strength is 0 and which therefore never breaks.                         *)
TypeAt(p) == IF p \in Pos THEN type[p] ELSE "obstacle"
BallAt(p) == IF p \in Pos THEN ball[p] ELSE NoBall
Solid(p) == TypeAt(p) \in {"obstacle", "paddle"}

(* move() lines 52-63: the direction after bouncing off the neighbours ... *)
SideX(b) == <<pos[b][1] + dir[b][1], pos[b][2]>>
SideY(b) == <<pos[b][1], pos[b][2] + dir[b][2]>>
Bounced(b) == << IF Solid(SideX(b)) THEN - dir[b][1] ELSE dir[b][1],
                 IF Solid(SideY(b)) THEN - dir[b][2] ELSE dir[b][2] >>
(* ... and the cell it then heads for (line 66). *)
NextCell(b) == <<pos[b][1] + Bounced(b)[1], pos[b][2] + Bounced(b)[2]>>

\* Slips: a paddle wears like a brick, or a brick whose strength is used up
\* stays an obstacle.
HitObstacles_Paddle(S) ==
  /\ strength' = [p \in Pos |-> IF p \in S THEN strength[p] - 1 ELSE strength[p]]
  /\ type' = [p \in Pos |-> IF p \in S /\ strength[p] = 1 THEN "empty" ELSE type[p]]
HitObstacles_Stays(S) ==
  /\ strength' = [p \in Pos |-> IF p \in S /\ type[p] = "obstacle" /\ strength[p] # 0
                                THEN strength[p] - 1 ELSE strength[p]]
  /\ type' = type

(* pong_cell::hit_obstacle on each cell of S: a brick wears and breaks. *)
HitObstacles(S) ==
  LET worn == {p \in S \cap Pos : type[p] = "obstacle" /\ strength[p] # 0}
  IN  /\ strength' = [p \in Pos |-> IF p \in worn THEN strength[p] - 1 ELSE strength[p]]
      /\ type' = [p \in Pos |-> IF p \in worn /\ strength[p] = 1 THEN "empty" ELSE type[p]]

Sides(b) == {p \in {SideX(b), SideY(b)} : Solid(p)}

(* ball_cv.notify_all() *)
Woken(b) == IF bpc[b] = "sleep" THEN "relock" ELSE bpc[b]

(* ball_thread line 41 *)
LockBall(b) ==
  /\ At(b, "lock") /\ BallMutexFree(b)
  /\ bpc' = [bpc EXCEPT ![b] = "rows"]
  /\ UNCHANGED <<cellVars, motionVars, mval, hit, warpVars, paddleVars, aborted>>

(* move() lines 38-41 *)
LockRows(b) ==
  /\ At(b, "rows") /\ RowsFree(RowsOf(b))
  /\ bpc' = [bpc EXCEPT ![b] = "move"]
  /\ UNCHANGED <<cellVars, motionVars, mval, hit, warpVars, paddleVars, aborted>>

(* Leaving move() with result r drops the row mutexes. *)
Return(b, r) ==
  /\ bpc' = [bpc EXCEPT ![b] = "check"]
  /\ mval' = [mval EXCEPT ![b] = r]

MoveStopped(b) ==
  /\ At(b, "move") /\ stopped[b]
  /\ Return(b, 0)
  /\ UNCHANGED <<cellVars, motionVars, hit, warpVars, paddleVars, aborted>>

(* assert(ccur.ball == this) *)
MoveAborts(b) ==
  /\ At(b, "move") /\ ~stopped[b] /\ ball[pos[b]] # b
  /\ aborted' = TRUE
  /\ UNCHANGED <<cellVars, motionVars, bpc, mval, hit, warpVars, paddleVars>>

OnBoard(b) == At(b, "move") /\ ~stopped[b] /\ ball[pos[b]] = b

(* Lines 68-71: the ball ahead is woken before anything of it changes. *)
MoveCollide(b) ==
  /\ OnBoard(b) /\ BallAt(NextCell(b)) # NoBall
  /\ LET v == BallAt(NextCell(b))
     IN  /\ hit' = [hit EXCEPT ![b] = v]
         /\ bpc' = [bpc EXCEPT ![b] = "collide", ![v] = Woken(v)]
  /\ dir' = [dir EXCEPT ![b] = Bounced(b)]
  /\ HitObstacles(Sides(b))
  /\ UNCHANGED <<ball, pos, stopped, mval, warpVars, paddleVars, aborted>>

\* A slip: the ball that was hit keeps its direction.
FinishCollide_Keeps(b) ==
  /\ At(b, "collide")
  /\ dir' = [dir EXCEPT ![b] = << - dir[b][1], - dir[b][2] >>]
  /\ stopped' = [stopped EXCEPT ![hit[b]] = FALSE]
  /\ hit' = [hit EXCEPT ![b] = NoBall]
  /\ Return(b, 0)
  /\ UNCHANGED <<cellVars, pos, warpVars, paddleVars, aborted>>

(* Lines 73-83: exchange directions, release the ball that was hit. *)
FinishCollide(b) ==
  LET v == hit[b]
      swap(i) == IF dir[v][i] # dir[b][i] THEN - dir[b][i] ELSE dir[b][i]
  IN  /\ At(b, "collide")
      /\ dir' = [dir EXCEPT ![v] = dir[b], ![b] = <<swap(1), swap(2)>>]
      /\ stopped' = [stopped EXCEPT ![v] = FALSE]
      /\ hit' = [hit EXCEPT ![b] = NoBall]
      /\ Return(b, 0)
      /\ UNCHANGED <<cellVars, pos, warpVars, paddleVars, aborted>>

(* Lines 84-88: leave the board and go into the tunnel ... *)
MoveWarp(b) ==
  /\ OnBoard(b) /\ BallAt(NextCell(b)) = NoBall /\ TypeAt(NextCell(b)) = "warp"
  /\ dir' = [dir EXCEPT ![b] = Bounced(b)]
  /\ HitObstacles(Sides(b))
  /\ ball' = [ball EXCEPT ![pos[b]] = NoBall]
  /\ stopped' = [stopped EXCEPT ![b] = TRUE]
  /\ bpc' = [bpc EXCEPT ![b] = "accept"]
  /\ UNCHANGED <<pos, mval, hit, warpVars, paddleVars, aborted>>

(* ... in accept_ball, still under the row mutexes: cnext.warp is the      *)
(* tunnel whose source is the cell ahead.                                  *)
Ahead(b) == <<pos[b][1] + dir[b][1], pos[b][2] + dir[b][2]>>
\* Slips: a tunnel that holds one ball only, an arrival nobody is told of.
AcceptBall_OneSlot(b) ==
  \E w \in Warps :
    /\ At(b, "accept") /\ WarpIn[w] = Ahead(b) /\ WarpMutexFree(w)
    /\ warp_balls' = [warp_balls EXCEPT ![w] = <<b>>]
    /\ wpc' = [wpc EXCEPT ![w] = IF @ = "sleep" THEN "lock" ELSE @]
    /\ Return(b, 0)
    /\ UNCHANGED <<cellVars, motionVars, hit, wball, paddleVars, aborted>>
AcceptBall_Silent(b) ==
  \E w \in Warps :
    /\ At(b, "accept") /\ WarpIn[w] = Ahead(b) /\ WarpMutexFree(w)
    /\ warp_balls' = [warp_balls EXCEPT ![w] = Append(@, b)]
    /\ Return(b, 0)
    /\ UNCHANGED <<cellVars, motionVars, hit, wpc, wball, paddleVars, aborted>>
AcceptBall(b) ==
  \E w \in Warps :
    /\ At(b, "accept") /\ WarpIn[w] = Ahead(b) /\ WarpMutexFree(w)
    /\ warp_balls' = [warp_balls EXCEPT ![w] = Append(@, b)]
    /\ wpc' = [wpc EXCEPT ![w] = IF @ = "sleep" THEN "lock" ELSE @]
    /\ Return(b, 0)
    /\ UNCHANGED <<cellVars, motionVars, hit, wball, paddleVars, aborted>>

\* A slip: a ball that fell off reports 0 and is not destroyed.
MoveTrash_Zero(b) ==
  /\ OnBoard(b) /\ BallAt(NextCell(b)) = NoBall /\ TypeAt(NextCell(b)) = "trash"
  /\ dir' = [dir EXCEPT ![b] = Bounced(b)]
  /\ HitObstacles(Sides(b))
  /\ ball' = [ball EXCEPT ![pos[b]] = NoBall]
  /\ Return(b, 0)
  /\ UNCHANGED <<pos, stopped, hit, warpVars, paddleVars, aborted>>

(* Lines 90-93 *)
MoveTrash(b) ==
  /\ OnBoard(b) /\ BallAt(NextCell(b)) = NoBall /\ TypeAt(NextCell(b)) = "trash"
  /\ dir' = [dir EXCEPT ![b] = Bounced(b)]
  /\ HitObstacles(Sides(b))
  /\ ball' = [ball EXCEPT ![pos[b]] = NoBall]
  /\ Return(b, -1)
  /\ UNCHANGED <<pos, stopped, hit, warpVars, paddleVars, aborted>>

(* Lines 94-99 *)
MoveObstacle(b) ==
  /\ OnBoard(b) /\ BallAt(NextCell(b)) = NoBall /\ Solid(NextCell(b))
  /\ dir' = [dir EXCEPT ![b] = << - Bounced(b)[1], - Bounced(b)[2] >>]
  /\ HitObstacles(Sides(b) \cup {NextCell(b)})
  /\ Return(b, 0)
  /\ UNCHANGED <<ball, pos, stopped, hit, warpVars, paddleVars, aborted>>

\* A slip: the cell the ball leaves still points to it.
MoveInto_Trail(b) ==
  /\ OnBoard(b) /\ BallAt(NextCell(b)) = NoBall
  /\ TypeAt(NextCell(b)) \in {"empty", "sticky"}
  /\ HitObstacles(Sides(b))
  /\ pos' = [pos EXCEPT ![b] = NextCell(b)]
  /\ ball' = [ball EXCEPT ![NextCell(b)] = b]
  /\ Return(b, 1)
  /\ UNCHANGED <<dir, stopped, hit, warpVars, paddleVars, aborted>>

(* Lines 100-112 *)
MoveInto(b) ==
  /\ OnBoard(b) /\ BallAt(NextCell(b)) = NoBall
  /\ TypeAt(NextCell(b)) \in {"empty", "sticky"}
  /\ LET sticks == TypeAt(NextCell(b)) = "sticky"
     IN  /\ dir' = [dir EXCEPT ![b] = IF sticks THEN <<0, 0>> ELSE Bounced(b)]
         /\ stopped' = [stopped EXCEPT ![b] = sticks]
  /\ HitObstacles(Sides(b))
  /\ pos' = [pos EXCEPT ![b] = NextCell(b)]
  /\ ball' = [ball EXCEPT ![pos[b]] = NoBall, ![NextCell(b)] = b]
  /\ Return(b, 1)
  /\ UNCHANGED <<hit, warpVars, paddleVars, aborted>>

(* ball_thread lines 45-60: test `stopped`; if false, unlock and go on.    *)
CheckStopped(b) ==
  /\ At(b, "check")
  /\ bpc' = [bpc EXCEPT ![b] = IF stopped[b] THEN "towait"
                               ELSE IF mval[b] < 0 THEN "delete" ELSE "lock"]
  /\ UNCHANGED <<cellVars, motionVars, mval, hit, warpVars, paddleVars, aborted>>

(* ball_cv.wait(ball_mutex): release the mutex and sleep, in one step.     *)
Sleep(b) ==
  /\ At(b, "towait")
  /\ bpc' = [bpc EXCEPT ![b] = "sleep"]
  /\ UNCHANGED <<cellVars, motionVars, mval, hit, warpVars, paddleVars, aborted>>

SpuriousWakeup(b) ==
  /\ At(b, "sleep")
  /\ bpc' = [bpc EXCEPT ![b] = "relock"]
  /\ UNCHANGED <<cellVars, motionVars, mval, hit, warpVars, paddleVars, aborted>>

Relock(b) ==
  /\ At(b, "relock") /\ BallMutexFree(b)
  /\ bpc' = [bpc EXCEPT ![b] = "check"]
  /\ UNCHANGED <<cellVars, motionVars, mval, hit, warpVars, paddleVars, aborted>>

(* Line 62 *)
DeleteBall(b) ==
  /\ At(b, "delete")
  /\ bpc' = [bpc EXCEPT ![b] = "gone"]
  /\ UNCHANGED <<cellVars, motionVars, mval, hit, warpVars, paddleVars, aborted>>

-----------------------------------------------------------------------------
\* A slip: front() without pop_front().
WarpTake_Peeks(w) ==
  /\ WarpAt(w, "lock")
  /\ IF warp_balls[w] = <<>>
     THEN wpc' = [wpc EXCEPT ![w] = "sleep"] /\ UNCHANGED wball
     ELSE /\ wpc' = [wpc EXCEPT ![w] = "tunnel"]
          /\ wball' = [wball EXCEPT ![w] = Head(warp_balls[w])]
  /\ UNCHANGED <<cellVars, motionVars, bpc, mval, hit, warp_balls, paddleVars, aborted>>

(* warp_thread lines 83-91 *)
WarpTake(w) ==
  /\ WarpAt(w, "lock")
  /\ IF warp_balls[w] = <<>>
     THEN /\ wpc' = [wpc EXCEPT ![w] = "sleep"]
          /\ UNCHANGED <<wball, warp_balls>>
     ELSE /\ wpc' = [wpc EXCEPT ![w] = "tunnel"]
          /\ wball' = [wball EXCEPT ![w] = Head(warp_balls[w])]
          /\ warp_balls' = [warp_balls EXCEPT ![w] = Tail(@)]
  /\ UNCHANGED <<cellVars, motionVars, bpc, mval, hit, paddleVars, aborted>>

WarpSpuriousWakeup(w) ==
  /\ WarpAt(w, "sleep")
  /\ wpc' = [wpc EXCEPT ![w] = "lock"]
  /\ UNCHANGED <<cellVars, motionVars, bpc, mval, hit, wball, warp_balls, paddleVars, aborted>>

(* Lines 93-97: the delay is over, warp_mutex is released. *)
WarpUnlock(w) ==
  /\ WarpAt(w, "tunnel")
  /\ wpc' = [wpc EXCEPT ![w] = "ball"]
  /\ UNCHANGED <<cellVars, motionVars, bpc, mval, hit, wball, warp_balls, paddleVars, aborted>>

(* Lines 99-104 *)
WarpLockBall(w) ==
  /\ WarpAt(w, "ball") /\ BallMutexFree(wball[w])
  /\ wpc' = [wpc EXCEPT ![w] = "row"]
  /\ stopped' = [stopped EXCEPT ![wball[w]] = FALSE]
  /\ pos' = [pos EXCEPT ![wball[w]] = WarpOut[w]]
  /\ UNCHANGED <<cellVars, dir, bpc, mval, hit, wball, warp_balls, paddleVars, aborted>>

(* Lines 106-108: the ball appears, whatever the cell held. *)
WarpReveal(w) ==
  /\ WarpAt(w, "row") /\ RowsFree({WarpOut[w][2]})
  /\ wpc' = [wpc EXCEPT ![w] = "notify"]
  /\ ball' = [ball EXCEPT ![WarpOut[w]] = wball[w]]
  /\ UNCHANGED <<type, strength, motionVars, bpc, mval, hit, wball, warp_balls,
                 paddleVars, aborted>>

\* A slip: the revealed ball is not notified.
WarpNotify_Silent(w) ==
  /\ WarpAt(w, "notify")
  /\ wpc' = [wpc EXCEPT ![w] = "lock"]
  /\ wball' = [wball EXCEPT ![w] = NoBall]
  /\ UNCHANGED <<cellVars, motionVars, bpc, mval, hit, warp_balls, paddleVars, aborted>>

(* Lines 110-111 *)
WarpNotify(w) ==
  /\ WarpAt(w, "notify")
  /\ wpc' = [wpc EXCEPT ![w] = "lock"]
  /\ bpc' = [bpc EXCEPT ![wball[w]] = Woken(wball[w])]
  /\ wball' = [wball EXCEPT ![w] = NoBall]
  /\ UNCHANGED <<cellVars, motionVars, mval, hit, warp_balls, paddleVars, aborted>>

-----------------------------------------------------------------------------
(* paddle_thread: move, then aim at compute_direction's mean column.  The  *)
(* mean is taken cell by cell while balls move, so it may be any column.   *)
Clamp(d) == IF d > 2 THEN 2 ELSE IF d < -2 THEN -2 ELSE d

PaddleAim ==
  \E mean \in 0 .. Width - 1 :
    /\ Paddle /\ sweep = {} /\ ~aborted
    /\ px' = IF px + pdx >= 0 /\ px + pdx + PaddleWidth <= Width THEN px + pdx ELSE px
    /\ pdx' = Clamp(mean - (px' + PaddleWidth \div 2))
    /\ sweep' = 0 .. Width - 1
    /\ UNCHANGED <<cellVars, motionVars, bpc, mval, hit, warpVars, aborted>>

(* The row is rewritten without any lock, one plain store per cell; the    *)
(* stores may become visible in any order.                                 *)
PaddleStore(x) ==
  /\ x \in sweep /\ ~aborted
  /\ type' = [type EXCEPT ![<<x, PaddleRow>>] =
                 IF x >= px /\ x < px + PaddleWidth THEN "paddle" ELSE "empty"]
  /\ sweep' = sweep \ {x}
  /\ UNCHANGED <<strength, ball, motionVars, bpc, mval, hit, warpVars, px, pdx, aborted>>

-----------------------------------------------------------------------------
Move(b) ==
  \/ MoveStopped(b) \/ MoveAborts(b) \/ MoveCollide(b) \/ FinishCollide(b)
  \/ MoveWarp(b) \/ AcceptBall(b) \/ MoveTrash(b) \/ MoveObstacle(b) \/ MoveInto(b)

BallThread(b) ==
  \/ LockBall(b) \/ LockRows(b) \/ Move(b)
  \/ CheckStopped(b) \/ Sleep(b) \/ Relock(b) \/ DeleteBall(b)

WarpThread(w) ==
  \/ WarpTake(w) \/ WarpUnlock(w) \/ WarpLockBall(w) \/ WarpReveal(w) \/ WarpNotify(w)

PaddleThread == PaddleAim \/ \E x \in 0 .. Width - 1 : PaddleStore(x)

(* main() sleeps forever; the process ends only by an abort. *)
Ended == (aborted \/ \A b \in Balls : bpc[b] = "gone") /\ UNCHANGED vars

Next ==
  \/ \E b \in Balls : BallThread(b) \/ SpuriousWakeup(b)
  \/ \E w \in Warps : WarpThread(w) \/ WarpSpuriousWakeup(w)
  \/ PaddleThread
  \/ Ended

Spec == Init /\ [][Next]_vars

(***************************************************************************)
(* Every thread is scheduled, and a thread that keeps asking for a mutex   *)
(* that keeps being released gets it in the end.                           *)
(***************************************************************************)
Fairness ==
  /\ \A b \in Balls : SF_vars(BallThread(b))
  /\ \A w \in Warps : SF_vars(WarpThread(w))

FairSpec == Spec /\ Fairness

-----------------------------------------------------------------------------
TypeOK ==
  /\ type \in [Pos -> CellType]
  /\ strength \in [Pos -> Nat]
  /\ ball \in [Pos -> Balls \cup {NoBall}]
  /\ pos \in [Balls -> Pos]
  /\ dir \in [Balls -> (-1 .. 1) \X (-1 .. 1)]
  /\ stopped \in [Balls -> BOOLEAN]
  /\ bpc \in [Balls -> BallPC]
  /\ mval \in [Balls -> -1 .. 1]
  /\ hit \in [Balls -> Balls \cup {NoBall}]
  /\ wpc \in [Warps -> WarpPC]
  /\ wball \in [Warps -> Balls \cup {NoBall}]
  /\ warp_balls \in [Warps -> Seq(Balls)]
  /\ px \in 0 .. Width - PaddleWidth
  /\ pdx \in -2 .. 2
  /\ sweep \in SUBSET (0 .. Width - 1)
  /\ aborted \in BOOLEAN

(* The ball a warp thread has taken out of its deque and not yet revealed. *)
Carried(w) == IF wpc[w] \in {"tunnel", "ball", "row"} THEN wball[w] ELSE NoBall
Queued(b) == \E w \in Warps : b \in Range(warp_balls[w])
InTunnel(b) == bpc[b] = "accept" \/ Queued(b) \/ \E w \in Warps : Carried(w) = b
InCell(b) == \E p \in Pos : ball[p] = b
Alive(b) == bpc[b] \notin {"delete", "gone"}

(* The board and the balls agree: a ball a cell points to is alive, has    *)
(* that cell as its (x, y), and a ball lies in one cell at most.  Threads  *)
(* of other balls, the warps and the deletion all write these pointers.    *)
CellsPointBack ==
  \A p \in Pos : ball[p] # NoBall => pos[ball[p]] = p /\ Alive(ball[p])

(* A ball that went into a tunnel is off the board, alive, and in exactly  *)
(* one place of one tunnel until it is revealed: no ball is ever accepted  *)
(* twice or carried by two warp threads.                                   *)
TunnelsDisjoint ==
  /\ \A v, w \in Warps : \A i \in DOMAIN warp_balls[v], j \in DOMAIN warp_balls[w] :
       warp_balls[v][i] = warp_balls[w][j] => v = w /\ i = j
  /\ \A v, w \in Warps : Carried(v) # NoBall /\ Carried(v) = Carried(w) => v = w
  /\ \A w \in Warps : ~ Queued(Carried(w))
  /\ \A b \in Balls : bpc[b] = "accept" => ~ Queued(b) /\ \A w \in Warps : Carried(w) # b
  /\ \A b \in Balls : InTunnel(b) => ~ InCell(b) /\ Alive(b)

(* A stopped ball is never forgotten: it lies in its cell, where a         *)
(* collision can release it, or it is in a tunnel that will.               *)
StoppedAccountedFor ==
  \A b \in Balls : stopped[b] => ball[pos[b]] = b \/ InTunnel(b)

(* A collision's first half leaves a pointer to the ball that was hit; the *)
(* second half dereferences it.  In between that ball stays alive, in the  *)
(* cell ahead, and out of its own move().                                  *)
VictimHeld ==
  \A b \in Balls : bpc[b] = "collide" =>
    /\ hit[b] \in Balls \ {b}
    /\ BallAt(Ahead(b)) = hit[b]
    /\ Alive(hit[b]) /\ bpc[hit[b]] \notin HoldsRows

(***************************************************************************)
(* No ball is lost, doubled or used after its deletion, whichever of the   *)
(* board, the tunnels and the threads holds it at the moment.              *)
(***************************************************************************)
BoardInv == CellsPointBack /\ TunnelsDisjoint /\ StoppedAccountedFor /\ VictimHeld

(***************************************************************************)
(* A ball that is not stopped moves diagonally: bounces, collisions with a *)
(* ball stuck in a sticky cell (dx = dy = 0) and warps never leave it with *)
(* a zero component, which would let it slide along or stand still.        *)
(***************************************************************************)
MovesDiagonally ==
  \A b \in Balls : ~ stopped[b] => dir[b][1] # 0 /\ dir[b][2] # 0

(***************************************************************************)
(* A brick is an obstacle exactly while it has strength left, whichever    *)
(* threads hit it and whatever the paddle thread writes.                   *)
(***************************************************************************)
BricksWhole ==
  /\ TypeOK
  /\ \A p \in Pos : type[p] = "obstacle" <=> strength[p] > 0

(***************************************************************************)
(* assert(ccur.ball == this) in move(): a ball that moves is where it      *)
(* thinks it is.                                                           *)
(***************************************************************************)
MoveAssertion == ~ aborted

(***************************************************************************)
(* A ball that enters a tunnel comes out again: its thread, which holds    *)
(* row mutexes while it waits for the warp mutex, and the warp thread,     *)
(* which needs the ball's mutex and a row, never block each other.         *)
(***************************************************************************)
TunnelDelivers ==
  \A b \in Balls : InTunnel(b) ~> (~ InTunnel(b) \/ aborted)

(***************************************************************************)
(* A ball whose `stopped` is false while its thread sleeps, or is about to *)
(* sleep, has a notification coming from the warp thread that reset it:    *)
(* between warp_thread and ball_thread no wakeup is lost.  (In a sticky    *)
(* cell move() resets it after the notification, and one may be lost.)     *)
(***************************************************************************)
WakeupComing ==
  \A b \in Balls :
    bpc[b] \in {"towait", "sleep"} /\ ~ stopped[b] /\ type[pos[b]] # "sticky" =>
      \E w \in Warps : wpc[w] \in {"row", "notify"} /\ wball[w] = b
=============================================================================
