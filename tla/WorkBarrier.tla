----------------------------- MODULE WorkBarrier -----------------------------
(***************************************************************************)
(* What the column store's query engine relies on when it hands work to    *)
(* its thread pool: a submitted task is performed once, tasks are          *)
(* performed in any order and concurrently with further submissions, and   *)
(* the caller gets past a wait only when nothing it submitted is left.     *)
(* ThreadPool is shown to implement this.                                  *)
(***************************************************************************)
CONSTANT Tasks

VARIABLES pending,    \* submitted and not yet performed
          finished,   \* performed
          caller      \* what the single submitting thread is doing

bvars == <<pending, finished, caller>>

BarrierInit ==
  /\ pending = {}
  /\ finished = {}
  /\ caller = "idle"

Submit(t) ==
  /\ caller = "idle"
  /\ t \notin pending \cup finished
  /\ pending' = pending \cup {t}
  /\ UNCHANGED <<finished, caller>>

Perform(t) ==
  /\ t \in pending
  /\ pending' = pending \ {t}
  /\ finished' = finished \cup {t}
  /\ UNCHANGED caller

BeginWait ==
  /\ caller = "idle"
  /\ caller' = "waiting"
  /\ UNCHANGED <<pending, finished>>

EndWait ==
  /\ caller = "waiting"
  /\ pending = {}
  /\ caller' = "idle"
  /\ UNCHANGED <<pending, finished>>

\* Closing may discard tasks that no worker has picked up yet.
BeginClose ==
  /\ caller = "idle"
  /\ caller' = "closing"
  /\ pending' \in SUBSET pending
  /\ UNCHANGED finished

EndClose ==
  /\ caller = "closing"
  /\ pending = {}
  /\ caller' = "closed"
  /\ UNCHANGED <<pending, finished>>

BarrierNext ==
  \/ \E t \in Tasks : Submit(t) \/ Perform(t)
  \/ BeginWait \/ EndWait \/ BeginClose \/ EndClose

BarrierSpec == BarrierInit /\ [][BarrierNext]_bvars
=============================================================================
