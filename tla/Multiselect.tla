----------------------------- MODULE Multiselect -----------------------------
(***************************************************************************)
(* The column store's parallel scan (multiselect.c): one column is cut     *)
(* into chunks, every (chunk, selection) pair is a task of the thread      *)
(* pool, and the last task of a selection completes its position list.     *)
(*                                                                         *)
(* The pool is ThreadPool; its WorkerRun, the return of func(arg), is the  *)
(* last of the steps a task takes here.  A filter is abstracted to the set *)
(* of positions it matches.                                                *)
(***************************************************************************)
EXTENDS Naturals, Sequences, FiniteSets, SequencesExt

CONSTANTS
  Workers, NoTask,
  Size,             \* column.size
  MinChunk,         \* entries in MIN_COLUMN_PARTITION_CHUNK_SIZE bytes
  MaxChunks,        \* MAX_COLUMN_PARTITION_SIZE
  Selections,       \* the most selections on one column at once
  Matches,          \* the positions each filter matches
  SampledFrom       \* the column size from which selectivity is estimated

Rows == 0 .. Size - 1
Sels == 1 .. Selections

ASSUME ScanAssumption ==
  /\ Size \in Nat /\ MinChunk \in Nat \ {0} /\ MaxChunks \in Nat \ {0}
  /\ Selections \in Nat \ {0} /\ SampledFrom \in Nat
  /\ Matches \in [Sels -> SUBSET Rows]

-----------------------------------------------------------------------------
(* How the column is cut: chunk i is what lies between two multiples of    *)
(* the chunk size, the last one is cut short; an empty column is one chunk *)
NumberOfChunks ==
  LET n == IF Size \div MinChunk < MaxChunks THEN Size \div MinChunk ELSE MaxChunks
  IN  IF n = 0 THEN 1 ELSE n
ChunkSize == Size \div NumberOfChunks
\* A slip: the remainder of the division is left out.
ChunkCount_Wanted == NumberOfChunks
ChunkCount == IF Size = 0 THEN 1 ELSE (Size + ChunkSize - 1) \div ChunkSize

Chunks == 0 .. ChunkCount - 1
Chunk(i) == {r \in Rows : i * ChunkSize <= r /\ r < (i + 1) * ChunkSize}

VARIABLES
  queue, working_cnt, thread_cnt, stop, wpc, wtask, mpc, done, destroyed,
  num_selects,    \* the selections of this scan are 1..num_selects
  inverse,        \* select->inverse
  selection,      \* select->selection
  intermediates,  \* the private result of each task
  remaining,      \* tasks of each selection that have not reported
  arc_count,      \* _arc->count
  arc_freed,      \* the chunks, selection results and _arc are freed
  step,           \* where each worker is inside func(arg)
  next            \* server thread: 0 before multiselect(), then the next task

pvars == <<queue, working_cnt, thread_cnt, stop, wpc, wtask, mpc, done, destroyed>>
svars == <<num_selects, inverse, selection, intermediates, remaining, arc_count, arc_freed, step>>
vars == <<pvars, svars, next>>

ScanTasks == Chunks \X Sels

ASSUME WorkersAssumption ==
  /\ IsFiniteSet(Workers) /\ Workers # {}
  /\ NoTask \notin ScanTasks

Pool == INSTANCE ThreadPool WITH Tasks <- ScanTasks

(* decide_tuning_params: with few processors for the number of selections  *)
(* the tasks write to the selection itself, under its lock.  The pool has  *)
(* one worker per processor.                                               *)
Blocking == num_selects >= Cardinality(Workers) \div 2

(* Step 4 submits the chunks in order, for each chunk every selection. *)
TaskAt(k) == <<(k - 1) \div num_selects, ((k - 1) % num_selects) + 1>>
TaskCount == ChunkCount * num_selects

(* "call": func has been entered; "merge": its private scan is done;       *)
(* "arc": about to call free_arc; "ret": about to return.                  *)
Step == {"call", "merge", "arc", "ret"}

Init ==
  /\ Pool!Init
  /\ num_selects \in Sels
  /\ inverse = [j \in Sels |-> FALSE]
  /\ selection = [j \in Sels |-> <<>>]
  /\ intermediates = [t \in ScanTasks |-> <<>>]
  /\ remaining = [j \in Sels |-> 0]
  /\ arc_count = 0 /\ arc_freed = FALSE
  /\ step = [w \in Workers |-> "call"]
  /\ next = 0

-----------------------------------------------------------------------------
\* Slips: a reference per chunk only, or fewer reports expected than chunks.
Prepares(reports, references) ==
  /\ mpc = "idle" /\ next = 0
  /\ next' = 1
  /\ inverse' \in [Sels -> IF Size < SampledFrom THEN {FALSE} ELSE BOOLEAN]
  /\ remaining' = [j \in Sels |-> reports]
  /\ arc_count' = references
  /\ UNCHANGED <<pvars, num_selects, selection, intermediates, arc_freed, step>>
Prepare_PerChunk == Prepares(ChunkCount, ChunkCount)
Prepare_Wanted == Prepares(NumberOfChunks, TaskCount)

(* multiselect() up to step 4.  The selectivity is a Monte-Carlo estimate: *)
(* any selection may be chosen to keep the rows its filter rejects.        *)
Prepare ==
  /\ mpc = "idle" /\ next = 0
  /\ next' = 1
  /\ inverse' \in [Sels -> IF Size < SampledFrom THEN {FALSE} ELSE BOOLEAN]
  /\ remaining' = [j \in Sels |-> ChunkCount]
  /\ arc_count' = TaskCount
  /\ UNCHANGED <<pvars, num_selects, selection, intermediates, arc_freed, step>>

(* Step 4 *)
SubmitNext ==
  /\ next \in 1 .. TaskCount
  /\ Pool!AddTask(TaskAt(next))
  /\ next' = next + 1
  /\ UNCHANGED svars

(* The batch executor waits at the end of the stage ... *)
StageWait ==
  /\ next = TaskCount + 1
  /\ Pool!CallWait
  /\ next' = next + 1
  /\ UNCHANGED svars

WaitSleep == Pool!WaitSleep /\ UNCHANGED <<svars, next>>
WaitReturn == Pool!WaitReturn /\ UNCHANGED <<svars, next>>

(* ... and the pool is deleted when the client disconnects. *)
Disconnect ==
  /\ next = TaskCount + 2
  /\ Pool!DeletePool
  /\ UNCHANGED <<svars, next>>

-----------------------------------------------------------------------------
(* internal_select *)
Qualifying(j) == IF inverse[j] THEN Rows \ Matches[j] ELSE Matches[j]
InOrder(S) == [k \in 1 .. Cardinality(S) |->
  CHOOSE r \in S : Cardinality({q \in S : q <= r}) = k]
Scan(t) == InOrder(Chunk(t[1]) \cap Qualifying(t[2]))

Running(w, s) == wpc[w] = "run" /\ step[w] = s
Goto(w, s) == step' = [step EXCEPT ![w] = s]

(* thread_execute_multiselect_chunk, step 1: no lock is held. *)
ScanChunk(w) ==
  /\ ~Blocking /\ Running(w, "call")
  /\ intermediates' = [intermediates EXCEPT ![wtask[w]] = Scan(wtask[w])]
  /\ Goto(w, "merge")
  /\ UNCHANGED <<pvars, num_selects, inverse, selection, remaining, arc_count, arc_freed, next>>

\* Slips: the results are appended as they arrive, or merged one task early.
MergeChunk_Arrival(w) ==
  LET j == wtask[w][2]
  IN  /\ Running(w, "merge")
      /\ remaining' = [remaining EXCEPT ![j] = @ - 1]
      /\ selection' = [selection EXCEPT ![j] = @ \o intermediates[wtask[w]]]
      /\ Goto(w, "arc")
      /\ UNCHANGED <<pvars, num_selects, inverse, intermediates, arc_count, arc_freed, next>>
MergeChunk_Early(w) ==
  LET j == wtask[w][2]
  IN  /\ Running(w, "merge")
      /\ remaining' = [remaining EXCEPT ![j] = @ - 1]
      /\ selection' = [selection EXCEPT ![j] =
           IF remaining[j] # 2 THEN @
           ELSE FlattenSeq([i \in 1 .. ChunkCount |-> intermediates[<<i - 1, j>>]])]
      /\ Goto(w, "arc")
      /\ UNCHANGED <<pvars, num_selects, inverse, intermediates, arc_count, arc_freed, next>>

(* Step 2, under the selection's lock: the last task merges, chunk by chunk *)
MergeChunk(w) ==
  LET j == wtask[w][2]
  IN  /\ Running(w, "merge")
      /\ remaining' = [remaining EXCEPT ![j] = @ - 1]
      /\ selection' = [selection EXCEPT ![j] =
           IF remaining'[j] # 0 THEN @
           ELSE @ \o FlattenSeq([i \in 1 .. ChunkCount |-> intermediates[<<i - 1, j>>]])]
      /\ Goto(w, "arc")
      /\ UNCHANGED <<pvars, num_selects, inverse, intermediates, arc_count, arc_freed, next>>

(* thread_execute_multiselect_chunk_without_intermediates: scan and count  *)
(* under the selection's lock.                                             *)
ScanLocked(w) ==
  LET j == wtask[w][2]
  IN  /\ Blocking /\ Running(w, "call")
      /\ selection' = [selection EXCEPT ![j] = @ \o Scan(wtask[w])]
      /\ remaining' = [remaining EXCEPT ![j] = @ - 1]
      /\ Goto(w, "arc")
      /\ UNCHANGED <<pvars, num_selects, inverse, intermediates, arc_count, arc_freed, next>>

\* A slip: the count is looked at before it is decremented.
FreeArc_Before(w) ==
  /\ Running(w, "arc")
  /\ arc_count' = arc_count - 1
  /\ arc_freed' = (arc_freed \/ arc_count = 0)
  /\ Goto(w, "ret")
  /\ UNCHANGED <<pvars, num_selects, inverse, selection, intermediates, remaining, next>>

(* free_arc: the last reference frees what the tasks share. *)
FreeArc(w) ==
  /\ Running(w, "arc")
  /\ arc_count' = arc_count - 1
  /\ arc_freed' = (arc_freed \/ arc_count' = 0)
  /\ Goto(w, "ret")
  /\ UNCHANGED <<pvars, num_selects, inverse, selection, intermediates, remaining, next>>

(* func(arg) returns. *)
TaskReturn(w) ==
  /\ step[w] = "ret"
  /\ Pool!WorkerRun(w)
  /\ Goto(w, "call")
  /\ UNCHANGED <<num_selects, inverse, selection, intermediates, remaining, arc_count, arc_freed, next>>

(* The worker loop around it. *)
WorkerLoop(w) ==
  /\ \/ Pool!WorkerSleep(w) \/ Pool!WorkerExit(w) \/ Pool!WorkerTake(w)
     \/ Pool!WorkerFinish(w)
  /\ UNCHANGED <<svars, next>>

Worker(w) ==
  \/ ScanChunk(w) \/ MergeChunk(w) \/ ScanLocked(w) \/ FreeArc(w) \/ TaskReturn(w)
  \/ WorkerLoop(w)

Server ==
  \/ Prepare \/ SubmitNext \/ StageWait \/ WaitSleep \/ WaitReturn \/ Disconnect

Spurious ==
  /\ Pool!ClientSpuriousWakeup \/ \E w \in Workers : Pool!SpuriousWakeup(w)
  /\ UNCHANGED <<svars, next>>

Halted == Pool!Halted /\ UNCHANGED <<svars, next>>

Next == (\E w \in Workers : Worker(w)) \/ Server \/ Spurious \/ Halted

Spec == Init /\ [][Next]_vars

-----------------------------------------------------------------------------
TypeOK ==
  /\ Pool!TypeOK
  /\ inverse \in [Sels -> BOOLEAN]
  /\ selection \in [Sels -> Seq(Rows)]
  /\ intermediates \in [ScanTasks -> Seq(Rows)]
  /\ remaining \in [Sels -> 0 .. ChunkCount]
  /\ num_selects \in Sels
  /\ arc_count \in 0 .. TaskCount
  /\ arc_freed \in BOOLEAN
  /\ step \in [Workers -> Step]
  /\ next \in 0 .. TaskCount + 2

(* The batch has got past the wait: what follows reads the selections. *)
StageOver == next = TaskCount + 2 /\ mpc = "idle"

(* When the stage is over every selection holds every qualifying row once, *)
(* whatever the interleaving of the tasks that filled it.                  *)
SelectionsComplete ==
  StageOver => \A j \in 1 .. num_selects :
    /\ IsInjective(selection[j])
    /\ ToSet(selection[j]) = Qualifying(j)

(* Tasks that scan privately leave a selection in column order, the order  *)
(* fetch_inverse walks it in.                                              *)
MergedInOrder ==
  StageOver /\ ~Blocking => \A j \in 1 .. num_selects :
    \A a, b \in DOMAIN selection[j] : a < b => selection[j][a] < selection[j][b]

(***************************************************************************)
(* A stage of parallel scans answers as one scan of the column would: the  *)
(* qualifying rows, each once, and in column order where that is promised. *)
(***************************************************************************)
ScansAgree == TypeOK /\ SelectionsComplete /\ MergedInOrder

(***************************************************************************)
(* The chunks and selection results the tasks point to are not freed while *)
(* a task is still to be submitted, queued or using them; a selection's    *)
(* lock is destroyed by its last task, and no other task of that selection *)
(* will take it afterwards.                                                *)
(***************************************************************************)
SharedAlive ==
  /\ arc_freed =>
       /\ next > TaskCount
       /\ queue = <<>>
       /\ \A w \in Workers : wpc[w] = "run" => step[w] = "ret"
  /\ \A j \in Sels : next > 0 /\ remaining[j] = 0 =>
       /\ \A i \in DOMAIN queue : queue[i][2] # j
       /\ \A w \in Workers : wpc[w] = "run" /\ wtask[w][2] = j => step[w] \in {"arc", "ret"}

(***************************************************************************)
(* "reference counted pointer to prevent leaks": what the tasks share is   *)
(* freed by the time the stage is over.                                    *)
(***************************************************************************)
NothingLeaks == StageOver => arc_freed
=============================================================================
