------------------------------ MODULE ThreadPool ------------------------------
(***************************************************************************)
(* The column store's thread pool (thread_pool.c): a linked list of work   *)
(* protected by work_mutex, workers that sleep on work_cond, and one       *)
(* client thread that adds tasks, waits on working_cond and finally        *)
(* deletes the pool.                                                       *)
(*                                                                         *)
(* Every field of struct tpool is only touched with work_mutex held, so    *)
(* one action is one critical section, from pthread_mutex_lock (or the     *)
(* return of pthread_cond_wait) to pthread_mutex_unlock (or the next       *)
(* pthread_cond_wait).  The task body, func(arg), runs outside the mutex   *)
(* and is an action of its own.                                            *)
(***************************************************************************)
EXTENDS Naturals, Sequences, FiniteSets, Functions

CONSTANTS Workers,   \* the threads new_thread_pool creates
          Tasks,     \* the work items; each is added at most once
          NoTask     \* a worker's `work` when it holds none

ASSUME PoolAssumption ==
  /\ IsFiniteSet(Workers) /\ Workers # {}
  /\ NoTask \notin Tasks

VARIABLES
  queue,         \* the list from work_first to work_last
  working_cnt,   \* tm->working_cnt
  thread_cnt,    \* tm->thread_cnt
  stop,          \* tm->stop
  wpc,           \* where each worker is
  wtask,         \* each worker's local `work`
  mpc,           \* where the client thread is
  done,          \* history: tasks whose func(arg) has returned
  destroyed      \* history: queued work that delete_thread_pool freed

pvars == <<queue, working_cnt, thread_cnt, stop, wpc, wtask, mpc, done, destroyed>>

(***************************************************************************)
(* "lock": about to take work_mutex at the top of the loop, or woken from  *)
(* work_cond and about to retake it.  "work_cond": asleep.  "run": inside  *)
(* func(arg).  "finish": func has returned, the second critical section is *)
(* still to come.  "exit": the thread has returned.                        *)
(***************************************************************************)
WorkerPC == {"lock", "work_cond", "run", "finish", "exit"}

(***************************************************************************)
(* "idle": outside the pool.  "wait": about to evaluate the condition of   *)
(* wait_thread_pool.  "working_cond": asleep there.  "freed": returned     *)
(* from delete_thread_pool, so the pool's memory is gone.                  *)
(***************************************************************************)
ClientPC == {"idle", "wait", "working_cond", "freed"}

TypeOK ==
  /\ queue \in Seq(Tasks)
  /\ working_cnt \in Nat
  /\ thread_cnt \in Nat
  /\ stop \in BOOLEAN
  /\ wpc \in [Workers -> WorkerPC]
  /\ wtask \in [Workers -> Tasks \cup {NoTask}]
  /\ mpc \in ClientPC
  /\ done \in SUBSET Tasks
  /\ destroyed \in SUBSET Tasks

-----------------------------------------------------------------------------
(* new_thread_pool: the fields are set before the threads are created; a   *)
(* thread that has not been created yet is one that has not been scheduled *)
Init ==
  /\ queue = <<>>
  /\ working_cnt = 0
  /\ thread_cnt = Cardinality(Workers)
  /\ stop = FALSE
  /\ wpc = [w \in Workers |-> "lock"]
  /\ wtask = [w \in Workers |-> NoTask]
  /\ mpc = "idle"
  /\ done = {}
  /\ destroyed = {}

(* pthread_cond_broadcast(&work_cond) *)
BroadcastWork ==
  wpc' = [w \in Workers |-> IF wpc[w] = "work_cond" THEN "lock" ELSE wpc[w]]

(* pthread_cond_signal(&working_cond): the client is its only waiter. *)
SignalClient ==
  mpc' = IF mpc = "working_cond" THEN "wait" ELSE mpc

(* Lines 69-70: nothing to do, sleep on work_cond. *)
WorkerSleep(w) ==
  /\ wpc[w] = "lock"
  /\ queue = <<>> /\ ~stop
  /\ wpc' = [wpc EXCEPT ![w] = "work_cond"]
  /\ UNCHANGED <<queue, working_cnt, thread_cnt, stop, wtask, mpc, done, destroyed>>

\* A slip for comparison: the worker leaves without telling the client.
WorkerExit_Silent(w) ==
  /\ wpc[w] = "lock" /\ stop
  /\ wpc' = [wpc EXCEPT ![w] = "exit"]
  /\ thread_cnt' = thread_cnt - 1
  /\ UNCHANGED <<queue, working_cnt, stop, wtask, mpc, done, destroyed>>

(* Lines 72-73 and 91-94: stop was set, leave and tell the client. *)
WorkerExit(w) ==
  /\ wpc[w] = "lock"
  /\ stop
  /\ wpc' = [wpc EXCEPT ![w] = "exit"]
  /\ thread_cnt' = thread_cnt - 1
  /\ SignalClient
  /\ UNCHANGED <<queue, working_cnt, stop, wtask, done, destroyed>>

\* Slips: a take that does not count itself, does not unlink the head, or
\* is tried before `stop` is looked at.
WorkerTakes(w, cnt, rest) ==
  /\ wpc[w] = "lock" /\ queue # <<>>
  /\ wpc' = [wpc EXCEPT ![w] = "run"]
  /\ wtask' = [wtask EXCEPT ![w] = Head(queue)]
  /\ queue' = rest
  /\ working_cnt' = cnt
  /\ UNCHANGED <<thread_cnt, stop, mpc, done, destroyed>>
WorkerTake_Uncounted(w) == ~stop /\ WorkerTakes(w, working_cnt, Tail(queue))
WorkerTake_Linked(w) == ~stop /\ WorkerTakes(w, working_cnt + 1, queue)
WorkerTake_Stopped(w) == WorkerTakes(w, working_cnt + 1, Tail(queue))

(* Lines 75-77: tpool_work_get pops the head of the list. *)
WorkerTake(w) ==
  /\ wpc[w] = "lock"
  /\ ~stop /\ queue # <<>>
  /\ wpc' = [wpc EXCEPT ![w] = "run"]
  /\ wtask' = [wtask EXCEPT ![w] = Head(queue)]
  /\ queue' = Tail(queue)
  /\ working_cnt' = working_cnt + 1
  /\ UNCHANGED <<thread_cnt, stop, mpc, done, destroyed>>

(* Lines 79-82: func(arg) runs and the work item is freed, no lock held. *)
WorkerRun(w) ==
  /\ wpc[w] = "run"
  /\ wpc' = [wpc EXCEPT ![w] = "finish"]
  /\ wtask' = [wtask EXCEPT ![w] = NoTask]
  /\ done' = done \cup {wtask[w]}
  /\ UNCHANGED <<queue, working_cnt, thread_cnt, stop, mpc, destroyed>>

\* A slip: nobody tells the client that the last task is done.
WorkerFinish_Silent(w) ==
  /\ wpc[w] = "finish"
  /\ wpc' = [wpc EXCEPT ![w] = "lock"]
  /\ working_cnt' = working_cnt - 1
  /\ UNCHANGED <<queue, thread_cnt, stop, wtask, mpc, done, destroyed>>

(* Lines 84-88: the last running worker of an empty list wakes the client. *)
WorkerFinish(w) ==
  /\ wpc[w] = "finish"
  /\ wpc' = [wpc EXCEPT ![w] = "lock"]
  /\ working_cnt' = working_cnt - 1
  /\ IF ~stop /\ working_cnt' = 0 /\ queue = <<>>
     THEN SignalClient
     ELSE UNCHANGED mpc
  /\ UNCHANGED <<queue, thread_cnt, stop, wtask, done, destroyed>>

(* POSIX lets pthread_cond_wait return without a signal. *)
SpuriousWakeup(w) ==
  /\ wpc[w] = "work_cond"
  /\ wpc' = [wpc EXCEPT ![w] = "lock"]
  /\ UNCHANGED <<queue, working_cnt, thread_cnt, stop, wtask, mpc, done, destroyed>>

ClientSpuriousWakeup ==
  /\ mpc = "working_cond"
  /\ mpc' = "wait"
  /\ UNCHANGED <<queue, working_cnt, thread_cnt, stop, wpc, wtask, done, destroyed>>

-----------------------------------------------------------------------------
\* A slip: the task is linked in but no sleeping worker is woken.
AddTask_Silent(t) ==
  /\ mpc = "idle"
  /\ t \notin done \cup Range(queue) \cup Range(wtask)
  /\ queue' = Append(queue, t)
  /\ UNCHANGED <<working_cnt, thread_cnt, stop, wpc, wtask, mpc, done, destroyed>>

(* add_task_thread_pool, called by the client thread. *)
AddTask(t) ==
  /\ mpc = "idle"
  /\ t \notin done \cup Range(queue) \cup Range(wtask)
  /\ queue' = Append(queue, t)
  /\ BroadcastWork
  /\ UNCHANGED <<working_cnt, thread_cnt, stop, wtask, mpc, done, destroyed>>

(* wait_thread_pool is called ... *)
CallWait ==
  /\ mpc = "idle"
  /\ mpc' = "wait"
  /\ UNCHANGED <<queue, working_cnt, thread_cnt, stop, wpc, wtask, done, destroyed>>

\* Slips: a wait that only looks at the list, or forgets the threads.
MustWait_List == (queue # <<>>) \/ (stop /\ thread_cnt # 0)
MustWait_Threads == (queue # <<>>) \/ (working_cnt # 0)

(* ... and blocks while this condition of lines 181-182 holds. *)
MustWait ==
  \/ queue # <<>>
  \/ ~stop /\ working_cnt # 0
  \/ stop /\ thread_cnt # 0

WaitSleep ==
  /\ mpc = "wait"
  /\ MustWait
  /\ mpc' = "working_cond"
  /\ UNCHANGED <<queue, working_cnt, thread_cnt, stop, wpc, wtask, done, destroyed>>

(* When called from delete_thread_pool (stop is set) the return of the wait *)
(* is followed by the destruction of the mutex and of the pool.             *)
WaitReturn ==
  /\ mpc = "wait"
  /\ ~MustWait
  /\ mpc' = IF stop THEN "freed" ELSE "idle"
  /\ UNCHANGED <<queue, working_cnt, thread_cnt, stop, wpc, wtask, done, destroyed>>

(* delete_thread_pool up to its wait: the queued work items are freed but   *)
(* work_first and work_last still point to them.                            *)
DeletePool ==
  /\ mpc = "idle"
  /\ destroyed' = Range(queue)
  /\ stop' = TRUE
  /\ BroadcastWork
  /\ mpc' = "wait"
  /\ UNCHANGED <<queue, working_cnt, thread_cnt, wtask, done>>

-----------------------------------------------------------------------------
WorkerStep(w) ==
  \/ WorkerSleep(w) \/ WorkerExit(w) \/ WorkerTake(w)
  \/ WorkerRun(w) \/ WorkerFinish(w)

ClientWaits == WaitSleep \/ WaitReturn

(* delete has returned, or it waits for work_first to become NULL, which   *)
(* nobody will do once every worker has left: the process stays there.     *)
Halted ==
  /\ \A w \in Workers : wpc[w] = "exit"
  /\ mpc = "freed" \/ mpc = "working_cond"
  /\ UNCHANGED pvars

Next ==
  \/ \E w \in Workers : WorkerStep(w) \/ SpuriousWakeup(w)
  \/ \E t \in Tasks : AddTask(t)
  \/ CallWait \/ DeletePool \/ ClientWaits \/ ClientSpuriousWakeup
  \/ Halted

(***************************************************************************)
(* Every thread that holds or can get the mutex keeps running, and every   *)
(* func(arg) returns.  Nothing obliges the client to make a call.          *)
(***************************************************************************)
Fairness ==
  /\ \A w \in Workers : WF_pvars(WorkerStep(w))
  /\ WF_pvars(ClientWaits)

Spec == Init /\ [][Next]_pvars /\ Fairness

-----------------------------------------------------------------------------
(***************************************************************************)
(* working_cnt counts the workers between the two critical sections and    *)
(* thread_cnt the ones that have not left: the two numbers the client's    *)
(* wait trusts.                                                            *)
(***************************************************************************)
Busy == {w \in Workers : wpc[w] \in {"run", "finish"}}

CountersExact ==
  /\ working_cnt = Cardinality(Busy)
  /\ thread_cnt = Cardinality({w \in Workers : wpc[w] # "exit"})

(***************************************************************************)
(* No work is shared or repeated: a task sits in one place of the list or  *)
(* in the hands of one worker, and once its func has returned it is in     *)
(* neither.                                                                *)
(***************************************************************************)
Distinct(q) == \A i, j \in DOMAIN q : q[i] = q[j] => i = j

OneHolder ==
  /\ Distinct(queue)
  /\ \A v, w \in Workers : wpc[v] = "run" /\ wtask[v] = wtask[w] => v = w
  /\ \A w \in Workers : wpc[w] = "run" <=> wtask[w] # NoTask
  /\ Range(wtask) \cap (Range(queue) \cup done) = {}
  /\ Range(queue) \cap done = {}

(***************************************************************************)
(* delete_thread_pool frees the queued work items and leaves work_first    *)
(* pointing at them; no worker ever executes a freed item.                 *)
(***************************************************************************)
NoFreedWorkRuns ==
  destroyed \cap (done \cup Range(wtask)) = {}

(***************************************************************************)
(* The pool's memory, mutex included, is freed only when no worker will    *)
(* touch it again.                                                         *)
(***************************************************************************)
NoUseAfterFree ==
  mpc = "freed" => \A w \in Workers : wpc[w] = "exit"

(* Deleting is the client's last call, and what it frees is what is queued. *)
ShutdownInv ==
  /\ destroyed = IF stop THEN Range(queue) ELSE {}
  /\ mpc = "idle" => ~stop
  /\ mpc = "freed" => stop

(***************************************************************************)
(* The inductive invariant: the counters the client trusts are exact, work *)
(* has one holder and runs once, freed work is not run, and the freed pool *)
(* is not touched.                                                         *)
(***************************************************************************)
PoolInv ==
  /\ TypeOK
  /\ CountersExact
  /\ OneHolder
  /\ NoFreedWorkRuns
  /\ NoUseAfterFree
  /\ ShutdownInv

(***************************************************************************)
(* A task that was added is performed, unless the pool is deleted first.   *)
(***************************************************************************)
TasksPerformed ==
  \A t \in Tasks : t \in Range(queue) ~> (t \in done \/ stop)

(* A wait that is not part of a delete returns: the worker that finishes   *)
(* last does wake the client.                                              *)
WaitsReturn ==
  (mpc = "wait" /\ ~stop) ~> (mpc = "idle")

(* Deleting a pool whose list is empty returns, also when workers are      *)
(* still running a task or asleep at that moment.                          *)
DeleteReturns ==
  (mpc = "wait" /\ stop /\ queue = <<>>) ~> (mpc = "freed")

(***************************************************************************)
(* No call of the client sleeps on client_cond for ever: neither a wait    *)
(* nor the wait inside a delete.                                           *)
(***************************************************************************)
CallsReturn == WaitsReturn /\ DeleteReturns

(***************************************************************************)
(* The refinement mapping: pending work is what is in the list or in a     *)
(* worker's hands and has not been destroyed.                              *)
(***************************************************************************)
Pending == (Range(queue) \cup (Range(wtask) \ {NoTask})) \ destroyed

CallerView ==
  CASE mpc = "idle" -> "idle"
    [] mpc = "freed" -> "closed"
    [] OTHER -> IF stop THEN "closing" ELSE "waiting"

Barrier == INSTANCE WorkBarrier
             WITH pending <- Pending, finished <- done, caller <- CallerView

(***************************************************************************)
(* The pool implements the barrier the query engine is written against:    *)
(* in particular wait_thread_pool returns only when every task that was    *)
(* added has been performed.                                               *)
(***************************************************************************)
ImplementsBarrier == Barrier!BarrierSpec
=============================================================================
