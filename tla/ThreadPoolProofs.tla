-------------------------- MODULE ThreadPoolProofs --------------------------
(***************************************************************************)
(* Safety of the thread pool for every number of workers and tasks.        *)
(***************************************************************************)
EXTENDS ThreadPool, FiniteSetTheorems, SequenceTheorems, TLAPS

(* What tpool_work_get's unlinking leaves of a duplicate-free list. *)
LEMMA TailFacts ==
  ASSUME NEW S, NEW q \in Seq(S), q # <<>>, Distinct(q)
  PROVE  /\ Tail(q) \in Seq(S)
         /\ Head(q) \in S
         /\ Head(q) \in Range(q)
         /\ Range(Tail(q)) = Range(q) \ {Head(q)}
         /\ Distinct(Tail(q))
<1>1. /\ Len(q) \in Nat \ {0} /\ DOMAIN q = 1 .. Len(q)
      /\ Head(q) = q[1]
      /\ Tail(q) \in Seq(S) /\ Head(q) \in S
      /\ Len(Tail(q)) = Len(q) - 1
      /\ DOMAIN Tail(q) = 1 .. Len(q) - 1
      /\ \A i \in 1 .. Len(q) - 1 : Tail(q)[i] = q[i+1]
  BY EmptySeq, LenProperties, HeadTailProperties
<1>2. Head(q) \in Range(q)
  BY <1>1 DEF Range
<1>3. ASSUME NEW x \in Range(Tail(q)) PROVE x \in Range(q) \ {Head(q)}
  <2>1. PICK i \in 1 .. Len(q) - 1 : x = q[i+1]
    BY <1>1, <1>3 DEF Range
  <2>2. i + 1 \in 1 .. Len(q) /\ i + 1 # 1 /\ 1 \in 1 .. Len(q)
    BY <1>1
  <2>3. QED
    BY <1>1, <2>1, <2>2 DEF Range, Distinct
<1>4. ASSUME NEW x \in Range(q) \ {Head(q)} PROVE x \in Range(Tail(q))
  <2>1. PICK i \in 1 .. Len(q) : x = q[i]
    BY <1>1 DEF Range
  <2>2. i # 1
    BY <1>1, <2>1, <1>4
  <2>3. i - 1 \in 1 .. Len(q) - 1 /\ Tail(q)[i - 1] = q[i]
    BY <1>1, <2>2
  <2>4. QED
    BY <1>1, <2>1, <2>3 DEF Range
<1>5. Distinct(Tail(q))
  BY <1>1 DEF Distinct
<1>6. QED
  BY <1>1, <1>2, <1>3, <1>4, <1>5

(* What add_task_thread_pool's linking makes of the list. *)
LEMMA AppendFacts ==
  ASSUME NEW S, NEW q \in Seq(S), NEW t \in S
  PROVE  /\ Append(q, t) \in Seq(S)
         /\ Range(Append(q, t)) = Range(q) \cup {t}
         /\ Distinct(q) /\ t \notin Range(q) => Distinct(Append(q, t))
<1>1. /\ Len(q) \in Nat /\ DOMAIN q = 1 .. Len(q)
      /\ Append(q, t) \in Seq(S)
      /\ DOMAIN Append(q, t) = 1 .. Len(q) + 1
      /\ \A i \in 1 .. Len(q) : Append(q, t)[i] = q[i]
      /\ Append(q, t)[Len(q) + 1] = t
  BY LenProperties, AppendProperties
<1>2. Range(Append(q, t)) = Range(q) \cup {t}
  BY <1>1 DEF Range
<1>3. Distinct(q) /\ t \notin Range(q) => Distinct(Append(q, t))
  BY <1>1 DEF Distinct, Range
<1>4. QED
  BY <1>1, <1>2, <1>3

(* The counters start exact and everything else starts empty. *)
LEMMA InitInv == Init => PoolInv
<1> SUFFICES ASSUME Init PROVE PoolInv
  OBVIOUS
<1>1. TypeOK
  <2>1. Cardinality(Workers) \in Nat
    BY PoolAssumption, FS_CardinalityType
  <2>2. QED
    BY <2>1, EmptySeq DEF Init, TypeOK, WorkerPC, ClientPC
<1>2. CountersExact
  <2>1. Busy = {} /\ {w \in Workers : wpc[w] # "exit"} = Workers
    BY DEF Init, Busy
  <2>2. QED
    BY <2>1, FS_EmptySet DEF Init, CountersExact
<1>3. OneHolder /\ NoFreedWorkRuns /\ NoUseAfterFree /\ ShutdownInv
  BY PoolAssumption
     DEF Init, OneHolder, NoFreedWorkRuns, NoUseAfterFree, ShutdownInv, Distinct, Range
<1>4. QED
  BY <1>1, <1>2, <1>3 DEF PoolInv

(* Two sets that lose and gain single workers, as the counters see them. *)
LEMMA CountOne ==
  ASSUME NEW S \in SUBSET Workers, NEW w \in Workers
  PROVE  /\ Cardinality(S) \in Nat
         /\ w \notin S => Cardinality(S \cup {w}) = Cardinality(S) + 1
         /\ w \in S => Cardinality(S \ {w}) = Cardinality(S) - 1 /\ Cardinality(S) > 0
         /\ Cardinality(S) = 0 => S = {}
<1>1. IsFiniteSet(S)
  BY PoolAssumption, FS_Subset
<1>2. Cardinality(S) \in Nat
  BY <1>1, FS_CardinalityType
<1>3. Cardinality(S) = 0 <=> S = {}
  BY <1>1, FS_EmptySet
<1>4. w \notin S => Cardinality(S \cup {w}) = Cardinality(S) + 1
  BY <1>1, FS_AddElement
<1>5. w \in S => Cardinality(S \ {w}) = Cardinality(S) - 1
  BY <1>1, FS_RemoveElement
<1>6. QED
  BY <1>2, <1>3, <1>4, <1>5

(* Whatever one worker does, the invariant survives. *)
LEMMA WorkerPreserves ==
  ASSUME PoolInv, NEW w \in Workers, WorkerStep(w) \/ SpuriousWakeup(w)
  PROVE  PoolInv'
<1> DEFINE Alive == {v \in Workers : wpc[v] # "exit"}
<1> USE DEF PoolInv
<1>0. wpc[w] \in WorkerPC /\ wpc \in [Workers -> WorkerPC]
  BY DEF TypeOK
<1>1. CASE WorkerSleep(w) \/ SpuriousWakeup(w)
  <2>1. TypeOK'
    BY <1>1 DEF TypeOK, WorkerSleep, SpuriousWakeup, WorkerPC
  <2>2. Busy' = Busy /\ Alive' = Alive
    BY <1>0, <1>1 DEF WorkerSleep, SpuriousWakeup, Busy
  <2>3. CountersExact'
    BY <1>1, <2>2 DEF CountersExact, WorkerSleep, SpuriousWakeup
  <2>4. OneHolder' /\ NoFreedWorkRuns' /\ NoUseAfterFree' /\ ShutdownInv'
    BY <1>0, <1>1
       DEF WorkerSleep, SpuriousWakeup, OneHolder, NoFreedWorkRuns, NoUseAfterFree, ShutdownInv
  <2>5. QED
    BY <2>1, <2>3, <2>4
<1>2. CASE WorkerExit(w)
  <2>1. /\ Busy' = Busy
        /\ Alive' = Alive \ {w} /\ w \in Alive
        /\ working_cnt' = working_cnt /\ thread_cnt' = thread_cnt - 1
    BY <1>0, <1>2 DEF WorkerExit, Busy
  <2>2. CountersExact' /\ thread_cnt' \in Nat
    BY <2>1, CountOne DEF CountersExact
  <2>3. TypeOK'
    BY <1>2, <2>2 DEF TypeOK, WorkerExit, SignalClient, WorkerPC, ClientPC
  <2>4. OneHolder' /\ NoFreedWorkRuns' /\ NoUseAfterFree' /\ ShutdownInv'
    BY <1>0, <1>2
       DEF WorkerExit, SignalClient, OneHolder, NoFreedWorkRuns, NoUseAfterFree, ShutdownInv
  <2>5. QED
    BY <2>2, <2>3, <2>4
<1>3. CASE WorkerTake(w)
  <2>1. /\ Tail(queue) \in Seq(Tasks) /\ Head(queue) \in Tasks
        /\ Head(queue) \in Range(queue)
        /\ Range(Tail(queue)) = Range(queue) \ {Head(queue)}
        /\ Distinct(Tail(queue))
    BY <1>3, TailFacts DEF WorkerTake, OneHolder, TypeOK
  <2>2. /\ Busy' = Busy \cup {w} /\ w \notin Busy /\ Alive' = Alive
        /\ working_cnt' = working_cnt + 1 /\ thread_cnt' = thread_cnt
    BY <1>0, <1>3 DEF WorkerTake, Busy
  <2>3. CountersExact'
    BY <2>2, CountOne DEF CountersExact, Busy
  <2>4. TypeOK'
    BY <1>3, <2>1 DEF TypeOK, WorkerTake, WorkerPC
  <2>5. wtask[w] = NoTask /\ Range(wtask') \subseteq Range(wtask) \cup {Head(queue)}
    BY <1>3 DEF WorkerTake, OneHolder, TypeOK, Range
  <2>6. OneHolder'
    <3>1. Head(queue) \notin Range(wtask) /\ Head(queue) \notin done /\ Head(queue) # NoTask
      BY <2>1, PoolAssumption DEF OneHolder
    <3>2. \A v \in Workers : wpc'[v] = "run" <=> wtask'[v] # NoTask
      BY <1>0, <1>3, <3>1 DEF WorkerTake, OneHolder, TypeOK
    <3>3. \A u, v \in Workers : wpc'[u] = "run" /\ wtask'[u] = wtask'[v] => u = v
      BY <1>0, <1>3, <3>1 DEF WorkerTake, OneHolder, TypeOK, Range
    <3>4. /\ Range(wtask') \cap (Range(queue') \cup done') = {}
          /\ Range(queue') \cap done' = {}
      BY <1>3, <2>1, <2>5, <3>1 DEF WorkerTake, OneHolder
    <3>5. Distinct(queue')
      BY <1>3, <2>1 DEF WorkerTake
    <3>6. QED
      BY <3>2, <3>3, <3>4, <3>5 DEF OneHolder
  <2>7. NoFreedWorkRuns' /\ NoUseAfterFree' /\ ShutdownInv'
    BY <1>0, <1>3, <2>5
       DEF WorkerTake, NoFreedWorkRuns, NoUseAfterFree, ShutdownInv
  <2>8. QED
    BY <2>3, <2>4, <2>6, <2>7
<1>4. CASE WorkerRun(w)
  <2>1. wtask[w] \in Tasks /\ wtask[w] \in Range(wtask)
    BY <1>4 DEF WorkerRun, OneHolder, TypeOK, Range
  <2>2. /\ Busy' = Busy /\ Alive' = Alive
        /\ working_cnt' = working_cnt /\ thread_cnt' = thread_cnt
    BY <1>0, <1>4 DEF WorkerRun, Busy
  <2>3. CountersExact'
    BY <2>2 DEF CountersExact
  <2>4. TypeOK'
    BY <1>4, <2>1 DEF TypeOK, WorkerRun, WorkerPC
  <2>5. Range(wtask') \subseteq (Range(wtask) \ {wtask[w]}) \cup {NoTask}
    BY <1>4 DEF WorkerRun, OneHolder, TypeOK, Range
  <2>6. OneHolder'
    <3>1. NoTask \notin Range(queue) \cup done
      BY PoolAssumption, LenProperties DEF TypeOK, Range
    <3>2. \A v \in Workers : wpc'[v] = "run" <=> wtask'[v] # NoTask
      BY <1>0, <1>4 DEF WorkerRun, OneHolder, TypeOK
    <3>3. \A u, v \in Workers : wpc'[u] = "run" /\ wtask'[u] = wtask'[v] => u = v
      BY <1>0, <1>4 DEF WorkerRun, OneHolder, TypeOK
    <3>4. /\ Range(wtask') \cap (Range(queue') \cup done') = {}
          /\ Range(queue') \cap done' = {}
      BY <1>4, <2>1, <2>5, <3>1, PoolAssumption DEF WorkerRun, OneHolder
    <3>5. QED
      BY <1>4, <3>2, <3>3, <3>4 DEF OneHolder, WorkerRun
  <2>7. NoFreedWorkRuns' /\ NoUseAfterFree' /\ ShutdownInv'
    <3>1. NoTask \notin destroyed
      BY PoolAssumption DEF TypeOK
    <3>2. QED
      BY <1>0, <1>4, <2>1, <2>5, <3>1
         DEF WorkerRun, NoFreedWorkRuns, NoUseAfterFree, ShutdownInv
  <2>8. QED
    BY <2>3, <2>4, <2>6, <2>7
<1>5. CASE WorkerFinish(w)
  <2>1. /\ Busy' = Busy \ {w} /\ w \in Busy /\ Alive' = Alive
        /\ working_cnt' = working_cnt - 1 /\ thread_cnt' = thread_cnt
    BY <1>0, <1>5 DEF WorkerFinish, Busy
  <2>2. CountersExact' /\ working_cnt' \in Nat
    BY <2>1, CountOne, ZenonT(60) DEF CountersExact, Busy
  <2>3. TypeOK'
    BY <1>5, <2>2 DEF TypeOK, WorkerFinish, SignalClient, WorkerPC, ClientPC
  <2>4. OneHolder' /\ NoFreedWorkRuns' /\ NoUseAfterFree' /\ ShutdownInv'
    BY <1>0, <1>5
       DEF WorkerFinish, SignalClient, OneHolder, NoFreedWorkRuns, NoUseAfterFree, ShutdownInv
  <2>5. QED
    BY <2>2, <2>3, <2>4
<1>6. QED
  BY <1>1, <1>2, <1>3, <1>4, <1>5 DEF WorkerStep

(* Whatever the client thread does, the invariant survives. *)
LEMMA ClientPreserves ==
  ASSUME PoolInv,
         \/ \E t \in Tasks : AddTask(t)
         \/ CallWait \/ DeletePool \/ ClientWaits \/ ClientSpuriousWakeup
  PROVE  PoolInv'
<1> DEFINE Alive == {v \in Workers : wpc[v] # "exit"}
<1> USE DEF PoolInv
<1>0. wpc \in [Workers -> WorkerPC]
  BY DEF TypeOK
<1>1. ASSUME NEW t \in Tasks, AddTask(t) PROVE PoolInv'
  <2>1. /\ queue' \in Seq(Tasks) /\ Range(queue') = Range(queue) \cup {t}
        /\ Distinct(queue')
    BY <1>1, AppendFacts DEF AddTask, OneHolder, TypeOK
  <2>2. /\ Busy' = Busy /\ Alive' = Alive
        /\ \A w \in Workers : /\ wpc'[w] = "run" <=> wpc[w] = "run"
                              /\ wpc'[w] = "exit" <=> wpc[w] = "exit"
    BY <1>0, <1>1 DEF AddTask, BroadcastWork, Busy
  <2>3. CountersExact'
    BY <1>1, <2>2 DEF AddTask, CountersExact
  <2>4. TypeOK'
    BY <1>1, <2>1 DEF TypeOK, AddTask, BroadcastWork, WorkerPC
  <2>5. OneHolder'
    BY <1>1, <2>1, <2>2 DEF AddTask, OneHolder
  <2>6. NoFreedWorkRuns' /\ NoUseAfterFree' /\ ShutdownInv'
    BY <1>1, <2>1, <2>2 DEF AddTask, NoFreedWorkRuns, NoUseAfterFree, ShutdownInv
  <2>7. QED
    BY <2>3, <2>4, <2>5, <2>6
<1>2. CASE CallWait \/ WaitSleep \/ ClientSpuriousWakeup
  <2>1. TypeOK' /\ OneHolder' /\ NoFreedWorkRuns' /\ NoUseAfterFree' /\ ShutdownInv'
    BY <1>2 DEF CallWait, WaitSleep, ClientSpuriousWakeup, TypeOK, ClientPC, OneHolder,
                NoFreedWorkRuns, NoUseAfterFree, ShutdownInv
  <2>2. CountersExact'
    BY <1>2 DEF CallWait, WaitSleep, ClientSpuriousWakeup, CountersExact, Busy
  <2>3. QED
    BY <2>1, <2>2
<1>3. CASE WaitReturn
  <2>1. CountersExact'
    BY <1>3 DEF WaitReturn, CountersExact, Busy
  <2>2. TypeOK' /\ OneHolder' /\ NoFreedWorkRuns' /\ ShutdownInv'
    BY <1>3 DEF WaitReturn, TypeOK, ClientPC, OneHolder, NoFreedWorkRuns, ShutdownInv
  <2>3. NoUseAfterFree'
    <3>1. stop => Cardinality(Alive) = 0
      BY <1>3 DEF WaitReturn, MustWait, CountersExact
    <3>2. stop => Alive = {}
      BY <3>1, CountOne
    <3>3. QED
      BY <1>3, <3>2 DEF WaitReturn, NoUseAfterFree
  <2>4. QED
    BY <2>1, <2>2, <2>3
<1>4. CASE DeletePool
  <2>1. /\ Busy' = Busy /\ Alive' = Alive
        /\ \A w \in Workers : wpc'[w] = "run" <=> wpc[w] = "run"
    BY <1>0, <1>4 DEF DeletePool, BroadcastWork, Busy
  <2>2. CountersExact'
    BY <1>4, <2>1 DEF DeletePool, CountersExact
  <2>3. TypeOK'
    <3>1. Range(queue) \subseteq Tasks
      BY LenProperties DEF TypeOK, Range
    <3>2. QED
      BY <1>4, <3>1 DEF TypeOK, DeletePool, BroadcastWork, WorkerPC, ClientPC
  <2>4. OneHolder' /\ NoFreedWorkRuns' /\ NoUseAfterFree' /\ ShutdownInv'
    BY <1>4, <2>1 DEF DeletePool, OneHolder, NoFreedWorkRuns, NoUseAfterFree, ShutdownInv
  <2>5. QED
    BY <2>2, <2>3, <2>4
<1>5. QED
  BY <1>1, <1>2, <1>3, <1>4 DEF ClientWaits

(* A step that changes nothing keeps the invariant. *)
LEMMA StutterPreserves == PoolInv /\ UNCHANGED pvars => PoolInv'
  BY DEF PoolInv, TypeOK, CountersExact, Busy, OneHolder, NoFreedWorkRuns,
         NoUseAfterFree, ShutdownInv, pvars

(* Nor does any other step of the pool. *)
LEMMA StepPreserves == PoolInv /\ [Next]_pvars => PoolInv'
  BY WorkerPreserves, ClientPreserves, StutterPreserves DEF Next, Halted

(* What the client may conclude from the counter its wait looks at. *)
LEMMA NobodyBusy == PoolInv /\ working_cnt = 0 => Busy = {}
<1>1. Busy \in SUBSET Workers
  BY DEF Busy
<1>2. QED
  BY <1>1, CountOne DEF PoolInv, CountersExact

(***************************************************************************)
(* The pool keeps its counters exact, never runs a task twice or a freed   *)
(* one, and is freed only when no worker can touch it: for any number of   *)
(* workers and tasks.                                                      *)
(***************************************************************************)
THEOREM PoolSafety == Spec => []PoolInv
  BY InitInv, StepPreserves, PTL DEF Spec

(* working_cnt and thread_cnt never drift from the workers they count. *)
THEOREM CountersAlwaysExact == Spec => []CountersExact
<1>1. PoolInv => CountersExact
  BY DEF PoolInv
<1>2. QED
  BY <1>1, PoolSafety, PTL

(* delete_thread_pool frees nothing that a worker still needs. *)
THEOREM PoolNoUseAfterFree == Spec => [](NoUseAfterFree /\ NoFreedWorkRuns)
<1>1. PoolInv => NoUseAfterFree /\ NoFreedWorkRuns
  BY DEF PoolInv
<1>2. QED
  BY <1>1, PoolSafety, PTL

-----------------------------------------------------------------------------
(* The barrier's view of a worker's step: only the return of func counts. *)
LEMMA WorkerRefines ==
  ASSUME PoolInv, NEW w \in Workers, WorkerStep(w) \/ SpuriousWakeup(w)
  PROVE  (\E t \in Tasks : Barrier!Perform(t)) \/ UNCHANGED Barrier!bvars
<1> USE DEF PoolInv
<1>1. CASE WorkerSleep(w) \/ SpuriousWakeup(w)
  BY <1>1 DEF WorkerSleep, SpuriousWakeup, Barrier!bvars, Pending, CallerView
<1>2. CASE WorkerExit(w) \/ WorkerFinish(w)
  BY <1>2 DEF WorkerExit, WorkerFinish, SignalClient, Barrier!bvars, Pending,
              CallerView, TypeOK, ClientPC
<1>3. CASE WorkerTake(w)
  <2>1. /\ Head(queue) \in Range(queue) /\ Head(queue) \in Tasks
        /\ Range(queue') = Range(queue) \ {Head(queue)}
    BY <1>3, TailFacts DEF WorkerTake, OneHolder, TypeOK
  <2>2. Range(wtask') \ {NoTask} = (Range(wtask) \ {NoTask}) \cup {Head(queue)}
    BY <1>3, <2>1, PoolAssumption DEF WorkerTake, OneHolder, TypeOK, Range
  <2>3. Pending' = Pending
    BY <1>3, <2>1, <2>2 DEF WorkerTake, Pending
  <2>4. QED
    BY <1>3, <2>3 DEF WorkerTake, Barrier!bvars, CallerView
<1>4. CASE WorkerRun(w)
  <2>1. /\ wtask[w] \in Tasks /\ wtask[w] \in Range(wtask)
        /\ wtask[w] \notin Range(queue) \cup destroyed
    <3>1. wtask[w] \in Tasks /\ wtask[w] \in Range(wtask)
      BY <1>4 DEF WorkerRun, OneHolder, TypeOK, Range
    <3>2. QED
      BY <3>1 DEF OneHolder, NoFreedWorkRuns
  <2>2. Range(wtask') \ {NoTask} = (Range(wtask) \ {NoTask}) \ {wtask[w]}
    BY <1>4 DEF WorkerRun, OneHolder, TypeOK, Range
  <2>3. wtask[w] \in Pending /\ Pending' = Pending \ {wtask[w]}
    BY <1>4, <2>1, <2>2, PoolAssumption DEF WorkerRun, Pending
  <2>4. Barrier!Perform(wtask[w])
    BY <1>4, <2>3 DEF WorkerRun, Barrier!Perform, CallerView
  <2>5. QED
    BY <2>1, <2>4
<1>5. QED
  BY <1>1, <1>2, <1>3, <1>4 DEF WorkerStep

(* Each call of the client, and the return of a wait, is a barrier step. *)
LEMMA ClientRefines ==
  ASSUME PoolInv,
         \/ \E t \in Tasks : AddTask(t)
         \/ CallWait \/ DeletePool \/ ClientWaits \/ ClientSpuriousWakeup
  PROVE  Barrier!BarrierNext \/ UNCHANGED Barrier!bvars
<1> USE DEF PoolInv
<1>1. ASSUME NEW t \in Tasks, AddTask(t) PROVE Barrier!BarrierNext
  <2>1. Range(queue') = Range(queue) \cup {t}
    BY <1>1, AppendFacts DEF AddTask, TypeOK
  <2>2. t \notin destroyed
    BY <1>1 DEF AddTask, ShutdownInv
  <2>3. t \notin Pending \cup done /\ Pending' = Pending \cup {t}
    BY <1>1, <2>1, <2>2 DEF AddTask, Pending
  <2>4. Barrier!Submit(t)
    BY <1>1, <2>3 DEF AddTask, Barrier!Submit, CallerView
  <2>5. QED
    BY <2>4 DEF Barrier!BarrierNext
<1>2. CASE CallWait
  <2>1. Barrier!BeginWait
    BY <1>2 DEF CallWait, Barrier!BeginWait, CallerView, Pending, ShutdownInv
  <2>2. QED
    BY <2>1 DEF Barrier!BarrierNext
<1>3. CASE WaitSleep \/ ClientSpuriousWakeup
  BY <1>3 DEF WaitSleep, ClientSpuriousWakeup, Barrier!bvars, Pending, CallerView
<1>4. CASE WaitReturn
  <2>1. Busy = {}
    <3>1. ~stop => Busy = {}
      BY <1>4, CountOne DEF WaitReturn, MustWait, CountersExact, Busy
    <3>2. stop => {w \in Workers : wpc[w] # "exit"} = {}
      BY <1>4, CountOne DEF WaitReturn, MustWait, CountersExact
    <3>3. QED
      BY <3>1, <3>2 DEF Busy
  <2>2. Pending = {}
    <3>1. queue = <<>>
      BY <1>4 DEF WaitReturn, MustWait
    <3>2. Range(queue) = {}
      BY <3>1 DEF Range
    <3>3. Range(wtask) \subseteq {NoTask}
      BY <2>1 DEF Busy, OneHolder, TypeOK, Range
    <3>4. QED
      BY <3>2, <3>3 DEF Pending
  <2>3. Pending' = Pending /\ done' = done
    BY <1>4 DEF WaitReturn, Pending
  <2>4. CASE stop
    <3>1. Barrier!EndClose
      BY <1>4, <2>2, <2>3, <2>4 DEF WaitReturn, Barrier!EndClose, CallerView
    <3>2. QED
      BY <3>1 DEF Barrier!BarrierNext
  <2>5. CASE ~stop
    <3>1. Barrier!EndWait
      BY <1>4, <2>2, <2>3, <2>5 DEF WaitReturn, Barrier!EndWait, CallerView
    <3>2. QED
      BY <3>1 DEF Barrier!BarrierNext
  <2>6. QED
    BY <2>4, <2>5
<1>5. CASE DeletePool
  <2>1. Pending' \in SUBSET Pending
    BY <1>5 DEF DeletePool, Pending, ShutdownInv
  <2>2. Barrier!BeginClose
    BY <1>5, <2>1 DEF DeletePool, Barrier!BeginClose, CallerView
  <2>3. QED
    BY <2>2 DEF Barrier!BarrierNext
<1>6. QED
  BY <1>1, <1>2, <1>3, <1>4, <1>5 DEF ClientWaits

(* The pool's initial state is the barrier's. *)
LEMMA InitRefines == Init => Barrier!BarrierInit
  BY DEF Init, Barrier!BarrierInit, Pending, CallerView, Range

(***************************************************************************)
(* wait_thread_pool is a barrier: the pool implements WorkBarrier for any  *)
(* number of workers and tasks.                                            *)
(***************************************************************************)
THEOREM PoolImplementsBarrier == Spec => ImplementsBarrier
<1>1. Init => Barrier!BarrierInit
  BY InitRefines
<1>2. PoolInv /\ [Next]_pvars => [Barrier!BarrierNext]_(Barrier!bvars)
  <2> SUFFICES ASSUME PoolInv, [Next]_pvars
               PROVE  Barrier!BarrierNext \/ UNCHANGED Barrier!bvars
    OBVIOUS
  <2>1. CASE UNCHANGED pvars
    BY <2>1 DEF pvars, Barrier!bvars, Pending, CallerView
  <2>2. CASE Next
    BY <2>1, <2>2, WorkerRefines, ClientRefines DEF Next, Halted, Barrier!BarrierNext
  <2>3. QED
    BY <2>1, <2>2
<1>3. QED
  BY <1>1, <1>2, PoolSafety, PTL DEF Spec, ImplementsBarrier, Barrier!BarrierSpec
=============================================================================
