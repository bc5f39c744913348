-------------------------- MODULE MultiselectProofs --------------------------
(***************************************************************************)
(* What the tasks of a parallel scan share outlives its use and is freed   *)
(* when the stage is over, and the selections then hold what one scan of   *)
(* the column would find: for every column, number of selections and       *)
(* number of workers.  The pool's part of the argument is ThreadPoolProofs *)
(* taken as it is: Shared is the pool with the scan's tasks.               *)
(***************************************************************************)
EXTENDS Multiselect, Integers, FiniteSetTheorems, SequenceTheorems, WellFoundedInduction, TLAPS

Shared == INSTANCE ThreadPoolProofs WITH Tasks <- ScanTasks

-----------------------------------------------------------------------------
(* Division as the code's integers do it. *)
LEMMA Division ==
  ASSUME NEW k \in Nat, NEW n \in Nat \ {0}
  PROVE  /\ k \div n \in Nat /\ k % n \in 0 .. n - 1
         /\ k = ((k \div n) * n) + (k % n)
<1>1. k \div n \in Nat /\ k % n \in Nat
  OBVIOUS
<1>2. k % n < n
  OBVIOUS
<1>3. k = (n * (k \div n)) + (k % n)
  OBVIOUS
<1>4. n * (k \div n) = (k \div n) * n
  BY <1>1
<1>5. QED
  BY <1>1, <1>2, <1>3, <1>4

LEMMA Below ==
  ASSUME NEW a \in Nat, NEW b \in Nat, NEW c \in Nat, NEW n \in Nat,
         a * n <= b, b < c * n
  PROVE  a < c
  OBVIOUS

LEMMA Multiple ==
  ASSUME NEW a \in Nat, NEW c \in Nat, NEW n \in Nat, a < c
  PROVE  /\ a * n \in Nat /\ c * n \in Nat
         /\ (a * n) + n = (a + 1) * n
         /\ (a * n) + n <= c * n
<1>1. (a * n) + n = (a + 1) * n
  OBVIOUS
<1>2. a + 1 <= c
  OBVIOUS
<1>3. (a + 1) * n <= c * n
  BY <1>2
<1>4. QED
  BY <1>1, <1>3

(* The chunks reach to the end of the column. *)
LEMMA ChunkFits ==
  ASSUME Size # 0
  PROVE  /\ ChunkSize \in Nat \ {0} /\ ChunkCount \in Nat \ {0}
         /\ Size <= ChunkCount * ChunkSize
<1>1. Size \in Nat \ {0} /\ MinChunk \in Nat \ {0} /\ MaxChunks \in Nat \ {0}
  BY ScanAssumption
<1>2. PICK m \in Nat : m = Size \div MinChunk
  BY <1>1, Division
<1>3. m <= Size
  <2>1. m * MinChunk <= Size /\ MinChunk >= 1
    BY <1>1, <1>2, Division
  <2>2. m <= m * MinChunk
    BY <2>1, <1>1
  <2>3. QED
    BY <1>1, <2>1, <2>2
<1>4. NumberOfChunks \in 1 .. Size
  BY <1>1, <1>2, <1>3 DEF NumberOfChunks
<1>5. PICK c \in Nat \ {0} : c = ChunkSize
  <2>1. PICK d \in 1 .. Size : d = NumberOfChunks
    BY <1>4
  <2>2. PICK q \in Nat : q = Size \div d
    BY <1>1, <2>1, Division
  <2>3. q # 0
    <3>1. Size = (q * d) + (Size % d) /\ Size % d < d /\ Size % d \in Nat
      BY <1>1, <2>1, <2>2, Division
    <3>2. ASSUME q = 0 PROVE FALSE
      <4>1. q * d = 0
        BY <3>2, <2>1
      <4>2. QED
        BY <3>1, <4>1, <2>1
    <3>3. QED
      BY <3>2
  <2>4. QED
    BY <2>1, <2>2, <2>3 DEF ChunkSize
<1>6. PICK s \in Nat : s = Size + c - 1
  BY <1>1
<1>7. PICK q \in Nat : q = s \div c /\ q = ChunkCount
  BY <1>5, <1>6, Division DEF ChunkCount
<1>8. Size <= q * c
  <2>1. s = (q * c) + (s % c) /\ s % c \in 0 .. c - 1 /\ q * c \in Nat
    BY <1>7, Division
  <2>2. QED
    BY <1>1, <1>6, <2>1
<1>9. q # 0
  <2>1. ASSUME q = 0 PROVE FALSE
    <3>1. q * c = 0
      BY <2>1
    <3>2. QED
      BY <1>1, <1>8, <3>1
  <2>2. QED
    BY <2>1
<1>10. QED
  BY <1>5, <1>7, <1>8, <1>9

(* A column is never cut in no chunks at all. *)
LEMMA SomeChunks == ChunkCount \in Nat \ {0}
<1>1. CASE Size = 0
  BY <1>1 DEF ChunkCount
<1>2. CASE Size # 0
  BY <1>2, ChunkFits
<1>3. QED
  BY <1>1, <1>2

(***************************************************************************)
(* The tasks of this scan, and the number under which step 4 submits each  *)
(***************************************************************************)
Wanted == Chunks \X (1 .. num_selects)
Index(t) == t[1] * num_selects + t[2]

LEMMA Numbering ==
  ASSUME num_selects \in Sels
  PROVE  /\ TaskCount \in Nat \ {0}
         /\ \A t \in Wanted : Index(t) \in 1 .. TaskCount /\ TaskAt(Index(t)) = t
         /\ \A k \in 1 .. TaskCount : TaskAt(k) \in Wanted /\ Index(TaskAt(k)) = k
<1>1. PICK n \in Nat \ {0} : n = num_selects
  BY ScanAssumption DEF Sels
<1>2. PICK c \in Nat \ {0} : c = ChunkCount
  BY SomeChunks
<1>3. TaskCount = c * n /\ c * n \in Nat
  BY <1>1, <1>2 DEF TaskCount
<1>4. c * n # 0
  <2>1. 0 < c
    OBVIOUS
  <2>2. (0 * n) + n <= c * n
    BY <2>1, Multiple
  <2>3. QED
    BY <2>2
<1>5. ASSUME NEW t \in Wanted
      PROVE  Index(t) \in 1 .. TaskCount /\ TaskAt(Index(t)) = t
  <2>1. PICK i \in 0 .. c - 1, j \in 1 .. n : t = <<i, j>>
    BY <1>1, <1>2 DEF Wanted, Chunks
  <2>2. i \in Nat /\ j \in Nat /\ i < c
    OBVIOUS
  <2>3. i * n \in Nat /\ (i * n) + n <= c * n /\ (i * n) + n = (i + 1) * n
    BY <2>2, Multiple
  <2>4. PICK x \in Nat : x = (i * n) + (j - 1)
    BY <2>3
  <2>5. Index(t) = x + 1 /\ x + 1 \in 1 .. TaskCount
    BY <1>1, <1>3, <2>1, <2>3, <2>4 DEF Index
  <2>6. PICK a \in Nat, b \in 0 .. n - 1 : a = x \div n /\ b = x % n /\ x = (a * n) + b
    BY Division
  <2>7. a * n \in Nat /\ (a + 1) * n = (a * n) + n
    OBVIOUS
  <2>8. a < i + 1
    <3>1. a * n <= x /\ x < (i + 1) * n
      BY <2>3, <2>4, <2>6, <2>7
    <3>2. QED
      BY <3>1, Below
  <2>9. i < a + 1
    <3>1. i * n <= x /\ x < (a + 1) * n
      BY <2>3, <2>4, <2>6, <2>7
    <3>2. QED
      BY <3>1, Below
  <2>10. a = i
    BY <2>8, <2>9
  <2>11. b = j - 1
    BY <2>3, <2>4, <2>6, <2>10
  <2>12. TaskAt(x + 1) = <<a, b + 1>>
    BY <1>1, <2>6 DEF TaskAt
  <2>13. QED
    BY <2>1, <2>5, <2>10, <2>11, <2>12
<1>6. ASSUME NEW k \in 1 .. TaskCount
      PROVE  TaskAt(k) \in Wanted /\ Index(TaskAt(k)) = k
  <2>1. PICK x \in Nat : x = k - 1 /\ x < c * n
    BY <1>3
  <2>2. PICK a \in Nat, b \in 0 .. n - 1 : a = x \div n /\ b = x % n /\ x = (a * n) + b
    BY Division
  <2>3. a * n \in Nat
    OBVIOUS
  <2>4. a * n <= x
    BY <2>2, <2>3
  <2>5. a < c
    BY <2>1, <2>4, Below
  <2>6. TaskAt(k) = <<a, b + 1>>
    BY <1>1, <2>1, <2>2 DEF TaskAt
  <2>7. TaskAt(k) \in Wanted
    BY <1>1, <1>2, <2>5, <2>6 DEF Wanted, Chunks
  <2>8. Index(TaskAt(k)) = (a * n) + (b + 1)
    BY <1>1, <2>6 DEF Index
  <2>9. QED
    BY <2>1, <2>2, <2>3, <2>7, <2>8
<1>7. QED
  BY <1>3, <1>4, <1>5, <1>6

LEMMA WantedFinite ==
  ASSUME num_selects \in Sels
  PROVE  /\ Wanted \subseteq ScanTasks
         /\ IsFiniteSet(Chunks) /\ Cardinality(Chunks) = ChunkCount
         /\ IsFiniteSet(Wanted) /\ Cardinality(Wanted) = TaskCount
<1>1. PICK n \in Nat \ {0} : n = num_selects /\ n <= Selections
  BY ScanAssumption DEF Sels
<1>2. PICK c \in Nat \ {0} : c = ChunkCount
  BY SomeChunks
<1>3. IsFiniteSet(0 .. c - 1) /\ Cardinality(0 .. c - 1) = c
  BY FS_Interval
<1>4. IsFiniteSet(1 .. n) /\ Cardinality(1 .. n) = n
  BY FS_Interval
<1>5. IsFiniteSet((0 .. c - 1) \X (1 .. n)) /\ Cardinality((0 .. c - 1) \X (1 .. n)) = c * n
  BY <1>3, <1>4, FS_Product, ZenonT(60)
<1>6. Wanted \subseteq ScanTasks
  BY <1>1, ScanAssumption DEF Wanted, ScanTasks, Sels
<1>7. QED
  BY <1>1, <1>2, <1>3, <1>5, <1>6 DEF Wanted, Chunks, TaskCount

-----------------------------------------------------------------------------
(* The scan's pool is the pool the proofs of ThreadPool are about. *)
LEMMA PoolAssumed == Shared!IsFiniteSet(Workers) /\ Shared!PoolAssumption
<1>1. Shared!IsFiniteSet(Workers)
  BY WorkersAssumption DEF IsFiniteSet, Shared!IsFiniteSet
<1>2. QED
  BY <1>1, WorkersAssumption DEF Shared!PoolAssumption

LEMMA PoolStarts == Init => Shared!PoolInv
<1>1. Pool!Init => Shared!Init
  BY DEF Pool!Init, Shared!Init, Pool!Cardinality, Shared!Cardinality
<1>2. QED
  BY <1>1, PoolAssumed, WorkersAssumption, Shared!InitInv DEF Init

LEMMA SamePool ==
  ASSUME NEW w, NEW t
  PROVE  /\ Pool!WorkerSleep(w) => Shared!WorkerSleep(w)
         /\ Pool!WorkerExit(w) => Shared!WorkerExit(w)
         /\ Pool!WorkerTake(w) => Shared!WorkerTake(w)
         /\ Pool!WorkerRun(w) => Shared!WorkerRun(w)
         /\ Pool!WorkerFinish(w) => Shared!WorkerFinish(w)
         /\ Pool!SpuriousWakeup(w) => Shared!SpuriousWakeup(w)
         /\ Pool!ClientSpuriousWakeup => Shared!ClientSpuriousWakeup
         /\ Pool!AddTask(t) => Shared!AddTask(t)
         /\ Pool!CallWait => Shared!CallWait
         /\ Pool!WaitSleep => Shared!WaitSleep
         /\ Pool!WaitReturn => Shared!WaitReturn
         /\ Pool!DeletePool => Shared!DeletePool
<1>1. Pool!WorkerSleep(w) => Shared!WorkerSleep(w)
  BY DEF Pool!WorkerSleep, Shared!WorkerSleep
<1>2. Pool!WorkerExit(w) => Shared!WorkerExit(w)
  BY DEF Pool!WorkerExit, Shared!WorkerExit, Pool!SignalClient, Shared!SignalClient
<1>3. Pool!WorkerTake(w) => Shared!WorkerTake(w)
  BY DEF Pool!WorkerTake, Shared!WorkerTake
<1>4. Pool!WorkerRun(w) => Shared!WorkerRun(w)
  BY DEF Pool!WorkerRun, Shared!WorkerRun
<1>5. Pool!WorkerFinish(w) => Shared!WorkerFinish(w)
  BY DEF Pool!WorkerFinish, Shared!WorkerFinish, Pool!SignalClient, Shared!SignalClient
<1>6. Pool!SpuriousWakeup(w) => Shared!SpuriousWakeup(w)
  BY DEF Pool!SpuriousWakeup, Shared!SpuriousWakeup
<1>7. Pool!ClientSpuriousWakeup => Shared!ClientSpuriousWakeup
  BY DEF Pool!ClientSpuriousWakeup, Shared!ClientSpuriousWakeup
<1>8. Pool!AddTask(t) => Shared!AddTask(t)
  BY DEF Pool!AddTask, Shared!AddTask, Pool!BroadcastWork, Shared!BroadcastWork,
         Pool!Range, Shared!Range
<1>9. Pool!CallWait => Shared!CallWait
  BY DEF Pool!CallWait, Shared!CallWait
<1>10. Pool!WaitSleep => Shared!WaitSleep
  BY DEF Pool!WaitSleep, Shared!WaitSleep, Pool!MustWait, Shared!MustWait
<1>11. Pool!WaitReturn => Shared!WaitReturn
  BY DEF Pool!WaitReturn, Shared!WaitReturn, Pool!MustWait, Shared!MustWait
<1>12. Pool!DeletePool => Shared!DeletePool
  BY DEF Pool!DeletePool, Shared!DeletePool, Pool!BroadcastWork, Shared!BroadcastWork,
         Pool!Range, Shared!Range
<1>13. QED
  BY <1>1, <1>2, <1>3, <1>4, <1>5, <1>6, <1>7, <1>8, <1>9, <1>10, <1>11, <1>12

(* Every step of the scan is a step of its pool, or leaves the pool alone. *)
LEMMA PoolSteps ==
  ASSUME num_selects \in Sels, [Next]_vars
  PROVE  [Shared!Next]_pvars
<1>1. ASSUME NEW w \in Workers, Worker(w) PROVE [Shared!Next]_pvars
  <2>1. CASE TaskReturn(w) \/ WorkerLoop(w)
    BY <2>1, SamePool DEF TaskReturn, WorkerLoop, Shared!Next, Shared!WorkerStep
  <2>2. CASE ScanChunk(w) \/ MergeChunk(w) \/ ScanLocked(w)
    BY <2>2 DEF ScanChunk, MergeChunk, ScanLocked
  <2>3. CASE FreeArc(w)
    BY <2>3 DEF FreeArc
  <2>4. QED
    BY <1>1, <2>1, <2>2, <2>3 DEF Worker
<1>2. CASE SubmitNext
  <2>1. TaskAt(next) \in ScanTasks
    BY <1>2, Numbering, WantedFinite DEF SubmitNext
  <2>2. QED
    BY <1>2, <2>1, SamePool DEF SubmitNext, Shared!Next
<1>3. CASE StageWait \/ WaitSleep \/ WaitReturn \/ Disconnect
  BY <1>3, SamePool
     DEF StageWait, WaitSleep, WaitReturn, Disconnect, Shared!Next, Shared!ClientWaits
<1>4. CASE Prepare \/ Halted \/ UNCHANGED vars
  BY <1>4 DEF Prepare, Halted, Pool!Halted, Pool!pvars, vars, pvars
<1>5. CASE Spurious
  BY <1>5, SamePool DEF Spurious, Shared!Next
<1>6. QED
  BY <1>1, <1>2, <1>3, <1>4, <1>5 DEF Next, Server

LEMMA PoolKept ==
  ASSUME Shared!PoolInv, num_selects \in Sels, [Next]_vars
  PROVE  Shared!PoolInv'
<1>1. [Shared!Next]_Shared!pvars
  BY PoolSteps DEF pvars, Shared!pvars
<1>2. QED
  BY <1>1, PoolAssumed, WorkersAssumption, Shared!StepPreserves

LEMMA PoolFacts ==
  ASSUME Shared!PoolInv
  PROVE  /\ queue \in Seq(ScanTasks)
         /\ wpc \in [Workers -> {"lock", "work_cond", "run", "finish", "exit"}]
         /\ wtask \in [Workers -> ScanTasks \cup {NoTask}]
         /\ \A w \in Workers : wpc[w] = "run" => wtask[w] \in ScanTasks \ Range(queue)
         /\ \A v, w \in Workers : wpc[v] = "run" /\ wtask[v] = wtask[w] => v = w
         /\ mpc = "idle" => ~stop
         /\ working_cnt = 0 => \A w \in Workers : wpc[w] \notin {"run", "finish"}
<1>1. /\ queue \in Seq(ScanTasks)
      /\ wpc \in [Workers -> {"lock", "work_cond", "run", "finish", "exit"}]
      /\ wtask \in [Workers -> ScanTasks \cup {NoTask}]
  BY DEF Shared!PoolInv, Shared!TypeOK, Shared!WorkerPC
<1>2. /\ \A v, w \in Workers : wpc[v] = "run" /\ wtask[v] = wtask[w] => v = w
      /\ \A w \in Workers : wpc[w] = "run" <=> wtask[w] # NoTask
      /\ Shared!Range(wtask) \cap Shared!Range(queue) = {}
  BY DEF Shared!PoolInv, Shared!OneHolder
<1>3. \A w \in Workers : wtask[w] \in Shared!Range(wtask)
  BY <1>1 DEF Shared!Range
<1>4. Shared!Range(queue) = Range(queue)
  BY DEF Shared!Range, Range
<1>5. \A w \in Workers : wpc[w] = "run" => wtask[w] \in ScanTasks \ Range(queue)
  BY <1>1, <1>2, <1>3, <1>4
<1>6. mpc = "idle" => ~stop
  BY DEF Shared!PoolInv, Shared!ShutdownInv
<1>7. working_cnt = 0 => \A w \in Workers : wpc[w] \notin {"run", "finish"}
  <2>1. working_cnt = 0 => Shared!Busy = {}
    BY PoolAssumed, WorkersAssumption, Shared!NobodyBusy
  <2>2. QED
    BY <2>1 DEF Shared!Busy
<1>8. QED
  BY <1>1, <1>2, <1>5, <1>6, <1>7

-----------------------------------------------------------------------------
(***************************************************************************)
(* The tasks that are in the list, or in the hands of a worker that is at  *)
(* one of the steps S.  A task still has its report to make before "arc",  *)
(* and its reference to give up before "ret".                              *)
(***************************************************************************)
InHand(S) == {wtask[w] : w \in {v \in Workers : wpc[v] = "run" /\ step[v] \in S}}
Live(S) == Range(queue) \cup InHand(S)

Reporting == {"call", "merge"}
Referring == {"call", "merge", "arc"}

Unreported(j) == {i \in Chunks : Index(<<i, j>>) >= next \/ <<i, j>> \in Live(Reporting)}
Using == {t \in Wanted : Index(t) >= next \/ t \in Live(Referring)}

ScanType ==
  /\ num_selects \in Sels /\ next \in Nat
  /\ remaining \in [Sels -> Nat] /\ arc_count \in Nat /\ arc_freed \in BOOLEAN
  /\ step \in [Workers -> Step]

(* A task starts at the beginning. *)
Fresh == \A w \in Workers : step[w] # "call" => wpc[w] = "run"

(* Nothing is in the pool that was not submitted. *)
Sent == \A t \in Live(Step) : t \in Wanted /\ Index(t) < next

(* `remaining` and the reference count are the tasks they stand for. *)
ReportsExact ==
  next > 0 => \A j \in 1 .. num_selects : remaining[j] = Cardinality(Unreported(j))
RefsExact == next > 0 => arc_count = Cardinality(Using)
FreedExact == arc_freed <=> (next > 0 /\ arc_count = 0)

(* A wait that has returned leaves nothing queued and nobody at work. *)
Drained ==
  StageOver => queue = <<>> /\ \A w \in Workers : wpc[w] \notin {"run", "finish"}

CountsExact == ReportsExact /\ RefsExact /\ FreedExact

(***************************************************************************)
(* The inductive invariant: the pool's, and that the two counters of the   *)
(* scan are exactly the tasks that have not got so far.                    *)
(***************************************************************************)
ScanInv ==
  Shared!PoolInv /\ ScanType /\ Fresh /\ Sent /\ CountsExact /\ Drained

(* SharedAlive and NothingLeaks are what these counts mean. *)
LEMMA InvImplies == ScanInv => SharedAlive /\ NothingLeaks
<1> SUFFICES ASSUME ScanInv PROVE SharedAlive /\ NothingLeaks
  OBVIOUS
<1>1. num_selects \in Sels /\ next \in Nat /\ step \in [Workers -> Step]
  BY DEF ScanInv, ScanType
<1>2. TaskCount \in Nat \ {0} /\ IsFiniteSet(Chunks) /\ IsFiniteSet(Wanted)
  BY <1>1, Numbering, WantedFinite
<1>3. \A w \in Workers : wpc[w] = "run" => wtask[w] \in Live(Step)
  BY <1>1 DEF Live, InHand
<1>4. Range(queue) \subseteq Live(Step) /\ Range(queue) \subseteq Live(Reporting)
      /\ Range(queue) \subseteq Live(Referring)
  BY DEF Live
<1>5. \A i \in DOMAIN queue : queue[i] \in Range(queue)
  BY DEF Range
<1>6. arc_freed => Using = {}
  <2>1. IsFiniteSet(Using)
    BY <1>2, FS_Subset DEF Using
  <2>2. arc_freed => Cardinality(Using) = 0
    BY DEF ScanInv, CountsExact, FreedExact, RefsExact
  <2>3. QED
    BY <2>1, <2>2, FS_EmptySet
<1>7. ASSUME arc_freed
      PROVE  /\ next > TaskCount
             /\ queue = <<>>
             /\ \A w \in Workers : wpc[w] = "run" => step[w] = "ret"
  <2>1. Using = {}
    BY <1>6, <1>7
  <2>2. next > TaskCount
    <3>1. TaskAt(TaskCount) \in Wanted /\ Index(TaskAt(TaskCount)) = TaskCount
      BY <1>1, <1>2, Numbering
    <3>2. QED
      BY <1>1, <1>2, <2>1, <3>1 DEF Using
  <2>3. queue = <<>>
    <3>1. Range(queue) = {}
      BY <1>4, <2>1 DEF ScanInv, Sent, Using
    <3>2. queue \in Seq(ScanTasks)
      BY PoolFacts DEF ScanInv
    <3>3. DOMAIN queue = {}
      BY <1>5, <3>1
    <3>4. QED
      BY <3>2, <3>3, LenProperties, EmptySeq
  <2>4. ASSUME NEW w \in Workers, wpc[w] = "run" PROVE step[w] = "ret"
    <3>1. wtask[w] \in Wanted
      BY <1>3, <2>4 DEF ScanInv, Sent
    <3>2. wtask[w] \notin Live(Referring)
      BY <2>1, <3>1 DEF Using
    <3>3. step[w] \notin Referring
      BY <2>4, <3>2 DEF Live, InHand
    <3>4. QED
      BY <1>1, <3>3 DEF Step, Referring
  <2>5. QED
    BY <2>2, <2>3, <2>4
<1>8. ASSUME NEW j \in Sels, next > 0, remaining[j] = 0
      PROVE  /\ \A i \in DOMAIN queue : queue[i][2] # j
             /\ \A w \in Workers :
                  wpc[w] = "run" /\ wtask[w][2] = j => step[w] \in {"arc", "ret"}
  <2>1. \A t \in Live(Reporting) : t[2] # j
    <3>1. ASSUME NEW t \in Live(Reporting), t[2] = j PROVE FALSE
      <4>1. t \in Live(Step)
        BY DEF Live, InHand, Reporting, Step
      <4>2. t \in Wanted
        BY <4>1 DEF ScanInv, Sent
      <4>3. t = <<t[1], j>> /\ t[1] \in Chunks /\ j \in 1 .. num_selects
        BY <3>1, <4>2 DEF Wanted
      <4>4. t[1] \in Unreported(j)
        BY <4>3 DEF Unreported
      <4>5. IsFiniteSet(Unreported(j))
        BY <1>2, FS_Subset DEF Unreported
      <4>6. Cardinality(Unreported(j)) # 0
        BY <4>4, <4>5, FS_EmptySet
      <4>7. QED
        BY <1>8, <4>3, <4>6 DEF ScanInv, CountsExact, ReportsExact
    <3>2. QED
      BY <3>1
  <2>2. \A i \in DOMAIN queue : queue[i][2] # j
    BY <1>4, <1>5, <2>1
  <2>3. ASSUME NEW w \in Workers, wpc[w] = "run", wtask[w][2] = j
        PROVE  step[w] \in {"arc", "ret"}
    <3>1. step[w] \notin Reporting
      BY <2>1, <2>3 DEF Live, InHand
    <3>2. QED
      BY <1>1, <3>1 DEF Step, Reporting
  <2>4. QED
    BY <2>2, <2>3
<1>9. ASSUME StageOver PROVE arc_freed
  <2>1. queue = <<>> /\ \A w \in Workers : wpc[w] # "run"
    BY <1>9 DEF ScanInv, Drained
  <2>2. Range(queue) = {}
    BY <2>1 DEF Range
  <2>3. Live(Referring) = {}
    BY <2>1, <2>2 DEF Live, InHand
  <2>4. Using = {}
    <3>1. \A t \in Wanted : Index(t) \in 1 .. TaskCount
      BY <1>1, Numbering
    <3>2. \A t \in Wanted : ~(Index(t) >= next)
      BY <1>1, <1>2, <1>9, <3>1 DEF StageOver
    <3>3. QED
      BY <2>3, <3>2 DEF Using
  <2>5. next > 0 /\ arc_count = 0
    BY <1>1, <1>2, <1>9, <2>4, FS_EmptySet DEF StageOver, ScanInv, CountsExact, RefsExact
  <2>6. QED
    BY <2>5 DEF ScanInv, CountsExact, FreedExact
<1>10. QED
  BY <1>7, <1>8, <1>9 DEF SharedAlive, NothingLeaks

-----------------------------------------------------------------------------
(* A step after which the same chunks of every selection are to report. *)
ReportsStay == \A j \in 1 .. num_selects : Unreported(j)' = Unreported(j)

(* A step that moves no task past a report or a reference keeps the counts *)
LEMMA Quiet ==
  ASSUME Sent, CountsExact,
         UNCHANGED <<num_selects, next, remaining, arc_count, arc_freed>>,
         \A S : Live(S)' = Live(S)
  PROVE  Sent' /\ CountsExact' /\ ReportsStay
<1>1. /\ Live(Reporting)' = Live(Reporting) /\ Live(Referring)' = Live(Referring)
      /\ Live(Step)' = Live(Step)
  BY Zenon
<1>2. \A t : Index(t)' = Index(t)
  BY DEF Index
<1>3. Wanted' = Wanted /\ \A j : Unreported(j)' = Unreported(j)
  BY <1>1, <1>2 DEF Wanted, Unreported
<1>4. Using' = Using
  BY <1>1, <1>2, <1>3 DEF Using
<1>5. QED
  BY <1>1, <1>2, <1>3, <1>4
     DEF Sent, CountsExact, ReportsExact, RefsExact, FreedExact, ReportsStay

(* The hands of the workers change with the pcs, the steps and the tasks. *)
LEMMA SameLive ==
  ASSUME NEW S, Range(queue') = Range(queue), wtask' = wtask,
         \A v \in Workers :
           (wpc'[v] = "run" /\ step'[v] \in S) <=> (wpc[v] = "run" /\ step[v] \in S)
  PROVE  Live(S)' = Live(S)
  BY DEF Live, InHand

(* A worker that is not in func, and the wakeups. *)
LEMMA LoopKeeps ==
  ASSUME ScanInv, NEW w \in Workers, WorkerLoop(w) \/ Pool!SpuriousWakeup(w),
         UNCHANGED <<svars, next>>, ~Pool!WorkerTake(w)
  PROVE  ScanType' /\ Fresh' /\ Sent' /\ CountsExact' /\ Drained' /\ ReportsStay
<1>1. PICK b \in {"work_cond", "exit", "lock"} :
        /\ wpc[w] # "run" /\ wpc' = [wpc EXCEPT ![w] = b]
        /\ UNCHANGED <<queue, wtask>>
        /\ mpc' = "idle" => mpc = "idle"
  <2>1. CASE Pool!WorkerSleep(w)
    BY <2>1 DEF Pool!WorkerSleep
  <2>2. CASE Pool!WorkerExit(w)
    BY <2>2 DEF Pool!WorkerExit, Pool!SignalClient
  <2>3. CASE Pool!WorkerFinish(w)
    BY <2>3 DEF Pool!WorkerFinish, Pool!SignalClient
  <2>4. CASE Pool!SpuriousWakeup(w)
    BY <2>4 DEF Pool!SpuriousWakeup
  <2>5. QED
    BY <2>1, <2>2, <2>3, <2>4 DEF WorkerLoop
<1>2. wpc \in [Workers -> {"lock", "work_cond", "run", "finish", "exit"}]
  BY PoolFacts DEF ScanInv
<1>3. UNCHANGED <<num_selects, next, remaining, arc_count, arc_freed, step>>
  BY DEF svars
<1>4. \A S : Live(S)' = Live(S)
  <2>1. \A v \in Workers : wpc'[v] = "run" <=> wpc[v] = "run"
    BY <1>1, <1>2
  <2>2. Range(queue') = Range(queue) /\ wtask' = wtask /\ step' = step
    BY <1>1, <1>3
  <2>3. QED
    BY <2>1, <2>2, SameLive
<1>5. Sent' /\ CountsExact' /\ ReportsStay
  BY <1>3, <1>4, Quiet DEF ScanInv
<1>6. ScanType'
  BY <1>3 DEF ScanInv, ScanType, Sels
<1>7. Fresh'
  BY <1>1, <1>2, <1>3 DEF ScanInv, Fresh
<1>8. Drained'
  BY <1>1, <1>2, <1>3 DEF ScanInv, Drained, StageOver, TaskCount
<1>9. QED
  BY <1>5, <1>6, <1>7, <1>8

(* A task goes from the list to a worker, and starts at "call". *)
LEMMA TakeKeeps ==
  ASSUME ScanInv, NEW w \in Workers, Pool!WorkerTake(w), UNCHANGED <<svars, next>>
  PROVE  ScanType' /\ Fresh' /\ Sent' /\ CountsExact' /\ Drained' /\ ReportsStay
<1>1. /\ wpc[w] = "lock" /\ queue # <<>>
      /\ wpc' = [wpc EXCEPT ![w] = "run"]
      /\ wtask' = [wtask EXCEPT ![w] = Head(queue)]
      /\ queue' = Tail(queue) /\ mpc' = mpc
  BY DEF Pool!WorkerTake
<1>2. /\ wpc \in [Workers -> {"lock", "work_cond", "run", "finish", "exit"}]
      /\ wtask \in [Workers -> ScanTasks \cup {NoTask}]
      /\ queue \in Seq(ScanTasks)
  BY PoolFacts DEF ScanInv
<1>3. UNCHANGED <<num_selects, next, remaining, arc_count, arc_freed, step>>
  BY DEF svars
<1>4. step[w] = "call"
  BY <1>1 DEF ScanInv, Fresh
<1>5. Range(queue) = Range(queue') \cup {Head(queue)}
  <2>1. Shared!Distinct(queue)
    BY DEF ScanInv, Shared!PoolInv, Shared!OneHolder
  <2>2. /\ Head(queue) \in Shared!Range(queue)
        /\ Shared!Range(Tail(queue)) = Shared!Range(queue) \ {Head(queue)}
    BY <1>1, <1>2, <2>1, Shared!TailFacts, PoolAssumed, WorkersAssumption
  <2>3. \A q : Shared!Range(q) = Range(q)
    BY DEF Shared!Range, Range
  <2>4. QED
    BY <1>1, <2>2, <2>3
<1>6. ASSUME NEW S, "call" \in S PROVE Live(S)' = Live(S)
  <2>1. \A v \in Workers : v # w =>
          /\ wpc'[v] = wpc[v] /\ wtask'[v] = wtask[v] /\ step'[v] = step[v]
    BY <1>1, <1>2, <1>3
  <2>2. wpc'[w] = "run" /\ wtask'[w] = Head(queue) /\ step'[w] = "call" /\ wpc[w] # "run"
    BY <1>1, <1>2, <1>3, <1>4
  <2>3. InHand(S)' = InHand(S) \cup {Head(queue)}
    BY <1>6, <2>1, <2>2 DEF InHand
  <2>4. QED
    BY <1>5, <2>3 DEF Live
<1>7. /\ Live(Reporting)' = Live(Reporting) /\ Live(Referring)' = Live(Referring)
      /\ Live(Step)' = Live(Step)
  BY <1>6 DEF Reporting, Referring, Step
<1>8. \A t : Index(t)' = Index(t)
  BY <1>3 DEF Index
<1>9. Wanted' = Wanted /\ \A j : Unreported(j)' = Unreported(j)
  BY <1>3, <1>7, <1>8 DEF Wanted, Unreported
<1>10. Using' = Using
  BY <1>3, <1>7, <1>8, <1>9 DEF Using
<1>11. Sent' /\ CountsExact'
  BY <1>3, <1>7, <1>8, <1>9, <1>10
     DEF ScanInv, Sent, CountsExact, ReportsExact, RefsExact, FreedExact
<1>12. ScanType'
  BY <1>3 DEF ScanInv, ScanType, Sels
<1>13. Fresh'
  BY <1>1, <1>2, <1>3 DEF ScanInv, Fresh
<1>14. Drained'
  BY <1>1, <1>3 DEF ScanInv, Drained, StageOver, TaskCount
<1>15. QED
  BY <1>9, <1>11, <1>12, <1>13, <1>14 DEF ReportsStay

(* The server's calls that submit nothing. *)
LEMMA CallKeeps ==
  ASSUME ScanInv,
         \/ StageWait \/ WaitSleep \/ WaitReturn \/ Disconnect
         \/ Pool!ClientSpuriousWakeup /\ UNCHANGED <<svars, next>>
  PROVE  ScanType' /\ Fresh' /\ CountsExact' /\ Sent' /\ Drained' /\ ReportsStay
<1> DEFINE Over == queue = <<>> /\ \A w \in Workers : wpc[w] \notin {"run", "finish"}
<1>1. /\ \A w \in Workers : /\ wpc'[w] = "run" <=> wpc[w] = "run"
                            /\ wpc'[w] = "finish" <=> wpc[w] = "finish"
      /\ UNCHANGED <<queue, wtask, svars>>
      /\ mpc' = "idle" => Over
      /\ next' = next \/ StageWait
  <2>1. CASE StageWait
    BY <2>1 DEF StageWait, Pool!CallWait
  <2>2. CASE WaitSleep
    BY <2>2 DEF WaitSleep, Pool!WaitSleep
  <2>3. CASE WaitReturn
    <3>1. mpc' = "idle" => ~stop /\ queue = <<>> /\ working_cnt = 0
      BY <2>3, PoolFacts DEF WaitReturn, Pool!WaitReturn, Pool!MustWait, ScanInv,
                             Shared!PoolInv, Shared!TypeOK
    <3>2. mpc' = "idle" => Over
      BY <3>1, PoolFacts DEF ScanInv
    <3>3. QED
      BY <2>3, <3>2 DEF WaitReturn, Pool!WaitReturn
  <2>4. CASE Disconnect
    BY <2>4, PoolFacts DEF Disconnect, Pool!DeletePool, Pool!BroadcastWork, ScanInv
  <2>5. CASE Pool!ClientSpuriousWakeup /\ UNCHANGED <<svars, next>>
    BY <2>5 DEF Pool!ClientSpuriousWakeup
  <2>6. QED
    BY <2>1, <2>2, <2>3, <2>4, <2>5
<1>2. UNCHANGED <<num_selects, remaining, arc_count, arc_freed, step>>
  BY <1>1 DEF svars
<1>3. \A S : Live(S)' = Live(S)
  <2>1. Range(queue') = Range(queue) /\ wtask' = wtask /\ step' = step
    BY <1>1, <1>2
  <2>2. QED
    BY <1>1, <2>1, SameLive
<1>4. ScanType'
  BY <1>1, <1>2 DEF ScanInv, ScanType, Sels, StageWait
<1>5. Fresh'
  BY <1>1, <1>2 DEF ScanInv, Fresh
<1>6. Drained'
  BY <1>1, <1>2 DEF Drained, StageOver
<1>7. Sent' /\ CountsExact' /\ ReportsStay
  <2>1. CASE next' = next
    BY <1>2, <1>3, <2>1, Quiet DEF ScanInv
  <2>2. CASE StageWait
    <3>1. num_selects \in Sels /\ next \in Nat
      BY DEF ScanInv, ScanType
    <3>2. next = TaskCount + 1 /\ next' = TaskCount + 2 /\ TaskCount \in Nat
      BY <2>2, <3>1, Numbering DEF StageWait
    <3>3. /\ Live(Reporting)' = Live(Reporting) /\ Live(Referring)' = Live(Referring)
          /\ Live(Step)' = Live(Step)
      BY <1>3, Zenon
    <3>4. \A t : Index(t)' = Index(t)
      BY <1>2 DEF Index
    <3>5. Wanted' = Wanted /\ \A t \in Wanted : Index(t) \in 1 .. TaskCount
      BY <1>2, <3>1, Numbering DEF Wanted
    <3>6. \A t \in Wanted : ~(Index(t) >= next) /\ ~(Index(t) >= next')
      BY <3>2, <3>5
    <3>7. Using' = Using
      BY <3>3, <3>4, <3>5, <3>6 DEF Using
    <3>8. \A j \in 1 .. num_selects : Unreported(j)' = Unreported(j)
      <4>1. \A i \in Chunks, j \in 1 .. num_selects : <<i, j>> \in Wanted
        BY DEF Wanted
      <4>2. QED
        BY <3>3, <3>4, <3>6, <4>1 DEF Unreported
    <3>9. Sent'
      BY <3>2, <3>3, <3>4, <3>5 DEF ScanInv, Sent
    <3>10. CountsExact'
      BY <1>2, <3>2, <3>7, <3>8
         DEF ScanInv, CountsExact, ReportsExact, RefsExact, FreedExact
    <3>11. QED
      BY <3>8, <3>9, <3>10 DEF ReportsStay
  <2>3. QED
    BY <1>1, <2>1, <2>2
<1>8. QED
  BY <1>4, <1>5, <1>6, <1>7

(* What multiselect() expects before it submits anything: every task. *)
LEMMA PrepareKeeps ==
  ASSUME ScanInv, Prepare
  PROVE  ScanType' /\ Fresh' /\ Sent' /\ CountsExact' /\ Drained' /\ ReportsStay
         /\ \A j \in 1 .. num_selects : Unreported(j) = Chunks
<1>1. /\ next = 0 /\ next' = 1
      /\ remaining' = [j \in Sels |-> ChunkCount] /\ arc_count' = TaskCount
      /\ UNCHANGED <<queue, wpc, wtask, num_selects, arc_freed, step>>
  BY DEF Prepare, pvars
<1>2. num_selects \in Sels /\ step \in [Workers -> Step] /\ arc_freed = FALSE
  BY <1>1 DEF ScanInv, ScanType, CountsExact, FreedExact
<1>3. /\ TaskCount \in Nat \ {0} /\ ChunkCount \in Nat \ {0}
      /\ Cardinality(Chunks) = ChunkCount /\ Cardinality(Wanted) = TaskCount
      /\ \A t \in Wanted : Index(t) \in 1 .. TaskCount
  BY <1>2, Numbering, WantedFinite, SomeChunks
<1>4. Range(queue') = Range(queue) /\ wtask' = wtask /\ wpc' = wpc /\ step' = step
  BY <1>1
<1>5. \A S : Live(S)' = Live(S)
  BY <1>4, SameLive
<1>6. Live(Step)' = Live(Step)
  BY <1>5, Zenon
<1>7. Wanted' = Wanted /\ \A t : Index(t)' = Index(t)
  BY <1>1 DEF Wanted, Index
<1>8. \A t \in Wanted : Index(t)' >= next'
  BY <1>1, <1>3, <1>7
<1>9. Using' = Wanted
  BY <1>7, <1>8 DEF Using
<1>10. \A j \in 1 .. num_selects : Unreported(j)' = Chunks
  <2>1. \A i \in Chunks, j \in 1 .. num_selects : <<i, j>> \in Wanted
    BY DEF Wanted
  <2>2. QED
    BY <1>8, <2>1 DEF Unreported
<1>11. Sent'
  <2>1. \A t \in Live(Step) : t \in Wanted /\ Index(t) < 0
    BY <1>1 DEF ScanInv, Sent
  <2>2. Live(Step) = {}
    BY <1>3, <2>1
  <2>3. QED
    BY <1>6, <2>2 DEF Sent
<1>12. CountsExact'
  <2>1. \A j \in 1 .. num_selects : j \in Sels
    BY <1>2, ScanAssumption DEF Sels
  <2>2. QED
    BY <1>1, <1>2, <1>3, <1>9, <1>10, <2>1
       DEF CountsExact, ReportsExact, RefsExact, FreedExact
<1>13. ScanType'
  BY <1>1, <1>2, <1>3 DEF ScanType, Sels
<1>14. Fresh'
  BY <1>1 DEF ScanInv, Fresh
<1>15. Drained'
  <2>1. TaskCount' = TaskCount
    BY <1>1 DEF TaskCount
  <2>2. QED
    BY <1>1, <1>3, <2>1 DEF Drained, StageOver
<1>16. \A j \in 1 .. num_selects : Unreported(j) = Chunks
  <2>1. \A i \in Chunks, j \in 1 .. num_selects : <<i, j>> \in Wanted
    BY DEF Wanted
  <2>2. \A t \in Wanted : Index(t) >= next
    BY <1>1, <1>3
  <2>3. QED
    BY <2>1, <2>2 DEF Unreported
<1>17. ReportsStay
  BY <1>10, <1>16 DEF ReportsStay
<1>18. QED
  BY <1>11, <1>12, <1>13, <1>14, <1>15, <1>16, <1>17

(* Step 4: the next task leaves those to be submitted and is in the list. *)
LEMMA SubmitKeeps ==
  ASSUME ScanInv, SubmitNext
  PROVE  ScanType' /\ Fresh' /\ Sent' /\ CountsExact' /\ Drained' /\ ReportsStay
<1>1. /\ next \in 1 .. TaskCount /\ next' = next + 1
      /\ queue' = Append(queue, TaskAt(next))
      /\ UNCHANGED <<wtask, mpc, num_selects, remaining, arc_count, arc_freed, step>>
  BY DEF SubmitNext, Pool!AddTask, svars
<1>2. \A w \in Workers : wpc'[w] = "run" <=> wpc[w] = "run"
  BY PoolFacts DEF SubmitNext, Pool!AddTask, Pool!BroadcastWork, ScanInv
<1>3. num_selects \in Sels /\ step \in [Workers -> Step] /\ next \in Nat
  BY DEF ScanInv, ScanType
<1>4. /\ TaskCount \in Nat \ {0}
      /\ \A t \in Wanted : Index(t) \in 1 .. TaskCount /\ TaskAt(Index(t)) = t
      /\ TaskAt(next) \in Wanted /\ Index(TaskAt(next)) = next
      /\ TaskAt(next) \in ScanTasks
  BY <1>1, <1>3, Numbering, WantedFinite
<1>5. Range(queue') = Range(queue) \cup {TaskAt(next)}
  <2>1. queue \in Seq(ScanTasks)
    BY PoolFacts DEF ScanInv
  <2>2. Shared!Range(Append(queue, TaskAt(next))) = Shared!Range(queue) \cup {TaskAt(next)}
    BY <1>4, <2>1, Shared!AppendFacts, PoolAssumed, WorkersAssumption
  <2>3. \A q : Shared!Range(q) = Range(q)
    BY DEF Shared!Range, Range
  <2>4. QED
    BY <1>1, <2>2, <2>3
<1>6. \A S : Live(S)' = Live(S) \cup {TaskAt(next)}
  BY <1>1, <1>2, <1>5 DEF Live, InHand
<1>7. /\ Live(Reporting)' = Live(Reporting) \cup {TaskAt(next)}
      /\ Live(Referring)' = Live(Referring) \cup {TaskAt(next)}
      /\ Live(Step)' = Live(Step) \cup {TaskAt(next)}
  BY <1>6, Zenon
<1>8. Wanted' = Wanted /\ \A t : Index(t)' = Index(t)
  BY <1>1 DEF Wanted, Index
<1>9. \A t \in Wanted : Index(t)' >= next' \/ t = TaskAt(next) <=> Index(t) >= next
  BY <1>1, <1>3, <1>4, <1>8
<1>10. Using' = Using
  BY <1>7, <1>8, <1>9 DEF Using
<1>11. \A j \in 1 .. num_selects : Unreported(j)' = Unreported(j)
  <2>1. \A i \in Chunks, j \in 1 .. num_selects : <<i, j>> \in Wanted
    BY DEF Wanted
  <2>2. QED
    BY <1>7, <1>9, <2>1 DEF Unreported
<1>12. Sent'
  <2>1. \A t \in Wanted : Index(t) < next => Index(t)' < next'
    BY <1>1, <1>3, <1>4, <1>8
  <2>2. QED
    BY <1>1, <1>4, <1>7, <1>8, <2>1 DEF ScanInv, Sent
<1>13. CountsExact'
  BY <1>1, <1>10, <1>11 DEF ScanInv, CountsExact, ReportsExact, RefsExact, FreedExact
<1>14. ScanType'
  BY <1>1, <1>3 DEF ScanInv, ScanType, Sels
<1>15. Fresh'
  BY <1>1, <1>2 DEF ScanInv, Fresh
<1>16. Drained'
  <2>1. TaskCount' = TaskCount
    BY <1>1 DEF TaskCount
  <2>2. QED
    BY <1>1, <1>4, <2>1 DEF Drained, StageOver
<1>17. QED
  BY <1>11, <1>12, <1>13, <1>14, <1>15, <1>16 DEF ReportsStay

(* A worker inside func moves on: the hands lose its task at step S only   *)
(* when the step it goes to is not in S.                                   *)
LEMMA Moved ==
  ASSUME ScanInv, NEW w \in Workers, NEW s \in Step, NEW S,
         wpc[w] = "run", step[w] \in S,
         step' = [step EXCEPT ![w] = s], UNCHANGED pvars
  PROVE  Live(S)' = IF s \in S THEN Live(S) ELSE Live(S) \ {wtask[w]}
<1>1. /\ step \in [Workers -> Step]
      /\ UNCHANGED <<queue, wpc, wtask>>
      /\ wtask[w] \notin Range(queue)
      /\ \A v \in Workers : wpc[v] = "run" /\ wtask[v] = wtask[w] => v = w
  BY PoolFacts DEF ScanInv, ScanType, pvars
<1>2. \A v \in Workers : step'[v] = IF v = w THEN s ELSE step[v]
  BY <1>1
<1>3. CASE s \in S
  <2>1. InHand(S)' = InHand(S)
    BY <1>1, <1>2, <1>3 DEF InHand
  <2>2. QED
    BY <1>1, <1>3, <2>1 DEF Live
<1>4. CASE s \notin S
  <2>1. InHand(S)' = InHand(S) \ {wtask[w]}
    BY <1>1, <1>2, <1>4 DEF InHand
  <2>2. QED
    BY <1>1, <1>4, <2>1 DEF Live
<1>5. QED
  BY <1>3, <1>4

(* What does not concern the counters, for any step inside func. *)
LEMMA InsideFunc ==
  ASSUME ScanInv, NEW w \in Workers, NEW s \in Step, wpc[w] = "run",
         step' = [step EXCEPT ![w] = s], UNCHANGED <<pvars, num_selects, next>>
  PROVE  /\ Fresh' /\ Sent' /\ Drained' /\ step' \in [Workers -> Step]
         /\ wtask[w] \in Wanted /\ Index(wtask[w]) < next /\ next > 0
         /\ Wanted' = Wanted /\ \A t : Index(t)' = Index(t)
<1>1. step \in [Workers -> Step] /\ num_selects \in Sels /\ next \in Nat
  BY DEF ScanInv, ScanType
<1>2. step[w] \in Step /\ wtask[w] \in Live(Step)
  BY <1>1 DEF Live, InHand
<1>3. wtask[w] \in Wanted /\ Index(wtask[w]) < next
  BY <1>2 DEF ScanInv, Sent
<1>4. next > 0
  BY <1>1, <1>3, Numbering
<1>5. Live(Step)' = Live(Step)
  BY <1>2, Moved DEF pvars
<1>6. Wanted' = Wanted /\ \A t : Index(t)' = Index(t)
  BY DEF Wanted, Index
<1>7. Sent'
  BY <1>5, <1>6 DEF ScanInv, Sent
<1>8. Fresh'
  BY <1>1 DEF ScanInv, Fresh, pvars
<1>9. Drained'
  BY DEF ScanInv, Drained, StageOver, TaskCount, pvars
<1>10. QED
  BY <1>1, <1>3, <1>4, <1>6, <1>7, <1>8, <1>9

(* Its private scan changes no count. *)
LEMMA ScanKeeps ==
  ASSUME ScanInv, NEW w \in Workers, ScanChunk(w)
  PROVE  ScanType' /\ Fresh' /\ Sent' /\ CountsExact' /\ Drained' /\ ReportsStay
<1>1. /\ wpc[w] = "run" /\ step[w] = "call"
      /\ step' = [step EXCEPT ![w] = "merge"]
      /\ UNCHANGED <<pvars, num_selects, remaining, arc_count, arc_freed, next>>
  BY DEF ScanChunk, Running, Goto
<1>2. Fresh' /\ Sent' /\ Drained' /\ step' \in [Workers -> Step] /\ Wanted' = Wanted
      /\ \A t : Index(t)' = Index(t)
  BY <1>1, InsideFunc DEF Step
<1>3. Live(Reporting)' = Live(Reporting) /\ Live(Referring)' = Live(Referring)
  BY <1>1, Moved, ZenonT(60) DEF Step, Reporting, Referring
<1>4. Using' = Using /\ \A j : Unreported(j)' = Unreported(j)
  BY <1>1, <1>2, <1>3 DEF Using, Unreported
<1>5. CountsExact'
  BY <1>1, <1>4 DEF ScanInv, CountsExact, ReportsExact, RefsExact, FreedExact
<1>6. ScanType'
  BY <1>1, <1>2 DEF ScanInv, ScanType, Sels
<1>7. QED
  BY <1>2, <1>4, <1>5, <1>6 DEF ReportsStay

(* A report, after a merge or after a scan under the lock. *)
LEMMA ReportKeeps ==
  ASSUME ScanInv, NEW w \in Workers, MergeChunk(w) \/ ScanLocked(w)
  PROVE  ScanType' /\ Fresh' /\ Sent' /\ CountsExact' /\ Drained'
         /\ wtask[w] \in Wanted
         /\ \A j \in 1 .. num_selects :
              Unreported(j)' = IF j = wtask[w][2] THEN Unreported(j) \ {wtask[w][1]}
                                                  ELSE Unreported(j)
<1>1. /\ wpc[w] = "run" /\ step[w] \in {"call", "merge"}
      /\ step' = [step EXCEPT ![w] = "arc"]
      /\ remaining' = [remaining EXCEPT ![wtask[w][2]] = remaining[wtask[w][2]] - 1]
      /\ UNCHANGED <<pvars, num_selects, arc_count, arc_freed, next>>
  BY DEF MergeChunk, ScanLocked, Running, Goto
<1>2. /\ Fresh' /\ Sent' /\ Drained' /\ step' \in [Workers -> Step] /\ Wanted' = Wanted
      /\ \A t : Index(t)' = Index(t)
      /\ wtask[w] \in Wanted /\ Index(wtask[w]) < next /\ next > 0
  BY <1>1, InsideFunc DEF Step
<1>3. /\ num_selects \in Sels /\ next \in Nat /\ remaining \in [Sels -> Nat]
      /\ arc_count \in Nat /\ arc_freed \in BOOLEAN
  BY DEF ScanInv, ScanType
<1>4. /\ Live(Reporting)' = Live(Reporting) \ {wtask[w]}
      /\ Live(Referring)' = Live(Referring)
  BY <1>1, Moved, ZenonT(60) DEF Step, Reporting, Referring
<1>5. wtask[w] \in Live(Reporting)
  BY <1>1 DEF Live, InHand, Reporting
<1>6. PICK c \in Chunks, k \in 1 .. num_selects : wtask[w] = <<c, k>>
  BY <1>2 DEF Wanted
<1>7. k \in Sels /\ remaining' = [remaining EXCEPT ![k] = remaining[k] - 1]
  BY <1>1, <1>3, <1>6, ScanAssumption DEF Sels
<1>8. Using' = Using
  BY <1>1, <1>2, <1>4 DEF Using
<1>9. \A j \in 1 .. num_selects :
        Unreported(j)' = IF j = k THEN Unreported(j) \ {c} ELSE Unreported(j)
  <2>1. ASSUME NEW j \in 1 .. num_selects, NEW i \in Chunks
        PROVE  /\ Index(<<i, j>>)' >= next' <=> Index(<<i, j>>) >= next
               /\ <<i, j>> \in Live(Reporting)' <=>
                    <<i, j>> \in Live(Reporting) /\ ~(i = c /\ j = k)
    BY <1>1, <1>2, <1>4, <1>6
  <2>2. ~(Index(<<c, k>>) >= next)
    <3>1. Index(<<c, k>>) \in Nat
      BY <1>2, <1>3, <1>6, Numbering
    <3>2. QED
      BY <1>2, <1>3, <1>6, <3>1
  <2>3. QED
    BY <2>1, <2>2 DEF Unreported
<1>10. c \in Unreported(k) /\ IsFiniteSet(Unreported(k))
  BY <1>3, <1>5, <1>6, WantedFinite, FS_Subset DEF Unreported
<1>11. /\ Cardinality(Unreported(k) \ {c}) = Cardinality(Unreported(k)) - 1
       /\ Cardinality(Unreported(k)) \in Nat \ {0}
  BY <1>10, FS_RemoveElement, FS_CardinalityType, FS_EmptySet
<1>12. \A j \in 1 .. num_selects : j \in Sels /\ remaining[j] = Cardinality(Unreported(j))
  BY <1>2, <1>3, ScanAssumption DEF ScanInv, CountsExact, ReportsExact, Sels
<1>13. remaining' \in [Sels -> Nat]
  BY <1>3, <1>7, <1>11, <1>12
<1>14. \A j \in 1 .. num_selects : remaining'[j] = Cardinality(Unreported(j)')
  BY <1>3, <1>7, <1>9, <1>11, <1>12
<1>15. CountsExact'
  BY <1>1, <1>8, <1>14 DEF ScanInv, CountsExact, ReportsExact, RefsExact, FreedExact
<1>16. ScanType'
  BY <1>1, <1>2, <1>3, <1>13 DEF ScanType, Sels
<1>17. wtask[w][1] = c /\ wtask[w][2] = k
  BY <1>6
<1>18. QED
  BY <1>2, <1>9, <1>15, <1>16, <1>17

(* free_arc gives up one reference, and frees at the last. *)
LEMMA FreeKeeps ==
  ASSUME ScanInv, NEW w \in Workers, FreeArc(w)
  PROVE  ScanType' /\ Fresh' /\ Sent' /\ CountsExact' /\ Drained' /\ ReportsStay
<1>1. /\ wpc[w] = "run" /\ step[w] = "arc"
      /\ step' = [step EXCEPT ![w] = "ret"]
      /\ arc_count' = arc_count - 1
      /\ arc_freed' = (arc_freed \/ arc_count' = 0)
      /\ UNCHANGED <<pvars, num_selects, remaining, next>>
  BY DEF FreeArc, Running, Goto
<1>2. /\ Fresh' /\ Sent' /\ Drained' /\ step' \in [Workers -> Step] /\ Wanted' = Wanted
      /\ \A t : Index(t)' = Index(t)
      /\ wtask[w] \in Wanted /\ Index(wtask[w]) < next /\ next > 0
  BY <1>1, InsideFunc DEF Step
<1>3. /\ num_selects \in Sels /\ next \in Nat /\ remaining \in [Sels -> Nat]
      /\ arc_count \in Nat /\ arc_freed \in BOOLEAN
  BY DEF ScanInv, ScanType
<1>4. Live(Referring)' = Live(Referring) \ {wtask[w]}
  BY <1>1, Moved DEF Step, Referring
<1>5. Live(Reporting)' = Live(Reporting)
  <2>1. \A v \in Workers :
          (wpc'[v] = "run" /\ step'[v] \in Reporting) <=>
          (wpc[v] = "run" /\ step[v] \in Reporting)
    BY <1>1 DEF ScanInv, ScanType, Reporting, pvars
  <2>2. Range(queue') = Range(queue) /\ wtask' = wtask
    BY <1>1 DEF pvars
  <2>3. QED
    BY <2>1, <2>2, SameLive
<1>6. \A j : Unreported(j)' = Unreported(j)
  BY <1>1, <1>2, <1>5 DEF Unreported
<1>7. wtask[w] \in Using /\ IsFiniteSet(Using)
  <2>1. wtask[w] \in Live(Referring)
    BY <1>1 DEF Live, InHand, Referring
  <2>2. QED
    BY <1>2, <1>3, <2>1, WantedFinite, FS_Subset DEF Using
<1>8. Using' = Using \ {wtask[w]}
  <2>1. ~(Index(wtask[w]) >= next)
    <3>1. Index(wtask[w]) \in Nat
      BY <1>2, <1>3, Numbering
    <3>2. QED
      BY <1>2, <1>3, <3>1
  <2>2. QED
    BY <1>1, <1>2, <1>4, <2>1 DEF Using
<1>9. /\ Cardinality(Using \ {wtask[w]}) = Cardinality(Using) - 1
      /\ Cardinality(Using) \in Nat \ {0}
  BY <1>7, FS_RemoveElement, FS_CardinalityType, FS_EmptySet
<1>10. arc_count = Cardinality(Using)
  BY <1>2 DEF ScanInv, CountsExact, RefsExact
<1>11. arc_count' \in Nat /\ arc_count' = Cardinality(Using') /\ arc_freed = FALSE
  BY <1>1, <1>3, <1>8, <1>9, <1>10 DEF ScanInv, CountsExact, FreedExact
<1>12. CountsExact'
  BY <1>1, <1>2, <1>6, <1>11
     DEF ScanInv, CountsExact, ReportsExact, RefsExact, FreedExact
<1>13. ScanType'
  BY <1>1, <1>2, <1>3, <1>11 DEF ScanType, Sels
<1>14. QED
  BY <1>2, <1>6, <1>12, <1>13 DEF ReportsStay

(* func returns: the task had nothing left to report or to give up. *)
LEMMA ReturnKeeps ==
  ASSUME ScanInv, NEW w \in Workers, TaskReturn(w)
  PROVE  ScanType' /\ Fresh' /\ Sent' /\ CountsExact' /\ Drained' /\ ReportsStay
<1>1. /\ wpc[w] = "run" /\ step[w] = "ret"
      /\ wpc' = [wpc EXCEPT ![w] = "finish"]
      /\ wtask' = [wtask EXCEPT ![w] = NoTask]
      /\ step' = [step EXCEPT ![w] = "call"]
      /\ UNCHANGED <<queue, mpc, num_selects, remaining, arc_count, arc_freed, next>>
  BY DEF TaskReturn, Pool!WorkerRun, Goto
<1>2. /\ wpc \in [Workers -> {"lock", "work_cond", "run", "finish", "exit"}]
      /\ wtask \in [Workers -> ScanTasks \cup {NoTask}]
      /\ step \in [Workers -> Step]
  BY PoolFacts DEF ScanInv, ScanType
<1>3. \A v \in Workers : v # w =>
        wpc'[v] = wpc[v] /\ wtask'[v] = wtask[v] /\ step'[v] = step[v]
  BY <1>1, <1>2
<1>4. wpc'[w] # "run"
  BY <1>1, <1>2
<1>5. ASSUME NEW S, "ret" \notin S PROVE Live(S)' = Live(S)
  <2>1. InHand(S)' = InHand(S)
    BY <1>1, <1>3, <1>4, <1>5 DEF InHand
  <2>2. QED
    BY <1>1, <2>1 DEF Live
<1>6. Live(Reporting)' = Live(Reporting) /\ Live(Referring)' = Live(Referring)
  BY <1>5 DEF Reporting, Referring
<1>7. Live(Step)' \subseteq Live(Step)
  BY <1>1, <1>3, <1>4 DEF Live, InHand
<1>8. Wanted' = Wanted /\ \A t : Index(t)' = Index(t)
  BY <1>1 DEF Wanted, Index
<1>9. Using' = Using /\ \A j : Unreported(j)' = Unreported(j)
  BY <1>1, <1>6, <1>8 DEF Using, Unreported
<1>10. Sent' /\ CountsExact'
  BY <1>1, <1>7, <1>8, <1>9
     DEF ScanInv, Sent, CountsExact, ReportsExact, RefsExact, FreedExact
<1>11. ScanType'
  BY <1>1, <1>2 DEF ScanInv, ScanType, Sels, Step
<1>12. Fresh'
  BY <1>1, <1>2, <1>3 DEF ScanInv, Fresh
<1>13. Drained'
  BY <1>1 DEF ScanInv, Drained, StageOver, TaskCount
<1>14. QED
  BY <1>9, <1>10, <1>11, <1>12, <1>13 DEF ReportsStay

-----------------------------------------------------------------------------
LEMMA InitScanInv == Init => ScanInv
<1> SUFFICES ASSUME Init PROVE ScanInv
  OBVIOUS
<1>1. /\ queue = <<>> /\ wpc = [w \in Workers |-> "lock"]
      /\ step = [w \in Workers |-> "call"] /\ next = 0
      /\ remaining = [j \in Sels |-> 0] /\ arc_count = 0 /\ arc_freed = FALSE
      /\ num_selects \in Sels
  BY DEF Init, Pool!Init
<1>2. Live(Step) = {}
  BY <1>1 DEF Live, InHand, Range
<1>3. TaskCount \in Nat
  BY <1>1, Numbering
<1>4. ScanType /\ Fresh
  BY <1>1 DEF ScanType, Fresh, Step
<1>5. Sent /\ CountsExact
  BY <1>1, <1>2 DEF Sent, CountsExact, ReportsExact, RefsExact, FreedExact
<1>6. Drained
  BY <1>1, <1>3 DEF Drained, StageOver
<1>7. QED
  BY <1>4, <1>5, <1>6, PoolStarts DEF ScanInv

LEMMA NextScanInv == ScanInv /\ [Next]_vars => ScanInv'
<1> SUFFICES ASSUME ScanInv, [Next]_vars PROVE ScanInv'
  OBVIOUS
<1>1. Shared!PoolInv'
  BY PoolKept DEF ScanInv, ScanType
<1> DEFINE Rest == ScanType /\ Fresh /\ Sent /\ CountsExact /\ Drained
<1> SUFFICES Rest'
  BY <1>1 DEF ScanInv
<1>2. ASSUME NEW w \in Workers, Worker(w) PROVE Rest'
  <2>1. CASE ScanChunk(w)
    BY <2>1, ScanKeeps
  <2>2. CASE MergeChunk(w) \/ ScanLocked(w)
    BY <2>2, ReportKeeps
  <2>3. CASE FreeArc(w)
    BY <2>3, FreeKeeps
  <2>4. CASE TaskReturn(w)
    BY <2>4, ReturnKeeps
  <2>5. CASE WorkerLoop(w)
    <3>1. UNCHANGED <<svars, next>>
      BY <2>5 DEF WorkerLoop
    <3>2. CASE Pool!WorkerTake(w)
      BY <3>1, <3>2, TakeKeeps
    <3>3. CASE ~Pool!WorkerTake(w)
      BY <2>5, <3>1, <3>3, LoopKeeps
    <3>4. QED
      BY <3>2, <3>3
  <2>6. QED
    BY <1>2, <2>1, <2>2, <2>3, <2>4, <2>5 DEF Worker
<1>3. CASE Prepare
  BY <1>3, PrepareKeeps
<1>4. CASE SubmitNext
  BY <1>4, SubmitKeeps
<1>5. CASE StageWait \/ WaitSleep \/ WaitReturn \/ Disconnect
  BY <1>5, CallKeeps
<1>6. CASE Spurious
  <2>1. CASE Pool!ClientSpuriousWakeup
    BY <1>6, <2>1, CallKeeps DEF Spurious
  <2>2. ASSUME NEW w \in Workers, Pool!SpuriousWakeup(w) PROVE Rest'
    <3>1. UNCHANGED <<svars, next>> /\ ~Pool!WorkerTake(w)
      BY <1>6, <2>2 DEF Spurious, Pool!SpuriousWakeup, Pool!WorkerTake
    <3>2. QED
      BY <2>2, <3>1, LoopKeeps
  <2>3. QED
    BY <1>6, <2>1, <2>2 DEF Spurious
<1>7. CASE Halted \/ UNCHANGED vars
  <2>1. UNCHANGED <<pvars, svars, next>>
    BY <1>7 DEF Halted, Pool!Halted, Pool!pvars, pvars, vars
  <2>2. UNCHANGED <<queue, wpc, wtask, mpc, num_selects, remaining, arc_count, arc_freed,
                    step, next>>
    BY <2>1 DEF pvars, svars
  <2>3. \A S : Live(S)' = Live(S)
    BY <2>2 DEF Live, InHand
  <2>4. Sent' /\ CountsExact'
    BY <2>2, <2>3, Quiet DEF ScanInv
  <2>5. QED
    BY <2>2, <2>4 DEF ScanInv, ScanType, Sels, Fresh, Drained, StageOver, TaskCount
<1>8. QED
  BY <1>1, <1>2, <1>3, <1>4, <1>5, <1>6, <1>7 DEF Next, Server, ScanInv

LEMMA ScanInvariant == Spec => []ScanInv
  BY InitScanInv, NextScanInv, PTL DEF Spec

(***************************************************************************)
(* No task uses the chunks, the results or a selection's lock after the    *)
(* last task has freed or destroyed them: whatever the size of the column, *)
(* however it is cut, for any number of selections and workers.            *)
(***************************************************************************)
THEOREM SharedStaysAlive == Spec => []SharedAlive
<1>1. ScanInv => SharedAlive
  BY InvImplies
<1>2. QED
  BY <1>1, ScanInvariant, PTL

(* And they are freed once the stage is over. *)
THEOREM StageFreesShared == Spec => []NothingLeaks
<1>1. ScanInv => NothingLeaks
  BY InvImplies
<1>2. QED
  BY <1>1, ScanInvariant, PTL

(***************************************************************************)
(* The pool under the scan keeps what ThreadPoolProofs shows of a pool on  *)
(* its own: the scan only ever calls it as its client may.                 *)
(***************************************************************************)
THEOREM ScanUsesPool == Spec => [][Shared!Next]_pvars /\ []Shared!PoolInv
<1>1. ScanInv => Shared!PoolInv /\ num_selects \in Sels
  BY DEF ScanInv, ScanType
<1>2. ScanInv /\ [Next]_vars => [Shared!Next]_pvars
  BY <1>1, PoolSteps
<1>3. QED
  BY <1>1, <1>2, ScanInvariant, PTL DEF Spec

-----------------------------------------------------------------------------
(***************************************************************************)
(* Positions in column order.  What a recursion gives for every length is  *)
(* shown for a least length for which it would not.                        *)
(***************************************************************************)
Ascending(s) == \A a, b \in DOMAIN s : a < b => s[a] < s[b]

LEMMA LeastOne ==
  ASSUME NEW A, A \subseteq Nat, A # {}
  PROVE  \E n \in A : \A k \in A : n <= k
<1>1. PICK R : R = OpToRel(<, Nat)
  OBVIOUS
<1>2. IsWellFoundedOn(R, Nat)
  BY <1>1, NatLessThanWellFounded
<1>3. PICK n \in A : \A k \in A : ~ (<<k, n>> \in R)
  BY <1>2, WFMin
<1>4. ASSUME NEW k \in A PROVE n <= k
  <2>1. k \in Nat /\ n \in Nat
    OBVIOUS
  <2>2. ~ (k < n)
    BY <1>1, <1>3, <2>1 DEF OpToRel
  <2>3. QED
    BY <2>1, <2>2
<1>5. QED
  BY <1>4

LEMMA AscendingOnce ==
  ASSUME NEW s \in Seq(Rows), Ascending(s)
  PROVE  IsInjective(s)
<1>1. ASSUME NEW a \in DOMAIN s, NEW b \in DOMAIN s, s[a] = s[b], a # b PROVE FALSE
  <2>1. a \in Nat /\ b \in Nat
    BY LenProperties
  <2>2. s[a] \in Nat /\ s[b] \in Nat
    BY ElementOfSeq, LenProperties, ScanAssumption DEF Rows
  <2>3. a < b \/ b < a
    BY <1>1, <2>1
  <2>4. QED
    BY <1>1, <2>2, <2>3 DEF Ascending
<1>2. QED
  BY <1>1 DEF IsInjective

(* The rows of a set in order: each at the place of its rank. *)
LEMMA Ordered ==
  ASSUME NEW S \in SUBSET Rows
  PROVE  InOrder(S) \in Seq(Rows) /\ Ascending(InOrder(S)) /\ ToSet(InOrder(S)) = S
<1> DEFINE UpTo(r) == {q \in S : q <= r}
           rank == [r \in S |-> Cardinality(UpTo(r))]
<1>1. S \subseteq Nat /\ IsFiniteSet(S)
  <2>1. Size \in Nat
    BY ScanAssumption
  <2>2. IsFiniteSet(0 .. Size - 1) /\ 0 .. Size - 1 \subseteq Nat
    BY <2>1, FS_Interval
  <2>3. QED
    BY <2>2, FS_Subset DEF Rows
<1>2. PICK n \in Nat : n = Cardinality(S)
  BY <1>1, FS_CardinalityType
<1>3. \A r \in S : /\ IsFiniteSet(UpTo(r)) /\ UpTo(r) \subseteq S /\ r \in UpTo(r)
                   /\ Cardinality(UpTo(r)) \in 1 .. n
  <2>1. ASSUME NEW r \in S
        PROVE  /\ IsFiniteSet(UpTo(r)) /\ UpTo(r) \subseteq S /\ r \in UpTo(r)
               /\ Cardinality(UpTo(r)) \in 1 .. n
    <3>1. UpTo(r) \subseteq S /\ r \in UpTo(r)
      BY <1>1
    <3>2. IsFiniteSet(UpTo(r)) /\ Cardinality(UpTo(r)) <= Cardinality(S)
      BY <1>1, <3>1, FS_Subset
    <3>3. Cardinality(UpTo(r)) \in Nat /\ Cardinality(UpTo(r)) # 0
      <4> HIDE DEF UpTo
      <4>1. QED
        BY <3>1, <3>2, FS_CardinalityType, FS_EmptySet
    <3>4. QED
      BY <1>2, <3>1, <3>2, <3>3
  <2>2. QED
    BY <2>1
<1>4. \A q, r \in S : q < r => Cardinality(UpTo(q)) < Cardinality(UpTo(r))
  <2>1. ASSUME NEW q \in S, NEW r \in S, q < r
        PROVE  Cardinality(UpTo(q)) < Cardinality(UpTo(r))
    <3>1. q \in Nat /\ r \in Nat
      BY <1>1
    <3>2. UpTo(q) \subseteq UpTo(r) /\ r \notin UpTo(q)
      <4>1. \A p \in S : p \in Nat
        BY <1>1
      <4>2. \A p \in S : p <= q => p <= r
        BY <2>1, <3>1, <4>1
      <4>3. ~ (r <= q)
        BY <2>1, <3>1
      <4>4. QED
        BY <4>2, <4>3
    <3>3. r \in UpTo(r)
      BY <1>3
    <3>4. UpTo(q) # UpTo(r)
      BY <3>2, <3>3
    <3>5. IsFiniteSet(UpTo(r)) /\ Cardinality(UpTo(r)) \in Nat /\ Cardinality(UpTo(q)) \in Nat
      BY <1>3
    <3> HIDE DEF UpTo
    <3>6. /\ Cardinality(UpTo(q)) <= Cardinality(UpTo(r))
          /\ Cardinality(UpTo(q)) # Cardinality(UpTo(r))
      BY <3>2, <3>4, <3>5, FS_Subset
    <3>7. QED
      BY <3>5, <3>6
  <2>2. QED
    BY <2>1
<1>5. \A q, r \in S : rank[q] < rank[r] <=> q < r
  <2>1. ASSUME NEW q \in S, NEW r \in S PROVE rank[q] < rank[r] <=> q < r
    <3>1. q \in Nat /\ r \in Nat /\ rank[q] \in Nat /\ rank[r] \in Nat
      BY <1>1, <1>3
    <3>2. rank[q] = Cardinality(UpTo(q)) /\ rank[r] = Cardinality(UpTo(r))
      OBVIOUS
    <3>3. q < r => rank[q] < rank[r]
      BY <1>4, <3>2
    <3>4. r < q => rank[r] < rank[q]
      BY <1>4, <3>2
    <3> HIDE DEF rank
    <3>5. QED
      BY <3>1, <3>3, <3>4
  <2>2. QED
    BY <2>1
<1>6. \A k \in 1 .. n : \E r \in S : rank[r] = k
  <2>1. rank \in [S -> 1 .. n]
    BY <1>3
  <2>2. \A q, r \in S : rank[q] = rank[r] => q = r
    <3>1. ASSUME NEW q \in S, NEW r \in S, rank[q] = rank[r] PROVE q = r
      <4> HIDE DEF rank
      <4>1. q \in Nat /\ r \in Nat /\ rank[q] \in Nat /\ rank[r] \in Nat
        BY <1>1, <2>1
      <4>2. ~ (q < r) /\ ~ (r < q)
        BY <1>5, <3>1, <4>1
      <4>3. QED
        BY <4>1, <4>2
    <3>2. QED
      BY <3>1
  <2> HIDE DEF rank
  <2>3. rank \in Injection(S, 1 .. n)
    BY <2>1, <2>2 DEF Injection, IsInjective
  <2>4. IsFiniteSet(1 .. n) /\ Cardinality(1 .. n) = n
    BY FS_Interval
  <2>5. rank \in Surjection(S, 1 .. n)
    BY <1>2, <2>3, <2>4, FS_Injection
  <2>6. QED
    BY <2>5 DEF Surjection
<1>7. PICK s : s = InOrder(S)
  OBVIOUS
<1>8. /\ DOMAIN s = 1 .. n
      /\ \A k \in 1 .. n : s[k] = CHOOSE r \in S : rank[r] = k
  BY <1>2, <1>7 DEF InOrder
<1>9. \A k \in 1 .. n : s[k] \in S /\ rank[s[k]] = k
  BY <1>6, <1>8
<1>10. s \in Seq(Rows)
  <2>1. s = [k \in 1 .. n |-> s[k]]
    BY <1>7, <1>8 DEF InOrder
  <2>2. s \in [1 .. n -> Rows]
    BY <1>9, <2>1
  <2>3. QED
    BY <2>2, SeqDef
<1>11. Ascending(s)
  <2> HIDE DEF rank
  <2>1. ASSUME NEW a \in 1 .. n, NEW b \in 1 .. n, a < b PROVE s[a] < s[b]
    <3>1. s[a] \in S /\ s[b] \in S /\ rank[s[a]] = a /\ rank[s[b]] = b
      BY <1>9
    <3>2. QED
      BY <1>5, <2>1, <3>1
  <2>2. QED
    BY <1>8, <2>1 DEF Ascending
<1>12. ToSet(s) = S
  <2>1. \A r \in S : rank[r] \in 1 .. n /\ s[rank[r]] = r
    <3>1. ASSUME NEW r \in S PROVE rank[r] \in 1 .. n /\ s[rank[r]] = r
      <4>1. PICK k \in 1 .. n : k = rank[r]
        BY <1>3
      <4>2. s[k] \in S /\ rank[s[k]] = k
        BY <1>9
      <4>3. ~ (s[k] < r) /\ ~ (r < s[k])
        <5> HIDE DEF rank
        <5>1. QED
          BY <1>5, <4>1, <4>2
      <4>4. s[k] \in Nat /\ r \in Nat
        BY <1>1, <4>2
      <4>5. s[k] = r
        BY <4>3, <4>4
      <4>6. QED
        BY <4>1, <4>5
    <3>2. QED
      BY <3>1
  <2> HIDE DEF rank
  <2>2. \A r \in S : \E k \in DOMAIN s : s[k] = r
    BY <1>8, <2>1
  <2>3. \A k \in DOMAIN s : s[k] \in S
    BY <1>8, <1>9
  <2>4. QED
    BY <2>2, <2>3 DEF ToSet
<1>13. QED
  BY <1>7, <1>10, <1>11, <1>12

-----------------------------------------------------------------------------
(* Where the elements of a concatenation come from. *)
LEMMA Places ==
  ASSUME NEW s \in Seq(Rows), NEW t \in Seq(Rows)
  PROVE  /\ s \o t \in Seq(Rows) /\ ToSet(s \o t) = ToSet(s) \cup ToSet(t)
         /\ \A i \in DOMAIN s : (s \o t)[i] = s[i]
         /\ \A i \in DOMAIN (s \o t) :
              i \in DOMAIN s \/ \E k \in DOMAIN t : i = Len(s) + k /\ (s \o t)[i] = t[k]
         /\ DOMAIN s = 1 .. Len(s) /\ Len(s) \in Nat /\ DOMAIN t \subseteq Nat \ {0}
         /\ DOMAIN (s \o t) \subseteq Nat \ {0}
<1>1. /\ s \o t \in Seq(Rows) /\ Len(s) \in Nat /\ Len(t) \in Nat
      /\ DOMAIN s = 1 .. Len(s) /\ DOMAIN t = 1 .. Len(t)
      /\ DOMAIN (s \o t) = 1 .. Len(s) + Len(t)
  BY LenProperties, ConcatProperties
<1>2. \A i \in 1 .. Len(s) + Len(t) :
        (s \o t)[i] = IF i <= Len(s) THEN s[i] ELSE t[i - Len(s)]
  BY ConcatProperties
<1>3. PICK u : u = s \o t
  OBVIOUS
<1>4. /\ \A i \in 1 .. Len(s) : i \in DOMAIN u /\ u[i] = s[i]
      /\ \A i \in 1 .. Len(t) : Len(s) + i \in DOMAIN u /\ u[Len(s) + i] = t[i]
  BY <1>1, <1>2, <1>3
<1>5. \A i \in DOMAIN u : \/ i \in 1 .. Len(s)
                          \/ \E k \in 1 .. Len(t) : i = Len(s) + k
  <2>1. ASSUME NEW i \in DOMAIN u, i \notin 1 .. Len(s)
        PROVE  i - Len(s) \in 1 .. Len(t) /\ i = Len(s) + (i - Len(s))
    BY <1>1, <1>3, <2>1
  <2>2. QED
    BY <2>1
<1>6. ToSet(u) = ToSet(s) \cup ToSet(t)
  <2>1. \A x \in ToSet(u) : x \in ToSet(s) \cup ToSet(t)
    BY <1>1, <1>4, <1>5 DEF ToSet
  <2>2. \A x \in ToSet(s) : x \in ToSet(u)
    BY <1>1, <1>4 DEF ToSet
  <2>3. \A x \in ToSet(t) : x \in ToSet(u)
    BY <1>1, <1>4 DEF ToSet
  <2>4. QED
    BY <2>1, <2>2, <2>3
<1>7. DOMAIN t \subseteq Nat \ {0} /\ DOMAIN u \subseteq Nat \ {0}
  BY <1>1, <1>3
<1>8. \A i \in DOMAIN s : u[i] = s[i]
  BY <1>1, <1>4
<1>9. \A i \in DOMAIN u :
        i \in DOMAIN s \/ \E k \in DOMAIN t : i = Len(s) + k /\ u[i] = t[k]
  BY <1>1, <1>4, <1>5
<1>10. QED
  BY <1>1, <1>3, <1>6, <1>7, <1>8, <1>9

LEMMA Joined ==
  ASSUME NEW s \in Seq(Rows), NEW t \in Seq(Rows), Ascending(s), Ascending(t),
         \A x \in ToSet(s), y \in ToSet(t) : x < y
  PROVE  /\ s \o t \in Seq(Rows) /\ Ascending(s \o t)
         /\ ToSet(s \o t) = ToSet(s) \cup ToSet(t)
<1>1. PICK u : u = s \o t
  OBVIOUS
<1>2. /\ \A i \in DOMAIN s : u[i] = s[i]
      /\ \A i \in DOMAIN u :
           i \in DOMAIN s \/ \E k \in DOMAIN t : i = Len(s) + k /\ u[i] = t[k]
      /\ DOMAIN s = 1 .. Len(s) /\ Len(s) \in Nat /\ DOMAIN t \subseteq Nat \ {0}
      /\ DOMAIN u \subseteq Nat \ {0}
  BY <1>1, Places
<1>3. Ascending(u)
  <2> SUFFICES ASSUME NEW a \in DOMAIN u, NEW b \in DOMAIN u, a < b PROVE u[a] < u[b]
    BY DEF Ascending
  <2>1. CASE a \in DOMAIN s /\ b \in DOMAIN s
    BY <1>2, <2>1 DEF Ascending
  <2>2. CASE a \in DOMAIN s /\ b \notin DOMAIN s
    <3>1. PICK k \in DOMAIN t : u[b] = t[k]
      BY <1>2, <2>2
    <3>2. u[a] = s[a] /\ s[a] \in ToSet(s) /\ t[k] \in ToSet(t)
      BY <1>2, <2>2 DEF ToSet
    <3>3. QED
      BY <3>1, <3>2
  <2>3. CASE a \notin DOMAIN s
    <3>1. PICK k \in DOMAIN t : a = Len(s) + k /\ u[a] = t[k]
      BY <1>2, <2>3
    <3>2. b \notin DOMAIN s
      BY <1>2, <3>1
    <3>3. PICK l \in DOMAIN t : b = Len(s) + l /\ u[b] = t[l]
      BY <1>2, <3>2
    <3>4. k < l
      BY <1>2, <3>1, <3>3
    <3>5. QED
      BY <3>1, <3>3, <3>4 DEF Ascending
  <2>4. QED
    BY <2>1, <2>2, <2>3
<1>4. QED
  BY <1>1, <1>3, Places

LEMMA JoinedOnce ==
  ASSUME NEW s \in Seq(Rows), NEW t \in Seq(Rows), IsInjective(s), IsInjective(t),
         ToSet(s) \cap ToSet(t) = {}
  PROVE  /\ s \o t \in Seq(Rows) /\ IsInjective(s \o t)
         /\ ToSet(s \o t) = ToSet(s) \cup ToSet(t)
<1>1. PICK u : u = s \o t
  OBVIOUS
<1>2. /\ \A i \in DOMAIN s : u[i] = s[i]
      /\ \A i \in DOMAIN u :
           i \in DOMAIN s \/ \E k \in DOMAIN t : i = Len(s) + k /\ u[i] = t[k]
      /\ DOMAIN s = 1 .. Len(s) /\ Len(s) \in Nat /\ DOMAIN t \subseteq Nat \ {0}
  BY <1>1, Places
<1>3. /\ \A i \in DOMAIN s : s[i] \in ToSet(s)
      /\ \A i \in DOMAIN t : t[i] \in ToSet(t)
  BY DEF ToSet
<1>4. IsInjective(u)
  <2> SUFFICES ASSUME NEW a \in DOMAIN u, NEW b \in DOMAIN u, u[a] = u[b] PROVE a = b
    BY DEF IsInjective
  <2>1. CASE a \in DOMAIN s /\ b \in DOMAIN s
    BY <1>2, <2>1 DEF IsInjective
  <2>2. CASE a \in DOMAIN s /\ b \notin DOMAIN s
    BY <1>2, <1>3, <2>2
  <2>3. CASE a \notin DOMAIN s /\ b \in DOMAIN s
    BY <1>2, <1>3, <2>3
  <2>4. CASE a \notin DOMAIN s /\ b \notin DOMAIN s
    <3>1. PICK k \in DOMAIN t : a = Len(s) + k /\ u[a] = t[k]
      BY <1>2, <2>4
    <3>2. PICK l \in DOMAIN t : b = Len(s) + l /\ u[b] = t[l]
      BY <1>2, <2>4
    <3>3. k = l
      BY <3>1, <3>2 DEF IsInjective
    <3>4. QED
      BY <3>1, <3>2, <3>3
  <2>5. QED
    BY <2>1, <2>2, <2>3, <2>4
<1>5. QED
  BY <1>1, <1>4, Places

(* Sequences that follow one another, joined. *)
Following(seqs, n) ==
  /\ seqs \in [1 .. n -> Seq(Rows)]
  /\ \A k \in 1 .. n : Ascending(seqs[k])
  /\ \A k, l \in 1 .. n : k < l => \A x \in ToSet(seqs[k]), y \in ToSet(seqs[l]) : x < y

Flattens(seqs, m, f) ==
  f = [i \in 1 .. m |-> IF i = 1 THEN seqs[i] ELSE f[i - 1] \o seqs[i]]
Joins(seqs, i, s) ==
  /\ s \in Seq(Rows) /\ Ascending(s)
  /\ ToSet(s) = UNION {ToSet(seqs[k]) : k \in 1 .. i}

LEMMA FlattenExists ==
  ASSUME NEW seqs, NEW n \in Nat \ {0}
  PROVE  \E f : Flattens(seqs, n, f)
<1> DEFINE Bad == {m \in Nat \ {0} : ~ \E f : Flattens(seqs, m, f)}
<1>1. SUFFICES ASSUME Bad # {} PROVE FALSE
  OBVIOUS
<1>2. PICK m \in Bad : \A k \in Bad : m <= k
  <2>1. Bad \subseteq Nat
    OBVIOUS
  <2> HIDE DEF Bad
  <2>2. QED
    BY <1>1, <2>1, LeastOne
<1>3. m \in Nat \ {0} /\ ~ \E f : Flattens(seqs, m, f)
  OBVIOUS
<1>4. m # 1
  <2>1. ASSUME m = 1 PROVE FALSE
    <3>1. Flattens(seqs, m, [i \in 1 .. 1 |-> seqs[i]])
      BY <2>1 DEF Flattens
    <3>2. QED
      BY <1>3, <3>1
  <2>2. QED
    BY <2>1
<1>5. PICK k \in Nat \ {0} : m = k + 1
  <2>1. m - 1 \in Nat \ {0} /\ m = (m - 1) + 1
    BY <1>3, <1>4
  <2>2. QED
    BY <2>1
<1>6. PICK g : Flattens(seqs, k, g)
  <2>1. ~ (m <= k)
    BY <1>5
  <2>2. k \notin Bad
    BY <1>2, <2>1
  <2>3. QED
    BY <2>2
<1>7. PICK f : f = [i \in 1 .. m |-> IF i = m THEN g[k] \o seqs[m] ELSE g[i]]
  OBVIOUS
<1>8. /\ DOMAIN g = 1 .. k
      /\ \A i \in 1 .. k : g[i] = IF i = 1 THEN seqs[i] ELSE g[i - 1] \o seqs[i]
  BY <1>6 DEF Flattens
<1>9. \A i \in 1 .. m : f[i] = IF i = 1 THEN seqs[i] ELSE f[i - 1] \o seqs[i]
  <2>1. \A i \in 1 .. k : i \in 1 .. m /\ i # m /\ f[i] = g[i]
    BY <1>5, <1>7
  <2>2. ASSUME NEW i \in 1 .. m
        PROVE  f[i] = IF i = 1 THEN seqs[i] ELSE f[i - 1] \o seqs[i]
    <3>1. CASE i = m
      <4>1. i - 1 = k /\ i # 1
        BY <1>4, <1>5, <3>1
      <4>2. f[i] = g[k] \o seqs[m]
        BY <1>7, <3>1
      <4>3. f[k] = g[k]
        BY <1>5, <2>1
      <4>4. QED
        BY <3>1, <4>1, <4>2, <4>3
    <3>2. CASE i = 1
      <4>1. i \in 1 .. k
        BY <1>5, <3>2
      <4>2. QED
        BY <1>8, <2>1, <3>2, <4>1
    <3>3. CASE i # m /\ i # 1
      <4>1. i \in 1 .. k /\ i - 1 \in 1 .. k
        BY <1>5, <3>3
      <4>2. QED
        BY <1>8, <2>1, <3>3, <4>1
    <3>4. QED
      BY <3>1, <3>2, <3>3
  <2>3. QED
    BY <2>2
<1>10. f = [i \in 1 .. m |-> f[i]]
  BY <1>7
<1>11. Flattens(seqs, m, f)
  BY <1>9, <1>10 DEF Flattens
<1>12. QED
  BY <1>3, <1>11

LEMMA Flattened ==
  ASSUME NEW n \in Nat \ {0}, NEW seqs, Following(seqs, n)
  PROVE  Joins(seqs, n, FlattenSeq(seqs))
<1>1. Len(seqs) = n /\ seqs \in [1 .. n -> Seq(Rows)]
  <2>1. seqs \in [1 .. n -> Seq(Rows)]
    BY DEF Following
  <2>2. seqs \in Seq(Seq(Rows))
    BY <2>1, SeqDef
  <2>3. QED
    BY <2>1, <2>2, LenProperties
<1>2. PICK f : Flattens(seqs, n, f) /\ FlattenSeq(seqs) = f[n]
  <2>1. FlattenSeq(seqs) = (CHOOSE f : Flattens(seqs, n, f))[n]
    BY <1>1, Zenon DEF FlattenSeq, Flattens
  <2>2. QED
    BY <2>1, FlattenExists
<1>3. /\ DOMAIN f = 1 .. n
      /\ \A i \in 1 .. n : f[i] = IF i = 1 THEN seqs[i] ELSE f[i - 1] \o seqs[i]
  BY <1>2 DEF Flattens
<1> DEFINE Bad == {m \in 1 .. n : ~ Joins(seqs, m, f[m])}
<1>4. ASSUME Bad # {} PROVE FALSE
  <2>1. PICK m \in Bad : \A k \in Bad : m <= k
    <3>1. Bad \subseteq Nat
      OBVIOUS
    <3> HIDE DEF Bad
    <3>2. QED
      BY <1>4, <3>1, LeastOne
  <2>2. m \in 1 .. n /\ ~ Joins(seqs, m, f[m])
    OBVIOUS
  <2>3. seqs[m] \in Seq(Rows) /\ Ascending(seqs[m])
    BY <1>1, <2>2 DEF Following
  <2>4. CASE m = 1
    <3>1. UNION {ToSet(seqs[k]) : k \in 1 .. 1} = ToSet(seqs[1])
      OBVIOUS
    <3>2. QED
      BY <1>3, <2>2, <2>3, <2>4, <3>1 DEF Joins
  <2>5. CASE m # 1
    <3>1. PICK k \in 1 .. n : m = k + 1 /\ k = m - 1
      <4>1. m - 1 \in 1 .. n /\ m = (m - 1) + 1
        BY <2>2, <2>5
      <4>2. QED
        BY <4>1
    <3>2. Joins(seqs, k, f[k])
      <4>1. ~ (m <= k)
        BY <3>1
      <4>2. k \notin Bad
        BY <2>1, <4>1
      <4>3. QED
        BY <4>2
    <3>3. f[m] = f[k] \o seqs[m]
      BY <1>3, <2>2, <2>5, <3>1
    <3>4. /\ f[k] \in Seq(Rows) /\ Ascending(f[k])
          /\ ToSet(f[k]) = UNION {ToSet(seqs[l]) : l \in 1 .. k}
      BY <3>2 DEF Joins
    <3>5. \A x \in ToSet(f[k]), y \in ToSet(seqs[m]) : x < y
      <4>1. ASSUME NEW x \in ToSet(f[k]), NEW y \in ToSet(seqs[m]) PROVE x < y
        <5>1. PICK l \in 1 .. k : x \in ToSet(seqs[l])
          BY <3>4
        <5>2. l \in 1 .. n /\ l < m
          BY <2>2, <3>1
        <5>3. QED
          BY <2>2, <4>1, <5>1, <5>2 DEF Following
      <4>2. QED
        BY <4>1
    <3>6. /\ f[m] \in Seq(Rows) /\ Ascending(f[m])
          /\ ToSet(f[m]) = ToSet(f[k]) \cup ToSet(seqs[m])
      BY <2>3, <3>3, <3>4, <3>5, Joined
    <3>7. 1 .. m = (1 .. k) \cup {m}
      BY <2>2, <3>1
    <3>8. ToSet(f[m]) = UNION {ToSet(seqs[l]) : l \in 1 .. m}
      <4>1. UNION {ToSet(seqs[l]) : l \in (1 .. k) \cup {m}}
              = (UNION {ToSet(seqs[l]) : l \in 1 .. k}) \cup ToSet(seqs[m])
        OBVIOUS
      <4>2. QED
        BY <3>4, <3>6, <3>7, <4>1
    <3>9. QED
      BY <2>2, <3>6, <3>8 DEF Joins
  <2>6. QED
    BY <2>4, <2>5
<1>5. n \notin Bad
  BY <1>4
<1>6. QED
  BY <1>2, <1>5

-----------------------------------------------------------------------------
(* The chunks are the column, cut up in order. *)
LEMMA Cut ==
  /\ ChunkCount \in Nat \ {0} /\ Chunks \subseteq Nat
  /\ \A r \in Rows : \E i \in Chunks : r \in Chunk(i)
  /\ \A i, k \in Chunks : i < k => \A x \in Chunk(i), y \in Chunk(k) : x < y
<1>1. ChunkCount \in Nat \ {0} /\ Size \in Nat
  BY SomeChunks, ScanAssumption
<1>2. Chunks \subseteq Nat
  BY <1>1 DEF Chunks
<1>3. CASE Size = 0
  <2>1. Rows = {}
    BY <1>3 DEF Rows
  <2>2. \A i : Chunk(i) = {}
    BY <2>1 DEF Chunk
  <2>3. QED
    BY <1>1, <1>2, <2>1, <2>2
<1>4. CASE Size # 0
  <2>1. PICK c \in Nat \ {0} : c = ChunkSize
    BY <1>4, ChunkFits
  <2>2. PICK n \in Nat \ {0} : n = ChunkCount
    BY <1>1
  <2>3. Size <= n * c
    BY <1>4, <2>1, <2>2, ChunkFits
  <2>4. ASSUME NEW r \in Rows PROVE \E i \in Chunks : r \in Chunk(i)
    <3>1. r \in Nat /\ r < Size
      BY <1>1 DEF Rows
    <3>2. PICK i \in Nat, d \in 0 .. c - 1 : i = r \div c /\ d = r % c /\ r = (i * c) + d
      BY <3>1, Division
    <3>3. i * c \in Nat /\ (i + 1) * c = (i * c) + c
      OBVIOUS
    <3>4. i * c <= r /\ r < (i + 1) * c
      BY <3>2, <3>3
    <3>5. n * c \in Nat
      BY <2>2
    <3>6. r < n * c
      BY <1>1, <2>3, <3>1, <3>5
    <3>7. i < n
      BY <3>1, <3>4, <3>6, Below
    <3>8. i \in Chunks
      BY <2>2, <3>7 DEF Chunks
    <3>9. QED
      BY <2>1, <3>4, <3>8 DEF Chunk
  <2>5. ASSUME NEW i \in Chunks, NEW k \in Chunks, i < k,
               NEW x \in Chunk(i), NEW y \in Chunk(k)
        PROVE  x < y
    <3>1. i \in Nat /\ k \in Nat
      BY <1>2
    <3>2. (i * c) + c = (i + 1) * c /\ (i * c) + c <= k * c /\ i * c \in Nat /\ k * c \in Nat
      BY <2>5, <3>1, Multiple
    <3>3. x \in Nat /\ y \in Nat
      BY <1>1 DEF Chunk, Rows
    <3>4. x < (i + 1) * c /\ k * c <= y
      BY <2>1 DEF Chunk
    <3>5. QED
      BY <3>2, <3>3, <3>4
  <2>6. QED
    BY <1>1, <1>2, <2>4, <2>5
<1>5. QED
  BY <1>3, <1>4

LEMMA Qualified ==
  ASSUME inverse \in [Sels -> BOOLEAN], NEW t \in ScanTasks
  PROVE  /\ Qualifying(t[2]) \subseteq Rows
         /\ Scan(t) \in Seq(Rows) /\ Ascending(Scan(t))
         /\ ToSet(Scan(t)) = Chunk(t[1]) \cap Qualifying(t[2])
<1>1. t[2] \in Sels
  BY DEF ScanTasks
<1>2. Qualifying(t[2]) \subseteq Rows
  BY <1>1, ScanAssumption DEF Qualifying
<1>3. PICK S \in SUBSET Rows : S = Chunk(t[1]) \cap Qualifying(t[2])
  BY <1>2
<1>4. QED
  BY <1>2, <1>3, Ordered DEF Scan

(* What the last task of a selection merges. *)
Merged(j) == FlattenSeq([i \in 1 .. ChunkCount |-> Scan(<<i - 1, j>>)])

LEMMA MergedIs ==
  ASSUME inverse \in [Sels -> BOOLEAN], NEW j \in Sels
  PROVE  /\ Merged(j) \in Seq(Rows) /\ Ascending(Merged(j))
         /\ ToSet(Merged(j)) = Qualifying(j)
<1>1. PICK n \in Nat \ {0} : n = ChunkCount
  BY Cut
<1>2. PICK seqs : seqs = [i \in 1 .. n |-> Scan(<<i - 1, j>>)]
  OBVIOUS
<1>3. \A i \in 1 .. n : i - 1 \in Chunks /\ <<i - 1, j>> \in ScanTasks
  BY <1>1 DEF Chunks, ScanTasks
<1>4. \A i \in 1 .. n : /\ seqs[i] \in Seq(Rows) /\ Ascending(seqs[i])
                        /\ ToSet(seqs[i]) = Chunk(i - 1) \cap Qualifying(j)
  <2>1. ASSUME NEW i \in 1 .. n
        PROVE  /\ seqs[i] \in Seq(Rows) /\ Ascending(seqs[i])
               /\ ToSet(seqs[i]) = Chunk(i - 1) \cap Qualifying(j)
    <3>1. PICK t \in ScanTasks : t = <<i - 1, j>>
      BY <1>3
    <3>2. seqs[i] = Scan(t)
      BY <1>2, <3>1
    <3>3. QED
      BY <3>1, <3>2, Qualified
  <2>2. QED
    BY <2>1
<1>5. Following(seqs, n)
  <2>1. seqs \in [1 .. n -> Seq(Rows)]
    BY <1>2, <1>4
  <2>2. ASSUME NEW k \in 1 .. n, NEW l \in 1 .. n, k < l,
               NEW x \in ToSet(seqs[k]), NEW y \in ToSet(seqs[l])
        PROVE  x < y
    <3>0. k - 1 < l - 1
      BY <2>2
    <3>1. k - 1 \in Chunks /\ l - 1 \in Chunks
      BY <1>3
    <3>2. x \in Chunk(k - 1) /\ y \in Chunk(l - 1)
      BY <1>4
    <3>3. QED
      BY <3>0, <3>1, <3>2, Cut
  <2>3. QED
    BY <1>4, <2>1, <2>2 DEF Following
<1>6. Joins(seqs, n, Merged(j))
  BY <1>1, <1>2, <1>5, Flattened DEF Merged
<1>7. UNION {ToSet(seqs[k]) : k \in 1 .. n} = Qualifying(j)
  <2>1. \A r \in Qualifying(j) : \E k \in 1 .. n : r \in Chunk(k - 1)
    <3>1. ASSUME NEW r \in Qualifying(j) PROVE \E k \in 1 .. n : r \in Chunk(k - 1)
      <4>1. r \in Rows
        BY ScanAssumption DEF Qualifying
      <4>2. PICK i \in Chunks : r \in Chunk(i)
        BY <4>1, Cut
      <4>3. i + 1 \in 1 .. n /\ (i + 1) - 1 = i
        BY <1>1 DEF Chunks
      <4>4. QED
        BY <4>2, <4>3
    <3>2. QED
      BY <3>1
  <2>2. PICK q : q = Qualifying(j)
    OBVIOUS
  <2>3. \A r : r \in UNION {ToSet(seqs[k]) : k \in 1 .. n}
               <=> \E k \in 1 .. n : r \in ToSet(seqs[k])
    OBVIOUS
  <2>4. \A r : (\E k \in 1 .. n : r \in ToSet(seqs[k])) <=> r \in q
    BY <1>4, <2>1, <2>2, Zenon
  <2>5. QED
    BY <2>2, <2>3, <2>4
<1>8. QED
  BY <1>6, <1>7 DEF Joins

-----------------------------------------------------------------------------
(* What the selections hold on the way.  The chunks of selection j that    *)
(* have reported, and the rows that qualify in them:                       *)
Reported(j) == Chunks \ Unreported(j)
Found(j) == {r \in Qualifying(j) : \E i \in Reported(j) : r \in Chunk(i)}

DataType ==
  /\ inverse \in [Sels -> BOOLEAN]
  /\ selection \in [Sels -> Seq(Rows)]
  /\ intermediates \in [ScanTasks -> Seq(Rows)]
  /\ remaining \in [Sels -> 0 .. ChunkCount]
  /\ arc_count \in 0 .. TaskCount
  /\ next \in 0 .. TaskCount + 2

(* Under the lock a selection has the rows of the chunks that reported.    *)
LockedData ==
  Blocking =>
    /\ \A w \in Workers : ~Running(w, "merge")
    /\ \A j \in 1 .. num_selects :
         IsInjective(selection[j]) /\ ToSet(selection[j]) = Found(j)

(* Private results stay as they were scanned until the last task merges    *)
(* them all; until then the selection is empty.                            *)
PrivateData ==
  ~Blocking =>
    /\ \A w \in Workers : Running(w, "merge") => intermediates[wtask[w]] = Scan(wtask[w])
    /\ \A j \in 1 .. num_selects :
         /\ \A i \in Reported(j) : intermediates[<<i, j>>] = Scan(<<i, j>>)
         /\ selection[j] = IF Unreported(j) = {} THEN Merged(j) ELSE <<>>

DataInv == ScanInv /\ DataType /\ LockedData /\ PrivateData

LEMMA SelsWanted ==
  ASSUME num_selects \in Sels
  PROVE  /\ 1 .. num_selects \subseteq Sels
         /\ \A i \in Chunks, j \in 1 .. num_selects :
              <<i, j>> \in Wanted /\ <<i, j>> \in ScanTasks
<1>1. 1 .. num_selects \subseteq Sels
  BY ScanAssumption DEF Sels
<1>2. QED
  BY <1>1 DEF Wanted, ScanTasks

(* When the stage is over every chunk has reported to every selection. *)
LEMMA AllReported ==
  ASSUME ScanInv, StageOver
  PROVE  \A j \in 1 .. num_selects : Unreported(j) = {}
<1>1. num_selects \in Sels /\ next \in Nat /\ next = TaskCount + 2
  BY DEF ScanInv, ScanType, StageOver
<1>2. TaskCount \in Nat \ {0} /\ \A t \in Wanted : Index(t) \in 1 .. TaskCount
  BY <1>1, Numbering
<1>3. queue = <<>> /\ \A w \in Workers : wpc[w] # "run"
  BY DEF ScanInv, Drained
<1>4. Live(Reporting) = {}
  BY <1>3 DEF Live, InHand, Range
<1>5. \A t \in Wanted : ~(Index(t) >= next)
  BY <1>1, <1>2
<1>6. QED
  BY <1>1, <1>4, <1>5, SelsWanted DEF Unreported

LEMMA DataImplies == DataInv => ScansAgree
<1> SUFFICES ASSUME DataInv PROVE ScansAgree
  OBVIOUS
<1>1. ScanInv /\ DataType /\ num_selects \in Sels
  BY DEF DataInv, ScanInv, ScanType
<1>2. TypeOK
  <2>1. Shared!TypeOK
    BY <1>1 DEF ScanInv, Shared!PoolInv
  <2>2. Pool!TypeOK
    BY <2>1 DEF Shared!TypeOK, Pool!TypeOK, Shared!WorkerPC, Pool!WorkerPC, Shared!ClientPC,
                Pool!ClientPC
  <2>3. QED
    BY <1>1, <2>2 DEF TypeOK, DataType, ScanInv, ScanType
<1>3. ASSUME StageOver, NEW j \in 1 .. num_selects
      PROVE  /\ IsInjective(selection[j]) /\ ToSet(selection[j]) = Qualifying(j)
             /\ ~Blocking => Ascending(selection[j])
  <2>1. Unreported(j) = {} /\ Reported(j) = Chunks /\ j \in Sels
    BY <1>1, <1>3, AllReported, SelsWanted DEF Reported
  <2>2. CASE Blocking
    <3>1. IsInjective(selection[j]) /\ ToSet(selection[j]) = Found(j)
      BY <2>2 DEF DataInv, LockedData
    <3>2. \A r \in Qualifying(j) : r \in Rows
      BY <2>1, ScanAssumption DEF Qualifying
    <3>3. Found(j) = Qualifying(j)
      BY <2>1, <3>2, Cut DEF Found
    <3>4. QED
      BY <2>2, <3>1, <3>3
  <2>3. CASE ~Blocking
    <3>1. selection[j] = Merged(j)
      BY <2>1, <2>3 DEF DataInv, PrivateData
    <3>2. inverse \in [Sels -> BOOLEAN]
      BY <1>1 DEF DataType
    <3>3. /\ Merged(j) \in Seq(Rows) /\ Ascending(Merged(j))
          /\ ToSet(Merged(j)) = Qualifying(j)
      BY <2>1, <3>2, MergedIs
    <3>4. QED
      BY <3>1, <3>3, AscendingOnce
  <2>4. QED
    BY <2>2, <2>3
<1>4. SelectionsComplete
  BY <1>3 DEF SelectionsComplete
<1>5. MergedInOrder
  BY <1>3 DEF MergedInOrder, Ascending
<1>6. QED
  BY <1>2, <1>4, <1>5 DEF ScansAgree

-----------------------------------------------------------------------------
(* A step that leaves the data, and the reports to come, as they are. *)
LEMMA SameData ==
  ASSUME LockedData, PrivateData, ReportsStay,
         UNCHANGED <<num_selects, inverse, selection, intermediates>>,
         \A w \in Workers : wpc'[w] = "run" /\ step'[w] = "merge" =>
           wpc[w] = "run" /\ step[w] = "merge" /\ wtask'[w] = wtask[w]
  PROVE  LockedData' /\ PrivateData'
<1>1. \A t : Scan(t)' = Scan(t)
  BY DEF Scan, Qualifying
<1>2. \A j : Qualifying(j)' = Qualifying(j) /\ Merged(j)' = Merged(j)
  BY <1>1 DEF Qualifying, Merged
<1>3. \A j \in 1 .. num_selects :
        /\ Unreported(j)' = Unreported(j) /\ Reported(j)' = Reported(j)
        /\ Found(j)' = Found(j)
  BY <1>2 DEF ReportsStay, Reported, Found
<1>4. Blocking' = Blocking
  BY DEF Blocking
<1>5. \A w \in Workers : Running(w, "merge")' =>
        Running(w, "merge") /\ wtask'[w] = wtask[w]
  BY DEF Running
<1>6. LockedData'
  BY <1>3, <1>4, <1>5 DEF LockedData
<1>7. PrivateData'
  BY <1>1, <1>2, <1>3, <1>4, <1>5 DEF PrivateData
<1>8. QED
  BY <1>6, <1>7

(* A private scan. *)
LEMMA ScanData ==
  ASSUME DataInv, NEW w \in Workers, ScanChunk(w)
  PROVE  LockedData' /\ PrivateData'
<1>1. /\ wpc[w] = "run" /\ step[w] = "call" /\ ~Blocking
      /\ intermediates' = [intermediates EXCEPT ![wtask[w]] = Scan(wtask[w])]
      /\ step' = [step EXCEPT ![w] = "merge"]
      /\ UNCHANGED <<wpc, wtask, num_selects, inverse, selection>>
  BY DEF ScanChunk, Running, Goto, pvars
<1>2. ScanInv /\ ReportsStay /\ step \in [Workers -> Step] /\ num_selects \in Sels
  BY ScanKeeps DEF DataInv, ScanInv, ScanType
<1>3. intermediates \in [ScanTasks -> Seq(Rows)] /\ wtask[w] \in ScanTasks
  BY <1>1, <1>2, PoolFacts DEF DataInv, DataType, ScanInv
<1>4. \A t : Scan(t)' = Scan(t)
  BY <1>1 DEF Scan, Qualifying
<1>5. \A j : Qualifying(j)' = Qualifying(j) /\ Merged(j)' = Merged(j)
  BY <1>1, <1>4 DEF Qualifying, Merged
<1>6. ~Blocking'
  BY <1>1 DEF Blocking
<1>7. \A j \in 1 .. num_selects : \A i \in Reported(j) :
        <<i, j>> # wtask[w] /\ <<i, j>> \in ScanTasks
  <2>1. wtask[w] \in Live(Reporting)
    BY <1>1 DEF Live, InHand, Reporting
  <2>2. QED
    BY <1>2, <2>1, SelsWanted DEF Reported, Unreported
<1>8. \A j \in 1 .. num_selects :
        /\ Unreported(j)' = Unreported(j) /\ Reported(j)' = Reported(j)
  BY <1>2 DEF ReportsStay, Reported
<1>9. \A v \in Workers : Running(v, "merge")' => intermediates'[wtask[v]] = Scan(wtask[v])
  <2>1. ASSUME NEW v \in Workers, wpc[v] = "run", step'[v] = "merge"
        PROVE  intermediates'[wtask[v]] = Scan(wtask[v])
    <3>1. CASE v = w
      BY <1>1, <1>3, <3>1
    <3>2. CASE v # w
      <4>1. wtask[v] # wtask[w] /\ wtask[v] \in ScanTasks
        BY <1>2, <2>1, <3>2, <1>1, PoolFacts DEF ScanInv
      <4>2. step[v] = "merge"
        BY <1>1, <1>2, <2>1, <3>2
      <4>3. intermediates[wtask[v]] = Scan(wtask[v])
        BY <1>1, <2>1, <4>2 DEF DataInv, PrivateData, Running
      <4>4. QED
        BY <1>1, <1>3, <4>1, <4>3
    <3>3. QED
      BY <3>1, <3>2
  <2>2. QED
    BY <1>1, <2>1 DEF Running
<1>10. \A j \in 1 .. num_selects :
         /\ \A i \in Reported(j) : intermediates'[<<i, j>>] = Scan(<<i, j>>)
         /\ selection[j] = IF Unreported(j) = {} THEN Merged(j) ELSE <<>>
  BY <1>1, <1>3, <1>7 DEF DataInv, PrivateData
<1>11. PrivateData'
  BY <1>1, <1>4, <1>5, <1>8, <1>9, <1>10 DEF PrivateData
<1>12. QED
  BY <1>6, <1>11 DEF LockedData

(* What a report changes of the chunks that have reported. *)
LEMMA OneReports ==
  ASSUME ScanInv, NEW w \in Workers, MergeChunk(w) \/ ScanLocked(w)
  PROVE  \E c \in Chunks, k \in 1 .. num_selects :
           /\ wtask[w] = <<c, k>> /\ k \in Sels /\ wtask[w] \in ScanTasks
           /\ c \in Unreported(k)
           /\ Unreported(k)' = Unreported(k) \ {c} /\ Reported(k)' = Reported(k) \cup {c}
           /\ \A j \in 1 .. num_selects : j # k =>
                Unreported(j)' = Unreported(j) /\ Reported(j)' = Reported(j)
           /\ remaining'[k] = 0 <=> Unreported(k)' = {}
<1>1. /\ wtask[w] \in Wanted
      /\ \A j \in 1 .. num_selects :
           Unreported(j)' = IF j = wtask[w][2] THEN Unreported(j) \ {wtask[w][1]}
                                               ELSE Unreported(j)
      /\ CountsExact' /\ ScanType'
  BY ReportKeeps
<1>2. PICK c \in Chunks, k \in 1 .. num_selects : wtask[w] = <<c, k>>
  BY <1>1 DEF Wanted
<1>3. num_selects \in Sels /\ next \in Nat
  BY DEF ScanInv, ScanType
<1>4. k \in Sels /\ wtask[w] \in ScanTasks
  BY <1>2, <1>3, SelsWanted
<1>5. wpc[w] = "run" /\ step[w] \in {"call", "merge"} /\ UNCHANGED <<num_selects, next>>
  BY DEF MergeChunk, ScanLocked, Running
<1>6. c \in Unreported(k)
  BY <1>2, <1>5 DEF Unreported, Live, InHand, Reporting
<1>7. /\ Unreported(k)' = Unreported(k) \ {c}
      /\ \A j \in 1 .. num_selects : j # k => Unreported(j)' = Unreported(j)
  BY <1>1, <1>2
<1>8. /\ Reported(k)' = Reported(k) \cup {c}
      /\ \A j \in 1 .. num_selects : j # k => Reported(j)' = Reported(j)
  BY <1>7 DEF Reported
<1>9. remaining'[k] = 0 <=> Unreported(k)' = {}
  <2>1. next > 0
    <3>1. wtask[w] \in Live(Step) /\ Index(wtask[w]) < next
      BY <1>5 DEF Live, InHand, Step, ScanInv, Sent
    <3>2. Index(wtask[w]) \in Nat
      BY <1>1, <1>3, Numbering
    <3>3. QED
      BY <1>3, <3>1, <3>2
  <2>2. remaining'[k] = Cardinality(Unreported(k)')
    BY <1>1, <1>5, <2>1 DEF CountsExact, ReportsExact
  <2>3. IsFiniteSet(Unreported(k)')
    <3>1. Unreported(k)' \subseteq Chunks /\ IsFiniteSet(Chunks)
      BY <1>3, <1>7, WantedFinite DEF Unreported
    <3>2. QED
      BY <3>1, FS_Subset
  <2>4. PICK U : U = Unreported(k)'
    OBVIOUS
  <2>5. QED
    BY <2>2, <2>3, <2>4, FS_EmptySet
<1>10. QED
  BY <1>2, <1>4, <1>6, <1>7, <1>8, <1>9

(* The last private result merges them all; the others only count. *)
LEMMA MergeData ==
  ASSUME DataInv, NEW w \in Workers, MergeChunk(w)
  PROVE  LockedData' /\ PrivateData'
<1>1. /\ wpc[w] = "run" /\ step[w] = "merge"
      /\ step' = [step EXCEPT ![w] = "arc"]
      /\ UNCHANGED <<wpc, wtask, num_selects, inverse, intermediates>>
  BY DEF MergeChunk, Running, Goto, pvars
<1>2. /\ ScanInv /\ num_selects \in Sels /\ step \in [Workers -> Step]
      /\ selection \in [Sels -> Seq(Rows)] /\ inverse \in [Sels -> BOOLEAN]
  BY DEF DataInv, ScanInv, ScanType, DataType
<1>3. ~Blocking /\ ~Blocking'
  BY <1>1 DEF DataInv, LockedData, Running, Blocking
<1>4. /\ \A v \in Workers : Running(v, "merge") => intermediates[wtask[v]] = Scan(wtask[v])
      /\ \A j \in 1 .. num_selects :
         /\ \A i \in Reported(j) : intermediates[<<i, j>>] = Scan(<<i, j>>)
         /\ selection[j] = IF Unreported(j) = {} THEN Merged(j) ELSE <<>>
  BY <1>3 DEF DataInv, PrivateData
<1>5. PICK c \in Chunks, k \in 1 .. num_selects :
        /\ wtask[w] = <<c, k>> /\ k \in Sels /\ c \in Unreported(k)
        /\ Unreported(k)' = Unreported(k) \ {c} /\ Reported(k)' = Reported(k) \cup {c}
        /\ \A j \in 1 .. num_selects : j # k =>
             Unreported(j)' = Unreported(j) /\ Reported(j)' = Reported(j)
        /\ remaining'[k] = 0 <=> Unreported(k)' = {}
  BY <1>2, OneReports
<1>6. \A t : Scan(t)' = Scan(t)
  BY <1>1 DEF Scan, Qualifying
<1>7. \A j : Merged(j)' = Merged(j)
  BY <1>6 DEF Merged
<1>8. \A v \in Workers : Running(v, "merge")' => Running(v, "merge")
  BY <1>1, <1>2 DEF Running
<1>9. \A j \in 1 .. num_selects :
        \A i \in Reported(j)' : intermediates[<<i, j>>] = Scan(<<i, j>>)
  <2>1. intermediates[<<c, k>>] = Scan(<<c, k>>)
    BY <1>1, <1>4, <1>5 DEF Running
  <2>2. QED
    BY <1>4, <1>5, <2>1
<1>10. selection' = [selection EXCEPT ![k] =
         IF remaining'[k] # 0 THEN selection[k]
         ELSE selection[k] \o
                FlattenSeq([i \in 1 .. ChunkCount |-> intermediates[<<i - 1, k>>]])]
  BY <1>5 DEF MergeChunk
<1>11. selection'[k] = IF Unreported(k)' = {} THEN Merged(k) ELSE <<>>
  <2>1. selection[k] = <<>>
    BY <1>4, <1>5
  <2>2. CASE Unreported(k)' # {}
    BY <1>2, <1>5, <1>10, <2>1, <2>2
  <2>3. CASE Unreported(k)' = {}
    <3>1. \A i \in 1 .. ChunkCount : intermediates[<<i - 1, k>>] = Scan(<<i - 1, k>>)
      <4>1. \A i \in Chunks : i \in Reported(k)'
        BY <1>5, <2>3 DEF Reported
      <4>2. \A i \in 1 .. ChunkCount : i - 1 \in Chunks
        BY Cut DEF Chunks
      <4>3. QED
        BY <1>9, <4>1, <4>2
    <3>2. [i \in 1 .. ChunkCount |-> intermediates[<<i - 1, k>>]]
            = [i \in 1 .. ChunkCount |-> Scan(<<i - 1, k>>)]
      BY <3>1
    <3>3. selection'[k] = <<>> \o Merged(k)
      BY <1>2, <1>5, <1>10, <2>1, <2>3, <3>2 DEF Merged
    <3>4. Merged(k) \in Seq(Rows)
      BY <1>2, <1>5, MergedIs
    <3>5. QED
      BY <2>3, <3>3, <3>4, ConcatEmptySeq
  <2>4. QED
    BY <2>2, <2>3
<1>12. \A j \in 1 .. num_selects :
         selection'[j] = IF Unreported(j)' = {} THEN Merged(j) ELSE <<>>
  <2>1. \A j \in 1 .. num_selects : j # k => selection'[j] = selection[j]
    BY <1>2, <1>10, SelsWanted
  <2>2. QED
    BY <1>4, <1>5, <1>11, <2>1
<1>13. PrivateData'
  BY <1>1, <1>4, <1>6, <1>7, <1>8, <1>9, <1>12 DEF PrivateData
<1>14. QED
  BY <1>3, <1>13 DEF LockedData

(* A scan under the lock adds the rows of its chunk. *)
LEMMA LockedScanData ==
  ASSUME DataInv, NEW w \in Workers, ScanLocked(w)
  PROVE  LockedData' /\ PrivateData'
<1>1. /\ wpc[w] = "run" /\ step[w] = "call" /\ Blocking
      /\ step' = [step EXCEPT ![w] = "arc"]
      /\ UNCHANGED <<wpc, wtask, num_selects, inverse, intermediates>>
  BY DEF ScanLocked, Running, Goto, pvars
<1>2. /\ ScanInv /\ num_selects \in Sels /\ step \in [Workers -> Step]
      /\ selection \in [Sels -> Seq(Rows)] /\ inverse \in [Sels -> BOOLEAN]
  BY DEF DataInv, ScanInv, ScanType, DataType
<1>3. Blocking'
  BY <1>1 DEF Blocking
<1>4. /\ \A v \in Workers : ~Running(v, "merge")
      /\ \A j \in 1 .. num_selects :
           IsInjective(selection[j]) /\ ToSet(selection[j]) = Found(j)
  BY <1>1 DEF DataInv, LockedData
<1>5. PICK c \in Chunks, k \in 1 .. num_selects :
        /\ wtask[w] = <<c, k>> /\ k \in Sels /\ wtask[w] \in ScanTasks /\ c \in Unreported(k)
        /\ Reported(k)' = Reported(k) \cup {c}
        /\ \A j \in 1 .. num_selects : j # k => Reported(j)' = Reported(j)
  BY <1>2, OneReports
<1>6. \A j : Qualifying(j)' = Qualifying(j)
  BY <1>1 DEF Qualifying
<1>7. \A v \in Workers : ~Running(v, "merge")'
  BY <1>1, <1>2, <1>4 DEF Running
<1>8. selection' = [selection EXCEPT ![k] = selection[k] \o Scan(wtask[w])]
  BY <1>5 DEF ScanLocked
<1>9. PICK s \in Seq(Rows) :
        /\ s = Scan(wtask[w]) /\ Ascending(s) /\ ToSet(s) = Chunk(c) \cap Qualifying(k)
  BY <1>2, <1>5, Qualified
<1>10. IsInjective(s)
  BY <1>9, AscendingOnce
<1>11. ToSet(selection[k]) \cap ToSet(s) = {}
  <2>1. ASSUME NEW r \in Found(k), r \in Chunk(c) PROVE FALSE
    <3>1. PICK i \in Reported(k) : r \in Chunk(i)
      BY DEF Found
    <3>2. i # c /\ i \in Chunks /\ c \in Chunks
      BY <1>5 DEF Reported
    <3>3. i \in Nat /\ c \in Nat /\ (i < c \/ c < i)
      <4>1. i \in Nat /\ c \in Nat
        BY <3>2, Cut
      <4>2. QED
        BY <3>2, <4>1
    <3>4. r < r
      BY <2>1, <3>1, <3>2, <3>3, Cut
    <3>5. r \in Nat
      BY ScanAssumption, <2>1 DEF Chunk, Rows
    <3>6. QED
      BY <3>4, <3>5
  <2>2. QED
    BY <1>4, <1>9, <2>1
<1>12. /\ IsInjective(selection[k] \o s)
       /\ ToSet(selection[k] \o s) = ToSet(selection[k]) \cup ToSet(s)
  <2>1. selection[k] \in Seq(Rows) /\ IsInjective(selection[k])
    BY <1>2, <1>4, <1>5
  <2>2. QED
    BY <1>10, <1>11, <2>1, JoinedOnce
<1>13. Found(k)' = Found(k) \cup (Chunk(c) \cap Qualifying(k))
  BY <1>5, <1>6 DEF Found
<1>14. \A j \in 1 .. num_selects : j # k =>
         Found(j)' = Found(j) /\ selection'[j] = selection[j]
  BY <1>2, <1>5, <1>6, <1>8, SelsWanted DEF Found
<1>15. selection'[k] = selection[k] \o s
  BY <1>2, <1>5, <1>8, <1>9
<1>16. \A j \in 1 .. num_selects :
         IsInjective(selection'[j]) /\ ToSet(selection'[j]) = Found(j)'
  BY <1>4, <1>9, <1>12, <1>13, <1>14, <1>15
<1>17. LockedData'
  BY <1>1, <1>7, <1>16 DEF LockedData
<1>18. QED
  BY <1>3, <1>17 DEF PrivateData

(* The choice of what a selection keeps is made before anything is scanned *)
LEMMA PrepareData ==
  ASSUME DataInv, Prepare
  PROVE  LockedData' /\ PrivateData'
<1>1. /\ next = 0
      /\ UNCHANGED <<wpc, wtask, step, num_selects, selection, intermediates>>
  BY DEF Prepare, pvars
<1>2. ScanInv /\ num_selects \in Sels /\ step \in [Workers -> Step]
  BY DEF DataInv, ScanInv, ScanType
<1>3. \A j \in 1 .. num_selects :
        Unreported(j) = Chunks /\ Unreported(j)' = Chunks /\ Chunks # {}
  <2>1. ReportsStay /\ \A j \in 1 .. num_selects : Unreported(j) = Chunks
    BY <1>2, PrepareKeeps
  <2>2. 0 \in Chunks
    BY Cut DEF Chunks
  <2>3. QED
    BY <2>1, <2>2 DEF ReportsStay
<1>4. \A v \in Workers : ~Running(v, "merge") /\ ~Running(v, "merge")'
  <2>1. ASSUME NEW v \in Workers, wpc[v] = "run" PROVE FALSE
    <3>1. wtask[v] \in Live(Step)
      BY <1>2, <2>1 DEF Live, InHand
    <3>2. wtask[v] \in Wanted /\ Index(wtask[v]) < 0
      BY <1>1, <1>2, <3>1 DEF ScanInv, Sent
    <3>3. Index(wtask[v]) \in Nat
      BY <1>2, <3>2, Numbering
    <3>4. QED
      BY <3>2, <3>3
  <2>2. QED
    BY <1>1, <2>1 DEF Running
<1>5. \A j \in 1 .. num_selects :
        /\ Reported(j) = {} /\ Reported(j)' = {}
        /\ Found(j) = {} /\ Found(j)' = {}
  BY <1>3 DEF Reported, Found
<1>6. Blocking' = Blocking
  BY <1>1 DEF Blocking
<1>7. LockedData'
  BY <1>1, <1>4, <1>5, <1>6 DEF DataInv, LockedData
<1>8. PrivateData'
  BY <1>1, <1>3, <1>4, <1>5, <1>6 DEF DataInv, PrivateData
<1>9. QED
  BY <1>7, <1>8

LEMMA TypeKept ==
  ASSUME DataInv, ScanInv', [Next]_vars
  PROVE  DataType'
<1>1. /\ inverse \in [Sels -> BOOLEAN] /\ selection \in [Sels -> Seq(Rows)]
      /\ intermediates \in [ScanTasks -> Seq(Rows)] /\ remaining \in [Sels -> 0 .. ChunkCount]
      /\ arc_count \in 0 .. TaskCount /\ next \in 0 .. TaskCount + 2
      /\ ScanInv /\ num_selects \in Sels
  BY DEF DataInv, DataType, ScanInv, ScanType
<1>2. /\ TaskCount \in Nat /\ ChunkCount \in Nat
      /\ arc_count' \in Nat /\ next' \in Nat /\ remaining' \in [Sels -> Nat]
  BY <1>1, Numbering, SomeChunks DEF ScanInv, ScanType
<1> DEFINE Kinds == /\ inverse' \in [Sels -> BOOLEAN] /\ selection' \in [Sels -> Seq(Rows)]
                    /\ intermediates' \in [ScanTasks -> Seq(Rows)]
           Counts == /\ remaining' \in [Sels -> 0 .. ChunkCount]
                     /\ arc_count' \in 0 .. TaskCount /\ next' \in 0 .. TaskCount + 2
<1>3. SUFFICES num_selects' = num_selects /\ Kinds /\ Counts
  BY DEF DataType, TaskCount
<1>4. ASSUME NEW w \in Workers, ScanChunk(w)
      PROVE  num_selects' = num_selects /\ Kinds /\ Counts
  <2>1. /\ intermediates' = [intermediates EXCEPT ![wtask[w]] = Scan(wtask[w])]
        /\ wpc[w] = "run"
        /\ UNCHANGED <<num_selects, inverse, selection, remaining, arc_count, next>>
    BY <1>4 DEF ScanChunk, Running
  <2>2. wtask[w] \in ScanTasks
    BY <1>1, <2>1, PoolFacts DEF ScanInv
  <2>3. Scan(wtask[w]) \in Seq(Rows)
    BY <1>1, <2>2, Qualified
  <2>4. QED
    BY <1>1, <2>1, <2>3
<1>5. ASSUME NEW w \in Workers, MergeChunk(w) \/ ScanLocked(w)
      PROVE  num_selects' = num_selects /\ Kinds /\ Counts
  <2>1. PICK c \in Chunks, k \in 1 .. num_selects :
          /\ wtask[w] = <<c, k>> /\ k \in Sels /\ wtask[w] \in ScanTasks
    BY <1>1, <1>5, OneReports
  <2>2. /\ remaining' = [remaining EXCEPT ![k] = remaining[k] - 1]
        /\ UNCHANGED <<num_selects, inverse, intermediates, arc_count, next>>
    BY <1>5, <2>1 DEF MergeChunk, ScanLocked
  <2>3. remaining' \in [Sels -> 0 .. ChunkCount]
    <3>1. \A j \in Sels : remaining'[j] \in Nat /\ remaining[j] \in 0 .. ChunkCount
      BY <1>1, <1>2
    <3>2. \A j \in Sels : remaining'[j] = IF j = k THEN remaining[k] - 1 ELSE remaining[j]
      BY <1>1, <2>1, <2>2
    <3>3. \A j \in Sels : remaining'[j] \in 0 .. ChunkCount
      <4>1. ASSUME NEW j \in Sels PROVE remaining'[j] \in 0 .. ChunkCount
        <5>1. CASE j = k
          <6>1. PICK m \in 0 .. ChunkCount : m = remaining[k]
            BY <2>1, <3>1
          <6>2. remaining'[j] = m - 1 /\ remaining'[j] \in Nat
            BY <3>1, <3>2, <5>1, <6>1
          <6>3. QED
            BY <1>2, <6>1, <6>2
        <5>2. CASE j # k
          BY <3>1, <3>2, <5>2
        <5>3. QED
          BY <5>1, <5>2
      <4>2. QED
        BY <4>1
    <3>4. QED
      BY <1>2, <3>3
  <2>4. selection' \in [Sels -> Seq(Rows)]
    <3>1. PICK s : s \in Seq(Rows) /\ selection' = [selection EXCEPT ![k] = s]
      <4>1. CASE ScanLocked(w)
        <5>1. selection' = [selection EXCEPT ![k] = selection[k] \o Scan(wtask[w])]
          BY <2>1, <4>1 DEF ScanLocked
        <5>2. selection[k] \in Seq(Rows) /\ Scan(wtask[w]) \in Seq(Rows)
          BY <1>1, <2>1, Qualified
        <5>3. selection[k] \o Scan(wtask[w]) \in Seq(Rows)
          BY <5>2, ConcatProperties
        <5>4. QED
          BY <5>1, <5>3
      <4>2. CASE MergeChunk(w)
        <5>1. wpc[w] = "run" /\ step[w] = "merge" /\ num_selects' = num_selects
              /\ inverse' = inverse
          BY <4>2 DEF MergeChunk, Running
        <5>2. ~Blocking'
          BY <1>1, <5>1 DEF DataInv, LockedData, Running, Blocking
        <5>3. PrivateData'
          BY <4>2, MergeData
        <5>4. selection'[k] = IF Unreported(k)' = {} THEN Merged(k)' ELSE <<>>
          BY <2>1, <5>1, <5>2, <5>3 DEF PrivateData
        <5>5. PICK M : M = Merged(k)'
          OBVIOUS
        <5>6. Merged(k)' = Merged(k)
          BY <5>1 DEF Merged, Scan, Qualifying
        <5>7. Merged(k)' \in Seq(Rows)
          BY <1>1, <2>1, <5>6, MergedIs
        <5>8. <<>> \in Seq(Rows)
          OBVIOUS
        <5>9. selection'[k] \in Seq(Rows)
          BY <5>4, <5>7, <5>8
        <5>10. PICK s : selection' = [selection EXCEPT ![k] = s]
          <6>1. selection' = [selection EXCEPT ![k] =
                  IF remaining'[k] # 0 THEN selection[k]
                  ELSE selection[k] \o
                         FlattenSeq([i \in 1 .. ChunkCount |-> intermediates[<<i - 1, k>>]])]
            BY <2>1, <4>2 DEF MergeChunk
          <6>2. QED
            BY <6>1, Zenon
        <5>11. selection'[k] = s
          BY <1>1, <2>1, <5>10
        <5>12. QED
          BY <5>9, <5>10, <5>11
      <4>3. QED
        BY <1>5, <4>1, <4>2
    <3>2. QED
      BY <1>1, <2>1, <3>1
  <2>5. QED
    BY <1>1, <2>2, <2>3, <2>4
<1>6. ASSUME NEW w \in Workers, FreeArc(w)
      PROVE  num_selects' = num_selects /\ Kinds /\ Counts
  <2>1. /\ arc_count' = arc_count - 1
        /\ UNCHANGED <<num_selects, inverse, selection, intermediates, remaining, next>>
    BY <1>6 DEF FreeArc
  <2>2. arc_count' \in 0 .. TaskCount
    BY <1>1, <1>2, <2>1
  <2>3. QED
    BY <1>1, <2>1, <2>2
<1>7. CASE Prepare
  <2>1. /\ next' = 1 /\ inverse' \in [Sels -> IF Size < SampledFrom THEN {FALSE} ELSE BOOLEAN]
        /\ remaining' = [j \in Sels |-> ChunkCount] /\ arc_count' = TaskCount
        /\ UNCHANGED <<num_selects, selection, intermediates>>
    BY <1>7 DEF Prepare
  <2>2. inverse' \in [Sels -> BOOLEAN]
    BY <2>1
  <2>3. Counts
    BY <1>2, <2>1
  <2>4. QED
    BY <1>1, <2>1, <2>2, <2>3
<1>8. CASE SubmitNext \/ StageWait
  <2>1. /\ next' = next + 1 /\ next <= TaskCount + 1
        /\ UNCHANGED <<num_selects, inverse, selection, intermediates, remaining, arc_count>>
    BY <1>2, <1>8 DEF SubmitNext, StageWait, svars
  <2>2. next' \in 0 .. TaskCount + 2
    BY <1>1, <1>2, <2>1
  <2>3. QED
    BY <1>1, <2>1, <2>2
<1>9. CASE UNCHANGED <<num_selects, inverse, selection, intermediates, remaining, arc_count,
                       next>>
  BY <1>1, <1>9
<1>10. ASSUME NEW w \in Workers, TaskReturn(w) \/ WorkerLoop(w)
       PROVE  num_selects' = num_selects /\ Kinds /\ Counts
  BY <1>9, <1>10 DEF TaskReturn, WorkerLoop, svars
<1>11. CASE WaitSleep \/ WaitReturn \/ Disconnect \/ Spurious \/ Halted \/ UNCHANGED vars
  BY <1>9, <1>11 DEF WaitSleep, WaitReturn, Disconnect, Spurious, Halted, vars, svars
<1>12. QED
  BY <1>4, <1>5, <1>6, <1>7, <1>8, <1>10, <1>11 DEF Next, Server, Worker

LEMMA InitData == Init => DataInv
<1> SUFFICES ASSUME Init PROVE DataInv
  OBVIOUS
<1>1. /\ wpc = [w \in Workers |-> "lock"] /\ next = 0 /\ num_selects \in Sels
      /\ inverse = [j \in Sels |-> FALSE] /\ selection = [j \in Sels |-> <<>>]
      /\ intermediates = [t \in ScanTasks |-> <<>>]
      /\ remaining = [j \in Sels |-> 0] /\ arc_count = 0
  BY DEF Init, Pool!Init
<1>2. TaskCount \in Nat /\ ChunkCount \in Nat
      /\ \A t \in Wanted : Index(t) \in 1 .. TaskCount
  BY <1>1, Numbering, SomeChunks
<1>3. DataType
  BY <1>1, <1>2 DEF DataType
<1>4. \A j \in 1 .. num_selects : Unreported(j) = Chunks /\ Chunks # {} /\ j \in Sels
  <2>1. \A t \in Wanted : Index(t) >= next
    BY <1>1, <1>2
  <2>2. 0 \in Chunks
    BY Cut DEF Chunks
  <2>3. QED
    BY <1>1, <2>1, <2>2, SelsWanted DEF Unreported
<1>5. \A v \in Workers : ~Running(v, "merge")
  BY <1>1 DEF Running
<1>6. \A j \in 1 .. num_selects : Reported(j) = {} /\ Found(j) = {} /\ selection[j] = <<>>
  BY <1>1, <1>4 DEF Reported, Found
<1>7. IsInjective(<<>>) /\ ToSet(<<>>) = {}
  BY DEF IsInjective, ToSet
<1>8. LockedData /\ PrivateData
  BY <1>4, <1>5, <1>6, <1>7 DEF LockedData, PrivateData
<1>9. QED
  BY <1>3, <1>8, InitScanInv DEF DataInv

LEMMA NextData == DataInv /\ [Next]_vars => DataInv'
<1> SUFFICES ASSUME DataInv, [Next]_vars PROVE DataInv'
  OBVIOUS
<1>1. ScanInv /\ ScanInv' /\ LockedData /\ PrivateData
  BY NextScanInv DEF DataInv
<1>2. step \in [Workers -> Step]
      /\ wpc \in [Workers -> {"lock", "work_cond", "run", "finish", "exit"}]
  BY <1>1, PoolFacts DEF ScanInv, ScanType
<1>3. DataType'
  BY <1>1, TypeKept
<1> DEFINE Kept == LockedData' /\ PrivateData'
<1>4. SUFFICES Kept
  BY <1>1, <1>3 DEF DataInv
<1> DEFINE Still == UNCHANGED <<num_selects, inverse, selection, intermediates>>
           Later == \A v \in Workers : wpc'[v] = "run" /\ step'[v] = "merge" =>
                      wpc[v] = "run" /\ step[v] = "merge" /\ wtask'[v] = wtask[v]
<1>5. ASSUME ReportsStay, Still, Later PROVE Kept
  BY <1>1, <1>5, SameData
<1>6. ASSUME NEW w \in Workers, Worker(w) PROVE Kept
  <2>1. CASE ScanChunk(w)
    BY <2>1, ScanData
  <2>2. CASE MergeChunk(w)
    BY <2>2, MergeData
  <2>3. CASE ScanLocked(w)
    BY <2>3, LockedScanData
  <2>4. CASE FreeArc(w)
    <3>1. ReportsStay
      BY <1>1, <2>4, FreeKeeps
    <3>2. Still /\ Later
      BY <1>2, <2>4 DEF FreeArc, Goto, pvars
    <3>3. QED
      BY <1>5, <3>1, <3>2
  <2>5. CASE TaskReturn(w)
    <3>1. ReportsStay
      BY <1>1, <2>5, ReturnKeeps
    <3>2. /\ wpc' = [wpc EXCEPT ![w] = "finish"] /\ wtask' = [wtask EXCEPT ![w] = NoTask]
          /\ step' = [step EXCEPT ![w] = "call"]
      BY <2>5 DEF TaskReturn, Pool!WorkerRun, Goto
    <3>3. wtask \in [Workers -> ScanTasks \cup {NoTask}]
      BY <1>1, PoolFacts DEF ScanInv
    <3>4. Later
      BY <1>2, <3>2, <3>3
    <3>5. Still
      BY <2>5 DEF TaskReturn
    <3>6. QED
      BY <1>5, <3>1, <3>4, <3>5
  <2>6. CASE WorkerLoop(w) /\ Pool!WorkerTake(w)
    <3>1. UNCHANGED <<svars, next>>
      BY <2>6 DEF WorkerLoop
    <3>2. ReportsStay
      BY <1>1, <2>6, <3>1, TakeKeeps
    <3>3. /\ wpc[w] = "lock" /\ wpc' = [wpc EXCEPT ![w] = "run"]
          /\ wtask' = [wtask EXCEPT ![w] = Head(queue)]
      BY <2>6 DEF Pool!WorkerTake
    <3>4. step[w] = "call" /\ step' = step
      BY <1>1, <3>1, <3>3 DEF ScanInv, Fresh, svars
    <3>5. wtask \in [Workers -> ScanTasks \cup {NoTask}]
      BY <1>1, PoolFacts DEF ScanInv
    <3>6. Later
      BY <1>2, <3>3, <3>4, <3>5
    <3>7. Still
      BY <3>1 DEF svars
    <3>8. QED
      BY <1>5, <3>2, <3>6, <3>7
  <2>7. CASE WorkerLoop(w) /\ ~Pool!WorkerTake(w)
    <3>1. UNCHANGED <<svars, next>>
      BY <2>7 DEF WorkerLoop
    <3>2. ReportsStay
      BY <1>1, <2>7, <3>1, LoopKeeps
    <3>3. \A v \in Workers : wpc'[v] = "run" => wpc[v] = "run" /\ wtask'[v] = wtask[v]
      BY <1>2, <2>7 DEF WorkerLoop, Pool!WorkerSleep, Pool!WorkerExit, Pool!WorkerFinish
    <3>4. Still /\ step' = step
      BY <3>1 DEF svars
    <3>5. QED
      BY <1>5, <3>2, <3>3, <3>4
  <2>8. QED
    BY <1>6, <2>1, <2>2, <2>3, <2>4, <2>5, <2>6, <2>7 DEF Worker
<1>7. CASE Prepare
  BY <1>7, PrepareData
<1>8. CASE SubmitNext
  <2>1. ReportsStay
    BY <1>1, <1>8, SubmitKeeps
  <2>2. /\ \A w \in Workers : wpc'[w] = "run" => wpc[w] = "run"
        /\ wtask' = wtask /\ UNCHANGED svars
    BY <1>2, <1>8 DEF SubmitNext, Pool!AddTask, Pool!BroadcastWork
  <2>3. Still /\ Later
    BY <2>2 DEF svars
  <2>4. QED
    BY <1>5, <2>1, <2>3
<1>9. CASE \/ StageWait \/ WaitSleep \/ WaitReturn \/ Disconnect
           \/ Spurious /\ Pool!ClientSpuriousWakeup
  <2>1. ReportsStay
    BY <1>1, <1>9, CallKeeps DEF Spurious
  <2>2. /\ \A w \in Workers : wpc'[w] = "run" => wpc[w] = "run"
        /\ wtask' = wtask /\ UNCHANGED svars
    BY <1>2, <1>9 DEF StageWait, WaitSleep, WaitReturn, Disconnect, Spurious, Pool!CallWait,
                      Pool!WaitSleep, Pool!WaitReturn, Pool!DeletePool, Pool!BroadcastWork,
                      Pool!ClientSpuriousWakeup
  <2>3. Still /\ Later
    BY <2>2 DEF svars
  <2>4. QED
    BY <1>5, <2>1, <2>3
<1>10. ASSUME NEW w \in Workers, Spurious, Pool!SpuriousWakeup(w) PROVE Kept
  <2>1. UNCHANGED <<svars, next>> /\ ~Pool!WorkerTake(w)
    BY <1>10 DEF Spurious, Pool!SpuriousWakeup, Pool!WorkerTake
  <2>2. ReportsStay
    BY <1>1, <1>10, <2>1, LoopKeeps
  <2>3. \A v \in Workers : wpc'[v] = "run" => wpc[v] = "run" /\ wtask'[v] = wtask[v]
    BY <1>2, <1>10 DEF Pool!SpuriousWakeup
  <2>4. Still /\ Later
    BY <2>1, <2>3 DEF svars
  <2>5. QED
    BY <1>5, <2>2, <2>4
<1>11. CASE Halted \/ UNCHANGED vars
  <2>1. UNCHANGED <<pvars, svars, next>>
    BY <1>11 DEF Halted, Pool!Halted, Pool!pvars, pvars, vars
  <2>2. UNCHANGED <<queue, wpc, wtask, step, num_selects, inverse, selection, intermediates,
                    next>>
    BY <2>1 DEF pvars, svars
  <2>3. ReportsStay
    BY <2>2 DEF ReportsStay, Unreported, Live, InHand, Index
  <2>4. Still /\ Later
    BY <2>2
  <2>5. QED
    BY <1>5, <2>3, <2>4
<1>12. QED
  BY <1>6, <1>7, <1>8, <1>9, <1>10, <1>11 DEF Next, Server, Spurious

(***************************************************************************)
(* Whatever the interleaving of the tasks, a stage of parallel scans ends  *)
(* with every selection holding every qualifying row once, and in column   *)
(* order where the tasks scan privately: for every column, however it is   *)
(* cut, for any number of selections and workers.                          *)
(***************************************************************************)
THEOREM ScansAreRight == Spec => []ScansAgree
<1>1. Spec => []DataInv
  BY InitData, NextData, PTL DEF Spec
<1>2. DataInv => ScansAgree
  BY DataImplies
<1>3. QED
  BY <1>1, <1>2, PTL
=============================================================================
