-------------------------------- MODULE Kernel --------------------------------
(***************************************************************************)
(* WeensyOS: physical pages, page tables, processes and the system calls.  *)
(*                                                                         *)
(* Virtual pages are numbered in address order: 1..NLow lie below          *)
(* PROC_START_ADDR and are mapped to the frame of the same number in every *)
(* process, the last of them being the console, the only one a program     *)
(* may touch; the others, up to NPages, are a program's, the last of them  *)
(* its stack.  Frames above NLow can be allocated.  Walks[v] are the table *)
(* pages below the root on the way to v, a table's number being lower than *)
(* its descendants'.                                                       *)
(*                                                                         *)
(* The kernel runs with interrupts disabled, so a system call is one       *)
(* handler from beginning to end; its loops are taken one kalloc at a      *)
(* time, "kernel" saying where it stands, and nothing else happens until   *)
(* kernel.at is "user" again.                                              *)
(***************************************************************************)
EXTENDS Integers, FiniteSets

CONSTANTS NProc,    \* NPROC - 1: ptable[0] is never used
          NLow,     \* pages below PROC_START_ADDR, all reserved
          NPages,   \* virtual pages up to MEMSIZE_VIRTUAL
          NFrames,  \* physical pages
          NTables,  \* table pages of a process below its root
          Walks,    \* Walks[v]: the tables on the way to v
          Boot,     \* the processes kernel_start sets up are 1..Boot
          Image,    \* pages of the segments of the program they run
          Heap,     \* pages programs pass to sys_page_alloc
          MaxValue  \* page contents are 0..MaxValue: 0 cleared, 1 the image

Pid == 1..NProc
Pages == 1..NPages
Low == 1..NLow
Console == NLow
User == NLow + 1..NPages
Stack == NPages
Frames == 1..NFrames
Tables == 1..NTables
Values == 0..MaxValue
None == 0            \* no frame, a null pointer, an empty entry
Reserved == 255      \* refcount 0xFF

ASSUME KernelAssumption ==
  /\ NProc \in Nat \ {0} /\ NLow \in Nat \ {0} /\ NTables \in Nat \ {0}
  /\ NPages \in Nat /\ NPages > NLow /\ NFrames \in Nat /\ NFrames > NLow
  /\ MaxValue \in Nat \ {0}
  /\ Boot \in Pid
  /\ Walks \in [Pages -> SUBSET Tables]
  /\ Image \subseteq User /\ Heap \subseteq User

VARIABLES refcount,  \* refcount[f] of physpages
          data,      \* data[f]: what frame f holds, when it is a page of a program
          root,      \* root[p]: the level-4 table of p
          tables,    \* tables[p][t]: the frame of table t of p
          entry,     \* entry[p][v]: the frame v is mapped to
          state,     \* ptable[p].state
          rax,       \* ptable[p].regs.reg_rax
          current,
          kernel     \* what the kernel is doing

memory == <<refcount, data, root, tables, entry>>
vars == <<refcount, data, root, tables, entry, state, rax, current, kernel>>

\* kernel.at: "user" a program runs; "page" at the head of the loop over the
\* pages of process kernel.pid, at page kernel.page; "map" in try_map of that
\* page to kernel.frame; "idle" no program can run; "panic" and "corrupt" the end.
UserMode == [at |-> "user", call |-> "none", pid |-> 1, page |-> 1, frame |-> None]
Stopped(why) == [UserMode EXCEPT !.at = why]

Init ==
  /\ refcount = [f \in Frames |-> IF f \in Low THEN Reserved ELSE 0]
  /\ data = [f \in Frames |-> 0]
  /\ root = [p \in Pid |-> None]
  /\ tables = [p \in Pid |-> [t \in Tables |-> None]]
  /\ entry = [p \in Pid |-> [v \in Pages |-> None]]
  /\ state = [p \in Pid |-> "free"]
  /\ rax = [p \in Pid |-> 0]
  /\ current = 1
  /\ kernel = [at |-> "boot", call |-> "setup", pid |-> 1, page |-> 1, frame |-> None]
-----------------------------------------------------------------------------
FreeFrames == {f \in Frames : refcount[f] = 0}

\* mutants: the page is not counted, or not cleared
Kalloc_Uncounted(f) ==
  /\ f \in FreeFrames
  /\ \A g \in FreeFrames : f <= g
  /\ data' = [data EXCEPT ![f] = 0]
  /\ UNCHANGED refcount
Kalloc_Stale(f) ==
  /\ f \in FreeFrames
  /\ \A g \in FreeFrames : f <= g
  /\ refcount' = [refcount EXCEPT ![f] = 1]
  /\ UNCHANGED data

\* kalloc, and the memset of each of its callers
Kalloc(f) ==
  /\ f \in FreeFrames
  /\ \A g \in FreeFrames : f <= g
  /\ refcount' = [refcount EXCEPT ![f] = 1]
  /\ data' = [data EXCEPT ![f] = 0]

OutOfMemory == FreeFrames = {} /\ UNCHANGED <<refcount, data>>

\* refcounts after kfree of every frame of S
Kfreed(S) == [f \in Frames |-> IF f \in S /\ refcount[f] = 1 THEN 0 ELSE refcount[f]]

\* Is the entry of v in the tables of p one a program may use?
UserEntries(p) == {v \in User \cup {Console} : entry[p][v] # None}

Running == kernel.at = "user" /\ state[current] = "runnable"

\* the process schedule() finds, from the one after c round to c itself
Runnable(st) == {p \in Pid : st[p] = "runnable"}
Distance(c, p) == IF p > c THEN p - c ELSE p + NProc + 1 - c
\* mutants: no wrapping round the table, or always from its beginning
NextAfter_Unwrapped(c, st) == c + 1
NextAfter_First(c, st) == CHOOSE p \in Runnable(st) : \A q \in Runnable(st) : p <= q
NextAfter(c, st) == CHOOSE p \in Runnable(st) : \A q \in Runnable(st) : Distance(c, p) <= Distance(c, q)

Schedule(st) ==
  IF Runnable(st) = {}
  THEN kernel' = Stopped("idle") /\ UNCHANGED current
  ELSE kernel' = UserMode /\ current' = NextAfter(current, st)
-----------------------------------------------------------------------------
\* A new, empty table for process c; without a frame vmiter reads through a null pointer.
NewTable(call, c) ==
  \/ \E f \in Frames :
       /\ Kalloc(f)
       /\ root' = [root EXCEPT ![c] = f]
       /\ tables' = [tables EXCEPT ![c] = [t \in Tables |-> None]]
       /\ entry' = [entry EXCEPT ![c] = [v \in Pages |-> None]]
       /\ kernel' = [at |-> "page", call |-> call, pid |-> c, page |-> 1, frame |-> None]
  \/ /\ OutOfMemory
     /\ root' = [root EXCEPT ![c] = None]
     /\ kernel' = Stopped("panic")
     /\ UNCHANGED <<tables, entry>>

ProcessSetup ==
  /\ kernel.at = "boot"
  /\ NewTable("setup", kernel.pid)
  /\ UNCHANGED <<state, rax, current>>

ForkStart ==
  /\ Running
  /\ \E c \in Pid :
       /\ state[c] = "free"
       /\ \A d \in 1..c - 1 : state[d] # "free"
       /\ NewTable("fork", c)
  /\ UNCHANGED <<state, rax, current>>

\* All slots taken: the loop, bounded by NPAGES, goes on past the end of ptable.
ForkNoSlot ==
  /\ Running
  /\ \A p \in Pid : state[p] # "free"
  /\ \/ rax' = [rax EXCEPT ![current] = -1] /\ UNCHANGED kernel
     \/ kernel' = Stopped("corrupt") /\ UNCHANGED rax
  /\ UNCHANGED <<refcount, data, root, tables, entry, state, current>>

\* The pages of process kernel.pid: those of the image and the stack, or the parent's.
Wanted(v) == IF kernel.call = "setup" THEN v \in Image \cup {Stack} ELSE v \in UserEntries(current)
Source(v) == IF kernel.call = "setup" THEN v ELSE entry[current][v]

\* mutant: fork copies the program's pages only
PageLow_Skips ==
  /\ kernel.at = "page" /\ kernel.page \in Low
  /\ kernel' = [kernel EXCEPT !.page = @ + 1]
  /\ UNCHANGED <<refcount, data, root, tables, entry, state, rax, current>>

PageLow ==
  /\ kernel.at = "page" /\ kernel.page \in Low
  /\ kernel' = [kernel EXCEPT !.at = "map", !.frame = Source(kernel.page)]
  /\ UNCHANGED <<refcount, data, root, tables, entry, state, rax, current>>

PageSkip ==
  /\ kernel.at = "page" /\ kernel.page \in User /\ ~Wanted(kernel.page)
  /\ kernel' = [kernel EXCEPT !.page = @ + 1]
  /\ UNCHANGED <<refcount, data, root, tables, entry, state, rax, current>>

PageNew ==
  /\ kernel.at = "page" /\ kernel.page \in User /\ Wanted(kernel.page)
  /\ \E f \in Frames : Kalloc(f) /\ kernel' = [kernel EXCEPT !.at = "map", !.frame = f]
  /\ UNCHANGED <<root, tables, entry, state, rax, current>>

\* mutants: the pages stay allocated, or the parent's are freed
Abandon_Keeps ==
  \/ kernel.call = "setup" /\ kernel' = Stopped("panic") /\ UNCHANGED <<rax, refcount>>
  \/ kernel.call # "setup" /\ kernel' = UserMode /\ rax' = [rax EXCEPT ![current] = -1] /\ UNCHANGED refcount
Abandon_Parent ==
  /\ kernel' = UserMode
  /\ rax' = [rax EXCEPT ![current] = -1]
  /\ refcount' = Kfreed({entry[current][v] : v \in User})

\* The call gives up.  fork frees what it mapped from the page it failed at down to
\* PROC_START_ADDR, beginning with the failed page, which is not mapped: kfree reads
\* outside physpages, and the kernel faults or goes on.
Abandon ==
  \/ kernel.call = "alloc" /\ kernel' = UserMode /\ rax' = [rax EXCEPT ![current] = -1] /\ UNCHANGED refcount
  \/ kernel.call = "setup" /\ kernel' = Stopped("panic") /\ UNCHANGED <<rax, refcount>>
  \/ kernel.call = "fork" /\ kernel' = Stopped("panic") /\ UNCHANGED <<rax, refcount>>
  \/ /\ kernel.call = "fork" /\ kernel' = UserMode
     /\ rax' = [rax EXCEPT ![current] = -1]
     /\ refcount' = Kfreed({entry[kernel.pid][v] : v \in User})

PageFails ==
  /\ kernel.at = "page" /\ kernel.page \in User /\ Wanted(kernel.page)
  /\ FreeFrames = {}
  /\ Abandon
  /\ UNCHANGED <<data, root, tables, entry, state, current>>
-----------------------------------------------------------------------------
Missing == {t \in Walks[kernel.page] : tables[kernel.pid][t] = None}

MapTable ==
  /\ kernel.at = "map"
  /\ \E t \in Missing, f \in Frames :
       /\ \A u \in Missing : t <= u
       /\ Kalloc(f)
       /\ tables' = [tables EXCEPT ![kernel.pid][t] = f]
  /\ UNCHANGED <<root, entry, state, rax, current, kernel>>

\* The caller does not look at the result below PROC_START_ADDR.
MapFails ==
  /\ kernel.at = "map" /\ Missing # {} /\ FreeFrames = {}
  /\ IF kernel.page \in Low
     THEN /\ kernel' = [kernel EXCEPT !.at = "page", !.page = @ + 1, !.frame = None]
          /\ UNCHANGED <<refcount, rax>>
     ELSE Abandon
  /\ UNCHANGED <<data, root, tables, entry, state, current>>

\* try_map succeeds; fork and process_setup then fill the page.
Filled ==
  CASE kernel.call = "fork" /\ kernel.page \in User -> data[entry[current][kernel.page]]
    [] kernel.call = "setup" /\ kernel.page \in Image -> 1
    [] OTHER -> data[kernel.frame]

MapEntry ==
  /\ kernel.at = "map" /\ Missing = {}
  /\ entry' = [entry EXCEPT ![kernel.pid][kernel.page] = kernel.frame]
  /\ data' = [data EXCEPT ![kernel.frame] = Filled]
  /\ IF kernel.call = "alloc"
     THEN kernel' = UserMode /\ rax' = [rax EXCEPT ![current] = 0]
     ELSE kernel' = [kernel EXCEPT !.at = "page", !.page = @ + 1, !.frame = None] /\ UNCHANGED rax
  /\ UNCHANGED <<refcount, root, tables, state, current>>

SetupDone ==
  /\ kernel.at = "page" /\ kernel.page > NPages /\ kernel.call = "setup"
  /\ state' = [state EXCEPT ![kernel.pid] = "runnable"]
  /\ kernel' = IF kernel.pid < Boot THEN [kernel EXCEPT !.at = "boot", !.pid = @ + 1, !.page = 1]
                                    ELSE UserMode
  /\ UNCHANGED <<refcount, data, root, tables, entry, rax, current>>

ForkDone ==
  /\ kernel.at = "page" /\ kernel.page > NPages /\ kernel.call = "fork"
  /\ state' = [state EXCEPT ![kernel.pid] = "runnable"]
  /\ rax' = [rax EXCEPT ![current] = kernel.pid, ![kernel.pid] = 0]
  /\ kernel' = UserMode
  /\ UNCHANGED <<refcount, data, root, tables, entry, current>>
-----------------------------------------------------------------------------
PageAlloc(v) ==
  /\ Running
  /\ \/ /\ \E f \in Frames :
             /\ Kalloc(f)
             /\ kernel' = [at |-> "map", call |-> "alloc", pid |-> current, page |-> v, frame |-> f]
        /\ UNCHANGED rax
     \/ /\ OutOfMemory
        /\ rax' = [rax EXCEPT ![current] = -1]
        /\ UNCHANGED kernel
  /\ UNCHANGED <<root, tables, entry, state, current>>

GetPid ==
  /\ Running
  /\ rax' = [rax EXCEPT ![current] = current]
  /\ UNCHANGED <<refcount, data, root, tables, entry, state, current, kernel>>

Yield ==
  /\ Running
  /\ rax' = [rax EXCEPT ![current] = 0]
  /\ Schedule(state)
  /\ UNCHANGED <<refcount, data, root, tables, entry, state>>

Timer ==
  /\ Running
  /\ Schedule(state)
  /\ UNCHANGED <<refcount, data, root, tables, entry, state, rax>>

\* mutant: the loop stops short of the stack page
Exit_StopsShort ==
  /\ Running
  /\ state' = [state EXCEPT ![current] = "free"]
  /\ refcount' = Kfreed({entry[current][v] : v \in UserEntries(current) \ {Stack}})
  /\ Schedule(state')
  /\ UNCHANGED <<data, root, tables, entry, rax>>

\* The dead process's tables stay allocated; its entries are not cleared.
Exit ==
  /\ Running
  /\ state' = [state EXCEPT ![current] = "free"]
  /\ refcount' = Kfreed({entry[current][v] : v \in UserEntries(current)})
  /\ Schedule(state')
  /\ UNCHANGED <<data, root, tables, entry, rax>>

Store(v, x) ==
  /\ Running
  /\ v \in UserEntries(current)
  /\ data' = [data EXCEPT ![entry[current][v]] = x]
  /\ UNCHANGED <<refcount, root, tables, entry, state, rax, current, kernel>>

PageFault ==
  /\ Running
  /\ state' = [state EXCEPT ![current] = "faulted"]
  /\ Schedule(state')
  /\ UNCHANGED <<refcount, data, root, tables, entry, rax>>

UserPanic ==
  /\ Running
  /\ kernel' = Stopped("panic")
  /\ UNCHANGED <<refcount, data, root, tables, entry, state, rax, current>>

UserStep ==
  \/ ForkStart \/ ForkNoSlot \/ GetPid \/ Yield \/ Exit \/ PageFault
  \/ \E v \in Heap : PageAlloc(v)
  \/ \E v \in User, x \in Values : Store(v, x)

KernelStep ==
  ProcessSetup \/ PageLow \/ PageSkip \/ PageNew \/ PageFails \/ MapTable \/ MapFails
  \/ MapEntry \/ SetupDone \/ ForkDone

Next == UserStep \/ KernelStep \/ Timer \/ UserPanic

Spec == Init /\ [][Next]_vars

\* The timer interrupts whatever program is running (init_timer), and the kernel's
\* handlers run to their end; nothing obliges a program to make a call.
FairSpec == Spec /\ WF_vars(Timer) /\ WF_vars(KernelStep)
-----------------------------------------------------------------------------
KernelStates == [at : {"boot", "page", "map", "user", "idle", "panic", "corrupt"},
                 call : {"none", "setup", "fork", "alloc"}, pid : Pid,
                 page : 1..NPages + 1, frame : Frames \cup {None}]
TypeOK ==
  /\ refcount \in [Frames -> {0, 1, Reserved}]
  /\ data \in [Frames -> Values]
  /\ root \in [Pid -> Frames \cup {None}]
  /\ tables \in [Pid -> [Tables -> Frames \cup {None}]]
  /\ entry \in [Pid -> [Pages -> Frames \cup {None}]]
  /\ state \in [Pid -> {"free", "runnable", "faulted"}]
  /\ rax \in [Pid -> Pid \cup {-1, 0}]
  /\ current \in Pid
  /\ kernel \in KernelStates

\* Every place that holds a frame: root, table or page of a process that exists or is
\* being built, and the page the kernel is about to map.
Exists(p) == state[p] # "free" \/ (kernel.at \in {"page", "map"} /\ kernel.pid = p)
Slots ==
  {<<p, "root", 0>> : p \in Pid} \cup {<<p, "table", t>> : p \in Pid, t \in Tables}
  \cup {<<p, "page", v>> : p \in Pid, v \in User} \cup {<<1, "pending", 0>>}
Pending == IF kernel.at = "map" /\ kernel.page \in User THEN kernel.frame ELSE None
Holds(s) ==
  IF s[2] = "pending" THEN Pending
  ELSE IF ~Exists(s[1]) THEN None
  ELSE CASE s[2] = "root" -> root[s[1]]
         [] s[2] = "table" -> tables[s[1]][s[3]]
         [] s[2] = "page" -> entry[s[1]][s[3]]
InUse == {s \in Slots : Holds(s) # None}

\* kernel.hh: "since handout processes never share memory", over any sequence of fork,
\* page_alloc, exit, fault and failures half way: one frame is never the page or the
\* table of two owners, nor two things to one of them.
OneOwner == \A s, u \in InUse : Holds(s) = Holds(u) => s = u

\* What an existing process uses is allocated, hence out of kalloc's reach, and the frames
\* of the kernel and the console are never given out or freed, although every exit asks
\* kfree for the console.
UsedIsAllocated ==
  /\ \A s \in InUse : refcount[Holds(s)] = 1
  /\ \A f \in Low : refcount[f] = Reserved

\* What check_pagetable asserts each time a process is run: its table exists and maps the
\* kernel where it is, however short of memory the fork that made it was.
KernelMapped ==
  \A p \in Pid : state[p] = "runnable" => root[p] # None /\ \A v \in Low : entry[p][v] = v

\* A process that exits gives back every page it could use, its stack included, and a fork
\* that runs out of memory and comes back every page it had mapped for the child.
PagesReturned ==
  [][\A p \in Pid :
       \/ state[p] = "runnable" /\ state'[p] = "free"
       \/ kernel.call = "fork" /\ kernel.pid = p /\ kernel'.at = "user" /\ state'[p] # "runnable"
       => \A v \in User : entry[p][v] # None => refcount'[entry[p][v]] = 0]_vars

\* schedule() goes round the table from the current process: with the timer running,
\* nobody who can run waits for ever, whatever the others do.
EveryoneRuns ==
  \A p \in Pid : state[p] = "runnable" ~>
    current = p \/ state[p] # "runnable" \/ kernel.at \in {"panic", "corrupt"}

\* Memory after any history of calls, forks that failed at any page included: isolated between
\* processes, protected from reuse, and with the kernel mapped in whoever may run.
KernelInv == TypeOK /\ OneOwner /\ UsedIsAllocated /\ KernelMapped

\* Programs see the processes of Processes: memory of their own, copied by fork, cleared by
\* page_alloc, and the documented results, though the kernel builds them page by page.
Unmapped == -1
Seen(p) == [v \in User |-> IF state[p] = "runnable" /\ entry[p][v] # None THEN data[entry[p][v]] ELSE Unmapped]
Promised == INSTANCE Processes WITH Pages <- User, space <- [p \in Pid |-> Seen(p)],
                                    live <- Runnable(state), result <- rax
ImplementsProcesses == Promised!ProcessesSpec
=============================================================================
