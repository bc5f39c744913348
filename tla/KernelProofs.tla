---------------------------- MODULE KernelProofs ----------------------------
(***************************************************************************)
(* Memory under the WeensyOS kernel, for every number of processes, pages, *)
(* frames and tables: isolation, protection from reuse, what exit gives    *)
(* back, and the processes of u-lib.hh as what programs see.               *)
(***************************************************************************)
EXTENDS Kernel, WellFoundedInduction, TLAPS

-----------------------------------------------------------------------------
(* The inductive invariant: KernelInv, and what a call that is half way    *)
(* has done so far.                                                        *)
Building == kernel.at \in {"page", "map"}

\* Which call is where, for which process.
CallFits ==
  /\ kernel.call = "none" <=> kernel.at \notin {"boot", "page", "map"}
  /\ kernel.call = "setup" => \A p \in Pid : p >= kernel.pid => state[p] = "free"
  /\ kernel.call = "fork" => Building /\ state[kernel.pid] = "free" /\ state[current] = "runnable"
  /\ kernel.call = "alloc" =>
       /\ kernel.at = "map" /\ kernel.pid = current /\ state[current] = "runnable"
       /\ kernel.page \in User /\ data[kernel.frame] = 0
  /\ kernel.at = "boot" => kernel.call = "setup" /\ kernel.page = 1
  /\ Building => root[kernel.pid] # None
  /\ kernel.at = "map" =>
       kernel.page \in Pages /\ kernel.frame \in Frames /\ (kernel.page \in Low => kernel.frame = kernel.page)

\* How far the loop over the pages of a new process is: the program's pages so far are there
\* exactly where they are wanted, and copied in a fork; the kernel is mapped so far, unless
\* memory ran out on the way, and then no page of the program has been or will be mapped.
LowSoFar == \A v \in Low : v < kernel.page => entry[kernel.pid][v] = v
BuiltSoFar ==
  Building /\ kernel.call # "alloc" =>
    /\ \A v \in User : v < kernel.page => (entry[kernel.pid][v] # None <=> Wanted(v))
    /\ \A v \in Pages : v >= kernel.page => entry[kernel.pid][v] = None
    /\ kernel.at = "map" /\ kernel.page \in User => Wanted(kernel.page)
    /\ \/ LowSoFar
       \/ /\ FreeFrames = {} /\ \A v \in User : entry[kernel.pid][v] = None
          /\ kernel.at = "map" => kernel.page \in Low
    /\ kernel.call = "fork" => \A v \in User : v < kernel.page /\ entry[current][v] # None =>
                                 data[entry[kernel.pid][v]] = data[entry[current][v]]

\* Every process that can run has a stack.
StackMapped == \A p \in Pid : state[p] = "runnable" => entry[p][Stack] # None

IInv == KernelInv /\ CallFits /\ BuiltSoFar /\ StackMapped

-----------------------------------------------------------------------------
(* The constants. *)
LEMMA Layout ==
  /\ Low \subseteq Frames /\ Low \subseteq Pages /\ User \subseteq Pages /\ Pages \subseteq Low \cup User
  /\ \A v \in Low : v \notin User
  /\ Stack \in User /\ Console \in Low /\ Image \subseteq User /\ Heap \subseteq User
  /\ None \notin Frames /\ 1 \in Pid /\ Boot \in Pid /\ 1 \in Pages
  /\ 0 \in Values /\ 1 \in Values
  /\ \A p \in Pid : p \in Nat /\ p <= NProc
  /\ 1 \in 1 .. NPages + 1 /\ Pages \subseteq 1 .. NPages + 1
  /\ \A v \in Pages : v \in Nat /\ v + 1 \in 1 .. NPages + 1
BY KernelAssumption DEF Low, Frames, Pages, User, Stack, Console, None, Pid, Values

LEMMA BelowUser == \A v \in Low, w \in User : v < w
BY KernelAssumption DEF Low, User

\* A set of numbers has a least.
LEMMA Least == \A S \in SUBSET Nat : S # {} => \E n \in S : \A m \in S : n <= m
<1> SUFFICES ASSUME NEW S \in SUBSET Nat, S # {} PROVE \E n \in S : \A m \in S : n <= m
  OBVIOUS
<1>1. PICK R : R = OpToRel(<, Nat)
  OBVIOUS
<1>2. IsWellFoundedOn(R, Nat)
  BY <1>1, NatLessThanWellFounded
<1>3. PICK n \in S : \A m \in S : ~ (<<m, n>> \in R)
  BY <1>2, WFMin
<1>4. \A m, k \in Nat : m < k => <<m, k>> \in R
  BY <1>1 DEF OpToRel
<1>5. \A m \in S : ~ (m < n)
  BY <1>3, <1>4
<1>6. QED
  BY <1>5

\* schedule() finds a process that can run when there is one.
LEMMA NextIsRunnable ==
  ASSUME NEW c \in Pid, NEW st, Runnable(st) # {}
  PROVE  NextAfter(c, st) \in Runnable(st)
<1>1. PICK D : D = {Distance(c, p) : p \in Runnable(st)}
  OBVIOUS
<1>2. \A p \in Runnable(st) : Distance(c, p) \in Nat
  BY Layout, KernelAssumption DEF Runnable, Distance, Pid
<1>3. D \in SUBSET Nat /\ D # {}
  BY <1>1, <1>2
<1>4. PICK n \in D : \A m \in D : n <= m
  BY <1>3, Least
<1>5. PICK p \in Runnable(st) : n = Distance(c, p)
  BY <1>1, <1>4
<1>6. \A q \in Runnable(st) : Distance(c, p) <= Distance(c, q)
  BY <1>1, <1>4, <1>5
<1>7. QED
  BY <1>5, <1>6 DEF NextAfter

-----------------------------------------------------------------------------
(* Who holds which frame: a function of the slots, so that a step is what  *)
(* it does to that function.                                               *)
Held == [s \in Slots |-> Holds(s)]

LEMMA SlotKinds ==
  /\ \A s \in Slots : \/ \E p \in Pid : s = <<p, "root", 0>>
                      \/ \E p \in Pid, t \in Tables : s = <<p, "table", t>>
                      \/ \E p \in Pid, v \in User : s = <<p, "page", v>>
                      \/ s = <<1, "pending", 0>>
  /\ \A p \in Pid : <<p, "root", 0>> \in Slots
  /\ \A p \in Pid, t \in Tables : <<p, "table", t>> \in Slots
  /\ \A p \in Pid, v \in User : <<p, "page", v>> \in Slots
  /\ <<1, "pending", 0>> \in Slots
BY DEF Slots

LEMMA HeldIs ==
  /\ \A p \in Pid : Held[<<p, "root", 0>>] = IF Exists(p) THEN root[p] ELSE None
  /\ \A p \in Pid, t \in Tables : Held[<<p, "table", t>>] = IF Exists(p) THEN tables[p][t] ELSE None
  /\ \A p \in Pid, v \in User : Held[<<p, "page", v>>] = IF Exists(p) THEN entry[p][v] ELSE None
  /\ Held[<<1, "pending", 0>>] = Pending
<1>1. \A s \in Slots : Held[s] = Holds(s)
  BY DEF Held
<1>2. ASSUME NEW p \in Pid PROVE Held[<<p, "root", 0>>] = IF Exists(p) THEN root[p] ELSE None
  <2>1. PICK s \in Slots : s = <<p, "root", 0>>
    BY SlotKinds
  <2>2. s[1] = p /\ s[2] = "root" /\ s[2] # "pending"
    BY <2>1
  <2>3. Holds(s) = IF Exists(p) THEN root[p] ELSE None
    BY <2>2 DEF Holds
  <2>4. QED
    BY <1>1, <2>1, <2>3
<1>3. ASSUME NEW p \in Pid, NEW t \in Tables
      PROVE  Held[<<p, "table", t>>] = IF Exists(p) THEN tables[p][t] ELSE None
  <2>1. PICK s \in Slots : s = <<p, "table", t>>
    BY SlotKinds
  <2>2. s[1] = p /\ s[2] = "table" /\ s[2] # "pending" /\ s[2] # "root" /\ s[3] = t
    BY <2>1
  <2>3. Holds(s) = IF Exists(p) THEN tables[p][t] ELSE None
    BY <2>2 DEF Holds
  <2>4. QED
    BY <1>1, <2>1, <2>3
<1>4. ASSUME NEW p \in Pid, NEW v \in User
      PROVE  Held[<<p, "page", v>>] = IF Exists(p) THEN entry[p][v] ELSE None
  BY <1>1, SlotKinds DEF Holds
<1>5. Held[<<1, "pending", 0>>] = Pending
  <2>1. PICK s \in Slots : s = <<1, "pending", 0>>
    BY SlotKinds
  <2>2. s[2] = "pending"
    BY <2>1
  <2>3. Holds(s) = Pending
    BY <2>2 DEF Holds, Pending
  <2>4. QED
    BY <1>1, <2>1, <2>3
<1>6. QED
  BY <1>2, <1>3, <1>4, <1>5

LEMMA HeldNext ==
  (/\ \A p \in Pid : Held[<<p, "root", 0>>] = IF Exists(p) THEN root[p] ELSE None
   /\ \A p \in Pid, t \in Tables : Held[<<p, "table", t>>] = IF Exists(p) THEN tables[p][t] ELSE None
   /\ \A p \in Pid, v \in User : Held[<<p, "page", v>>] = IF Exists(p) THEN entry[p][v] ELSE None
   /\ Held[<<1, "pending", 0>>] = Pending)'
BY HeldIs, PTL

\* h says who holds what, r how often each frame is counted.
Separate(h, r) ==
  /\ \A s, u \in Slots : h[s] # None /\ h[s] = h[u] => s = u
  /\ \A s \in Slots : h[s] # None => r[h[s]] = 1

LEMMA Owners ==
  OneOwner /\ UsedIsAllocated <=> Separate(Held, refcount) /\ \A f \in Low : refcount[f] = Reserved
<1>1. \A s \in Slots : Held[s] = Holds(s)
  BY DEF Held
<1>2. \A s \in Slots : s \in InUse <=> Held[s] # None
  BY <1>1 DEF InUse
<1>3. InUse \subseteq Slots
  BY DEF InUse
<1>4. OneOwner <=> \A s, u \in Slots : Held[s] # None /\ Held[s] = Held[u] => s = u
  BY <1>1, <1>2, <1>3 DEF OneOwner
<1>5. (\A s \in InUse : refcount[Holds(s)] = 1) <=> \A s \in Slots : Held[s] # None => refcount[Held[s]] = 1
  BY <1>1, <1>2, <1>3
<1>6. QED
  BY <1>4, <1>5 DEF UsedIsAllocated, Separate

LEMMA OwnersNext ==
  (OneOwner /\ UsedIsAllocated <=> Separate(Held, refcount) /\ \A f \in Low : refcount[f] = Reserved)'
BY Owners, PTL

\* Nobody takes a frame, and what is still held is still counted.
LEMMA Keeps ==
  ASSUME NEW h, NEW r, NEW g, NEW q, Separate(h, r),
         \A s \in Slots : g[s] \in {None, h[s]},
         \A s \in Slots : g[s] # None => q[h[s]] = r[h[s]]
  PROVE  Separate(g, q)
BY DEF Separate

\* One slot takes a frame that was free.
LEMMA Gains ==
  ASSUME NEW h, NEW r, NEW g, NEW q, Separate(h, r), NEW x \in Slots, NEW f,
         r[f] = 0, q[f] = 1, g[x] = f,
         \A s \in Slots : s # x => g[s] \in {None, h[s]},
         \A s \in Slots : h[s] # None /\ h[s] # f => q[h[s]] = r[h[s]]
  PROVE  Separate(g, q)
<1>1. \A s \in Slots : h[s] # None => h[s] # f
  BY DEF Separate
<1>2. QED
  BY <1>1 DEF Separate

\* One slot takes the frame of another.
LEMMA Moves ==
  ASSUME NEW h, NEW r, NEW g, Separate(h, r), NEW x \in Slots, NEW y \in Slots, x # y,
         g[x] = h[y], g[y] = None,
         \A s \in Slots : s # x => g[s] \in {None, h[s]}
  PROVE  Separate(g, r)
BY DEF Separate

-----------------------------------------------------------------------------
(* Steps in which no process takes a frame.                                *)
LEMMA SameSlots ==
  ASSUME \A p \in Pid : Exists(p)' => /\ Exists(p) /\ root'[p] = root[p] /\ tables'[p] = tables[p]
                                     /\ \A v \in User : entry'[p][v] = entry[p][v]
  PROVE  \A s \in Slots : s # <<1, "pending", 0>> => Held'[s] \in {None, Held[s]}
<1> SUFFICES ASSUME NEW s \in Slots, s # <<1, "pending", 0>> PROVE Held'[s] \in {None, Held[s]}
  OBVIOUS
<1>1. CASE \E p \in Pid : s = <<p, "root", 0>>
  BY <1>1, HeldIs, HeldNext
<1>2. CASE \E p \in Pid, t \in Tables : s = <<p, "table", t>>
  <2>1. PICK p \in Pid, t \in Tables : s = <<p, "table", t>>
    BY <1>2
  <2>2. Held[s] = IF Exists(p) THEN tables[p][t] ELSE None
    BY <2>1, HeldIs
  <2>3. Held'[s] = IF Exists(p)' THEN tables'[p][t] ELSE None
    BY <2>1, HeldNext
  <2>4. QED
    BY <2>2, <2>3
<1>3. CASE \E p \in Pid, v \in User : s = <<p, "page", v>>
  <2>1. PICK p \in Pid, v \in User : s = <<p, "page", v>>
    BY <1>3
  <2>2. Held[s] = IF Exists(p) THEN entry[p][v] ELSE None
    BY <2>1, HeldIs
  <2>3. Held'[s] = IF Exists(p)' THEN entry'[p][v] ELSE None
    BY <2>1, HeldNext
  <2>4. QED
    BY <2>2, <2>3
<1>4. QED
  BY <1>1, <1>2, <1>3, SlotKinds

LEMMA QuietSlots ==
  ASSUME \A p \in Pid : Exists(p)' => /\ Exists(p) /\ root'[p] = root[p] /\ tables'[p] = tables[p]
                                     /\ \A v \in User : entry'[p][v] = entry[p][v],
         Pending' \in {None, Pending}
  PROVE  \A s \in Slots : Held'[s] \in {None, Held[s]}
<1>1. Held'[<<1, "pending", 0>>] \in {None, Held[<<1, "pending", 0>>]}
  BY HeldIs, HeldNext
<1>2. QED
  BY <1>1, SameSlots

LEMMA Quiet ==
  ASSUME OneOwner, UsedIsAllocated,
         \A p \in Pid : Exists(p)' => /\ Exists(p) /\ root'[p] = root[p] /\ tables'[p] = tables[p]
                                     /\ \A v \in User : entry'[p][v] = entry[p][v],
         Pending' \in {None, Pending},
         UNCHANGED refcount
  PROVE  OneOwner' /\ UsedIsAllocated'
<1>1. Separate(Held, refcount) /\ \A f \in Low : refcount[f] = Reserved
  BY Owners
<1>2. \A s \in Slots : Held'[s] \in {None, Held[s]}
  BY QuietSlots
<1>3. Separate(Held', refcount')
  BY <1>1, <1>2, Keeps
<1>4. QED
  BY <1>1, <1>3, OwnersNext

\* Between calls nothing is half done.
LEMMA Rests ==
  ASSUME kernel'.at \notin {"boot", "page", "map"}, kernel'.call = "none"
  PROVE  CallFits' /\ BuiltSoFar'
BY DEF CallFits, BuiltSoFar, Building

\* A process that can run after a step could before it, with the same tables.
LEMMA SameRunners ==
  ASSUME KernelMapped, StackMapped, UNCHANGED <<root, entry>>,
         \A p \in Pid : state'[p] = "runnable" => state[p] = "runnable"
  PROVE  KernelMapped' /\ StackMapped'
BY DEF KernelMapped, StackMapped

LEMMA Resting ==
  ASSUME Running, IInv
  PROVE  /\ current \in Pid /\ state[current] = "runnable" /\ kernel.call = "none"
         /\ kernel.at = "user" /\ \A p \in Pid : Exists(p) <=> state[p] # "free"
         /\ Pending = None
BY DEF Running, IInv, KernelInv, TypeOK, CallFits, Exists, Pending

LEMMA ScheduleTypes ==
  ASSUME NEW st \in [Pid -> {"free", "runnable", "faulted"}], current \in Pid, Schedule(st)
  PROVE  /\ current' \in Pid /\ kernel' \in {UserMode, Stopped("idle")}
         /\ kernel'.at = "user" => st[current'] = "runnable"
<1>1. CASE Runnable(st) = {}
  BY <1>1 DEF Schedule, Stopped, UserMode
<1>2. CASE Runnable(st) # {}
  BY <1>2, NextIsRunnable DEF Schedule, Runnable
<1>3. QED
  BY <1>1, <1>2

LEMMA RestTypes ==
  /\ \A why \in {"idle", "panic", "corrupt"} :
       /\ Stopped(why).at = why /\ Stopped(why).call = "none"
       /\ Stopped(why) \in KernelStates
  /\ UserMode.at = "user" /\ UserMode.call = "none"
  /\ UserMode \in KernelStates
<1>1. UserMode \in KernelStates /\ UserMode.at = "user" /\ UserMode.call = "none"
  BY Layout DEF UserMode, KernelStates
<1>2. ASSUME NEW why \in {"idle", "panic", "corrupt"}
      PROVE  /\ Stopped(why) \in KernelStates
             /\ Stopped(why).at = why /\ Stopped(why).call = "none"
  <2>1. Stopped(why) = [at |-> why, call |-> "none", pid |-> 1, page |-> 1, frame |-> None]
    BY DEF Stopped, UserMode
  <2>2. QED
    BY <2>1, Layout DEF KernelStates
<1>3. QED
  BY <1>1, <1>2

\* getpid, yield, the timer, a page fault, a panic of the program, a fork without a slot.
LEMMA CallStep ==
  ASSUME IInv, ForkNoSlot \/ GetPid \/ Yield \/ Timer \/ PageFault \/ UserPanic
  PROVE  IInv'
<1>1. /\ current \in Pid /\ state[current] = "runnable" /\ kernel.call = "none" /\ kernel.at = "user"
      /\ \A p \in Pid : Exists(p) <=> state[p] # "free"
      /\ Pending = None
  BY Resting DEF ForkNoSlot, GetPid, Yield, Timer, PageFault, UserPanic
<1>2. TypeOK /\ OneOwner /\ UsedIsAllocated /\ KernelMapped /\ StackMapped
  BY DEF IInv, KernelInv
<1>3. UNCHANGED <<refcount, data, root, tables, entry>>
  BY DEF ForkNoSlot, GetPid, Yield, Timer, PageFault, UserPanic
<1>4. state' = state \/ state' = [state EXCEPT ![current] = "faulted"]
  BY DEF ForkNoSlot, GetPid, Yield, Timer, PageFault, UserPanic
<1>5. state' \in [Pid -> {"free", "runnable", "faulted"}]
  BY <1>1, <1>2, <1>4 DEF TypeOK
<1>6. rax' \in [Pid -> Pid \cup {-1, 0}]
  <2>1. \/ rax' = rax \/ rax' = [rax EXCEPT ![current] = -1]
        \/ rax' = [rax EXCEPT ![current] = current] \/ rax' = [rax EXCEPT ![current] = 0]
    BY DEF ForkNoSlot, GetPid, Yield, Timer, PageFault, UserPanic
  <2>2. rax \in [Pid -> Pid \cup {-1, 0}]
    BY <1>2 DEF TypeOK
  <2>3. QED
    BY <1>1, <2>1, <2>2
<1>7. current' \in Pid /\ (kernel' = kernel \/ kernel' = UserMode \/ \E why \in {"idle", "panic", "corrupt"} : kernel' = Stopped(why))
  <2>1. CASE Yield \/ Timer
    BY <1>1, <1>2, <2>1, ScheduleTypes DEF Yield, Timer, TypeOK
  <2>2. CASE PageFault
    BY <1>1, <1>5, <2>2, ScheduleTypes DEF PageFault
  <2>3. CASE ForkNoSlot \/ GetPid \/ UserPanic
    BY <1>1, <2>3 DEF ForkNoSlot, GetPid, UserPanic
  <2>4. QED
    BY <2>1, <2>2, <2>3
<1>8. /\ kernel' \in KernelStates
      /\ kernel'.at \notin {"boot", "page", "map"} /\ kernel'.call = "none"
  BY <1>1, <1>2, <1>7, RestTypes DEF TypeOK
<1>9. TypeOK'
  BY <1>2, <1>3, <1>5, <1>6, <1>7, <1>8 DEF TypeOK
<1>10. OneOwner' /\ UsedIsAllocated'
  <2>1. \A p \in Pid : Exists(p)' => Exists(p)
    BY <1>1, <1>2, <1>4, <1>8 DEF Exists, TypeOK
  <2>2. Pending' = None
    BY <1>8 DEF Pending
  <2>3. QED
    BY <1>2, <1>3, <2>1, <2>2, Quiet
<1>11. KernelMapped' /\ StackMapped'
  <2>1. \A p \in Pid : state'[p] = "runnable" => state[p] = "runnable"
    BY <1>1, <1>2, <1>4 DEF TypeOK
  <2>2. QED
    BY <1>2, <1>3, <2>1, SameRunners
<1>12. CallFits' /\ BuiltSoFar'
  BY <1>8, Rests
<1>13. QED
  BY <1>9, <1>10, <1>11, <1>12 DEF IInv, KernelInv

LEMMA HeldSome == TypeOK => \A s \in Slots : Held[s] # None => Held[s] \in Frames
<1> SUFFICES ASSUME TypeOK, NEW s \in Slots, Held[s] # None PROVE Held[s] \in Frames
  OBVIOUS
<1>1. CASE \E p \in Pid : s = <<p, "root", 0>>
  BY <1>1, HeldIs DEF TypeOK
<1>2. CASE \E p \in Pid, t \in Tables : s = <<p, "table", t>>
  <2>1. PICK p \in Pid, t \in Tables : s = <<p, "table", t>>
    BY <1>2
  <2>2. Held[s] = tables[p][t]
    BY <2>1, HeldIs
  <2>3. QED
    BY <2>2 DEF TypeOK
<1>3. CASE \E p \in Pid, v \in User : s = <<p, "page", v>>
  <2>1. PICK p \in Pid, v \in User : s = <<p, "page", v>>
    BY <1>3
  <2>2. Held[s] = entry[p][v]
    BY <2>1, HeldIs
  <2>3. QED
    BY <2>2, Layout DEF TypeOK
<1>4. CASE s = <<1, "pending", 0>>
  BY <1>4, HeldIs DEF TypeOK, Pending, KernelStates
<1>5. QED
  BY <1>1, <1>2, <1>3, <1>4, SlotKinds

\* What a set of frames loses by kfree: only those of it that were counted once.
LEMMA Freed ==
  ASSUME NEW S, refcount \in [Frames -> {0, 1, Reserved}]
  PROVE  /\ Kfreed(S) \in [Frames -> {0, 1, Reserved}]
         /\ \A f \in Frames : refcount[f] = Reserved => Kfreed(S)[f] = Reserved
         /\ \A f \in Frames : f \notin S => Kfreed(S)[f] = refcount[f]
         /\ \A f \in S \cap Frames : refcount[f] = 1 => Kfreed(S)[f] = 0
<1>1. Reserved # 1 /\ Reserved # 0
  BY DEF Reserved
<1>2. QED
  BY <1>1 DEF Kfreed

\* The process p goes and the frames S that only it held are freed.
LEMMA Returns ==
  ASSUME OneOwner, UsedIsAllocated, TypeOK, NEW p \in Pid, ~Exists(p)', NEW S,
         \A f \in S : \/ refcount[f] = Reserved \/ f = None
                      \/ \E v \in User : Exists(p) /\ entry[p][v] = f,
         UNCHANGED <<root, tables, entry>>,
         \A q \in Pid : Exists(q)' => Exists(q),
         Pending' = None,
         refcount' = Kfreed(S)
  PROVE  OneOwner' /\ UsedIsAllocated'
<1>1. Separate(Held, refcount) /\ \A f \in Low : refcount[f] = Reserved
  BY Owners
<1>2. \A s \in Slots : Held'[s] \in {None, Held[s]}
  BY QuietSlots
<1>3. ASSUME NEW s \in Slots, Held'[s] # None PROVE refcount'[Held[s]] = refcount[Held[s]]
  <2>1. Held[s] # None /\ refcount[Held[s]] = 1
    BY <1>1, <1>2, <1>3 DEF Separate
  <2>2. \A v \in User : s # <<p, "page", v>>
    BY <1>3, HeldNext
  <2>3. \A v \in User : Exists(p) /\ entry[p][v] = Held[s] => FALSE
    <3> SUFFICES ASSUME NEW v \in User, Exists(p), entry[p][v] = Held[s] PROVE FALSE
      OBVIOUS
    <3>1. PICK u \in Slots : u = <<p, "page", v>>
      BY SlotKinds
    <3>2. Held[u] = Held[s]
      BY <3>1, HeldIs
    <3>3. u = s
      BY <1>1, <2>1, <3>2 DEF Separate
    <3>4. QED
      BY <2>2, <3>1, <3>3
  <2>4. refcount[Held[s]] # Reserved
    BY <2>1 DEF Reserved
  <2>5. Held[s] \notin S
    BY <2>1, <2>3, <2>4
  <2>6. Held[s] \in Frames
    BY <2>1, HeldSome
  <2>7. QED
    BY <2>5, <2>6, Freed DEF TypeOK
<1>4. Separate(Held', refcount')
  BY <1>1, <1>2, <1>3, Keeps
<1>5. \A f \in Low : refcount'[f] = Reserved
  BY <1>1, Freed, Layout DEF TypeOK
<1>6. QED
  BY <1>4, <1>5, OwnersNext

LEMMA ExitStep ==
  ASSUME IInv, Exit
  PROVE  IInv'
<1>1. /\ current \in Pid /\ state[current] = "runnable" /\ kernel.call = "none" /\ kernel.at = "user"
      /\ \A p \in Pid : Exists(p) <=> state[p] # "free"
      /\ Pending = None
  BY Resting DEF Exit
<1>2. TypeOK /\ OneOwner /\ UsedIsAllocated /\ KernelMapped /\ StackMapped
  BY DEF IInv, KernelInv
<1>3. UNCHANGED <<data, root, tables, entry, rax>> /\ state' = [state EXCEPT ![current] = "free"]
  BY DEF Exit
<1>4. /\ state' \in [Pid -> {"free", "runnable", "faulted"}] /\ state'[current] = "free"
      /\ \A p \in Pid : p # current => state'[p] = state[p]
  BY <1>1, <1>2, <1>3 DEF TypeOK
<1>5. current' \in Pid /\ kernel' \in {UserMode, Stopped("idle")}
  BY <1>1, <1>4, ScheduleTypes DEF Exit
<1>6. kernel' \in KernelStates /\ kernel'.at \notin {"boot", "page", "map"} /\ kernel'.call = "none"
  BY <1>5, RestTypes
<1>7. PICK S : S = {entry[current][v] : v \in UserEntries(current)}
  OBVIOUS
<1>8. refcount' = Kfreed(S)
  BY <1>7 DEF Exit
<1>9. TypeOK'
  <2>1. refcount' \in [Frames -> {0, 1, Reserved}]
    BY <1>2, <1>8, Freed DEF TypeOK
  <2>2. QED
    BY <1>2, <1>3, <1>4, <1>5, <1>6, <2>1 DEF TypeOK
<1>10. OneOwner' /\ UsedIsAllocated'
  <2>1. \A p \in Pid : Exists(p)' => Exists(p)
    BY <1>1, <1>4, <1>6 DEF Exists
  <2>2. PICK c \in Pid : c = current
    BY <1>1
  <2>3. ~Exists(c)' /\ Exists(c)
    BY <1>1, <1>4, <1>6, <2>2 DEF Exists
  <2>4. Pending' = None
    BY <1>6 DEF Pending
  <2>5. ASSUME NEW f \in S
        PROVE  \/ refcount[f] = Reserved \/ f = None
               \/ \E v \in User : Exists(c) /\ entry[c][v] = f
    <3>1. PICK v \in User \cup {Console} : f = entry[c][v]
      BY <1>7, <2>2 DEF UserEntries
    <3>2. CASE v \in User
      BY <2>3, <3>1, <3>2
    <3>3. CASE v = Console
      BY <1>1, <1>2, <2>2, <3>1, <3>3, Layout DEF KernelMapped, UsedIsAllocated
    <3>4. QED
      BY <3>1, <3>2, <3>3
  <2>6. QED
    BY <1>2, <1>3, <1>8, <2>1, <2>3, <2>4, <2>5, Returns
<1>11. KernelMapped' /\ StackMapped'
  <2>1. \A p \in Pid : state'[p] = "runnable" => state[p] = "runnable"
    BY <1>1, <1>4
  <2>2. QED
    BY <1>2, <1>3, <2>1, SameRunners
<1>12. CallFits' /\ BuiltSoFar'
  BY <1>6, Rests
<1>13. QED
  BY <1>9, <1>10, <1>11, <1>12 DEF IInv, KernelInv

-----------------------------------------------------------------------------
(* Steps that allocate a page.                                             *)
LEMMA KallocIs ==
  ASSUME TypeOK, NEW f \in Frames, Kalloc(f)
  PROVE  /\ refcount[f] = 0 /\ refcount'[f] = 1
         /\ refcount' \in [Frames -> {0, 1, Reserved}]
         /\ \A g \in Frames : g # f => refcount'[g] = refcount[g]
         /\ data' \in [Frames -> Values] /\ data'[f] = 0
         /\ \A g \in Frames : g # f => data'[g] = data[g]
BY Layout DEF TypeOK, Kalloc, FreeFrames

LEMMA Takes ==
  ASSUME TypeOK, OneOwner, UsedIsAllocated, NEW f \in Frames, Kalloc(f), NEW x \in Slots,
         Held'[x] = f, \A s \in Slots : s # x => Held'[s] \in {None, Held[s]}
  PROVE  OneOwner' /\ UsedIsAllocated'
<1>1. Separate(Held, refcount) /\ \A g \in Low : refcount[g] = Reserved
  BY Owners
<1>2. \A s \in Slots : Held[s] # None => Held[s] \in Frames
  BY HeldSome
<1>3. /\ refcount[f] = 0 /\ refcount'[f] = 1
      /\ \A g \in Frames : g # f => refcount'[g] = refcount[g]
  BY KallocIs
<1>4. \A s \in Slots : Held[s] # None /\ Held[s] # f => refcount'[Held[s]] = refcount[Held[s]]
  BY <1>2, <1>3
<1>5. Separate(Held', refcount')
  BY <1>1, <1>3, <1>4, Gains
<1>6. \A g \in Low : refcount'[g] = Reserved
  BY <1>1, <1>3, Layout DEF Reserved
<1>7. QED
  BY <1>5, <1>6, OwnersNext

\* A table for a process that does not exist, or the panic of vmiter.
LEMMA TableStep ==
  ASSUME IInv, NEW call \in {"setup", "fork"}, NEW c \in Pid, NewTable(call, c),
         state[c] = "free", ~Building, UNCHANGED <<state, rax, current>>,
         call = "setup" => \A p \in Pid : p >= c => state[p] = "free",
         call = "fork" => state[current] = "runnable"
  PROVE  IInv'
<1>1. TypeOK /\ OneOwner /\ UsedIsAllocated /\ KernelMapped /\ StackMapped
  BY DEF IInv, KernelInv
<1>2. ~Exists(c) /\ \A p \in Pid : Exists(p) <=> state[p] # "free"
  BY DEF Exists, Building
<1>3. \A p \in Pid : state'[p] = "runnable" => state[p] = "runnable" /\ p # c
  OBVIOUS
<1>4. CASE OutOfMemory /\ root' = [root EXCEPT ![c] = None] /\ kernel' = Stopped("panic")
           /\ UNCHANGED <<tables, entry>>
  <2>1. UNCHANGED <<refcount, data>>
    BY <1>4 DEF OutOfMemory
  <2>2. kernel' \in KernelStates /\ kernel'.at = "panic" /\ kernel'.call = "none"
    BY <1>4, RestTypes
  <2>3. root' \in [Pid -> Frames \cup {None}] /\ \A p \in Pid : p # c => root'[p] = root[p]
    BY <1>1, <1>4 DEF TypeOK
  <2>4. TypeOK'
    BY <1>1, <1>4, <2>1, <2>2, <2>3 DEF TypeOK
  <2>5. \A p \in Pid : Exists(p)' => Exists(p) /\ p # c
    BY <1>2, <2>2 DEF Exists
  <2>6. Pending' = None
    BY <2>2 DEF Pending
  <2>7. OneOwner' /\ UsedIsAllocated'
    BY <1>1, <1>4, <2>1, <2>3, <2>5, <2>6, Quiet
  <2>8. KernelMapped' /\ StackMapped'
    BY <1>1, <1>3, <1>4, <2>3 DEF KernelMapped, StackMapped
  <2>9. CallFits' /\ BuiltSoFar'
    BY <2>2, Rests
  <2>10. QED
    BY <2>4, <2>7, <2>8, <2>9 DEF IInv, KernelInv
<1>5. ASSUME NEW f \in Frames, Kalloc(f), root' = [root EXCEPT ![c] = f],
             tables' = [tables EXCEPT ![c] = [t \in Tables |-> None]],
             entry' = [entry EXCEPT ![c] = [v \in Pages |-> None]],
             kernel' = [at |-> "page", call |-> call, pid |-> c, page |-> 1, frame |-> None]
      PROVE  IInv'
  <2>1. kernel' \in KernelStates
    BY <1>5, Layout DEF KernelStates
  <2>2. kernel'.at = "page" /\ kernel'.call = call /\ kernel'.pid = c /\ kernel'.page = 1
    BY <1>5
  <2>3. /\ root' \in [Pid -> Frames \cup {None}] /\ root'[c] = f
        /\ \A p \in Pid : p # c => root'[p] = root[p]
    BY <1>1, <1>5 DEF TypeOK
  <2>4. /\ tables' \in [Pid -> [Tables -> Frames \cup {None}]] /\ \A t \in Tables : tables'[c][t] = None
        /\ \A p \in Pid : p # c => tables'[p] = tables[p]
    BY <1>1, <1>5 DEF TypeOK
  <2>5. /\ entry' \in [Pid -> [Pages -> Frames \cup {None}]] /\ \A v \in Pages : entry'[c][v] = None
        /\ \A p \in Pid : p # c => entry'[p] = entry[p]
    BY <1>1, <1>5 DEF TypeOK
  <2>6. TypeOK'
    BY <1>1, <1>5, <2>1, <2>3, <2>4, <2>5, KallocIs DEF TypeOK
  <2>7. \A p \in Pid : Exists(p)' <=> Exists(p) \/ p = c
    BY <1>2, <2>2 DEF Exists
  <2>8. Pending' = None
    BY <2>2 DEF Pending
  <2>9. Held'[<<c, "root", 0>>] = f
    BY <2>3, <2>7, HeldNext
  <2>10. ASSUME NEW s \in Slots, s # <<c, "root", 0>> PROVE Held'[s] \in {None, Held[s]}
    <3>1. CASE \E p \in Pid : s = <<p, "root", 0>>
      BY <2>3, <2>7, <2>10, <3>1, HeldIs, HeldNext
    <3>2. CASE \E p \in Pid, t \in Tables : s = <<p, "table", t>>
      <4>1. PICK p \in Pid, t \in Tables : s = <<p, "table", t>>
        BY <3>2
      <4>2. Held[s] = IF Exists(p) THEN tables[p][t] ELSE None
        BY <4>1, HeldIs
      <4>3. Held'[s] = IF Exists(p)' THEN tables'[p][t] ELSE None
        BY <4>1, HeldNext
      <4>4. QED
        BY <2>4, <2>7, <4>2, <4>3
    <3>3. CASE \E p \in Pid, v \in User : s = <<p, "page", v>>
      <4>1. PICK p \in Pid, v \in User : s = <<p, "page", v>>
        BY <3>3
      <4>2. Held[s] = IF Exists(p) THEN entry[p][v] ELSE None
        BY <4>1, HeldIs
      <4>3. Held'[s] = IF Exists(p)' THEN entry'[p][v] ELSE None
        BY <4>1, HeldNext
      <4>4. QED
        BY <2>5, <2>7, <4>1, <4>2, <4>3, Layout
    <3>4. CASE s = <<1, "pending", 0>>
      BY <2>8, <3>4, HeldNext
    <3>5. QED
      BY <3>1, <3>2, <3>3, <3>4, SlotKinds
  <2>11. OneOwner' /\ UsedIsAllocated'
    BY <1>1, <1>5, <2>9, <2>10, SlotKinds, Takes
  <2>12. KernelMapped' /\ StackMapped'
    BY <1>1, <1>3, <2>3, <2>5 DEF KernelMapped, StackMapped
  <2>13. CallFits'
    BY <2>2, <2>3, Layout DEF CallFits, Building
  <2>14. BuiltSoFar'
    <3>1. \A v \in Low : ~ (v < kernel'.page)
      BY <2>2, Layout
    <3>2. \A v \in User : ~ (v < kernel'.page)
      BY <2>2, Layout DEF Pages
    <3>3. LowSoFar'
      BY <3>1 DEF LowSoFar
    <3>4. QED
      BY <2>2, <2>5, <3>2, <3>3 DEF BuiltSoFar
  <2>15. QED
    BY <2>6, <2>11, <2>12, <2>13, <2>14 DEF IInv, KernelInv
<1>6. QED
  BY <1>4, <1>5 DEF NewTable

LEMMA SetupStep ==
  ASSUME IInv, ProcessSetup
  PROVE  IInv'
<1>1. kernel.pid \in Pid
  BY DEF IInv, KernelInv, TypeOK, KernelStates
<1>2. PICK c \in Pid : c = kernel.pid
  BY <1>1
<1>3. \A p \in Pid : p >= c => state[p] = "free"
  BY <1>2 DEF IInv, CallFits, ProcessSetup
<1>4. state[c] = "free"
  BY <1>3, Layout
<1>5. NewTable("setup", c) /\ UNCHANGED <<state, rax, current>>
  BY <1>2 DEF ProcessSetup
<1>6. ~Building
  BY DEF ProcessSetup, Building
<1>7. QED
  BY <1>3, <1>4, <1>5, <1>6, TableStep

LEMMA ForkStep ==
  ASSUME IInv, ForkStart
  PROVE  IInv'
<1>1. state[current] = "runnable" /\ ~Building
  BY Resting DEF ForkStart, Building
<1>2. PICK c \in Pid : state[c] = "free" /\ NewTable("fork", c)
  BY DEF ForkStart
<1>3. UNCHANGED <<state, rax, current>>
  BY DEF ForkStart
<1>4. QED
  BY <1>1, <1>2, <1>3, TableStep

LEMMA AllocStep ==
  ASSUME IInv, NEW w \in Heap, PageAlloc(w)
  PROVE  IInv'
<1>1. /\ current \in Pid /\ state[current] = "runnable" /\ kernel.call = "none" /\ kernel.at = "user"
      /\ \A p \in Pid : Exists(p) <=> state[p] # "free"
      /\ Pending = None
  BY Resting DEF PageAlloc
<1>2. TypeOK /\ OneOwner /\ UsedIsAllocated /\ KernelMapped /\ StackMapped
  BY DEF IInv, KernelInv
<1>3. UNCHANGED <<root, tables, entry, state, current>>
  BY DEF PageAlloc
<1>4. KernelMapped' /\ StackMapped'
  BY <1>2, <1>3, SameRunners
<1>5. CASE OutOfMemory /\ rax' = [rax EXCEPT ![current] = -1] /\ UNCHANGED kernel
  <2>1. UNCHANGED <<refcount, data>>
    BY <1>5 DEF OutOfMemory
  <2>2. TypeOK'
    BY <1>1, <1>2, <1>3, <1>5, <2>1 DEF TypeOK
  <2>3. OneOwner' /\ UsedIsAllocated'
    <3>1. \A p \in Pid : Exists(p)' => Exists(p)
      BY <1>3, <1>5 DEF Exists
    <3>2. Pending' = Pending
      BY <1>5 DEF Pending
    <3>3. QED
      BY <1>2, <1>3, <2>1, <3>1, <3>2, Quiet
  <2>4. CallFits' /\ BuiltSoFar'
    BY <1>1, <1>5, Rests
  <2>5. QED
    BY <1>4, <2>2, <2>3, <2>4 DEF IInv, KernelInv
<1>6. ASSUME NEW f \in Frames, Kalloc(f), UNCHANGED rax,
             kernel' = [at |-> "map", call |-> "alloc", pid |-> current, page |-> w, frame |-> f]
      PROVE  IInv'
  <2>1. kernel' \in KernelStates
    BY <1>1, <1>6, Layout DEF KernelStates
  <2>2. /\ kernel'.at = "map" /\ kernel'.call = "alloc" /\ kernel'.pid = current /\ kernel'.page = w
        /\ kernel'.frame = f
    BY <1>6
  <2>3. TypeOK'
    BY <1>2, <1>3, <1>6, <2>1, KallocIs DEF TypeOK
  <2>4. OneOwner' /\ UsedIsAllocated'
    <3>1. Pending' = f
      BY <2>2, Layout DEF Pending
    <3>2. Held'[<<1, "pending", 0>>] = f
      BY <3>1, HeldNext
    <3>3. \A p \in Pid : Exists(p)' <=> Exists(p)
      BY <1>1, <1>3, <2>2 DEF Exists
    <3>4. \A s \in Slots : s # <<1, "pending", 0>> => Held'[s] \in {None, Held[s]}
      BY <1>3, <3>3, SameSlots
    <3>5. QED
      BY <1>2, <1>6, <3>2, <3>4, SlotKinds, Takes
  <2>5. root[current] # None
    BY <1>1, <1>2 DEF KernelMapped
  <2>6. CallFits'
    <3>1. data'[f] = 0
      BY <1>2, <1>6, KallocIs
    <3>2. w \in User /\ w \in Pages /\ w \notin Low
      BY Layout
    <3>3. QED
      BY <1>1, <1>3, <2>2, <2>5, <3>1, <3>2 DEF CallFits, Building
  <2>7. BuiltSoFar'
    BY <2>2 DEF BuiltSoFar
  <2>8. QED
    BY <1>4, <2>3, <2>4, <2>6, <2>7 DEF IInv, KernelInv
<1>7. QED
  BY <1>5, <1>6 DEF PageAlloc

LEMMA StoreStep ==
  ASSUME IInv, NEW w \in User, NEW x \in Values, Store(w, x)
  PROVE  IInv'
<1>1. /\ current \in Pid /\ state[current] = "runnable" /\ kernel.call = "none" /\ kernel.at = "user"
  BY Resting DEF Store
<1>2. TypeOK /\ OneOwner /\ UsedIsAllocated /\ KernelMapped /\ StackMapped
  BY DEF IInv, KernelInv
<1>3. UNCHANGED <<refcount, root, tables, entry, state, rax, current, kernel>>
  BY DEF Store
<1>4. data' \in [Frames -> Values]
  BY <1>2 DEF TypeOK, Store
<1>5. TypeOK'
  BY <1>2, <1>3, <1>4 DEF TypeOK
<1>6. OneOwner' /\ UsedIsAllocated'
  <2>1. \A p \in Pid : Exists(p)' => Exists(p)
    BY <1>3 DEF Exists
  <2>2. Pending' = Pending
    BY <1>3 DEF Pending
  <2>3. QED
    BY <1>2, <1>3, <2>1, <2>2, Quiet
<1>7. KernelMapped' /\ StackMapped'
  BY <1>2, <1>3, SameRunners
<1>8. CallFits' /\ BuiltSoFar'
  BY <1>1, <1>3, Rests
<1>9. QED
  BY <1>5, <1>6, <1>7, <1>8 DEF IInv, KernelInv

-----------------------------------------------------------------------------
(* The loop over the pages of a new process.                               *)
LEMMA Loop ==
  ASSUME IInv, Building, kernel.call # "alloc"
  PROVE  /\ kernel.call \in {"setup", "fork"} /\ kernel.pid \in Pid /\ state[kernel.pid] = "free"
         /\ Exists(kernel.pid)
         /\ kernel.call = "fork" => state[current] = "runnable" /\ current # kernel.pid /\ Exists(current)
         /\ kernel.page \in 1 .. NPages + 1 /\ current \in Pid
<1>1. kernel.call \in {"setup", "fork"}
  BY DEF IInv, KernelInv, TypeOK, KernelStates, CallFits, Building
<1>2. kernel.pid \in Pid /\ kernel.page \in 1 .. NPages + 1 /\ current \in Pid
  BY DEF IInv, KernelInv, TypeOK, KernelStates
<1>3. state[kernel.pid] = "free"
  BY <1>1, <1>2, Layout DEF IInv, CallFits
<1>4. QED
  BY <1>1, <1>2, <1>3 DEF IInv, CallFits, Exists, Building

LEMMA SamePlace ==
  ASSUME Building, Building', kernel'.pid = kernel.pid, UNCHANGED state
  PROVE  \A p \in Pid : Exists(p)' <=> Exists(p)
BY DEF Building, Exists

\* What is wanted stays wanted while the parent's entries do not change.
LEMMA WantedSame ==
  ASSUME UNCHANGED current, kernel'.call = kernel.call,
         kernel.call # "setup" => entry'[current] = entry[current]
  PROVE  \A v \in User : Wanted(v)' <=> Wanted(v)
BY DEF Wanted, UserEntries

LEMMA WantedFork ==
  ASSUME kernel.call = "fork", NEW v \in User
  PROVE  Wanted(v) <=> entry[current][v] # None
BY DEF Wanted, UserEntries

\* Whoever exists keeps what is in its pages while another page is allocated.
LEMMA DataKept ==
  ASSUME IInv, NEW f \in Frames, Kalloc(f), NEW p \in Pid, Exists(p), NEW v \in User, entry[p][v] # None
  PROVE  data'[entry[p][v]] = data[entry[p][v]]
<1>1. TypeOK /\ OneOwner /\ UsedIsAllocated
  BY DEF IInv, KernelInv
<1>2. Held[<<p, "page", v>>] = entry[p][v]
  BY HeldIs
<1>3. refcount[entry[p][v]] = 1 /\ entry[p][v] \in Frames
  BY <1>1, <1>2, Owners, SlotKinds, HeldSome DEF Separate
<1>4. refcount[f] = 0
  BY <1>1, KallocIs
<1>5. entry[p][v] # f
  BY <1>3, <1>4
<1>6. QED
  BY <1>1, <1>3, <1>5, KallocIs

LEMMA PageLowStep ==
  ASSUME IInv, PageLow
  PROVE  IInv'
<1>1. kernel.at = "page" /\ kernel.page \in Low /\ kernel.call # "alloc" /\ Building
  BY DEF PageLow, IInv, CallFits, Building
<1>2. TypeOK /\ OneOwner /\ UsedIsAllocated /\ KernelMapped /\ StackMapped /\ CallFits /\ BuiltSoFar
  BY DEF IInv, KernelInv
<1>3. UNCHANGED <<refcount, data, root, tables, entry, state, rax, current>>
  BY DEF PageLow
<1>4. /\ kernel.call \in {"setup", "fork"} /\ kernel.pid \in Pid /\ state[kernel.pid] = "free"
      /\ kernel.call = "fork" => state[current] = "runnable" /\ current # kernel.pid
      /\ current \in Pid
  BY <1>1, Loop
<1>5. Source(kernel.page) = kernel.page
  BY <1>1, <1>2, <1>4 DEF Source, KernelMapped
<1>6. kernel' = [kernel EXCEPT !.at = "map", !.frame = kernel.page]
  BY <1>5 DEF PageLow
<1>7. /\ kernel' \in KernelStates /\ kernel'.at = "map" /\ kernel'.call = kernel.call
      /\ kernel'.pid = kernel.pid /\ kernel'.page = kernel.page /\ kernel'.frame = kernel.page
  BY <1>1, <1>2, <1>6, Layout DEF TypeOK, KernelStates
<1>8. TypeOK'
  BY <1>2, <1>3, <1>7 DEF TypeOK
<1>9. OneOwner' /\ UsedIsAllocated'
  <2>1. \A p \in Pid : Exists(p)' => Exists(p)
    BY <1>1, <1>3, <1>7, SamePlace DEF Building
  <2>2. Pending' = None
    BY <1>1, <1>7, Layout DEF Pending
  <2>3. QED
    BY <1>2, <1>3, <2>1, <2>2, Quiet
<1>10. KernelMapped' /\ StackMapped'
  BY <1>2, <1>3, SameRunners
<1>11. CallFits'
  <2>1. kernel.page \in Pages /\ kernel.page \in Frames
    BY <1>1, Layout
  <2>2. QED
    BY <1>1, <1>2, <1>3, <1>4, <1>7, <2>1 DEF CallFits, Building
<1>12. BuiltSoFar'
  <2>1. \A v \in User : Wanted(v)' <=> Wanted(v)
    BY <1>3, <1>7, WantedSame
  <2>2. LowSoFar' <=> LowSoFar
    BY <1>3, <1>7 DEF LowSoFar
  <2>3. FreeFrames' = FreeFrames
    BY <1>3 DEF FreeFrames
  <2>4. kernel.page \notin User
    BY <1>1, Layout
  <2>5. QED
    BY <1>1, <1>2, <1>3, <1>7, <2>1, <2>2, <2>3, <2>4 DEF BuiltSoFar, Building
<1>13. QED
  BY <1>8, <1>9, <1>10, <1>11, <1>12 DEF IInv, KernelInv

LEMMA PageSkipStep ==
  ASSUME IInv, PageSkip
  PROVE  IInv'
<1>1. kernel.at = "page" /\ kernel.page \in User /\ ~Wanted(kernel.page) /\ kernel.call # "alloc" /\ Building
  BY DEF PageSkip, IInv, CallFits, Building
<1>2. TypeOK /\ OneOwner /\ UsedIsAllocated /\ KernelMapped /\ StackMapped /\ CallFits /\ BuiltSoFar
  BY DEF IInv, KernelInv
<1>3. UNCHANGED <<refcount, data, root, tables, entry, state, rax, current>>
  BY DEF PageSkip
<1>4. kernel.call \in {"setup", "fork"}
  BY <1>1, Loop
<1>5. kernel' = [kernel EXCEPT !.page = @ + 1]
  BY DEF PageSkip
<1>6. kernel.page \in Pages /\ kernel.page + 1 \in 1 .. NPages + 1
  BY <1>1, Layout
<1>7. /\ kernel' \in KernelStates /\ kernel'.at = "page" /\ kernel'.call = kernel.call
      /\ kernel'.pid = kernel.pid /\ kernel'.page = kernel.page + 1
  BY <1>1, <1>2, <1>5, <1>6 DEF TypeOK, KernelStates
<1>8. TypeOK'
  BY <1>2, <1>3, <1>7 DEF TypeOK
<1>9. OneOwner' /\ UsedIsAllocated'
  <2>1. \A p \in Pid : Exists(p)' => Exists(p)
    BY <1>1, <1>3, <1>7, SamePlace DEF Building
  <2>2. Pending' = None
    BY <1>7 DEF Pending
  <2>3. QED
    BY <1>2, <1>3, <2>1, <2>2, Quiet
<1>10. KernelMapped' /\ StackMapped'
  BY <1>2, <1>3, SameRunners
<1>11. CallFits'
  BY <1>1, <1>2, <1>3, <1>4, <1>7 DEF CallFits, Building
<1>12. BuiltSoFar'
  <2>1. \A v \in User : Wanted(v)' <=> Wanted(v)
    BY <1>3, <1>7, WantedSame
  <2>2. LowSoFar => LowSoFar'
    <3>1. \A v \in Low : v < kernel.page
      BY <1>1, BelowUser
    <3>2. QED
      BY <1>3, <1>7, <3>1 DEF LowSoFar
  <2>3. FreeFrames' = FreeFrames
    BY <1>3 DEF FreeFrames
  <2>4. PICK n \in Pages : n = kernel.page
    BY <1>6
  <2>5. \A v \in Pages : /\ v < n + 1 <=> v < n \/ v = n
                         /\ v >= n + 1 => v >= n
                         /\ v = n => v >= n
    BY Layout
  <2>6. entry[kernel.pid][n] = None /\ ~Wanted(n) /\ n \in User
    BY <1>1, <1>2, <2>4, <2>5 DEF BuiltSoFar
  <2>7. kernel.call = "fork" => entry[current][n] = None
    BY <2>6, WantedFork
  <2>8. /\ \A v \in User : v < n => (entry[kernel.pid][v] # None <=> Wanted(v))
        /\ \A v \in Pages : v >= n => entry[kernel.pid][v] = None
        /\ LowSoFar \/ (FreeFrames = {} /\ \A v \in User : entry[kernel.pid][v] = None)
        /\ kernel.call = "fork" => \A v \in User : v < n /\ entry[current][v] # None =>
                                 data[entry[kernel.pid][v]] = data[entry[current][v]]
    <3>1. /\ \A v \in User : v < kernel.page => (entry[kernel.pid][v] # None <=> Wanted(v))
          /\ \A v \in Pages : v >= kernel.page => entry[kernel.pid][v] = None
      BY <1>1, <1>2 DEF BuiltSoFar
    <3>2. LowSoFar \/ (FreeFrames = {} /\ \A v \in User : entry[kernel.pid][v] = None)
      BY <1>1, <1>2 DEF BuiltSoFar
    <3>3. kernel.call = "fork" => \A v \in User : v < kernel.page /\ entry[current][v] # None =>
                                 data[entry[kernel.pid][v]] = data[entry[current][v]]
      BY <1>1, <1>2 DEF BuiltSoFar
    <3>4. QED
      BY <2>4, <3>1, <3>2, <3>3
  <2>9. User \subseteq Pages
    BY Layout
  <2>10. \A v \in User : v < n + 1 => (entry[kernel.pid][v] # None <=> Wanted(v))
    BY <2>5, <2>6, <2>8, <2>9
  <2>11. kernel.call = "fork" => \A v \in User : v < n + 1 /\ entry[current][v] # None =>
                                 data[entry[kernel.pid][v]] = data[entry[current][v]]
    BY <2>5, <2>7, <2>8, <2>9
  <2>12. \A v \in Pages : v >= n + 1 => entry[kernel.pid][v] = None
    BY <2>5, <2>8
  <2>13. kernel'.page = n + 1
    BY <1>7, <2>4
  <2>14. QED
    BY <1>3, <1>7, <2>1, <2>2, <2>3, <2>8, <2>10, <2>11, <2>12, <2>13 DEF BuiltSoFar
<1>13. QED
  BY <1>8, <1>9, <1>10, <1>11, <1>12 DEF IInv, KernelInv

\* What fork has copied stays a copy while a page is allocated.
LEMMA CopiedKept ==
  ASSUME IInv, Building, kernel.call = "fork", NEW f \in Frames, Kalloc(f), UNCHANGED <<entry, current>>
  PROVE  \A v \in User : v < kernel.page /\ entry[current][v] # None =>
           data'[entry[kernel.pid][v]] = data'[entry[current][v]]
<1> SUFFICES ASSUME NEW v \in User, v < kernel.page, entry[current][v] # None
             PROVE  data'[entry[kernel.pid][v]] = data'[entry[current][v]]
  OBVIOUS
<1>1. Wanted(v)
  BY WantedFork
<1>2. /\ entry[kernel.pid][v] # None
      /\ data[entry[kernel.pid][v]] = data[entry[current][v]]
  BY <1>1 DEF BuiltSoFar, IInv
<1>3. Exists(kernel.pid) /\ Exists(current) /\ kernel.pid \in Pid /\ current \in Pid
  BY Loop
<1>4. data'[entry[kernel.pid][v]] = data[entry[kernel.pid][v]]
  BY <1>2, <1>3, DataKept
<1>5. data'[entry[current][v]] = data[entry[current][v]]
  BY <1>3, DataKept
<1>6. QED
  BY <1>2, <1>4, <1>5

LEMMA PageNewStep ==
  ASSUME IInv, PageNew
  PROVE  IInv'
<1>1. kernel.at = "page" /\ kernel.page \in User /\ Wanted(kernel.page) /\ kernel.call # "alloc" /\ Building
  BY DEF PageNew, IInv, CallFits, Building
<1>2. TypeOK /\ OneOwner /\ UsedIsAllocated /\ KernelMapped /\ StackMapped /\ CallFits /\ BuiltSoFar
  BY DEF IInv, KernelInv
<1>3. UNCHANGED <<root, tables, entry, state, rax, current>>
  BY DEF PageNew
<1>4. PICK f \in Frames : Kalloc(f) /\ kernel' = [kernel EXCEPT !.at = "map", !.frame = f]
  BY DEF PageNew
<1>5. /\ kernel.call \in {"setup", "fork"} /\ kernel.pid \in Pid /\ Exists(kernel.pid)
      /\ kernel.call = "fork" => Exists(current) /\ current \in Pid
  BY <1>1, Loop
<1>6. /\ kernel' \in KernelStates /\ kernel'.at = "map" /\ kernel'.call = kernel.call
      /\ kernel'.pid = kernel.pid /\ kernel'.page = kernel.page /\ kernel'.frame = f
  BY <1>2, <1>4 DEF TypeOK, KernelStates
<1>7. TypeOK'
  BY <1>2, <1>3, <1>4, <1>6, KallocIs DEF TypeOK
<1>8. OneOwner' /\ UsedIsAllocated'
  <2>1. \A p \in Pid : Exists(p)' => Exists(p)
    BY <1>1, <1>3, <1>6, SamePlace DEF Building
  <2>2. Held'[<<1, "pending", 0>>] = f
    BY <1>1, <1>6, HeldNext DEF Pending
  <2>3. \A s \in Slots : s # <<1, "pending", 0>> => Held'[s] \in {None, Held[s]}
    BY <1>3, <2>1, SameSlots
  <2>4. QED
    BY <1>2, <1>4, <2>2, <2>3, SlotKinds, Takes
<1>9. KernelMapped' /\ StackMapped'
  BY <1>2, <1>3, SameRunners
<1>10. CallFits'
  <2>1. kernel.page \in Pages /\ kernel.page \notin Low
    BY <1>1, Layout
  <2>2. QED
    BY <1>1, <1>2, <1>3, <1>5, <1>6, <2>1 DEF CallFits, Building
<1>11. BuiltSoFar'
  <2>1. \A v \in User : Wanted(v)' <=> Wanted(v)
    BY <1>3, <1>6, WantedSame
  <2>2. LowSoFar
    <3>1. f \in FreeFrames
      BY <1>4 DEF Kalloc
    <3>2. QED
      BY <1>1, <1>2, <3>1 DEF BuiltSoFar
  <2>3. LowSoFar'
    BY <1>3, <1>6, <2>2 DEF LowSoFar
  <2>4. kernel.call = "fork" => \A v \in User : v < kernel.page /\ entry[current][v] # None =>
           data'[entry[kernel.pid][v]] = data'[entry[current][v]]
    BY <1>1, <1>3, <1>4, CopiedKept
  <2>5. QED
    BY <1>1, <1>2, <1>3, <1>6, <2>1, <2>3, <2>4 DEF BuiltSoFar, Building
<1>12. QED
  BY <1>7, <1>8, <1>9, <1>10, <1>11 DEF IInv, KernelInv

LEMMA MapTableStep ==
  ASSUME IInv, MapTable
  PROVE  IInv'
<1>1. kernel.at = "map" /\ Building
  BY DEF MapTable, Building
<1>2. TypeOK /\ OneOwner /\ UsedIsAllocated /\ KernelMapped /\ StackMapped /\ CallFits /\ BuiltSoFar
  BY DEF IInv, KernelInv
<1>3. UNCHANGED <<root, entry, state, rax, current, kernel>>
  BY DEF MapTable
<1>4. PICK t \in Missing : \E f \in Frames : Kalloc(f) /\ tables' = [tables EXCEPT ![kernel.pid][t] = f]
  BY DEF MapTable
<1>5. PICK f \in Frames : Kalloc(f) /\ tables' = [tables EXCEPT ![kernel.pid][t] = f]
  BY <1>4
<1>6. PICK c \in Pid : c = kernel.pid
  BY <1>2 DEF TypeOK, KernelStates
<1>7. t \in Tables
  <2>1. kernel.page \in Pages
    BY <1>1, <1>2 DEF CallFits
  <2>2. QED
    BY <2>1, KernelAssumption DEF Missing
<1>8. /\ tables' \in [Pid -> [Tables -> Frames \cup {None}]] /\ tables'[c][t] = f
      /\ \A p \in Pid, u \in Tables : p # c \/ u # t => tables'[p][u] = tables[p][u]
  BY <1>2, <1>5, <1>6, <1>7 DEF TypeOK
<1>9. TypeOK'
  BY <1>2, <1>3, <1>5, <1>8, KallocIs DEF TypeOK
<1>10. OneOwner' /\ UsedIsAllocated'
  <2>1. \A p \in Pid : Exists(p)' <=> Exists(p)
    BY <1>3 DEF Exists
  <2>2. Exists(c)
    BY <1>1, <1>6 DEF Exists
  <2>3. Held'[<<c, "table", t>>] = f
    BY <1>7, <1>8, <2>1, <2>2, HeldNext
  <2>4. ASSUME NEW s \in Slots, s # <<c, "table", t>> PROVE Held'[s] \in {None, Held[s]}
    <3>1. CASE \E p \in Pid : s = <<p, "root", 0>>
      BY <1>3, <2>1, <3>1, HeldIs, HeldNext
    <3>2. CASE \E p \in Pid, u \in Tables : s = <<p, "table", u>>
      <4>1. PICK p \in Pid, u \in Tables : s = <<p, "table", u>>
        BY <3>2
      <4>2. Held[s] = IF Exists(p) THEN tables[p][u] ELSE None
        BY <4>1, HeldIs
      <4>3. Held'[s] = IF Exists(p)' THEN tables'[p][u] ELSE None
        BY <4>1, HeldNext
      <4>4. p # c \/ u # t
        BY <2>4, <4>1
      <4>5. QED
        BY <1>8, <2>1, <4>2, <4>3, <4>4
    <3>3. CASE \E p \in Pid, v \in User : s = <<p, "page", v>>
      <4>1. PICK p \in Pid, v \in User : s = <<p, "page", v>>
        BY <3>3
      <4>2. Held[s] = IF Exists(p) THEN entry[p][v] ELSE None
        BY <4>1, HeldIs
      <4>3. Held'[s] = IF Exists(p)' THEN entry'[p][v] ELSE None
        BY <4>1, HeldNext
      <4>4. QED
        BY <1>3, <2>1, <4>2, <4>3
    <3>4. CASE s = <<1, "pending", 0>>
      BY <1>3, <3>4, HeldIs, HeldNext DEF Pending
    <3>5. QED
      BY <3>1, <3>2, <3>3, <3>4, SlotKinds
  <2>5. QED
    BY <1>2, <1>5, <1>7, <2>3, <2>4, SlotKinds, Takes
<1>11. KernelMapped' /\ StackMapped'
  BY <1>2, <1>3, SameRunners
<1>12. CallFits'
  <2>1. data'[kernel.frame] = 0 \/ data'[kernel.frame] = data[kernel.frame]
    <3>1. kernel.frame \in Frames
      BY <1>1, <1>2 DEF CallFits
    <3>2. QED
      BY <1>2, <1>5, <3>1, KallocIs
  <2>2. QED
    BY <1>1, <1>2, <1>3, <2>1 DEF CallFits, Building
<1>13. BuiltSoFar'
  <2> SUFFICES ASSUME kernel.call # "alloc" PROVE BuiltSoFar'
    BY <1>3 DEF BuiltSoFar
  <2>1. \A v \in User : Wanted(v)' <=> Wanted(v)
    BY <1>3, WantedSame
  <2>2. f \in FreeFrames
    BY <1>5 DEF Kalloc
  <2>3. LowSoFar'
    BY <1>1, <1>2, <1>3, <2>2 DEF LowSoFar, BuiltSoFar
  <2>4. kernel.call = "fork" => \A v \in User : v < kernel.page /\ entry[current][v] # None =>
           data'[entry[kernel.pid][v]] = data'[entry[current][v]]
    BY <1>1, <1>3, <1>5, CopiedKept
  <2>5. QED
    BY <1>1, <1>2, <1>3, <2>1, <2>3, <2>4 DEF BuiltSoFar, Building
<1>14. QED
  BY <1>9, <1>10, <1>11, <1>12, <1>13 DEF IInv, KernelInv

\* The call gives up: what fork had mapped for the child goes back.
LEMMA AbandonStep ==
  ASSUME IInv, Building, Abandon, UNCHANGED <<data, root, tables, entry, state, current>>
  PROVE  IInv'
<1>1. TypeOK /\ OneOwner /\ UsedIsAllocated /\ KernelMapped /\ StackMapped /\ CallFits
  BY DEF IInv, KernelInv
<1>2. kernel' \in {UserMode, Stopped("panic")}
  BY DEF Abandon
<1>3. kernel' \in KernelStates /\ kernel'.at \notin {"boot", "page", "map"} /\ kernel'.call = "none"
  BY <1>2, RestTypes
<1>4. rax' = rax \/ rax' = [rax EXCEPT ![current] = -1]
  BY DEF Abandon
<1>5. PICK c \in Pid : c = kernel.pid
  BY <1>1 DEF TypeOK, KernelStates
<1>6. PICK S : S = {entry[c][v] : v \in User}
  OBVIOUS
<1>7. refcount' = refcount \/ (kernel.call = "fork" /\ refcount' = Kfreed(S))
  BY <1>5, <1>6 DEF Abandon
<1>8. refcount' \in [Frames -> {0, 1, Reserved}]
  BY <1>1, <1>7, Freed DEF TypeOK
<1>9. TypeOK'
  BY <1>1, <1>3, <1>4, <1>8 DEF TypeOK
<1>10. OneOwner' /\ UsedIsAllocated'
  <2>1. \A p \in Pid : Exists(p)' => Exists(p)
    BY <1>3 DEF Exists
  <2>2. Pending' = None
    BY <1>3 DEF Pending
  <2>3. CASE refcount' = refcount
    BY <1>1, <2>1, <2>2, <2>3, Quiet
  <2>4. CASE kernel.call = "fork" /\ refcount' = Kfreed(S)
    <3>1. Exists(c)
      BY <1>5 DEF Exists, Building
    <3>2. ~Exists(c)'
      BY <1>1, <1>3, <1>5, <2>4 DEF Exists, CallFits
    <3>3. \A f \in S : \E v \in User : Exists(c) /\ entry[c][v] = f
      BY <1>6, <3>1
    <3>4. QED
      BY <1>1, <2>1, <2>2, <2>4, <3>2, <3>3, Returns
  <2>5. QED
    BY <1>7, <2>3, <2>4
<1>11. KernelMapped' /\ StackMapped'
  BY <1>1, SameRunners
<1>12. CallFits' /\ BuiltSoFar'
  BY <1>3, Rests
<1>13. QED
  BY <1>9, <1>10, <1>11, <1>12 DEF IInv, KernelInv

LEMMA PageFailsStep ==
  ASSUME IInv, PageFails
  PROVE  IInv'
BY AbandonStep DEF PageFails, Building

LEMMA MapFailsStep ==
  ASSUME IInv, MapFails
  PROVE  IInv'
<1>1. kernel.at = "map" /\ Building /\ FreeFrames = {}
  BY DEF MapFails, Building
<1>2. UNCHANGED <<data, root, tables, entry, state, current>>
  BY DEF MapFails
<1>3. CASE kernel.page \notin Low
  BY <1>1, <1>2, <1>3, AbandonStep DEF MapFails
<1>4. CASE kernel.page \in Low
  <2>1. kernel' = [kernel EXCEPT !.at = "page", !.page = @ + 1, !.frame = None] /\ UNCHANGED <<refcount, rax>>
    BY <1>4 DEF MapFails
  <2>2. TypeOK /\ OneOwner /\ UsedIsAllocated /\ KernelMapped /\ StackMapped /\ CallFits /\ BuiltSoFar
    BY DEF IInv, KernelInv
  <2>3. kernel.page \notin User /\ kernel.page \in Pages /\ kernel.page + 1 \in 1 .. NPages + 1
    BY <1>4, Layout
  <2>4. kernel.call # "alloc"
    BY <2>2, <2>3 DEF CallFits
  <2>5. kernel.call \in {"setup", "fork"}
    BY <1>1, <2>4, Loop
  <2>6. /\ kernel' \in KernelStates /\ kernel'.at = "page" /\ kernel'.call = kernel.call
        /\ kernel'.pid = kernel.pid /\ kernel'.page = kernel.page + 1
    BY <2>1, <2>2, <2>3 DEF TypeOK, KernelStates
  <2>7. TypeOK'
    BY <1>2, <2>1, <2>2, <2>6 DEF TypeOK
  <2>8. OneOwner' /\ UsedIsAllocated'
    <3>1. \A p \in Pid : Exists(p)' => Exists(p)
      BY <1>1, <1>2, <2>6, SamePlace DEF Building
    <3>2. Pending' = None
      BY <2>6 DEF Pending
    <3>3. QED
      BY <1>2, <2>1, <2>2, <3>1, <3>2, Quiet
  <2>9. KernelMapped' /\ StackMapped'
    BY <1>2, <2>2, SameRunners
  <2>10. CallFits'
    BY <1>1, <1>2, <2>2, <2>5, <2>6 DEF CallFits, Building
  <2>11. BuiltSoFar'
    <3>1. PICK n \in Low : n = kernel.page
      BY <1>4
    <3>2. \A v \in User : ~ (v < n + 1) /\ v >= n /\ v \in Pages
      BY <3>1, Layout, BelowUser
    <3>3. \A v \in Pages : v >= n + 1 => v >= n
      BY <3>1, Layout
    <3>4. \A v \in Pages : v >= n => entry[kernel.pid][v] = None
      BY <1>1, <2>2, <2>4, <3>1 DEF BuiltSoFar
    <3>5. \A v \in User : entry[kernel.pid][v] = None
      BY <3>2, <3>4
    <3>6. FreeFrames' = {}
      BY <1>1, <2>1 DEF FreeFrames
    <3>7. kernel'.page = n + 1
      BY <2>6, <3>1
    <3>8. QED
      BY <1>2, <2>6, <3>2, <3>3, <3>4, <3>5, <3>6, <3>7 DEF BuiltSoFar
  <2>12. QED
    BY <2>7, <2>8, <2>9, <2>10, <2>11 DEF IInv, KernelInv
<1>5. QED
  BY <1>3, <1>4

LEMMA FilledIs ==
  ASSUME IInv, kernel.at = "map"
  PROVE  /\ Filled \in Values
         /\ kernel.page \in Low => Filled = data[kernel.frame]
         /\ kernel.call = "alloc" => Filled = data[kernel.frame]
         /\ kernel.call = "fork" /\ kernel.page \in User => Filled = data[entry[current][kernel.page]]
<1>1. TypeOK /\ CallFits /\ BuiltSoFar
  BY DEF IInv, KernelInv
<1>2. kernel.page \in Pages /\ kernel.frame \in Frames /\ (kernel.page \in Low => kernel.page \notin User)
  BY <1>1, Layout DEF CallFits
<1>3. CASE kernel.call = "fork" /\ kernel.page \in User
  <2>1. Wanted(kernel.page)
    BY <1>1, <1>3 DEF BuiltSoFar, Building
  <2>2. entry[current][kernel.page] # None
    BY <1>3, <2>1, WantedFork
  <2>3. data[entry[current][kernel.page]] \in Values
    BY <1>1, <1>2, <2>2 DEF TypeOK
  <2>4. Filled = data[entry[current][kernel.page]]
    BY <1>3 DEF Filled
  <2>5. QED
    BY <1>2, <1>3, <2>3, <2>4
<1>4. CASE kernel.call = "setup" /\ kernel.page \in Image
  <2>1. Filled = 1
    BY <1>4 DEF Filled
  <2>2. kernel.page \in User
    BY <1>4, Layout
  <2>3. QED
    BY <1>2, <1>4, <2>1, <2>2, Layout
<1>5. CASE ~ (kernel.call = "fork" /\ kernel.page \in User) /\ ~ (kernel.call = "setup" /\ kernel.page \in Image)
  <2>1. Filled = data[kernel.frame]
    BY <1>5 DEF Filled
  <2>2. QED
    BY <1>1, <1>2, <1>5, <2>1 DEF TypeOK
<1>6. QED
  BY <1>3, <1>4, <1>5

\* What a MapEntry does, in the terms of the proofs.
LEMMA MapEntryIs ==
  ASSUME IInv, MapEntry, NEW c \in Pid, c = kernel.pid, NEW n \in Pages, n = kernel.page,
         NEW f \in Frames, f = kernel.frame
  PROVE  /\ entry' \in [Pid -> [Pages -> Frames \cup {None}]] /\ entry'[c][n] = f
         /\ \A p \in Pid, v \in Pages : p # c \/ v # n => entry'[p][v] = entry[p][v]
         /\ \A p \in Pid : p # c => entry'[p] = entry[p]
         /\ data' \in [Frames -> Values] /\ data'[f] = Filled
         /\ \A g \in Frames : g # f => data'[g] = data[g]
         /\ UNCHANGED <<refcount, root, tables, state, current>>
<1>1. TypeOK
  BY DEF IInv, KernelInv
<1>2. entry' = [entry EXCEPT ![c][n] = f] /\ data' = [data EXCEPT ![f] = Filled]
  BY DEF MapEntry
<1>3. Filled \in Values
  BY FilledIs DEF MapEntry
<1>4. /\ data' \in [Frames -> Values] /\ data'[f] = Filled
      /\ \A g \in Frames : g # f => data'[g] = data[g]
  BY <1>1, <1>2, <1>3 DEF TypeOK
<1>5. /\ entry' \in [Pid -> [Pages -> Frames \cup {None}]] /\ entry'[c][n] = f
      /\ \A p \in Pid, v \in Pages : p # c \/ v # n => entry'[p][v] = entry[p][v]
      /\ \A p \in Pid : p # c => entry'[p] = entry[p]
  BY <1>1, <1>2 DEF TypeOK
<1>6. QED
  BY <1>4, <1>5 DEF MapEntry

\* The process a page is mapped for still exists after that.
LEMMA StillThere ==
  ASSUME IInv, Building, NEW c \in Pid, c = kernel.pid, UNCHANGED state, MapEntry
  PROVE  Exists(c)'
<1>1. CASE kernel.call = "alloc"
  BY <1>1 DEF IInv, CallFits, Exists
<1>2. CASE kernel.call # "alloc"
  <2>1. kernel' = [kernel EXCEPT !.at = "page", !.page = @ + 1, !.frame = None]
    BY <1>2 DEF MapEntry
  <2>2. kernel'.at = "page" /\ kernel'.pid = c
    BY <2>1 DEF IInv, KernelInv, TypeOK, KernelStates
  <2>3. QED
    BY <2>2 DEF Exists
<1>3. QED
  BY <1>1, <1>2

\* The page about to be mapped is nobody's yet.
LEMMA PendingApart ==
  ASSUME IInv, kernel.at = "map", NEW p \in Pid, Exists(p), NEW v \in User, entry[p][v] # None
  PROVE  entry[p][v] # kernel.frame
<1>1. TypeOK /\ OneOwner /\ UsedIsAllocated /\ CallFits
  BY DEF IInv, KernelInv
<1>2. Held[<<p, "page", v>>] = entry[p][v]
  BY HeldIs
<1>3. refcount[entry[p][v]] = 1
  BY <1>1, <1>2, Owners, SlotKinds DEF Separate
<1>4. CASE kernel.page \in Low
  <2>1. refcount[kernel.frame] = Reserved
    BY <1>1, <1>4 DEF CallFits, UsedIsAllocated
  <2>2. QED
    BY <1>3, <2>1 DEF Reserved
<1>5. CASE kernel.page \in User
  <2>1. Held[<<1, "pending", 0>>] = kernel.frame
    BY <1>5, HeldIs DEF Pending
  <2>2. <<1, "pending", 0>> # <<p, "page", v>>
    OBVIOUS
  <2>3. QED
    BY <1>1, <1>2, <2>1, <2>2, Owners, SlotKinds DEF Separate
<1>6. kernel.page \in Low \/ kernel.page \in User
  BY <1>1, Layout DEF CallFits
<1>7. QED
  BY <1>4, <1>5, <1>6

LEMMA MapEntryOwners ==
  ASSUME IInv, MapEntry
  PROVE  OneOwner' /\ UsedIsAllocated'
<1>1. kernel.at = "map" /\ Building
  BY DEF MapEntry, Building
<1>2. TypeOK /\ OneOwner /\ UsedIsAllocated /\ CallFits
  BY DEF IInv, KernelInv
<1>3. PICK c \in Pid : c = kernel.pid
  BY <1>2 DEF TypeOK, KernelStates
<1>4. PICK n \in Pages : n = kernel.page
  BY <1>1, <1>2 DEF CallFits
<1>5. PICK f \in Frames : f = kernel.frame
  BY <1>1, <1>2 DEF CallFits
<1>6. /\ entry'[c][n] = f
      /\ \A p \in Pid, v \in Pages : p # c \/ v # n => entry'[p][v] = entry[p][v]
      /\ UNCHANGED <<refcount, root, tables, state, current>>
  BY <1>3, <1>4, <1>5, MapEntryIs
<1>7. kernel'.at = "user" \/ (kernel'.at = "page" /\ kernel'.pid = c)
  <2>1. CASE kernel.call = "alloc"
    BY <2>1, RestTypes DEF MapEntry
  <2>2. CASE kernel.call # "alloc"
    <3>1. kernel' = [kernel EXCEPT !.at = "page", !.page = @ + 1, !.frame = None]
      BY <2>2 DEF MapEntry
    <3>2. QED
      BY <1>2, <1>3, <3>1 DEF TypeOK, KernelStates
  <2>3. QED
    BY <2>1, <2>2
<1>8. \A p \in Pid : Exists(p)' => Exists(p)
  BY <1>1, <1>3, <1>6, <1>7 DEF Exists
<1>9. Pending' = None
  BY <1>7 DEF Pending
<1>10. CASE n \notin User
  <2>1. \A p \in Pid, v \in User : entry'[p][v] = entry[p][v]
    BY <1>6, <1>10, Layout
  <2>2. QED
    BY <1>2, <1>6, <1>8, <1>9, <2>1, Quiet
<1>11. CASE n \in User
  <2>1. Separate(Held, refcount) /\ \A g \in Low : refcount[g] = Reserved
    BY <1>2, Owners
  <2>2. PICK x \in Slots : x = <<c, "page", n>>
    BY <1>11, SlotKinds
  <2>3. PICK y \in Slots : y = <<1, "pending", 0>>
    BY SlotKinds
  <2>4. x # y
    BY <2>2, <2>3
  <2>5. Held[y] = f
    BY <1>1, <1>4, <1>5, <1>11, <2>3, HeldIs DEF Pending
  <2>6. Exists(c)'
    BY <1>1, <1>3, <1>6, StillThere
  <2>7. Held'[x] = f
    BY <1>6, <1>11, <2>2, <2>6, HeldNext
  <2>8. Held'[y] = None
    BY <1>9, <2>3, HeldNext
  <2>9. ASSUME NEW s \in Slots, s # x PROVE Held'[s] \in {None, Held[s]}
    <3>1. CASE \E p \in Pid : s = <<p, "root", 0>>
      BY <1>6, <1>8, <3>1, HeldIs, HeldNext
    <3>2. CASE \E p \in Pid, u \in Tables : s = <<p, "table", u>>
      <4>1. PICK p \in Pid, u \in Tables : s = <<p, "table", u>>
        BY <3>2
      <4>2. Held[s] = IF Exists(p) THEN tables[p][u] ELSE None
        BY <4>1, HeldIs
      <4>3. Held'[s] = IF Exists(p)' THEN tables'[p][u] ELSE None
        BY <4>1, HeldNext
      <4>4. QED
        BY <1>6, <1>8, <4>2, <4>3
    <3>3. CASE \E p \in Pid, v \in User : s = <<p, "page", v>>
      <4>1. PICK p \in Pid, v \in User : s = <<p, "page", v>>
        BY <3>3
      <4>2. Held[s] = IF Exists(p) THEN entry[p][v] ELSE None
        BY <4>1, HeldIs
      <4>3. Held'[s] = IF Exists(p)' THEN entry'[p][v] ELSE None
        BY <4>1, HeldNext
      <4>4. p # c \/ v # n
        BY <2>2, <2>9, <4>1
      <4>5. v \in Pages
        BY Layout
      <4>6. QED
        BY <1>6, <1>8, <4>2, <4>3, <4>4, <4>5
    <3>4. CASE s = <<1, "pending", 0>>
      BY <2>3, <2>8, <3>4
    <3>5. QED
      BY <3>1, <3>2, <3>3, <3>4, SlotKinds
  <2>10. Separate(Held', refcount)
    BY <2>1, <2>4, <2>5, <2>7, <2>8, <2>9, Moves
  <2>11. QED
    BY <1>6, <2>1, <2>10, OwnersNext
<1>12. QED
  BY <1>10, <1>11

LEMMA MapEntryStep ==
  ASSUME IInv, MapEntry
  PROVE  IInv'
<1>1. kernel.at = "map" /\ Building
  BY DEF MapEntry, Building
<1>2. TypeOK /\ OneOwner /\ UsedIsAllocated /\ KernelMapped /\ StackMapped /\ CallFits /\ BuiltSoFar
  BY DEF IInv, KernelInv
<1>3. PICK c \in Pid : c = kernel.pid
  BY <1>2 DEF TypeOK, KernelStates
<1>4. PICK n \in Pages : n = kernel.page
  BY <1>1, <1>2 DEF CallFits
<1>5. PICK f \in Frames : f = kernel.frame /\ (n \in Low => f = n) /\ f # None
  BY <1>1, <1>2, <1>4, Layout DEF CallFits
<1>6. /\ entry' \in [Pid -> [Pages -> Frames \cup {None}]] /\ entry'[c][n] = f
      /\ \A p \in Pid, v \in Pages : p # c \/ v # n => entry'[p][v] = entry[p][v]
      /\ \A p \in Pid : p # c => entry'[p] = entry[p]
      /\ data' \in [Frames -> Values] /\ data'[f] = Filled
      /\ \A g \in Frames : g # f => data'[g] = data[g]
      /\ UNCHANGED <<refcount, root, tables, state, current>>
  BY <1>3, <1>4, <1>5, MapEntryIs
<1>7. OneOwner' /\ UsedIsAllocated'
  BY MapEntryOwners
<1>8. KernelMapped' /\ StackMapped'
  <2>1. ASSUME NEW p \in Pid, state[p] = "runnable"
        PROVE  root[p] # None /\ (\A v \in Low : entry'[p][v] = v) /\ entry'[p][Stack] # None
    BY <1>2, <1>5, <1>6, <2>1, Layout DEF KernelMapped, StackMapped
  <2>2. QED
    BY <1>6, <2>1 DEF KernelMapped, StackMapped
<1>9. CASE kernel.call = "alloc"
  <2>1. kernel' = UserMode /\ rax' = [rax EXCEPT ![current] = 0]
    BY <1>9 DEF MapEntry
  <2>2. kernel' \in KernelStates /\ kernel'.at \notin {"boot", "page", "map"} /\ kernel'.call = "none"
    BY <2>1, RestTypes
  <2>3. TypeOK'
    BY <1>2, <1>6, <2>1, <2>2 DEF TypeOK
  <2>4. CallFits' /\ BuiltSoFar'
    BY <2>2, Rests
  <2>5. QED
    BY <1>7, <1>8, <2>3, <2>4 DEF IInv, KernelInv
<1>10. CASE kernel.call # "alloc"
  <2>1. kernel' = [kernel EXCEPT !.at = "page", !.page = @ + 1, !.frame = None] /\ UNCHANGED rax
    BY <1>10 DEF MapEntry
  <2>2. n + 1 \in 1 .. NPages + 1
    BY Layout
  <2>3. /\ kernel' \in KernelStates /\ kernel'.at = "page" /\ kernel'.call = kernel.call
        /\ kernel'.pid = c /\ kernel'.page = n + 1
    BY <1>2, <1>3, <1>4, <2>1, <2>2 DEF TypeOK, KernelStates
  <2>4. /\ kernel.call \in {"setup", "fork"}
        /\ kernel.call = "fork" => current # c /\ current \in Pid /\ Exists(current) /\ Exists(c)
    BY <1>1, <1>3, <1>10, Loop
  <2>5. TypeOK'
    BY <1>2, <1>6, <2>1, <2>3 DEF TypeOK
  <2>6. CallFits'
    BY <1>1, <1>2, <1>3, <1>6, <2>3, <2>4 DEF CallFits, Building
  <2>7. BuiltSoFar'
    <3>1. \A v \in User : Wanted(v)' <=> Wanted(v)
      BY <1>6, <2>3, <2>4, WantedSame
    <3>2. \A v \in Pages : /\ v < n + 1 <=> v < n \/ v = n
                           /\ v >= n + 1 => v >= n /\ v # n
                           /\ v = n => v >= n
      BY Layout
    <3>3. /\ \A v \in User : v < n => (entry[c][v] # None <=> Wanted(v))
          /\ \A v \in Pages : v >= n => entry[c][v] = None
          /\ n \in User => Wanted(n)
      BY <1>1, <1>2, <1>3, <1>4, <1>10 DEF BuiltSoFar
    <3>4. \/ \A v \in Low : v < n => entry[c][v] = v
          \/ FreeFrames = {} /\ (\A v \in User : entry[c][v] = None) /\ n \in Low
      BY <1>1, <1>2, <1>3, <1>4, <1>10 DEF BuiltSoFar, LowSoFar
    <3>5. \A v \in User : v \in Pages
      BY Layout
    <3>6. \A v \in User : v < n + 1 => (entry'[c][v] # None <=> Wanted(v))
      BY <1>5, <1>6, <3>2, <3>3, <3>5
    <3>7. \A v \in Pages : v >= n + 1 => entry'[c][v] = None
      BY <1>6, <3>2, <3>3
    <3>8. \/ \A v \in Low : v < n + 1 => entry'[c][v] = v
          \/ FreeFrames = {} /\ (\A v \in User : entry'[c][v] = None)
      <4>1. \A v \in Low : v \in Pages /\ v \notin User
        BY Layout
      <4>2. CASE \A v \in Low : v < n => entry[c][v] = v
        <5>1. \A v \in Low : v < n + 1 => entry'[c][v] = v
          BY <1>5, <1>6, <3>2, <4>1, <4>2
        <5>2. QED
          BY <5>1
      <4>3. CASE FreeFrames = {} /\ (\A v \in User : entry[c][v] = None) /\ n \in Low
        <5>1. \A v \in User : v # n
          BY <4>1, <4>3
        <5>2. \A v \in User : entry'[c][v] = None
          BY <1>6, <3>5, <4>3, <5>1
        <5>3. QED
          BY <4>3, <5>2
      <4>4. QED
        BY <3>4, <4>2, <4>3
    <3>9. FreeFrames' = FreeFrames
      BY <1>6 DEF FreeFrames
    <3>10. ASSUME kernel.call = "fork", NEW v \in User, v < n + 1, entry[current][v] # None
           PROVE  data'[entry'[c][v]] = data'[entry[current][v]]
      <4>1. entry[current][v] \in Frames
        BY <1>2, <3>5, <3>10 DEF TypeOK
      <4>2. entry[current][v] # f
        BY <1>1, <1>4, <1>5, <2>4, <3>10, PendingApart
      <4>3. data'[entry[current][v]] = data[entry[current][v]]
        BY <1>6, <4>1, <4>2
      <4>4. CASE v = n
        <5>1. Filled = data[entry[current][v]]
          BY <1>1, <1>4, <3>10, <4>4, FilledIs
        <5>2. QED
          BY <1>6, <4>3, <4>4, <5>1
      <4>5. CASE v < n /\ v # n
        <5>1. entry'[c][v] = entry[c][v]
          BY <1>6, <3>5, <4>5
        <5>2. Wanted(v)
          BY <3>10, WantedFork
        <5>3. entry[c][v] # None /\ entry[c][v] \in Frames
          BY <1>2, <3>3, <3>5, <4>5, <5>2 DEF TypeOK
        <5>4. entry[c][v] # f
          BY <1>1, <1>4, <1>5, <2>4, <3>10, <5>3, PendingApart
        <5>5. data[entry[c][v]] = data[entry[current][v]]
          BY <1>1, <1>2, <1>3, <1>4, <3>10, <4>5 DEF BuiltSoFar
        <5>6. QED
          BY <1>6, <4>3, <5>1, <5>3, <5>4, <5>5
      <4>6. (v < n /\ v # n) \/ v = n
        BY <3>2, <3>5, <3>10
      <4>7. QED
        BY <4>4, <4>5, <4>6
    <3>11. kernel.call = "fork" => entry'[current] = entry[current]
      BY <1>6, <2>4
    <3>12. kernel.call = "fork" => \A v \in User : v < n + 1 /\ entry'[current][v] # None =>
                                     data'[entry'[c][v]] = data'[entry'[current][v]]
      BY <3>10, <3>11
    <3>13. LowSoFar' <=> \A v \in Low : v < n + 1 => entry'[c][v] = v
      BY <2>3 DEF LowSoFar
    <3>14. QED
      BY <1>6, <2>3, <3>1, <3>6, <3>7, <3>8, <3>9, <3>12, <3>13 DEF BuiltSoFar
  <2>8. QED
    BY <1>7, <1>8, <2>5, <2>6, <2>7 DEF IInv, KernelInv
<1>11. QED
  BY <1>9, <1>10

\* The process the loop has built is complete: its kernel pages and its stack are there,
\* because its stack was wanted and so memory did not run out below PROC_START_ADDR.
LEMMA Complete ==
  ASSUME IInv, kernel.at = "page", kernel.page > NPages
  PROVE  /\ root[kernel.pid] # None
         /\ \A v \in Low : entry[kernel.pid][v] = v
         /\ entry[kernel.pid][Stack] # None
         /\ \A v \in User : entry[kernel.pid][v] # None <=> Wanted(v)
         /\ kernel.call = "fork" => \A v \in User : entry[current][v] # None =>
                                 data[entry[kernel.pid][v]] = data[entry[current][v]]
<1>1. TypeOK /\ CallFits /\ BuiltSoFar /\ StackMapped
  BY DEF IInv, KernelInv
<1>2. kernel.call # "alloc" /\ Building
  BY <1>1 DEF CallFits, Building
<1>3. kernel.call \in {"setup", "fork"} /\ (kernel.call = "fork" => state[current] = "runnable" /\ current \in Pid)
  BY <1>2, Loop
<1>4. \A v \in Pages : v < kernel.page
  BY <1>1, KernelAssumption DEF Pages, TypeOK, KernelStates
<1>5. \A v \in User : v < kernel.page
  BY <1>4, Layout
<1>6. /\ \A v \in User : entry[kernel.pid][v] # None <=> Wanted(v)
      /\ kernel.call = "fork" => \A v \in User : entry[current][v] # None =>
                              data[entry[kernel.pid][v]] = data[entry[current][v]]
  BY <1>1, <1>2, <1>5 DEF BuiltSoFar
<1>7. Wanted(Stack)
  BY <1>1, <1>3, Layout DEF Wanted, UserEntries, StackMapped
<1>8. entry[kernel.pid][Stack] # None
  BY <1>6, <1>7, Layout
<1>9. LowSoFar
  BY <1>1, <1>2, <1>8, Layout DEF BuiltSoFar
<1>10. \A v \in Low : entry[kernel.pid][v] = v
  BY <1>4, <1>9, Layout DEF LowSoFar
<1>11. root[kernel.pid] # None
  BY <1>1, <1>2 DEF CallFits
<1>12. QED
  BY <1>6, <1>8, <1>10, <1>11

\* The process becomes runnable.
LEMMA DoneStep ==
  ASSUME IInv, kernel.at = "page", kernel.page > NPages,
         state' = [state EXCEPT ![kernel.pid] = "runnable"],
         UNCHANGED <<refcount, data, root, tables, entry>>,
         kernel'.at \notin {"page", "map"}
  PROVE  /\ OneOwner' /\ UsedIsAllocated' /\ KernelMapped' /\ StackMapped'
         /\ state' \in [Pid -> {"free", "runnable", "faulted"}]
         /\ state'[kernel.pid] = "runnable" /\ \A p \in Pid : p # kernel.pid => state'[p] = state[p]
<1>1. TypeOK /\ OneOwner /\ UsedIsAllocated /\ KernelMapped /\ StackMapped
  BY DEF IInv, KernelInv
<1>2. PICK c \in Pid : c = kernel.pid
  BY <1>1 DEF TypeOK, KernelStates
<1>3. /\ state' \in [Pid -> {"free", "runnable", "faulted"}] /\ state'[c] = "runnable"
      /\ \A p \in Pid : p # c => state'[p] = state[p]
  BY <1>1, <1>2 DEF TypeOK
<1>4. OneOwner' /\ UsedIsAllocated'
  <2>1. \A p \in Pid : Exists(p)' => Exists(p)
    BY <1>2, <1>3 DEF Exists
  <2>2. Pending' = None
    BY DEF Pending
  <2>3. QED
    BY <1>1, <2>1, <2>2, Quiet
<1>5. KernelMapped' /\ StackMapped'
  BY <1>1, <1>2, <1>3, Complete DEF KernelMapped, StackMapped
<1>6. QED
  BY <1>2, <1>3, <1>4, <1>5

LEMMA SetupDoneStep ==
  ASSUME IInv, SetupDone
  PROVE  IInv'
<1>1. kernel.at = "page" /\ kernel.page > NPages /\ kernel.call = "setup"
  BY DEF SetupDone
<1>2. state' = [state EXCEPT ![kernel.pid] = "runnable"] /\ UNCHANGED <<refcount, data, root, tables, entry, rax, current>>
  BY DEF SetupDone
<1>3. TypeOK /\ CallFits
  BY DEF IInv, KernelInv
<1>4. PICK c \in Pid : c = kernel.pid
  BY <1>3 DEF TypeOK, KernelStates
<1>5. CASE ~ (c < Boot)
  <2>1. kernel' = UserMode
    BY <1>4, <1>5 DEF SetupDone
  <2>2. kernel' \in KernelStates /\ kernel'.at \notin {"boot", "page", "map"} /\ kernel'.call = "none"
    BY <2>1, RestTypes
  <2>3. OneOwner' /\ UsedIsAllocated' /\ KernelMapped' /\ StackMapped' /\ state' \in [Pid -> {"free", "runnable", "faulted"}]
    BY <1>1, <1>2, <2>2, DoneStep
  <2>4. CallFits' /\ BuiltSoFar'
    BY <2>2, Rests
  <2>5. QED
    BY <1>2, <1>3, <2>2, <2>3, <2>4 DEF IInv, KernelInv, TypeOK
<1>6. CASE c < Boot
  <2>1. kernel' = [kernel EXCEPT !.at = "boot", !.pid = @ + 1, !.page = 1]
    BY <1>4, <1>6 DEF SetupDone
  <2>2. c + 1 \in Pid /\ \A p \in Pid : p >= c + 1 => p >= c /\ p # c
    BY <1>6, Layout, KernelAssumption DEF Pid
  <2>3. /\ kernel' \in KernelStates /\ kernel'.at = "boot" /\ kernel'.pid = c + 1 /\ kernel'.page = 1
        /\ kernel'.call = "setup"
    BY <1>1, <1>3, <1>4, <2>1, <2>2, Layout DEF TypeOK, KernelStates
  <2>4. /\ OneOwner' /\ UsedIsAllocated' /\ KernelMapped' /\ StackMapped'
        /\ state' \in [Pid -> {"free", "runnable", "faulted"}]
        /\ \A p \in Pid : p # c => state'[p] = state[p]
    BY <1>1, <1>2, <1>4, <2>3, DoneStep
  <2>5. CallFits'
    <3>1. \A p \in Pid : p >= c + 1 => state'[p] = "free"
      BY <1>1, <1>3, <1>4, <2>2, <2>4 DEF CallFits
    <3>2. QED
      BY <2>3, <3>1 DEF CallFits, Building
  <2>6. BuiltSoFar'
    BY <2>3 DEF BuiltSoFar, Building
  <2>7. QED
    BY <1>2, <1>3, <2>3, <2>4, <2>5, <2>6 DEF IInv, KernelInv, TypeOK
<1>7. QED
  BY <1>5, <1>6

LEMMA ForkDoneStep ==
  ASSUME IInv, ForkDone
  PROVE  IInv'
<1>1. kernel.at = "page" /\ kernel.page > NPages /\ kernel.call = "fork"
  BY DEF ForkDone
<1>2. TypeOK /\ CallFits
  BY DEF IInv, KernelInv
<1>3. kernel' = UserMode /\ kernel' \in KernelStates /\ kernel'.at \notin {"boot", "page", "map"} /\ kernel'.call = "none"
  BY RestTypes DEF ForkDone
<1>4. /\ state' = [state EXCEPT ![kernel.pid] = "runnable"]
      /\ UNCHANGED <<refcount, data, root, tables, entry, current>>
  BY DEF ForkDone
<1>5. /\ OneOwner' /\ UsedIsAllocated' /\ KernelMapped' /\ StackMapped'
      /\ state' \in [Pid -> {"free", "runnable", "faulted"}]
  BY <1>1, <1>3, <1>4, DoneStep
<1>6. rax' \in [Pid -> Pid \cup {-1, 0}]
  <2>1. PICK c \in Pid : c = kernel.pid
    BY <1>2 DEF TypeOK, KernelStates
  <2>2. rax' = [rax EXCEPT ![current] = c, ![c] = 0]
    BY <2>1 DEF ForkDone
  <2>3. QED
    BY <1>2, <2>2 DEF TypeOK
<1>7. CallFits' /\ BuiltSoFar'
  BY <1>3, Rests
<1>8. QED
  BY <1>2, <1>3, <1>4, <1>5, <1>6, <1>7 DEF IInv, KernelInv, TypeOK

-----------------------------------------------------------------------------
LEMMA Starts == Init => IInv
<1> SUFFICES ASSUME Init PROVE IInv
  OBVIOUS
<1>1. kernel = [at |-> "boot", call |-> "setup", pid |-> 1, page |-> 1, frame |-> None]
  BY DEF Init
<1>2. kernel \in KernelStates
  BY <1>1, Layout DEF KernelStates
<1>3. TypeOK
  BY <1>2, Layout DEF Init, TypeOK, Reserved
<1>4. \A p \in Pid : ~Exists(p)
  BY <1>1 DEF Init, Exists
<1>5. Pending = None
  BY <1>1 DEF Pending
<1>6. \A s \in Slots : Held[s] = None
  <2> TAKE s \in Slots
  <2>1. CASE \E p \in Pid : s = <<p, "root", 0>>
    BY <1>4, <2>1, HeldIs
  <2>2. CASE \E p \in Pid, t \in Tables : s = <<p, "table", t>>
    BY <1>4, <2>2, HeldIs
  <2>3. CASE \E p \in Pid, v \in User : s = <<p, "page", v>>
    BY <1>4, <2>3, HeldIs
  <2>4. CASE s = <<1, "pending", 0>>
    BY <1>5, <2>4, HeldIs
  <2>5. QED
    BY <2>1, <2>2, <2>3, <2>4, SlotKinds
<1>7. \A f \in Low : refcount[f] = Reserved
  BY Layout DEF Init
<1>8. OneOwner /\ UsedIsAllocated
  BY <1>6, <1>7, Owners DEF Separate
<1>9. KernelMapped /\ StackMapped
  BY DEF Init, KernelMapped, StackMapped
<1>10. CallFits /\ BuiltSoFar
  BY <1>1 DEF Init, CallFits, BuiltSoFar, Building
<1>11. QED
  BY <1>3, <1>8, <1>9, <1>10 DEF IInv, KernelInv

LEMMA Stutters == IInv /\ UNCHANGED vars => IInv'
<1> SUFFICES ASSUME IInv, UNCHANGED vars PROVE IInv'
  OBVIOUS
<1>1. UNCHANGED <<refcount, data, root, tables, entry, state, rax, current, kernel>>
  BY DEF vars
<1>2. TypeOK /\ OneOwner /\ UsedIsAllocated /\ KernelMapped /\ StackMapped /\ CallFits /\ BuiltSoFar
  BY DEF IInv, KernelInv
<1>3. TypeOK'
  BY <1>1, <1>2 DEF TypeOK
<1>4. OneOwner' /\ UsedIsAllocated'
  <2>1. \A p \in Pid : Exists(p)' => Exists(p)
    BY <1>1 DEF Exists
  <2>2. Pending' = Pending
    BY <1>1 DEF Pending
  <2>3. QED
    BY <1>1, <1>2, <2>1, <2>2, Quiet
<1>5. KernelMapped' /\ StackMapped'
  BY <1>1, <1>2, SameRunners
<1>6. CallFits'
  BY <1>1, <1>2 DEF CallFits, Building
<1>7. BuiltSoFar'
  BY <1>1, <1>2 DEF BuiltSoFar, Building, LowSoFar, Wanted, UserEntries, FreeFrames
<1>8. QED
  BY <1>3, <1>4, <1>5, <1>6, <1>7 DEF IInv, KernelInv

LEMMA Steps == IInv /\ [Next]_vars => IInv'
<1> SUFFICES ASSUME IInv, [Next]_vars PROVE IInv'
  OBVIOUS
<1>1. CASE UserStep
  BY <1>1, ForkStep, CallStep, ExitStep, AllocStep, StoreStep DEF UserStep
<1>2. CASE KernelStep
  BY <1>2, SetupStep, PageLowStep, PageSkipStep, PageNewStep, PageFailsStep, MapTableStep, MapFailsStep,
     MapEntryStep, SetupDoneStep, ForkDoneStep DEF KernelStep
<1>3. CASE Timer \/ UserPanic
  BY <1>3, CallStep
<1>4. CASE UNCHANGED vars
  BY <1>4, Stutters
<1>5. QED
  BY <1>1, <1>2, <1>3, <1>4 DEF Next

LEMMA Inductive == Spec => []IInv
<1>1. Init => IInv
  BY Starts
<1>2. IInv /\ [Next]_vars => IInv'
  BY Steps
<1>3. QED
  BY <1>1, <1>2, PTL DEF Spec

\* Isolation, protection from reuse and the kernel mapping that check_pagetable asserts, after
\* any history of calls of any number of processes, whatever runs out of memory half way.
THEOREM MemorySafe == Spec => []KernelInv
<1>1. IInv => KernelInv
  BY DEF IInv
<1>2. QED
  BY <1>1, Inductive, PTL

-----------------------------------------------------------------------------
(* What exit and a fork that gives up return.                              *)
GivesBack(p) == \A v \in User : entry[p][v] # None => refcount'[entry[p][v]] = 0

LEMMA FreedAll ==
  ASSUME IInv, NEW p \in Pid, Exists(p), NEW S, refcount' = Kfreed(S),
         \A v \in User : entry[p][v] # None => entry[p][v] \in S
  PROVE  GivesBack(p)
<1> SUFFICES ASSUME NEW v \in User, entry[p][v] # None PROVE refcount'[entry[p][v]] = 0
  BY DEF GivesBack
<1>1. TypeOK /\ OneOwner /\ UsedIsAllocated
  BY DEF IInv, KernelInv
<1>2. Held[<<p, "page", v>>] = entry[p][v]
  BY HeldIs
<1>3. refcount[entry[p][v]] = 1 /\ entry[p][v] \in Frames
  BY <1>1, <1>2, Owners, SlotKinds, HeldSome DEF Separate
<1>4. QED
  BY <1>1, <1>3, Freed DEF TypeOK

LEMMA AbandonReturns ==
  ASSUME IInv, Building, kernel.call = "fork", Abandon, kernel'.at = "user"
  PROVE  GivesBack(kernel.pid)
<1>1. PICK c \in Pid : c = kernel.pid
  BY DEF IInv, KernelInv, TypeOK, KernelStates
<1>2. PICK S : S = {entry[c][v] : v \in User}
  OBVIOUS
<1>3. refcount' = Kfreed(S)
  BY <1>1, <1>2, RestTypes DEF Abandon
<1>4. Exists(c)
  BY <1>1 DEF Exists, Building
<1>5. QED
  BY <1>1, <1>2, <1>3, <1>4, FreedAll

LEMMA ExitReturns ==
  ASSUME IInv, Exit
  PROVE  GivesBack(current)
<1>1. PICK c \in Pid : c = current /\ Exists(c)
  BY Resting DEF Exit, Exists
<1>2. PICK S : S = {entry[c][v] : v \in UserEntries(c)}
  OBVIOUS
<1>3. refcount' = Kfreed(S)
  BY <1>1, <1>2 DEF Exit
<1>4. \A v \in User : entry[c][v] # None => entry[c][v] \in S
  BY <1>2 DEF UserEntries
<1>5. QED
  BY <1>1, <1>3, <1>4, FreedAll

\* The same property as PagesReturned, of one step.
LEMMA StepReturns ==
  ASSUME IInv, Next, NEW p \in Pid,
         \/ state[p] = "runnable" /\ state'[p] = "free"
         \/ kernel.call = "fork" /\ kernel.pid = p /\ kernel'.at = "user" /\ state'[p] # "runnable"
  PROVE  GivesBack(p)
<1>1. TypeOK /\ CallFits /\ current \in Pid
  BY DEF IInv, KernelInv, TypeOK
<1>2. CASE Running
  <2>1. kernel.call # "fork"
    BY <1>2, Resting
  <2>2. state[p] = "runnable" /\ state'[p] = "free"
    BY <2>1
  <2>3. ~UNCHANGED state /\ state' # [state EXCEPT ![current] = "faulted"]
    BY <1>1, <2>2 DEF TypeOK
  <2>4. Exit
    BY <1>2, <2>3 DEF Next, UserStep, KernelStep, Timer, UserPanic, ForkStart, ForkNoSlot, GetPid, Yield,
       PageFault, PageAlloc, Store, Running, ProcessSetup, PageLow, PageSkip, PageNew, PageFails, MapTable,
       MapFails, MapEntry, SetupDone, ForkDone
  <2>5. p = current
    BY <1>1, <2>2, <2>4 DEF Exit, TypeOK
  <2>6. QED
    BY <2>4, <2>5, ExitReturns
<1>3. CASE ~Running
  <2>1. KernelStep
    BY <1>3 DEF Next, UserStep, Timer, UserPanic, ForkStart, ForkNoSlot, GetPid, Yield, Exit,
       PageFault, PageAlloc, Store
  <2>2. state' = state \/ state' = [state EXCEPT ![kernel.pid] = "runnable"]
    BY <2>1 DEF KernelStep, ProcessSetup, PageLow, PageSkip, PageNew, PageFails, MapTable,
       MapFails, MapEntry, SetupDone, ForkDone
  <2>3. ~ (state[p] = "runnable" /\ state'[p] = "free")
    BY <1>1, <2>2 DEF TypeOK
  <2>4. kernel.call = "fork" /\ kernel.pid = p /\ kernel'.at = "user" /\ state'[p] # "runnable" /\ Building
    BY <1>1, <2>3 DEF CallFits
  <2>5. ~SetupDone /\ ~ForkDone /\ ~ProcessSetup
    BY <1>1, <2>4 DEF SetupDone, ForkDone, TypeOK, ProcessSetup, Building
  <2>6. CASE PageLow \/ PageSkip \/ PageNew \/ MapTable \/ MapEntry
    <3>1. kernel'.at \in {"page", "map"}
      BY <1>1, <2>4, <2>6 DEF PageLow, PageSkip, PageNew, MapTable, MapEntry, TypeOK, KernelStates, Building
    <3>2. QED
      BY <2>4, <3>1
  <2>7. CASE PageFails
    BY <2>4, <2>7, AbandonReturns DEF PageFails
  <2>8. CASE MapFails
    <3>1. kernel.page \notin Low
      BY <1>1, <2>4, <2>8 DEF MapFails, TypeOK, KernelStates
    <3>2. QED
      BY <2>4, <2>8, <3>1, AbandonReturns DEF MapFails
  <2>9. QED
    BY <2>1, <2>5, <2>6, <2>7, <2>8 DEF KernelStep
<1>4. QED
  BY <1>2, <1>3

\* A process that exits gives back every page it could use, and a fork that runs out of memory
\* and comes back every page it had mapped for the child.
THEOREM CallsReturnPages == Spec => PagesReturned
<1>1. ASSUME IInv, [Next]_vars
      PROVE  [\A p \in Pid :
                 \/ state[p] = "runnable" /\ state'[p] = "free"
                 \/ kernel.call = "fork" /\ kernel.pid = p /\ kernel'.at = "user" /\ state'[p] # "runnable"
                 => \A v \in User : entry[p][v] # None => refcount'[entry[p][v]] = 0]_vars
  BY <1>1, StepReturns DEF GivesBack
<1>2. QED
  BY <1>1, Inductive, PTL DEF Spec, PagesReturned

-----------------------------------------------------------------------------
(* What programs see: the processes of Processes.                          *)
Space == [p \in Pid |-> Seen(p)]

LEMMA SeenIs ==
  /\ \A p \in Pid : Space[p] = Seen(p)
  /\ \A p \in Pid : Seen(p) = [v \in User |-> Seen(p)[v]]
  /\ \A p \in Pid, v \in User :
       Seen(p)[v] = IF state[p] = "runnable" /\ entry[p][v] # None THEN data[entry[p][v]] ELSE Unmapped
BY DEF Space, Seen

LEMMA SeenKept ==
  ASSUME NEW p \in Pid, state'[p] = "runnable" <=> state[p] = "runnable",
         state[p] = "runnable" =>
           \A v \in User : /\ entry'[p][v] = entry[p][v]
                           /\ entry[p][v] # None => data'[entry[p][v]] = data[entry[p][v]]
  PROVE  Seen(p)' = Seen(p)
BY DEF Seen

\* A step no program sees.
LEMMA Hidden ==
  ASSUME UNCHANGED <<state, rax>>,
         \A p \in Pid : state[p] = "runnable" =>
           \A v \in User : /\ entry'[p][v] = entry[p][v]
                           /\ entry[p][v] # None => data'[entry[p][v]] = data[entry[p][v]]
  PROVE  UNCHANGED <<Space, Runnable(state), rax>>
<1>1. \A p \in Pid : Seen(p)' = Seen(p)
  BY SeenKept
<1>2. Space' = Space
  BY <1>1 DEF Space
<1>3. Runnable(state)' = Runnable(state)
  BY DEF Runnable
<1>4. QED
  BY <1>2, <1>3

LEMMA HiddenAllocation ==
  ASSUME IInv, NEW f \in Frames, Kalloc(f), UNCHANGED <<state, rax>>,
         \A p \in Pid : state[p] = "runnable" => entry'[p] = entry[p]
  PROVE  UNCHANGED <<Space, Runnable(state), rax>>
<1>1. \A p \in Pid : state[p] = "runnable" => Exists(p)
  BY DEF Exists
<1>2. QED
  BY <1>1, DataKept, Hidden

\* The answer r to a call that does nothing else.
LEMMA Answers ==
  ASSUME IInv, state[current] = "runnable", NEW r, r \in {-1, 0, current},
         rax' = [rax EXCEPT ![current] = r],
         UNCHANGED <<data, entry, state>>
  PROVE  Promised!ProcessesNext
<1>1. PICK c \in Pid : c = current
  BY DEF IInv, KernelInv, TypeOK
<1>2. \A p \in Pid : Seen(p)' = Seen(p)
  BY SeenKept
<1>3. Space' = Space /\ Runnable(state)' = Runnable(state)
  BY <1>2 DEF Space, Runnable
<1>4. c \in Runnable(state)
  BY <1>1 DEF Runnable
<1>5. Promised!Answer(c, r)
  BY <1>1, <1>3, <1>4 DEF Promised!Answer, Space
<1>6. QED
  BY <1>1, <1>5 DEF Promised!ProcessesNext

\* The process stops being runnable.
LEMMA Ends ==
  ASSUME IInv, Running, NEW s \in {"free", "faulted"}, state' = [state EXCEPT ![current] = s],
         UNCHANGED <<data, entry, rax>>
  PROVE  Promised!ProcessesNext
<1>1. PICK c \in Pid : c = current
  BY DEF IInv, KernelInv, TypeOK
<1>2. /\ state[c] = "runnable" /\ state'[c] # "runnable"
      /\ \A p \in Pid : p # c => state'[p] = state[p]
  BY <1>1 DEF IInv, KernelInv, TypeOK, Running
<1>3. \A p \in Pid : p # c => Seen(p)' = Seen(p)
  BY <1>2, SeenKept
<1>4. Seen(c)' = Promised!Nothing
  BY <1>2 DEF Seen, Promised!Nothing
<1>5. Space' = [Space EXCEPT ![c] = Promised!Nothing]
  BY <1>3, <1>4 DEF Space
<1>6. Runnable(state)' = Runnable(state) \ {c} /\ c \in Runnable(state)
  BY <1>2 DEF Runnable
<1>7. Promised!End(c)
  BY <1>5, <1>6 DEF Promised!End, Space
<1>8. QED
  BY <1>7 DEF Promised!ProcessesNext

\* A program stores into a page of its own: nobody else has that frame.
LEMMA Stores ==
  ASSUME IInv, NEW w \in User, NEW x \in Values, Store(w, x)
  PROVE  Promised!ProcessesNext
<1>1. PICK c \in Pid : c = current
  BY DEF IInv, KernelInv, TypeOK
<1>2. PICK f : f = entry[c][w]
  OBVIOUS
<1>3. /\ state[c] = "runnable" /\ f # None /\ data' = [data EXCEPT ![f] = x]
      /\ UNCHANGED <<entry, state, rax>>
  BY <1>1, <1>2 DEF Store, Running, UserEntries
<1>4. TypeOK /\ OneOwner /\ UsedIsAllocated
  BY DEF IInv, KernelInv
<1>5. f \in Frames
  BY <1>2, <1>3, <1>4, Layout DEF TypeOK
<1>6. ASSUME NEW p \in Pid, state[p] = "runnable", NEW v \in User, entry[p][v] # None, p # c \/ v # w
      PROVE  data'[entry[p][v]] = data[entry[p][v]]
  <2>1. Exists(p) /\ Exists(c)
    BY <1>3, <1>6 DEF Exists
  <2>2. Held[<<p, "page", v>>] = entry[p][v] /\ Held[<<c, "page", w>>] = f
    BY <1>2, <2>1, HeldIs
  <2>3. <<p, "page", v>> # <<c, "page", w>>
    BY <1>6
  <2>4. entry[p][v] # f
    BY <1>3, <1>4, <2>2, <2>3, Owners, SlotKinds DEF Separate
  <2>5. entry[p][v] \in Frames
    BY <1>4, <1>6, Layout DEF TypeOK
  <2>6. QED
    BY <1>3, <1>4, <2>4, <2>5 DEF TypeOK
<1>7. data'[f] = x
  BY <1>3, <1>4, <1>5 DEF TypeOK
<1>8. \A p \in Pid : p # c => Seen(p)' = Seen(p)
  BY <1>3, <1>6, SeenKept
<1>9. Seen(c)' = [Seen(c) EXCEPT ![w] = x]
  BY <1>2, <1>3, <1>6, <1>7 DEF Seen
<1>10. Space' = [Space EXCEPT ![c][w] = x]
  BY <1>8, <1>9 DEF Space
<1>11. Runnable(state)' = Runnable(state) /\ c \in Runnable(state)
  BY <1>3 DEF Runnable
<1>12. Space[c][w] # Unmapped
  <2>1. Space[c][w] = data[f]
    BY <1>2, <1>3, SeenIs
  <2>2. QED
    BY <1>4, <1>5, <2>1 DEF TypeOK, Values, Unmapped
<1>13. Promised!Store(c, w, x)
  BY <1>3, <1>10, <1>11, <1>12 DEF Promised!Store, Space
<1>14. QED
  BY <1>13 DEF Promised!ProcessesNext

\* The page of a page_alloc appears, cleared; any other page that is mapped is for a process
\* that programs do not see yet.
LEMMA MapEntryRefines ==
  ASSUME IInv, MapEntry
  PROVE  Promised!ProcessesNext \/ UNCHANGED <<Space, Runnable(state), rax>>
<1>1. kernel.at = "map" /\ Building
  BY DEF MapEntry, Building
<1>2. TypeOK /\ CallFits
  BY DEF IInv, KernelInv
<1>3. PICK c \in Pid : c = kernel.pid
  BY <1>2 DEF TypeOK, KernelStates
<1>4. PICK n \in Pages : n = kernel.page
  BY <1>1, <1>2 DEF CallFits
<1>5. PICK f \in Frames : f = kernel.frame
  BY <1>1, <1>2 DEF CallFits
<1>6. /\ entry'[c][n] = f
      /\ \A p \in Pid, v \in Pages : p # c \/ v # n => entry'[p][v] = entry[p][v]
      /\ data'[f] = Filled
      /\ \A g \in Frames : g # f => data'[g] = data[g]
      /\ UNCHANGED <<refcount, root, tables, state, current>>
  BY <1>3, <1>4, <1>5, MapEntryIs
<1>7. ASSUME NEW p \in Pid, state[p] = "runnable", NEW v \in User, entry[p][v] # None
      PROVE  data'[entry[p][v]] = data[entry[p][v]]
  <2>1. Exists(p)
    BY <1>7 DEF Exists
  <2>2. entry[p][v] # f
    BY <1>1, <1>5, <1>7, <2>1, PendingApart
  <2>3. entry[p][v] \in Frames
    BY <1>2, <1>7, Layout DEF TypeOK
  <2>4. QED
    BY <1>6, <2>2, <2>3
<1>8. CASE kernel.call = "alloc"
  <2>1. c = current /\ state[c] = "runnable" /\ n \in User /\ data[f] = 0
    BY <1>2, <1>3, <1>4, <1>5, <1>8 DEF CallFits
  <2>2. rax' = [rax EXCEPT ![c] = 0]
    BY <1>8, <2>1 DEF MapEntry
  <2>3. data'[f] = 0
    BY <1>1, <1>5, <1>6, <1>8, <2>1, FilledIs
  <2>4. \A p \in Pid, v \in User : p # c \/ v # n => entry'[p][v] = entry[p][v]
    BY <1>6, Layout
  <2>5. \A p \in Pid : p # c => Seen(p)' = Seen(p)
    BY <1>6, <1>7, <2>4, SeenKept
  <2>6. f # None
    BY Layout
  <2>7. Seen(c)' = [Seen(c) EXCEPT ![n] = 0]
    <3>1. \A v \in User : v # n => Seen(c)'[v] = Seen(c)[v]
      BY <1>6, <1>7, <2>1, <2>4 DEF Seen
    <3>2. Seen(c)'[n] = 0
      BY <1>6, <2>1, <2>3, <2>6 DEF Seen
    <3>3. Seen(c)' = [v \in User |-> Seen(c)'[v]] /\ Seen(c) = [v \in User |-> Seen(c)[v]]
      BY DEF Seen
    <3>4. QED
      BY <2>1, <3>1, <3>2, <3>3
  <2>8. Space' = [Space EXCEPT ![c][n] = 0]
    BY <2>5, <2>7 DEF Space
  <2>9. Runnable(state)' = Runnable(state) /\ c \in Runnable(state)
    BY <1>6, <2>1 DEF Runnable
  <2>10. Promised!PageAlloc(c, n)
    BY <2>2, <2>8, <2>9 DEF Promised!PageAlloc, Space
  <2>11. QED
    BY <2>1, <2>10 DEF Promised!ProcessesNext
<1>9. CASE kernel.call # "alloc"
  <2>1. state[c] = "free" /\ UNCHANGED rax
    BY <1>1, <1>3, <1>9, Loop DEF MapEntry
  <2>2. \A p \in Pid : state[p] = "runnable" => p # c
    BY <2>1
  <2>3. \A p \in Pid : state[p] = "runnable" => \A v \in User : entry'[p][v] = entry[p][v]
    BY <1>6, <2>2, Layout
  <2>4. QED
    BY <1>6, <1>7, <2>1, <2>3, Hidden
<1>10. QED
  BY <1>8, <1>9

\* The new process appears all at once: the program loaded, or a copy of its parent.
LEMMA DoneRefines ==
  ASSUME IInv, SetupDone \/ ForkDone
  PROVE  Promised!ProcessesNext
<1>1. kernel.at = "page" /\ kernel.page > NPages /\ UNCHANGED <<data, entry>>
  BY DEF SetupDone, ForkDone
<1>2. TypeOK
  BY DEF IInv, KernelInv
<1>3. PICK c \in Pid : c = kernel.pid
  BY <1>2 DEF TypeOK, KernelStates
<1>4. current \in Pid
  BY <1>2 DEF TypeOK
<1>5. state' = [state EXCEPT ![c] = "runnable"]
  BY <1>3 DEF SetupDone, ForkDone
<1>6. state'[c] = "runnable" /\ \A p \in Pid : p # c => state'[p] = state[p]
  BY <1>2, <1>5 DEF TypeOK
<1>7. \A p \in Pid : p # c => Seen(p)' = Seen(p)
  BY <1>1, <1>6, SeenKept
<1>8. Runnable(state)' = Runnable(state) \cup {c}
  BY <1>6 DEF Runnable
<1>9. c \notin Runnable(state)
  BY <1>1, <1>3, Loop DEF Runnable, SetupDone, ForkDone, Building
<1>10. CASE SetupDone
  <2>1. UNCHANGED rax
    BY <1>10 DEF SetupDone
  <2>2. Seen(c)' \in [User -> Values \cup {Unmapped}]
    <3>1. \A v \in User : entry[c][v] # None => data[entry[c][v]] \in Values
      <4>1. \A v \in User : entry[c][v] # None => entry[c][v] \in Frames
        BY <1>2, Layout DEF TypeOK
      <4>2. data \in [Frames -> Values]
        BY <1>2 DEF TypeOK
      <4>3. QED
        BY <4>1, <4>2
    <3>2. \A v \in User : entry'[c][v] # None => data'[entry'[c][v]] \in Values
      BY <1>1, <3>1
    <3>3. QED
      BY <3>2 DEF Seen
  <2>3. Space' = [Space EXCEPT ![c] = Seen(c)']
    BY <1>7 DEF Space
  <2>4. Promised!Load(c)
    BY <1>8, <1>9, <2>1, <2>2, <2>3 DEF Promised!Load, Space
  <2>5. QED
    BY <2>4 DEF Promised!ProcessesNext
<1>11. CASE ForkDone
  <2>1. kernel.call = "fork"
    BY <1>11 DEF ForkDone
  <2>2. PICK m \in Pid : m = current
    BY <1>4
  <2>3. state[m] = "runnable" /\ m # c
    BY <1>3, <1>1, <2>1, <2>2, Loop DEF Building
  <2>4. rax' = [rax EXCEPT ![m] = c, ![c] = 0]
    BY <1>3, <1>11, <2>2 DEF ForkDone
  <2>5. /\ \A v \in User : entry[c][v] # None <=> Wanted(v)
        /\ \A v \in User : entry[m][v] # None => data[entry[c][v]] = data[entry[m][v]]
    BY <1>1, <1>3, <2>1, <2>2, Complete
  <2>6. \A v \in User : entry[c][v] # None <=> entry[m][v] # None
    BY <2>1, <2>2, <2>5, WantedFork
  <2>7. Seen(c)' = Seen(m)
    BY <1>1, <1>6, <2>3, <2>5, <2>6 DEF Seen
  <2>8. Space' = [Space EXCEPT ![c] = Space[m]]
    BY <1>7, <2>7 DEF Space
  <2>9. m \in Runnable(state)
    BY <2>3 DEF Runnable
  <2>10. Promised!Fork(m, c)
    BY <1>8, <1>9, <2>4, <2>8, <2>9 DEF Promised!Fork, Space
  <2>11. QED
    BY <2>10 DEF Promised!ProcessesNext
<1>12. QED
  BY <1>10, <1>11

\* A call that gives up answers -1, when it answers.
LEMMA AbandonRefines ==
  ASSUME IInv, Building, Abandon, UNCHANGED <<data, root, tables, entry, state, current>>
  PROVE  Promised!ProcessesNext \/ UNCHANGED <<Space, Runnable(state), rax>>
<1>1. rax' = rax \/ (kernel.call \in {"alloc", "fork"} /\ rax' = [rax EXCEPT ![current] = -1])
  BY DEF Abandon
<1>2. CASE rax' = rax
  BY <1>2, Hidden
<1>3. CASE kernel.call \in {"alloc", "fork"} /\ rax' = [rax EXCEPT ![current] = -1]
  <2>1. state[current] = "runnable"
    BY <1>3 DEF IInv, CallFits
  <2>2. QED
    BY <1>3, <2>1, Answers
<1>4. QED
  BY <1>1, <1>2, <1>3

LEMMA TableRefines ==
  ASSUME IInv, NEW call, NEW c \in Pid, state[c] = "free", NewTable(call, c), UNCHANGED <<state, rax>>
  PROVE  UNCHANGED <<Space, Runnable(state), rax>>
<1>1. TypeOK
  BY DEF IInv, KernelInv
<1>2. \A p \in Pid : state[p] = "runnable" => p # c
  OBVIOUS
<1>3. CASE OutOfMemory /\ UNCHANGED entry
  BY <1>3, Hidden DEF OutOfMemory
<1>4. CASE \E f \in Frames : Kalloc(f) /\ entry' = [entry EXCEPT ![c] = [v \in Pages |-> None]]
  <2>1. PICK f \in Frames : Kalloc(f)
    BY <1>4
  <2>2. \A p \in Pid : p # c => entry'[p] = entry[p]
    BY <1>1, <1>4 DEF TypeOK
  <2>3. QED
    BY <1>2, <2>1, <2>2, HiddenAllocation
<1>5. QED
  BY <1>3, <1>4 DEF NewTable

LEMMA UserRefines ==
  ASSUME IInv, UserStep \/ Timer \/ UserPanic
  PROVE  Promised!ProcessesNext \/ UNCHANGED <<Space, Runnable(state), rax>>
<1>1. Running /\ current \in Pid /\ state[current] = "runnable" /\ kernel.call = "none"
  BY Resting DEF UserStep, Timer, UserPanic, ForkStart, ForkNoSlot, GetPid, Yield, Exit, PageFault, PageAlloc, Store
<1>2. CASE ForkStart
  <2>1. PICK c \in Pid : state[c] = "free" /\ NewTable("fork", c)
    BY <1>2 DEF ForkStart
  <2>2. QED
    BY <1>2, <2>1, TableRefines DEF ForkStart
<1>3. CASE ForkNoSlot \/ GetPid \/ Yield
  <2>1. \/ UNCHANGED rax
        \/ \E r \in {-1, 0, current} : rax' = [rax EXCEPT ![current] = r]
    BY <1>3 DEF ForkNoSlot, GetPid, Yield
  <2>2. UNCHANGED <<data, entry, state>>
    BY <1>3 DEF ForkNoSlot, GetPid, Yield
  <2>3. QED
    BY <1>1, <2>1, <2>2, Answers, Hidden
<1>4. CASE Timer \/ UserPanic
  BY <1>4, Hidden DEF Timer, UserPanic
<1>5. CASE Exit \/ PageFault
  BY <1>1, <1>5, Ends DEF Exit, PageFault
<1>6. ASSUME NEW w \in Heap, PageAlloc(w)
      PROVE  Promised!ProcessesNext \/ UNCHANGED <<Space, Runnable(state), rax>>
  <2>1. UNCHANGED <<entry, state>>
    BY <1>6 DEF PageAlloc
  <2>2. CASE OutOfMemory /\ rax' = [rax EXCEPT ![current] = -1]
    BY <1>1, <2>1, <2>2, Answers DEF OutOfMemory
  <2>3. CASE \E f \in Frames : Kalloc(f) /\ UNCHANGED rax
    BY <2>1, <2>3, HiddenAllocation
  <2>4. QED
    BY <1>6, <2>2, <2>3 DEF PageAlloc
<1>7. CASE \E w \in User, x \in Values : Store(w, x)
  BY <1>7, Stores
<1>8. QED
  BY <1>2, <1>3, <1>4, <1>5, <1>6, <1>7 DEF UserStep

LEMMA KernelRefines ==
  ASSUME IInv, KernelStep
  PROVE  Promised!ProcessesNext \/ UNCHANGED <<Space, Runnable(state), rax>>
<1>1. CASE ProcessSetup
  <2>1. PICK c \in Pid : c = kernel.pid
    BY DEF IInv, KernelInv, TypeOK, KernelStates
  <2>2. state[c] = "free"
    BY <1>1, <2>1, Layout DEF IInv, CallFits, ProcessSetup
  <2>3. QED
    BY <1>1, <2>1, <2>2, TableRefines DEF ProcessSetup
<1>2. CASE PageLow \/ PageSkip
  BY <1>2, Hidden DEF PageLow, PageSkip
<1>3. CASE PageNew \/ MapTable
  BY <1>3, HiddenAllocation DEF PageNew, MapTable
<1>4. CASE PageFails
  BY <1>4, AbandonRefines DEF PageFails, Building
<1>5. CASE MapFails
  <2>1. UNCHANGED <<data, root, tables, entry, state, current>>
    BY <1>5 DEF MapFails
  <2>2. Abandon \/ UNCHANGED rax
    BY <1>5 DEF MapFails
  <2>3. QED
    BY <1>5, <2>1, <2>2, AbandonRefines, Hidden DEF MapFails, Building
<1>6. CASE MapEntry
  BY <1>6, MapEntryRefines
<1>7. CASE SetupDone \/ ForkDone
  BY <1>7, DoneRefines
<1>8. QED
  BY <1>1, <1>2, <1>3, <1>4, <1>5, <1>6, <1>7 DEF KernelStep

LEMMA StartRefines == Init => Promised!ProcessesInit
<1> SUFFICES ASSUME Init PROVE Promised!ProcessesInit
  OBVIOUS
<1>1. \A p \in Pid : state[p] # "runnable" /\ rax[p] = 0
  BY DEF Init
<1>2. \A p \in Pid : Seen(p) = Promised!Nothing
  BY <1>1 DEF Seen, Promised!Nothing
<1>3. Runnable(state) = {}
  BY <1>1 DEF Runnable
<1>4. rax = [p \in Pid |-> 0]
  BY DEF Init
<1>5. QED
  BY <1>2, <1>3, <1>4 DEF Promised!ProcessesInit

\* A fork or a page_alloc built page by page, with failures at every one of them, is to the
\* programs one step that copies or clears a memory nobody else can change, or -1 and no change.
THEOREM KernelImplementsProcesses == Spec => ImplementsProcesses
<1>1. IInv /\ [Next]_vars => [Promised!ProcessesNext]_(Promised!pvars)
  <2> SUFFICES ASSUME IInv, [Next]_vars PROVE Promised!ProcessesNext \/ UNCHANGED Promised!pvars
    OBVIOUS
  <2>1. CASE Next
    <3>1. Promised!ProcessesNext \/ UNCHANGED <<Space, Runnable(state), rax>>
      BY <2>1, UserRefines, KernelRefines DEF Next
    <3>2. QED
      BY <3>1 DEF Promised!pvars, Space
  <2>2. CASE UNCHANGED vars
    <3>1. UNCHANGED <<Space, Runnable(state), rax>>
      BY <2>2, Hidden DEF vars
    <3>2. QED
      BY <3>1 DEF Promised!pvars, Space
  <2>3. QED
    BY <2>1, <2>2
<1>2. QED
  BY <1>1, StartRefines, Inductive, PTL DEF Spec, ImplementsProcesses, Promised!ProcessesSpec
=============================================================================
