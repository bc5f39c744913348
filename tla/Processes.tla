------------------------------ MODULE Processes ------------------------------
(***************************************************************************)
(* What u-lib.hh promises a WeensyOS program: every process has a memory   *)
(* of its own that only its own stores and system calls change, fork       *)
(* duplicates it, page_alloc adds a page of zeroes, and a failing call     *)
(* returns -1 and changes nothing.  Kernel is shown to implement this.     *)
(***************************************************************************)
EXTENDS Integers

CONSTANTS Pid,      \* the process identifiers, 1 to NPROC - 1
          Pages,    \* the virtual pages a program may use
          Values,   \* contents of a page, 0 being the cleared one
          Unmapped  \* what is found at a page that is not there

VARIABLES space,    \* space[p][v]: what process p finds at page v
          live,     \* the processes that can run
          result    \* result[p]: what the last call of p returned

pvars == <<space, live, result>>

Nothing == [v \in Pages |-> Unmapped]

ProcessesInit ==
  /\ space = [p \in Pid |-> Nothing]
  /\ live = {}
  /\ result = [p \in Pid |-> 0]

Load(p) ==
  /\ p \notin live
  /\ \E image \in [Pages -> Values \cup {Unmapped}] : space' = [space EXCEPT ![p] = image]
  /\ live' = live \cup {p}
  /\ UNCHANGED result

Store(p, v, x) ==
  /\ p \in live
  /\ space[p][v] # Unmapped
  /\ space' = [space EXCEPT ![p][v] = x]
  /\ UNCHANGED <<live, result>>

PageAlloc(p, v) ==
  /\ p \in live
  /\ space' = [space EXCEPT ![p][v] = 0]
  /\ result' = [result EXCEPT ![p] = 0]
  /\ UNCHANGED live

Fork(p, child) ==
  /\ p \in live
  /\ child \notin live
  /\ space' = [space EXCEPT ![child] = space[p]]
  /\ live' = live \cup {child}
  /\ result' = [result EXCEPT ![p] = child, ![child] = 0]

\* getpid and yield, and any call that fails
Answer(p, r) ==
  /\ p \in live
  /\ r \in {-1, 0, p}
  /\ result' = [result EXCEPT ![p] = r]
  /\ UNCHANGED <<space, live>>

\* exit, or a page fault
End(p) ==
  /\ p \in live
  /\ space' = [space EXCEPT ![p] = Nothing]
  /\ live' = live \ {p}
  /\ UNCHANGED result

ProcessesNext ==
  \E p \in Pid :
    \/ Load(p) \/ End(p)
    \/ \E v \in Pages : PageAlloc(p, v) \/ \E x \in Values : Store(p, v, x)
    \/ \E child \in Pid : Fork(p, child)
    \/ \E r \in {-1, 0, p} : Answer(p, r)

ProcessesSpec == ProcessesInit /\ [][ProcessesNext]_pvars
=============================================================================
