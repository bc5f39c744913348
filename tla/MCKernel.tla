------------------------------- MODULE MCKernel -------------------------------
(* Pages 1, 2: kernel and console; 3, 4: image and heap, below 2MB as they  *)
(* are; 5: the stack, above it.  Tables 1 and 2 are the two upper levels,   *)
(* 3 and 4 the tables of the first and the second 2MB.                      *)
EXTENDS Kernel

MCWalks == [v \in 1..5 |-> IF v = 5 THEN {1, 2, 4} ELSE {1, 2, 3}]
MCImage == {3}
MCHeap == {4}
=============================================================================
