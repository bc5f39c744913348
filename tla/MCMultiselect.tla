---------------------------- MODULE MCMultiselect ----------------------------
EXTENDS Multiselect, TLC

(* Every chunk of two rows has a match of the first filter; the second     *)
(* filter leaves a chunk without any.  With four workers, one selection is *)
(* scanned privately and merged, two are appended to under their locks.    *)
SomeMatches == [j \in Sels |-> IF j = 1 THEN {r \in Rows : r % 3 # 1} ELSE {r \in Rows : r > 1}]
WorkerSymmetry == Permutations(Workers)
=============================================================================
