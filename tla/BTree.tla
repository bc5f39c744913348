-------------------------------- MODULE BTree --------------------------------
(***************************************************************************)
(* The indexes of the column store (btree.c, index.c): a tree bulk-loaded   *)
(* over the sorted pairs of key and position of a column, searches in it,   *)
(* and the copies of a table's columns that a clustered index keeps in the  *)
(* order of one of them.                                                    *)
(*                                                                          *)
(* Positions in the sorted data count from 0.  What lies before and after   *)
(* the array, and what an overflowing node leaves in its bounds, is the     *)
(* argument `junk`, any integer.                                            *)
(***************************************************************************)
EXTENDS Integers, Sequences, FiniteSets
LOCAL INSTANCE SequencesExt
LOCAL INSTANCE FiniteSetsExt

CONSTANTS LeafFanout, InternalFanout,
          UnsignedModulus     \* an int compared by min() or max() is a size_t
ASSUME FanoutsPositive == LeafFanout \in Nat \ {0} /\ InternalFanout \in Nat \ {0}

(* --- Building ------------------------------------------------------------- *)
Sorted(seq) == SortSeq(seq, LAMBDA a, b : a.key < b.key)

ToKeyPos(column) == [i \in DOMAIN column |-> [key |-> column[i], pos |-> i - 1]]

Leaf(data, start) ==
  LET last == Min({start + LeafFanout, Len(data)})
  IN [start |-> start, stop |-> last, low |-> data[start + 1].key, high |-> data[last].key]

Leaves(data) ==
  [i \in 1..((Len(data) + LeafFanout - 1) \div LeafFanout) |-> Leaf(data, (i - 1) * LeafFanout)]

(* The inner nodes come zeroed from their pool, and min and max compare     *)
(* size_t values, among which a negative bound is a large one.              *)
CreateInternal == [keys |-> <<>>, children |-> <<>>, low |-> 0, high |-> 0]

AsSize(n) == IF n < 0 THEN n + UnsignedModulus ELSE n
SmallerOf(a, b) == IF AsSize(a) < AsSize(b) THEN a ELSE b
LargerOf(a, b) == IF AsSize(a) > AsSize(b) THEN a ELSE b

(* mutant: the key of a child is its low bound                              *)
WithChild_Low(node, child, junk) ==
  [keys |-> IF Len(node.children) < InternalFanout
            THEN Append(node.keys, child.low) ELSE node.keys,
   children |-> Append(node.children, child),
   low |-> SmallerOf(node.low, child.low),
   high |-> LargerOf(node.high, child.high)]

(* A child beyond the last place overwrites the node's two bounds.          *)
WithChild(node, child, junk) ==
  LET fits == Len(node.children) <= InternalFanout
  IN [keys |-> IF Len(node.children) < InternalFanout
               THEN Append(node.keys, child.high) ELSE node.keys,
      children |-> Append(node.children, child),
      low |-> IF fits THEN SmallerOf(node.low, child.low) ELSE junk,
      high |-> IF fits THEN LargerOf(node.high, child.high) ELSE junk]

(* One level over another.  A full node is passed on before the next child  *)
(* is placed; if that child is the last one no node is made for it, and the *)
(* full node takes it and is passed on again.                               *)
Level(lower, junk) ==
  LET Place(level, i) ==
        LET full == Len(level.current.children) = InternalFanout + 1
        IN [done |-> IF full THEN Append(level.done, level.current) ELSE level.done,
            current |-> WithChild(IF full /\ i # Len(lower) THEN CreateInternal ELSE level.current,
                                  lower[i], junk)]
      placed == FoldLeft(Place, [done |-> <<>>, current |-> CreateInternal],
                         [i \in DOMAIN lower |-> i])
      overfull == Len(placed.current.children) = InternalFanout + 2
  IN (IF overfull THEN [placed.done EXCEPT ![Len(placed.done)] = placed.current] ELSE placed.done)
     \o <<placed.current>>

RECURSIVE Climb(_, _, _)
Climb(lower, depth, junk) ==
  IF Len(lower) <= 1 THEN [level |-> lower, depth |-> depth]
  ELSE Climb(Level(lower, junk), depth + 1, junk)

(* An empty column fails the assertion that one node is left: no tree.      *)
LoadBtree(data, junk) ==
  LET top == Climb(Leaves(data), 0, junk)
  IN [root |-> top.level[1], depth |-> top.depth, data |-> data, junk |-> junk]

(* The levels on which the last child finds its node full, from the number  *)
(* of nodes on the lowest one.                                              *)
RECURSIVE Overflows(_)
Overflows(count) ==
  count > 1 /\ (count % (InternalFanout + 1) = 1
                \/ Overflows((count + InternalFanout) \div (InternalFanout + 1)))

(* --- Searching ------------------------------------------------------------ *)
KeyAt(bt, i) == IF 0 <= i /\ i < Len(bt.data) THEN bt.data[i + 1].key ELSE bt.junk

(* The binary search of the first key of a slice that is not smaller: what  *)
(* it leaves in h and in out.                                               *)
RECURSIVE Halve(_, _, _, _, _)
Halve(bt, l, h, out, key) ==
  IF h <= l THEN [h |-> h, out |-> out]
  ELSE LET m == l + (h - l) \div 2
       IN IF KeyAt(bt, m) < key THEN Halve(bt, m + 1, h, out, key)
          ELSE Halve(bt, l, m, IF KeyAt(bt, m) = key THEN m ELSE out, key)

FindSortedSlice(bt, start, stop, key) ==
  LET found == Halve(bt, start, stop, -1, key)
      out == IF found.out = -1 THEN found.h - 1 ELSE found.out
  IN IF key > KeyAt(bt, out) THEN out + 1 ELSE out

FindSorted(bt, key) == FindSortedSlice(bt, 0, Len(bt.data), key)

(* The first separator that is greater than the key.                        *)
InternalSearch(key, keys) == Cardinality({k \in DOMAIN keys : \A j \in 1..k : keys[j] <= key})

RECURSIVE Descend(_, _, _)
Descend(node, depth, key) ==
  IF depth = 0 THEN node
  ELSE LET used == Min({Len(node.children) - 1, InternalFanout})
       IN Descend(node.children[InternalSearch(key, SubSeq(node.keys, 1, used)) + 1], depth - 1, key)

FindLeaf(bt, key) == Descend(bt.root, bt.depth, key)

Find(bt, key) ==
  LET leaf == FindLeaf(bt, key) IN FindSortedSlice(bt, leaf.start, leaf.stop, key)

(* FALSE and no position when the key is not at the place of the search.    *)
FindFirst(bt, key) == [found |-> KeyAt(bt, Find(bt, key)) = key, index |-> Find(bt, key)]

(* Along the key's run of equals, but a leaf's `next` is never set: the     *)
(* walk ends with the leaf.                                                 *)
FindLast(bt, key) ==
  LET leaf == FindLeaf(bt, key)
      from == Find(bt, key)
      Run == {i \in from..(leaf.stop - 1) : \A j \in from..i : KeyAt(bt, j) = key}
  IN IF KeyAt(bt, from) # key THEN [found |-> FALSE, index |-> from]
     ELSE [found |-> TRUE, index |-> IF from >= leaf.stop THEN from ELSE Max(Run)]

(* --- The clustered copies ------------------------------------------------- *)
(* Rows are grouped with the index's column first, sorted by it (rows of    *)
(* one key in any order) and put back column by column.                     *)
PrimaryFirst(columns, primary) ==
  <<primary>> \o SelectSeq([i \in DOMAIN columns |-> i], LAMBDA i : i # primary)

(* mutant: the columns come back in the order of the row store              *)
Multisorts_NoIds(columns, primary) ==
  LET order == PrimaryFirst(columns, primary)
      Sorting(p) == [c \in DOMAIN columns |-> [i \in DOMAIN columns[c] |-> columns[order[c]][p[i]]]]
  IN {Sorting(p) : p \in {q \in Permutations(DOMAIN columns[primary]) :
        \A i \in 1..(Len(columns[primary]) - 1) :
          columns[primary][q[i]] <= columns[primary][q[i + 1]]}}

Multisorts(columns, primary) ==
  LET order == PrimaryFirst(columns, primary)
      rows == [i \in DOMAIN columns[primary] |-> [c \in DOMAIN order |-> columns[order[c]][i]]]
      Arranged(p) == [i \in DOMAIN rows |-> rows[p[i]]]
      sortings == {p \in Permutations(DOMAIN rows) :
                     \A i \in 1..(Len(rows) - 1) : Arranged(p)[i][1] <= Arranged(p)[i + 1][1]}
      PutBack(sorted) ==
        [c \in DOMAIN columns |->
           LET k == CHOOSE k \in DOMAIN order : order[k] = c
           IN [i \in DOMAIN sorted |-> sorted[i][k]]]
  IN {PutBack(Arranged(p)) : p \in sortings}

InitializeIndexes(columns, primary, clustered) ==
  {[sorted |-> Sorted(ToKeyPos(columns[primary])), copies |-> copies] :
     copies \in IF clustered THEN Multisorts(columns, primary) ELSE {<<>>}}
=============================================================================
