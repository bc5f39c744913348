------------------------------ MODULE Operators ------------------------------
(***************************************************************************)
(* The operators on columns (db_internals.c): selections, fetches,          *)
(* aggregates, arithmetic and the four joins.  A column or a fetched array  *)
(* is a sequence of integers, a selection a vector of positions counted     *)
(* from 0, an input of a join a record of a selection and the values        *)
(* fetched through it.                                                      *)
(***************************************************************************)
EXTENDS HashTables
LOCAL INSTANCE SequencesExt

CONSTANTS IntMax,              \* INT_MAX
          NoBound,             \* `null` in a query
          SelectGrowth,        \* SELECT_GROWTH_RATE
          SelectCapacity,      \* INITIAL_SELECTION_CAPACITY
          FastJoinThreshold    \* the size from which fast_hash_join is parallel
ASSUME SelectionsGrow == SelectGrowth > 1 /\ SelectCapacity > 0

(* A `null` bound excludes the value INT_MAX, and -INT_MAX - 1.             *)
LowOf(bound) == IF bound = NoBound THEN -IntMax ELSE bound
HighOf(bound) == IF bound = NoBound THEN IntMax ELSE bound

PositionsIn(data, range) ==
  SelectSeq([i \in 1..Len(data) |-> i - 1], LAMBDA p : data[p + 1] \in range)

(* mutant: the upper bound is part of the range                             *)
SelectRange_Closed(data, result, lower, upper) ==
  PushAll(result, PositionsIn(data, LowOf(lower)..HighOf(upper)), SelectGrowth)

SelectRange(data, result, lower, upper) ==
  PushAll(result, PositionsIn(data, LowOf(lower)..(HighOf(upper) - 1)), SelectGrowth)

Picked(xs, positions) == [i \in DOMAIN positions |-> xs[positions[i] + 1]]

(* The values and the selection they were fetched through have one size:    *)
(* the assertion of the code.                                               *)
Reselect(data, original, result, lower, upper) ==
  PushAll(result,
          Picked(original, SelectRange(data, NewVec(SelectCapacity), lower, upper).data), SelectGrowth)

Fetch(data, select) == Picked(data, select)

FetchIndexRange(data, low, high) == SubSeq(data, low + 1, high)

(* An inverse selection can only be narrowed to nothing: any hit aborts.    *)
ReselectInverseAborts(data, lower, upper) ==
  SelectRange(data, NewVec(SelectCapacity), lower, upper).data # <<>>

(* The arguments of set_arr_int are swapped: the position i of the result   *)
(* gets the number i - j, where j counts the ignored positions so far, and  *)
(* i runs past the end of the array (`Stray` says so).                      *)
FetchInverse(data, select) ==
  LET Ignored(i) == {j \in DOMAIN select : select[j] < i}
      kept == {i \in 0..(Len(data) - 1) : \A j \in DOMAIN select : select[j] # i}
  IN IF select = <<>> THEN [values |-> data, stray |-> FALSE]
     ELSE [values |-> [i \in 1..(Len(data) - Len(select)) |->
                         IF i - 1 \in kept THEN (i - 1) - Cardinality(Ignored(i - 1)) ELSE 0],
           stray |-> \E i \in kept : i >= Len(data) - Len(select)]

Sum(data) == FoldLeft(LAMBDA total, v : total + v, 0, data)

(* The average as a fraction.                                               *)
Avg(data) == IF data = <<>> THEN <<0, 1>> ELSE <<Sum(data), Len(data)>>

Minimum(data) == FoldLeft(LAMBDA low, v : IF v < low THEN v ELSE low, IntMax, data)
Maximum(data) == FoldLeft(LAMBDA high, v : IF v > high THEN v ELSE high, -IntMax, data)

(* int arithmetic: two's complement.                                        *)
Wrapped(n) == ((n + IntMax + 1) % (2 * (IntMax + 1))) - (IntMax + 1)
Add(first, second) == [i \in DOMAIN first |-> Wrapped(first[i] + second[i])]
Sub(first, second) == [i \in DOMAIN first |-> Wrapped(first[i] - second[i])]

(* --- Joins ---------------------------------------------------------------- *)
(* mutant: the inputs are swapped and the results are not                   *)
Turned_Not(pairs) == pairs

(* Each join makes the smaller input the first one, and turns the pairs     *)
(* back by swapping where its two result vectors go.                        *)
Turned(pairs) == [i \in DOMAIN pairs |-> <<pairs[i][2], pairs[i][1]>>]

Swaps(first, second) == Len(first.selection) > Len(second.selection)
Smaller(first, second) == IF Swaps(first, second) THEN second ELSE first
Larger(first, second) == IF Swaps(first, second) THEN first ELSE second
AsGiven(first, second, pairs) == IF Swaps(first, second) THEN Turned(pairs) ELSE pairs

Pairs(xs, ys) == FlattenSeq([i \in DOMAIN xs |-> [j \in DOMAIN ys |-> <<xs[i], ys[j]>>]])

Rows(input) == [i \in DOMAIN input.selection |->
                  [key |-> input.fetch[i], pos |-> input.selection[i]]]

Matching(rows, others) ==
  LET same == SelectSeq(Pairs(rows, others), LAMBDA p : p[1].key = p[2].key)
  IN [i \in DOMAIN same |-> <<same[i][1].pos, same[i][2].pos>>]

NestedLoopJoin(first, second) ==
  AsGiven(first, second, Matching(Rows(Smaller(first, second)), Rows(Larger(first, second))))

JhLoaded(input, hash) ==
  FoldLeft(LAMBDA t, r : JhPut(t, hash, r.key, r.pos), JhAllocate(Len(input.selection)), Rows(input))

CjhLoaded(input, hash, table) ==
  FoldLeft(LAMBDA t, r : CjhPut(t, hash, r.key, r.pos), table, Rows(input))

(* The probing side of the hash joins, from the second input.  A table made *)
(* for no rows has no slots, and looking anything up in it divides by zero. *)
ProbedPairs(table, hash, input) ==
  LET Found(r) == JhFastGet(table, hash, r.key, NewVec(10)).data
  IN FlattenSeq([j \in DOMAIN input.selection |->
       LET r == Rows(input)[j]
           values == Found(r)
       IN [i \in DOMAIN values |-> <<values[i], r.pos>>]])

DividesByZero(first, second) ==
  (Len(first.selection) = 0) # (Len(second.selection) = 0)

HashJoin(first, second, hash) ==
  AsGiven(first, second,
          ProbedPairs(JhLoaded(Smaller(first, second), hash), hash, Larger(first, second)))

(* From the threshold on, one task (`split` is 1) of the thread pool loads  *)
(* the table from the rows it is given and the caller waits for it.         *)
FastHashJoin(first, second, hash) ==
  LET split == 1
      Slice(input, i) ==
        LET size == Len(input.selection) \div split
        IN [fetch |-> SubSeq(input.fetch, i * size + 1, (i + 1) * size),
            selection |-> SubSeq(input.selection, i * size + 1, (i + 1) * size)]
      tables == [i \in 0..(split - 1) |-> JhLoaded(Slice(Smaller(first, second), i), hash)]
      small == Len(first.selection) < FastJoinThreshold \/ Len(second.selection) < FastJoinThreshold
  IN IF small THEN HashJoin(first, second, hash)
     ELSE AsGiven(first, second,
            FlattenSeq([i \in 1..split |-> ProbedPairs(tables[i - 1], hash, Larger(first, second))]))

(* Both inputs go into chained tables of one size, so that equal keys meet  *)
(* in the bucket of one number.                                             *)
GraceHashJoin(first, second, hash) ==
  LET a == Smaller(first, second)
      b == Larger(first, second)
      bTable == CjhLoaded(b, hash, CjhAllocate(Len(b.selection), TRUE))
      aTable == CjhLoaded(a, hash, CjhAllocate(Buckets(bTable), FALSE))
      InBucket(i) ==
        LET same == SelectSeq(Pairs(aTable.chains[i], bTable.chains[i]),
                              LAMBDA p : p[1].key = p[2].key)
        IN [k \in DOMAIN same |-> <<same[k][1].value, same[k][2].value>>]
  IN AsGiven(first, second, FlattenSeq([i \in 1..Buckets(aTable) |-> InBucket(i - 1)]))
=============================================================================
