---------------------------- MODULE MCAlgorithms ----------------------------
(***************************************************************************)
(* The pure algorithms under one roof.  A behaviour is either a sequence of *)
(* calls on the three hash tables, or one question whose answer is then     *)
(* computed and compared with a reference definition.                       *)
(***************************************************************************)
EXTENDS Operators, BTree, Strassen, SpanningTree, TLC
LOCAL INSTANCE SequencesExt
LOCAL INSTANCE FiniteSetsExt

CONSTANTS MaxCalls, Keys

VARIABLES question,   \* its kind and its inputs; kind "tables" for none
          asked,      \* the answer has been computed
          answer,
          hash, joined, chained, named,   \* the hash function and the tables
          kept,       \* the entries that were put and not erased since, in order
          latest,     \* the last value put under each name
          calls,
          gaps        \* an erased key had several values

tables == <<hash, joined, chained, named, kept, latest, calls, gaps>>
vars == <<question, asked, answer, tables>>

(* --- Questions --------------------------------------------------------------- *)
SeqsUpTo(S, n) == UNION {[1..k -> S] : k \in 0..n}
Values == {-4, -1, 0, 2, 3}
Bounds == {NoBound, -1, 0, 3}

Selections ==
  [kind : {"select"}, data : SeqsUpTo(Values, 3), lower : Bounds, upper : Bounds]

(* Rows whose values are fetched through a selection of distinct positions. *)
Inputs(step) ==
  {[fetch |-> f, selection |-> [i \in DOMAIN f |-> step * i]] : f \in SeqsUpTo(Keys, 3)}
HashFunctions == {[k \in Keys |-> 4], [k \in Keys |-> IF k = 1 THEN 4 ELSE 0],
                  [k \in Keys |-> IF k = 3 THEN 1 ELSE 0], [k \in Keys |-> k]}
Joins == [kind : {"join"}, first : Inputs(2), second : Inputs(3), hash : HashFunctions]

(* Columns in the order of their keys: each key is its predecessor or one   *)
(* more.  With negative keys the bounds of the inner nodes are not trusted. *)
Rising(steps, first) == [i \in 1..(Len(steps) + 1) |->
                           [key |-> first + Cardinality({j \in 1..(i - 1) : steps[j] = 1}), pos |-> i - 1]]
Indexes == [kind : {"index"}, steps : SeqsUpTo({0, 1}, 9), first : {-1, 0, 2}, junk : {-9, 9}]

Clusters == [kind : {"cluster"}, columns : [1..2 -> [1..3 -> 0..1]] \cup [1..3 -> [1..2 -> 0..2]],
             primary : {1, 2}]

Vectors == [kind : {"vector"}, start : 0..3, fresh : BOOLEAN, more : 0..5, appended : 0..3]

Unit1(n) == {[k \in 1..(n * n) |-> IF k = e THEN 1 ELSE 0] : e \in 1..(n * n)}
Factors == UNION {[kind : {"product"}, n : {n}, cutoff : {1, 2}, a : Unit1(n), b : Unit1(n)] : n \in 1..4}

Weighted(V) == [{p \in (0..(V - 1)) \X (0..(V - 1)) : p[1] < p[2]} -> 1..3]
NetsOf(V) == [kind : {"net"}, V : {V}, weight : Weighted(V), limit : {3, 4}]
Nets == UNION {NetsOf(V) : V \in 1..4}

Grid == {2, 4, 10, 14}
Places == [kind : {"points"}, points : {SetToSeq(S) : S \in kSubset(4, Grid \X Grid)}
                                      \cup {s \in [1..3 -> {2, 4, 14} \X {2, 10}] : IsInjective(s)}]

Questions == Selections \cup Joins \cup Indexes \cup Clusters \cup Vectors \cup Factors \cup Nets \cup Places

(* --- Answers ------------------------------------------------------------------- *)
Narrow == -1..2   \* the range a selection is narrowed to
AnswerSelect(q) ==
  LET selection == SelectRange(q.data, NewVec(SelectCapacity), q.lower, q.upper)
      values == Fetch(q.data, selection.data)
  IN [selection |-> selection, values |-> values,
      narrowed |-> Reselect(values, selection.data, NewVec(SelectCapacity), -1, 3),
      total |-> Sum(values), mean |-> Avg(values),
      low |-> Minimum(values), high |-> Maximum(values),
      twice |-> Add(values, values), none |-> Sub(values, values),
      middle |-> FetchIndexRange(q.data, Min({1, Len(q.data)}), Len(q.data)),
      inverse |-> FetchInverse(q.data, selection.data),
      aborts |-> ReselectInverseAborts(values, -1, 3)]

AnswerJoin(q) ==
  [nested |-> NestedLoopJoin(q.first, q.second),
   grace |-> GraceHashJoin(q.first, q.second, q.hash),
   hashed |-> IF DividesByZero(q.first, q.second) THEN <<>> ELSE HashJoin(q.first, q.second, q.hash),
   fast |-> IF DividesByZero(q.first, q.second) THEN <<>> ELSE FastHashJoin(q.first, q.second, q.hash)]

Column(q) == Rising(q.steps, q.first)
AnswerIndex(q) ==
  LET bt == LoadBtree(Column(q), q.junk)
      Wanted == Column(q)[1].key..(Column(q)[Len(Column(q))].key + 1)
  IN [at |-> [k \in Wanted |-> Find(bt, k)], plain |-> [k \in Wanted |-> FindSorted(bt, k)],
      one |-> [k \in Wanted |-> FindFirst(bt, k)], last |-> [k \in Wanted |-> FindLast(bt, k)],
      stop |-> [k \in Wanted |-> FindLeaf(bt, k).stop], depth |-> bt.depth]

AnswerVector(q) ==
  LET start == [i \in 1..q.start |-> i]
      vec == PushAll(IF q.fresh THEN NewVec(q.start) ELSE ToVec(start), [i \in 1..q.more |-> i], 2)
  IN AppendVec(vec, ToVec([i \in 1..q.appended |-> i]))

Answers(q) ==
  CASE q.kind = "select" -> {AnswerSelect(q)}
    [] q.kind = "join" -> {AnswerJoin(q)}
    [] q.kind = "index" -> {AnswerIndex(q)}
    [] q.kind = "cluster" -> InitializeIndexes(q.columns, q.primary, TRUE)
    [] q.kind = "vector" -> {AnswerVector(q)}
    [] q.kind = "product" -> {Multiplied(SubSeq(q.a, 1, q.n * q.n), SubSeq(q.b, 1, q.n * q.n), q.n, q.cutoff)}
    [] q.kind = "net" -> {Kruskals(q.V, PopulateRandom(q.V, q.weight, q.limit))}
    [] q.kind = "points" ->
         LET root == Quadtree(q.points)
             pairs == WsPairs(root, root, q.points)
         IN {[pairs |-> pairs, tree |-> Emst(q.points)]}

(* --- Behaviours ---------------------------------------------------------------- *)
Init ==
  /\ asked = FALSE /\ answer = <<>> /\ kept = <<>> /\ calls = 0 /\ gaps = FALSE
  /\ latest = [k \in Keys |-> 0]
  /\ \/ /\ question \in Questions
        /\ hash = [k \in Keys |-> 0]
        /\ joined = JhAllocate(1) /\ chained = CjhAllocate(1, FALSE) /\ named = AllocStrh(1)
     \/ /\ question = [kind |-> "tables"]
        /\ hash \in HashFunctions
        /\ \E n \in 1..2 : /\ joined = JhAllocate(n) /\ chained = CjhAllocate(n, n = 2)
                           /\ named = AllocStrh(n)

Ask ==
  /\ question.kind # "tables" /\ ~asked
  /\ asked' = TRUE /\ answer' \in Answers(question)
  /\ UNCHANGED <<question, tables>>

Put(k) ==
  LET value == calls + 1
  IN /\ question.kind = "tables" /\ calls < MaxCalls
     /\ joined' = JhPut(joined, hash, k, value)
     /\ chained' = CjhPut(chained, hash, k, value)
     /\ named' = PutStrh(named, hash, k, value)
     /\ kept' = Append(kept, [key |-> k, value |-> value])
     /\ latest' = [latest EXCEPT ![k] = value]
     /\ calls' = calls + 1
     /\ UNCHANGED <<question, asked, answer, hash, gaps>>

Erase(k) ==
  /\ question.kind = "tables" /\ calls < MaxCalls
  /\ joined' = JhErase(joined, hash, k)
  /\ chained' = CjhErase(chained, hash, k)
  /\ kept' = SelectSeq(kept, LAMBDA e : e.key # k)
  /\ gaps' = (gaps \/ Cardinality({i \in DOMAIN kept : kept[i].key = k}) > 1)
  /\ calls' = calls + 1
  /\ UNCHANGED <<question, asked, answer, hash, named, latest>>

Next == Ask \/ \E k \in Keys : Put(k) \/ Erase(k)
Spec == Init /\ [][Next]_vars

(* --- Tables ---------------------------------------------------------------------- *)
Sized(xs, S) == ToSet(xs) = S /\ Len(xs) = Cardinality(S)
Chunks == FlattenSeq([b \in 1..Buckets(chained) |->
            [i \in DOMAIN chained.chains[b - 1] |-> chained.chains[b - 1][i].chunk]])

(* Through any calls, collisions, displacements and growth, the two tables  *)
(* of the joins give back exactly the values that were put under a key and  *)
(* not erased, the chained one in order; a name has its last value; the     *)
(* vectors they answer with have room for it; and every chunk of the pool   *)
(* is in one chain or free, once.  (The robin hood table hides entries once *)
(* a key of several values was erased: join_hashtable.c:137.)               *)
TablesRight ==
  question.kind = "tables" =>
    /\ \A k \in Keys :
         LET mine == ValuesFor(kept, k)
         IN /\ gaps \/ (/\ Sized(JhGet(joined, hash, k).data, ToSet(mine))
                        /\ Fits(JhGet(joined, hash, k)))
            /\ CjhGet(chained, hash, k).data = mine
            /\ Fits(CjhGet(chained, hash, k))
            /\ GetStrh(named, hash, k) = latest[k]
    /\ Sized(Chunks \o chained.pool.free, 1..chained.pool.made)
    /\ (gaps \/ joined.size = Len(kept)) /\ chained.size = Len(kept)
    /\ named.size = Cardinality({k \in Keys : latest[k] # 0})

(* --- The column store's answers ----------------------------------------------------- *)
InRange(v, lower, upper) ==
  /\ IF lower = NoBound THEN v > -IntMax - 1 ELSE v >= lower
  /\ IF upper = NoBound THEN v < IntMax ELSE v < upper

SelectRight(q, a) ==
  LET hits == {i \in DOMAIN q.data : InRange(q.data[i], q.lower, q.upper)}
      Rises(xs) == \A i, j \in DOMAIN xs : i < j => xs[i] < xs[j]
      whole == MapThenSumSet(LAMBDA i : q.data[i], hits)
  IN /\ Sized(a.selection.data, {i - 1 : i \in hits}) /\ Rises(a.selection.data) /\ Fits(a.selection)
     /\ \A j \in DOMAIN a.values : a.values[j] = q.data[a.selection.data[j] + 1]
     /\ Sized(a.narrowed.data, {i - 1 : i \in {h \in hits : q.data[h] \in Narrow}})
     /\ Rises(a.narrowed.data) /\ Fits(a.narrowed)
     /\ a.total = whole /\ a.mean[1] * Max({Cardinality(hits), 1}) = whole * a.mean[2]
     /\ hits # {} => /\ a.low = Min({q.data[h] : h \in hits})
                     /\ a.high = Max({q.data[h] : h \in hits} \cup {-IntMax})
     /\ \A j \in DOMAIN a.values : /\ a.twice[j] \in (-IntMax - 1)..IntMax
                                   /\ (a.twice[j] - 2 * a.values[j]) % (2 * (IntMax + 1)) = 0
                                   /\ a.none[j] = 0
     /\ a.middle = (IF q.data = <<>> THEN <<>> ELSE Tail(q.data))
     /\ a.aborts <=> a.narrowed.data # <<>>
     /\ a.selection.data = <<>> => (a.inverse.values = q.data /\ ~a.inverse.stray)

JoinRight(q, a) ==
  LET equal == {p \in (DOMAIN q.first.fetch) \X (DOMAIN q.second.fetch) :
                  q.first.fetch[p[1]] = q.second.fetch[p[2]]}
      expected == {<<q.first.selection[p[1]], q.second.selection[p[2]]>> : p \in equal}
  IN /\ Sized(a.nested, expected) /\ Sized(a.grace, expected)
     /\ Sized(a.hashed, expected) /\ Sized(a.fast, expected)

(* Where the tree is well built, a search ends at the key, or between its   *)
(* neighbours; the last position found is the last one of the leaf.         *)
IndexRight(q, a) ==
  LET data == Column(q)
      n == Len(data)
      leaves == (n + LeafFanout - 1) \div LeafFanout
      trusted == ~Overflows(leaves) /\ (a.depth <= 1 \/ q.first >= 0)
      Place(k, p) == /\ p \in 0..n
                     /\ p > 0 => data[p].key <= k
                     /\ p < n => data[p + 1].key >= k
                     /\ (\E i \in 1..n : data[i].key = k) => (p < n /\ data[p + 1].key = k)
      Holds(k) == \E i \in 1..n : data[i].key = k
  IN \A k \in DOMAIN a.at :
       /\ Place(k, a.plain[k]) /\ (a.plain[k] > 0 => data[a.plain[k]].key < k)
       /\ trusted =>
            /\ Place(k, a.at[k])
            /\ (Holds(k) => a.one[k].found /\ a.last[k].found)
            /\ (~Holds(k) /\ k # q.junk) => ~a.one[k].found /\ ~a.last[k].found
            /\ Holds(k) => /\ data[a.last[k].index + 1].key = k
                           /\ \A i \in (a.last[k].index + 2)..a.stop[k] : data[i].key # k

ClusterRight(q, a) ==
  LET RowsOf(columns) == [i \in DOMAIN columns[1] |-> [c \in DOMAIN columns |-> columns[c][i]]]
      Count(rows, r) == Cardinality({i \in DOMAIN rows : rows[i] = r})
      before == RowsOf(q.columns)
      after == RowsOf(a.copies)
      Rises(xs) == \A i \in 1..(Len(xs) - 1) : xs[i] <= xs[i + 1]
  IN /\ Rises(a.copies[q.primary])
     /\ \A i \in DOMAIN before : Count(before, before[i]) = Count(after, before[i])
     /\ Rises([i \in DOMAIN a.sorted |-> a.sorted[i].key])
     /\ \A i \in DOMAIN a.sorted : q.columns[q.primary][a.sorted[i].pos + 1] = a.sorted[i].key
     /\ Sized([i \in DOMAIN a.sorted |-> a.sorted[i].pos], 0..(Len(q.columns[q.primary]) - 1))

(* Everything but a vector of no capacity has room for what is pushed.      *)
VectorRight(q, a) == (q.start > 0 \/ q.more = 0) => Fits(a)

(* The selections, aggregates, joins, indexes and vectors of the column     *)
(* store agree with their definitions over sets: db_internals.c, btree.c,   *)
(* index.c, vector.h.  Left out are the inputs on which the code divides by *)
(* zero, overflows a node or reads outside of an array.                     *)
AnswersRight ==
  asked => CASE question.kind = "select" -> SelectRight(question, answer)
             [] question.kind = "join" -> DividesByZero(question.first, question.second)
                                          \/ JoinRight(question, answer)
             [] question.kind = "index" -> IndexRight(question, answer)
             [] question.kind = "cluster" -> ClusterRight(question, answer)
             [] question.kind = "vector" -> VectorRight(question, answer)
             [] OTHER -> TRUE

(* --- The algorithms course's answers --------------------------------------------------- *)
(* A product of two matrices, of one entry 1 each: enough, as the recursion *)
(* is linear in each.  A dimension that is padded throws.                   *)
ProductRight(q, a) ==
  LET cell(x, y) == MapThenSumSet(LAMBDA k : q.a[x * q.n + k] * q.b[(k - 1) * q.n + y + 1], 1..q.n)
  IN IF PaddingSize(q.n, q.cutoff) # q.n THEN a.threw
     ELSE /\ ~a.threw
          /\ \A x, y \in 0..(q.n - 1) : a.cells.C[x * q.n + y + 1] = cell(x, y)

RECURSIVE Reach(_, _)
Reach(S, edges) ==
  LET more == S \cup UNION {{e.u, e.v} : e \in {f \in edges : f.u \in S \/ f.v \in S}}
  IN IF more = S THEN S ELSE Reach(more, edges)
Spans(V, edges) == Reach({0}, edges) = 0..(V - 1)
Cost(edges) == MapThenSumSet(LAMBDA e : e.weight, edges)

NetRight(q, a) ==
  LET edges == ToSet(PopulateRandom(q.V, q.weight, q.limit))
      trees == {T \in SUBSET edges : Cardinality(T) = q.V - 1 /\ Spans(q.V, T)}
  IN /\ a.ended <=> Spans(q.V, edges)
     /\ a.ended => a.taken \in trees /\ \A T \in trees : Cost(a.taken) <= Cost(T)

RECURSIVE PointsOf(_)
PointsOf(node) ==
  IF IsLeaf(node) THEN {node.representative}
  ELSE UNION {PointsOf(Children(node)[k]) : k \in DOMAIN Children(node)}

(* Every two points are separated by exactly one pair; if all lie closer    *)
(* than a unit the short edges of the pairs hold a spanning tree.           *)
PointsRight(q, a) ==
  LET n == Len(q.points)
      ends == [k \in DOMAIN a.pairs |-> <<PointsOf(a.pairs[k][1]), PointsOf(a.pairs[k][2])>>]
      Apart(x, y) == {k \in DOMAIN ends : \/ x \in ends[k][1] /\ y \in ends[k][2]
                                          \/ y \in ends[k][1] /\ x \in ends[k][2]}
      close == \A x, y \in 1..n : DistSq(q.points[x], q.points[y]) < Unit * Unit
  IN /\ \A x, y \in 0..(n - 1) : x < y => Cardinality(Apart(x, y)) = 1
     /\ close => a.tree.ended /\ Spans(n, a.tree.taken) /\ Cardinality(a.tree.taken) = n - 1

(* Strassen's recursion in its shared scratch space multiplies, Kruskal's   *)
(* loop finds a minimum spanning tree exactly when there is one, and the    *)
(* well-separated pairs separate every two points once: strassen.cpp,       *)
(* graphs.cpp.                                                              *)
ProgramsRight ==
  asked => CASE question.kind = "product" -> ProductRight(question, answer)
             [] question.kind = "net" -> NetRight(question, answer)
             [] question.kind = "points" -> PointsRight(question, answer)
             [] OTHER -> TRUE
=============================================================================
