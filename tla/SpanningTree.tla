----------------------------- MODULE SpanningTree -----------------------------
(***************************************************************************)
(* Minimum spanning trees of random graphs and of random points (CS124      *)
(* progset1, graphs.cpp): Kruskal's algorithm over a priority queue, and,   *)
(* for points, a quadtree, its well-separated pairs and one short edge for  *)
(* each pair.                                                               *)
(*                                                                          *)
(* Points are sequences of integer coordinates, counted from 0 and in       *)
(* units of 1/Unit; distances and radii are squared, as in the code.  A     *)
(* node is named by its path of child numbers, which stands for its address.*)
(***************************************************************************)
EXTENDS Integers, Sequences, FiniteSets
LOCAL INSTANCE SequencesExt
LOCAL INSTANCE FiniteSetsExt

CONSTANTS Unit,            \* the side of the square the points lie in
          Separation,      \* the argument s of ws_pairs
          DepthBound,      \* log2(4 / epsilon)
          SizeBound        \* gamma / epsilon
ASSUME UnitEven == Unit \in Nat /\ Unit % 2 = 0

(* --- Kruskal ---------------------------------------------------------------- *)
(* Edges that are not lighter than the limit are never put in the queue.    *)
PopulateRandom(V, weight, limit) ==
  LET edges == {[u |-> p[1], v |-> p[2], weight |-> weight[p]] :
                  p \in {q \in (0..(V - 1)) \X (0..(V - 1)) : q[1] < q[2] /\ weight[q] < limit}}
  IN SortSeq(SetToSeq(edges), LAMBDA e, f : e.weight < f.weight)

(* mutant: the nodes of the set that joins keep their old number            *)
Union_NoIds(graph, i, j) ==
  LET smaller == IF Cardinality(graph.sets[i]) < Cardinality(graph.sets[j]) THEN i ELSE j
      larger == IF smaller = i THEN j ELSE i
  IN [graph EXCEPT !.sets[larger] = @ \cup graph.sets[smaller], !.m = larger]

(* Union by size: the smaller set joins the larger one, and stays behind    *)
(* under its own number.                                                    *)
Union(graph, i, j) ==
  LET smaller == IF Cardinality(graph.sets[i]) < Cardinality(graph.sets[j]) THEN i ELSE j
      larger == IF smaller = i THEN j ELSE i
  IN [graph EXCEPT
        !.sets[larger] = @ \cup graph.sets[smaller],
        !.ids = [n \in graph.sets[smaller] |-> larger] @@ @,
        !.m = larger]

(* Edges are taken until the last set that grew holds every node.  A queue  *)
(* that runs out before is read all the same.                               *)
RECURSIVE Grow(_, _)
Grow(graph, queue) ==
  IF Cardinality(graph.sets[graph.m]) >= Cardinality(DOMAIN graph.ids) THEN [graph EXCEPT !.ended = TRUE]
  ELSE IF queue = <<>> THEN graph
  ELSE LET e == Head(queue)
           joins == graph.ids[e.u] # graph.ids[e.v]
       IN Grow(IF joins THEN [Union(graph, graph.ids[e.u], graph.ids[e.v]) EXCEPT !.taken = @ \cup {e}]
               ELSE graph, Tail(queue))

Kruskals(V, queue) ==
  Grow([ids |-> [n \in 0..(V - 1) |-> n], sets |-> [n \in 0..(V - 1) |-> {n}],
        m |-> 0, taken |-> {}, ended |-> FALSE], queue)

(* --- The quadtree ----------------------------------------------------------- *)
DistSq(p, q) == FoldLeft(LAMBDA sum, c : sum + (p[c] - q[c]) * (p[c] - q[c]), 0, [c \in DOMAIN p |-> c])

NoPoint == -1
Node(path, center, radius) ==
  [path |-> path, center |-> center, radius |-> radius, diagonal |-> 0,
   representative |-> NoPoint, children |-> <<>>]

IsLeaf(node) == node.children = <<>>
IsEmpty(node) == node.representative = NoPoint

(* Child number `index` lies on the right in the coordinates whose bit is 1. *)
OnRight(index, c) == (index \div 2^(c - 1)) % 2 = 1

Split(node) ==
  LET half == node.radius \div 2
      Center(index) == [c \in DOMAIN node.center |->
                          node.center[c] + (IF OnRight(index, c) THEN half ELSE -half)]
  IN [k \in 1..2^Len(node.center) |-> Node(Append(node.path, k - 1), Center(k - 1), half)]

GetIndex(point, center) ==
  1 + FoldLeft(LAMBDA index, c : index + (IF point[c] > center[c] THEN 2^(c - 1) ELSE 0),
               0, [c \in DOMAIN point |-> c])

(* A leaf that holds a point becomes an inner node and both points are put  *)
(* in again; the inner node keeps its representative.                       *)
RECURSIVE Insert(_, _, _)
Insert(node, point, points) ==
  LET far == DistSq(points[point + 1], node.center)
      wider == [node EXCEPT !.diagonal = Max({@, far})]
  IN IF ~IsLeaf(node)
     THEN [wider EXCEPT !.children[GetIndex(points[point + 1], node.center)] = Insert(@, point, points)]
     ELSE IF IsEmpty(node) THEN [wider EXCEPT !.representative = point]
     ELSE Insert(Insert([wider EXCEPT !.children = Split(node)], node.representative, points),
                 point, points)

Quadtree(points) ==
  LET center == [c \in DOMAIN points[1] |-> Unit \div 2]
  IN FoldLeft(LAMBDA tree, p : Insert(tree, p - 1, points), Node(<<>>, center, Unit \div 2),
              [p \in DOMAIN points |-> p])

(* --- Well-separated pairs ---------------------------------------------------- *)
Children(node) == SelectSeq(node.children, LAMBDA child : ~IsEmpty(child))

(* Of a leaf and an inner node the radius of the inner one counts, and the  *)
(* leaf's point is its center.                                              *)
WellSeparated(u, v, points) ==
  LET Center(node) == IF IsLeaf(node) THEN points[node.representative + 1] ELSE node.center
      radii == {node.diagonal : node \in {w \in {u, v} : ~IsLeaf(w)}}
  IN radii = {} \/ DistSq(Center(u), Center(v)) >= Separation * Max(radii)

(* mutant: a child is not paired with itself                                *)
TwoOf_Apart(children) ==
  FlattenSeq([i \in DOMAIN children |-> [j \in 1..(i - 1) |-> <<children[i], children[j]>>]])

(* Every two children of a node, and every child with itself.               *)
TwoOf(children) ==
  FlattenSeq([i \in DOMAIN children |-> [j \in 1..i |-> <<children[i], children[j]>>]])

RECURSIVE WsPairs(_, _, _)
WsPairs(u, v, points) ==
  LET Below(pairs) == FlattenSeq([k \in DOMAIN pairs |-> WsPairs(pairs[k][1], pairs[k][2], points)])
      inner == IF IsLeaf(u) THEN v ELSE u
      other == IF IsLeaf(u) THEN u ELSE v
  IN IF u.path = v.path
     THEN IF IsLeaf(u) THEN <<>> ELSE Below(TwoOf(Children(u)))
     ELSE IF WellSeparated(u, v, points) THEN <<<<u, v>>>>
     ELSE Below([k \in DOMAIN Children(inner) |-> <<Children(inner)[k], other>>])

(* --- The spanning tree of the points ----------------------------------------- *)
Expand(node) == IF IsEmpty(node) THEN <<>> ELSE IF IsLeaf(node) THEN <<node>> ELSE Children(node)

(* The vectors the expansion fills start with as many null pointers as the  *)
(* vectors it reads, and these count in the size.                           *)
Expanded(list) ==
  LET nodes == FlattenSeq([k \in DOMAIN list.nodes |-> Expand(list.nodes[k])])
  IN [nodes |-> nodes, size |-> list.size + Len(nodes)]

RECURSIVE Refine(_, _, _)
Refine(depth, us, vs) ==
  IF depth <= DepthBound /\ us.size < SizeBound /\ vs.size < SizeBound
  THEN Refine(depth + 1, Expanded(us), Expanded(vs)) ELSE <<us.nodes, vs.nodes>>

(* The shortest edge between representatives; points a unit or more apart   *)
(* are not seen, and without a shorter edge the pair is (0, 0).             *)
ShortEdge(pair, points) ==
  LET lists == Refine(1, [nodes |-> <<pair[1]>>, size |-> 1], [nodes |-> <<pair[2]>>, size |-> 1])
      Far(p) == DistSq(points[p[1] + 1], points[p[2] + 1])
      near == {p \in {n.representative : n \in ToSet(lists[1])}
                  \X {n.representative : n \in ToSet(lists[2])} : Far(p) < Unit * Unit}
      best == CHOOSE p \in near : \A q \in near : Far(p) <= Far(q)
  IN IF near = {} THEN [u |-> 0, v |-> 0, weight |-> Unit * Unit]
     ELSE [u |-> best[1], v |-> best[2], weight |-> Far(best)]

Emst(points) ==
  LET root == Quadtree(points)
      pairs == WsPairs(root, root, points)
      edges == [k \in DOMAIN pairs |-> ShortEdge(pairs[k], points)]
  IN Kruskals(Len(points), SortSeq(edges, LAMBDA e, f : e.weight < f.weight))
=============================================================================
