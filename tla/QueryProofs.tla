---------------------------- MODULE QueryProofs ----------------------------
(***************************************************************************)
(* The queries of a client, in batches and one by one.  The batch executor *)
(* hands every operator to the pool once, after those it depends on, and   *)
(* leaves the results that the operators would have had on their own: for  *)
(* every batch, both heuristics, and wherever malloc put the columns.  And *)
(* for all the statements of a session: variables stay right, rows stay    *)
(* together, a failed statement changes nothing, and what a shutdown wrote *)
(* is what the next startup reads.                                         *)
(***************************************************************************)
EXTENDS Batch, Session, WellFoundedInduction, FiniteSetTheorems, SequenceTheorems, TLAPS

-----------------------------------------------------------------------------
(* Ranking by a total order is a bijection. *)
TotalOn(n, R) ==
  /\ \A a, b \in 1 .. n : <<a, b>> \in R \/ <<b, a>> \in R
  /\ \A a, b \in 1 .. n : <<a, b>> \in R /\ <<b, a>> \in R => a = b
  /\ \A a, b, c \in 1 .. n : <<a, b>> \in R /\ <<b, c>> \in R => <<a, c>> \in R
UpTo(n, R, k) == {m \in 1 .. n : <<m, k>> \in R}

LEMMA RankGrows ==
  ASSUME NEW n \in Nat, NEW R, TotalOn(n, R)
  PROVE  /\ \A k \in 1 .. n : Cardinality(UpTo(n, R, k)) \in 1 .. n
         /\ \A a, b \in 1 .. n : <<a, b>> \in R /\ a # b =>
              Cardinality(UpTo(n, R, a)) < Cardinality(UpTo(n, R, b))
<1>1. IsFiniteSet(1 .. n) /\ Cardinality(1 .. n) = n
  BY FS_Interval
<1>2. ASSUME NEW k \in 1 .. n
      PROVE  IsFiniteSet(UpTo(n, R, k)) /\ Cardinality(UpTo(n, R, k)) \in 1 .. n
  <2>1. UpTo(n, R, k) \in SUBSET (1 .. n) /\ k \in UpTo(n, R, k)
    BY DEF UpTo, TotalOn
  <2>2. IsFiniteSet(UpTo(n, R, k)) /\ Cardinality(UpTo(n, R, k)) <= n
    BY <1>1, <2>1, FS_Subset
  <2>3. Cardinality(UpTo(n, R, k)) \in Nat \ {0}
    BY <2>1, <2>2, FS_EmptySet, FS_CardinalityType
  <2>4. QED
    BY <2>2, <2>3
<1>3. ASSUME NEW a \in 1 .. n, NEW b \in 1 .. n, <<a, b>> \in R, a # b
      PROVE  Cardinality(UpTo(n, R, a)) < Cardinality(UpTo(n, R, b))
  <2>1. UpTo(n, R, a) \in SUBSET UpTo(n, R, b)
    BY <1>3 DEF UpTo, TotalOn
  <2>2. b \in UpTo(n, R, b) /\ b \notin UpTo(n, R, a)
    BY <1>3 DEF UpTo, TotalOn
  <2>3. /\ Cardinality(UpTo(n, R, a)) <= Cardinality(UpTo(n, R, b))
        /\ Cardinality(UpTo(n, R, a)) # Cardinality(UpTo(n, R, b))
    BY <1>2, <2>1, <2>2, FS_Subset
  <2>4. Cardinality(UpTo(n, R, a)) \in Int /\ Cardinality(UpTo(n, R, b)) \in Int
    BY <1>2
  <2>5. QED
    BY <2>3, <2>4
<1>4. QED
  BY <1>2, <1>3

LEMMA Ranking ==
  ASSUME NEW n \in Nat, NEW R, TotalOn(n, R), NEW rank \in [1 .. n -> 1 .. n],
         \A k \in 1 .. n : rank[k] = Cardinality(UpTo(n, R, k))
  PROVE  /\ \A k \in 1 .. n : \E a \in 1 .. n : rank[a] = k
         /\ \A a, b \in 1 .. n : rank[a] = rank[b] => a = b
         /\ \A a, b \in 1 .. n : rank[a] <= rank[b] => <<a, b>> \in R
<1>1. \A k \in 1 .. n : rank[k] \in 1 .. n
  OBVIOUS
<1>2. \A a, b \in 1 .. n : <<a, b>> \in R /\ a # b => rank[a] < rank[b]
  BY RankGrows
<1>3. \A a, b \in 1 .. n : <<a, b>> \in R \/ <<b, a>> \in R
  BY DEF TotalOn
<1>4. \A a, b \in 1 .. n : rank[a] = rank[b] => a = b
  <2>1. ASSUME NEW a \in 1 .. n, NEW b \in 1 .. n, rank[a] = rank[b], a # b PROVE FALSE
    <3>1. rank[a] \in 1 .. n /\ rank[b] \in 1 .. n
      BY <1>1
    <3>2. rank[a] < rank[b] \/ rank[b] < rank[a]
      BY <1>2, <1>3, <2>1
    <3>3. QED
      BY <2>1, <3>1, <3>2
  <2>2. QED
    BY <2>1
<1>5. \A a, b \in 1 .. n : rank[a] <= rank[b] => <<a, b>> \in R
  <2>1. ASSUME NEW a \in 1 .. n, NEW b \in 1 .. n, rank[a] <= rank[b], <<a, b>> \notin R
        PROVE  FALSE
    <3>1. <<b, a>> \in R
      BY <1>3, <2>1
    <3>2. CASE a = b
      BY <1>3, <2>1, <3>2
    <3>3. CASE a # b
      BY <1>1, <1>2, <2>1, <3>1, <3>3
    <3>4. QED
      BY <3>2, <3>3
  <2>2. QED
    BY <2>1
<1>7. rank \in Injection(1 .. n, 1 .. n)
  BY <1>4 DEF Injection, IsInjective
<1>8. rank \in Surjection(1 .. n, 1 .. n)
  <2>1. IsFiniteSet(1 .. n)
    BY FS_Interval
  <2>2. QED
    BY <1>7, <2>1, FS_Injection
<1>9. \A k \in 1 .. n : \E a \in 1 .. n : rank[a] = k
  BY <1>8 DEF Surjection
<1>10. QED
  BY <1>4, <1>5, <1>9

-----------------------------------------------------------------------------
(* What a batch is, and the elements of its graph. *)
Entries == [name : Handles, link : 0 .. Len(prog), depth : 0 .. MaxLen]

LEMMA ProgramFacts ==
  ASSUME prog \in Programs
  PROVE  /\ Len(prog) \in 1 .. MaxLen /\ DOMAIN prog = 1 .. Len(prog)
         /\ \A k \in 1 .. Len(prog) :
              /\ prog[k].type \in OpType
              /\ \/ Len(prog[k].in) = 1 /\ ToSet(prog[k].in) = {prog[k].in[1]}
                 \/ Len(prog[k].in) = 2 /\ ToSet(prog[k].in) = {prog[k].in[1], prog[k].in[2]}
              /\ NoVar \notin ToSet(prog[k].in)
              /\ ToSet(prog[k].in) \subseteq Handles
              /\ prog[k].out \notin ToSet(prog[k].in)
              /\ prog[k].out # NoVar => prog[k].out \in Handles
              /\ prog[k].type = "select" => prog[k].in[1] \in Columns
              /\ prog[k].out # NoVar => \A m \in 1 .. k - 1 :
                   prog[k].out # prog[m].out /\ prog[k].out \notin ToSet(prog[m].in)
<1>1. /\ prog \in Seq(ToSet(prog)) /\ Len(prog) \in 1 .. MaxLen
      /\ \A k \in DOMAIN prog :
            /\ prog[k].type \in OpType
            /\ prog[k].in \in Seq(ToSet(prog[k].in)) /\ Len(prog[k].in) \in 1 .. 2
            /\ NoVar \notin ToSet(prog[k].in)
            /\ prog[k].out \notin Columns \cup ToSet(prog[k].in)
            /\ prog[k].type = "select" => prog[k].in[1] \in Columns
            /\ prog[k].out # NoVar => \A m \in 1 .. k - 1 :
                 prog[k].out # prog[m].out /\ prog[k].out \notin ToSet(prog[m].in)
  BY BatchAssumption
<1>2. DOMAIN prog = 1 .. Len(prog)
  BY <1>1, LenProperties
<1>3. ASSUME NEW k \in 1 .. Len(prog)
      PROVE  \/ Len(prog[k].in) = 1 /\ ToSet(prog[k].in) = {prog[k].in[1]}
             \/ Len(prog[k].in) = 2 /\ ToSet(prog[k].in) = {prog[k].in[1], prog[k].in[2]}
  <2>1. DOMAIN prog[k].in = 1 .. Len(prog[k].in)
    BY <1>1, <1>2, LenProperties
  <2>2. CASE Len(prog[k].in) = 1
    BY <2>1, <2>2 DEF ToSet
  <2>3. CASE Len(prog[k].in) = 2
    <3>1. DOMAIN prog[k].in = {1, 2}
      BY <2>1, <2>3
    <3>2. QED
      BY <2>3, <3>1 DEF ToSet
  <2>4. QED
    BY <1>1, <1>2, <2>2, <2>3
<1>4. \A k \in 1 .. Len(prog) :
        /\ ToSet(prog[k].in) \subseteq Handles
        /\ prog[k].out # NoVar => prog[k].out \in Handles
  BY <1>1, <1>2 DEF Handles, Created
<1>5. QED
  BY <1>1, <1>2, <1>3, <1>4

LEMMA ProgramLength ==
  ASSUME prog \in Programs
  PROVE  Len(prog) \in 1 .. MaxLen /\ Len(prog) \in Nat /\ DOMAIN prog = 1 .. Len(prog)
<1>1. Len(prog) \in 1 .. MaxLen /\ DOMAIN prog = 1 .. Len(prog)
  BY ProgramFacts
<1>2. \A x \in 1 .. MaxLen : x \in Nat
  BY DEF MaxLen
<1>3. QED
  BY <1>1, <1>2

LEMMA SelectColumn ==
  ASSUME prog \in Programs, addr \in [Columns -> Int], NEW v \in Entries, IsSelect(v)
  PROVE  ColOf(v) \in Columns /\ addr[ColOf(v)] \in Int
<1>1. v.link \in 1 .. Len(prog)
  BY ProgramFacts DEF Entries, IsSelect
<1>2. QED
  BY <1>1, ProgramFacts DEF IsSelect, ColOf

LEMMA DepthType == \A v \in Entries : v.depth \in Int
  BY DEF Entries, MaxLen

(* The comparison of the sort is a strict weak order. *)
LEMMA AfterIsOrder ==
  ASSUME prog \in Programs, addr \in [Columns -> Int],
         NEW x \in Entries, NEW y \in Entries, NEW z \in Entries
  PROVE  /\ ~(After(x, y) /\ After(y, x))
         /\ After(x, y) /\ After(y, z) => After(x, z)
         /\ After(x, z) => After(x, y) \/ After(y, z)
<1>1. x.depth \in Int /\ y.depth \in Int /\ z.depth \in Int
  BY DEF Entries, MaxLen
<1>2. /\ IsSelect(x) => addr[ColOf(x)] \in Int
      /\ IsSelect(y) => addr[ColOf(y)] \in Int
      /\ IsSelect(z) => addr[ColOf(z)] \in Int
  BY SelectColumn
<1>3. QED
  BY <1>1, <1>2 DEF After

(* sort_dep_graph permutes the graph and leaves the depths ascending. *)
Rearranged(s, vs, n) ==
  /\ s \in Seq(Entries) /\ Len(s) = n
  /\ \A a, b \in 1 .. n : a <= b => s[a].depth <= s[b].depth
  /\ \E p \in [1 .. n -> 1 .. n] :
       /\ \A a, b \in 1 .. n : p[a] = p[b] => a = b
       /\ \A k \in 1 .. n : \E a \in 1 .. n : p[a] = k
       /\ \A a \in 1 .. n : s[a] = vs[p[a]]

LEMMA SortedFacts ==
  ASSUME prog \in Programs, addr \in [Columns -> Int], NEW vs \in Seq(Entries),
         NEW n \in Nat, n = Len(vs)
  PROVE  Rearranged(Sorted(vs), vs, n)
<1>1. DOMAIN vs = 1 .. n
  BY LenProperties
<1>2. \A k \in 1 .. n : vs[k] \in Entries
  BY <1>1, LenProperties
<1> DEFINE R == {q \in (1 .. n) \X (1 .. n) :
                   \/ After(vs[q[2]], vs[q[1]])
                   \/ q[1] <= q[2] /\ ~After(vs[q[1]], vs[q[2]])}
<1>3. \A a, b \in 1 .. n : <<a, b>> \in R <=>
        After(vs[b], vs[a]) \/ (a <= b /\ ~After(vs[a], vs[b]))
  OBVIOUS
<1>4. TotalOn(n, R)
  <2> HIDE DEF R
  <2>1. \A a, b, c \in 1 .. n :
          /\ ~(After(vs[a], vs[b]) /\ After(vs[b], vs[a]))
          /\ After(vs[a], vs[b]) /\ After(vs[b], vs[c]) => After(vs[a], vs[c])
          /\ After(vs[a], vs[c]) => After(vs[a], vs[b]) \/ After(vs[b], vs[c])
    BY <1>2, AfterIsOrder
  <2>2. \A a, b \in 1 .. n : <<a, b>> \in R \/ <<b, a>> \in R
    <3>1. \A a, b \in 1 .. n : a <= b \/ b <= a
      OBVIOUS
    <3>2. QED
      BY <1>3, <2>1, <3>1
  <2>3. ASSUME NEW a \in 1 .. n, NEW b \in 1 .. n, <<a, b>> \in R, <<b, a>> \in R
        PROVE  a = b
    <3>1. After(vs[b], vs[a]) \/ (a <= b /\ ~After(vs[a], vs[b]))
      BY <1>3, <2>3
    <3>2. After(vs[a], vs[b]) \/ (b <= a /\ ~After(vs[b], vs[a]))
      BY <1>3, <2>3
    <3>3. QED
      BY <2>1, <3>1, <3>2
  <2>4. ASSUME NEW a \in 1 .. n, NEW b \in 1 .. n, NEW c \in 1 .. n,
               <<a, b>> \in R, <<b, c>> \in R
        PROVE  <<a, c>> \in R
    <3>1. After(vs[b], vs[a]) \/ (a <= b /\ ~After(vs[a], vs[b]))
      BY <1>3, <2>4
    <3>2. After(vs[c], vs[b]) \/ (b <= c /\ ~After(vs[b], vs[c]))
      BY <1>3, <2>4
    <3>3. After(vs[c], vs[a]) \/ (a <= c /\ ~After(vs[a], vs[c]))
      BY <2>1, <3>1, <3>2
    <3>4. QED
      BY <1>3, <3>3
  <2>5. QED
    BY <2>2, <2>3, <2>4 DEF TotalOn
<1> DEFINE rank == [k \in 1 .. n |-> Cardinality(UpTo(n, R, k))]
<1>5. rank \in [1 .. n -> 1 .. n]
  <2> HIDE DEF R
  <2>1. \A k \in 1 .. n : Cardinality(UpTo(n, R, k)) \in 1 .. n
    BY <1>4, RankGrows
  <2>2. QED
    BY <2>1
<1>6. /\ \A k \in 1 .. n : \E a \in 1 .. n : rank[a] = k
      /\ \A a, b \in 1 .. n : rank[a] = rank[b] => a = b
      /\ \A a, b \in 1 .. n : rank[a] <= rank[b] => <<a, b>> \in R
  <2>1. \A k \in 1 .. n : rank[k] = Cardinality(UpTo(n, R, k))
    OBVIOUS
  <2> HIDE DEF R, rank
  <2>2. QED
    BY <1>4, <1>5, <2>1, Ranking
<1>7. \A k \in 1 .. n : Place(vs, k) = rank[k]
  <2>1. ASSUME NEW k \in 1 .. n
        PROVE  UpTo(n, R, k) = {m \in DOMAIN vs : \/ After(vs[k], vs[m])
                                                  \/ m <= k /\ ~After(vs[m], vs[k])}
    <3> HIDE DEF R
    <3>1. QED
      BY <1>1, <1>3 DEF UpTo
  <2> HIDE DEF R
  <2>2. QED
    BY <2>1 DEF Place
<1> HIDE DEF R, rank
<1> DEFINE p == [a \in 1 .. n |-> CHOOSE k \in 1 .. n : rank[k] = a]
<1>8. \A a \in 1 .. n : p[a] \in 1 .. n /\ rank[p[a]] = a
  BY <1>6
<1>9. \A a \in 1 .. n : p[a] = CHOOSE k \in DOMAIN vs : Place(vs, k) = a
  BY <1>1, <1>7
<1>p. p \in [1 .. n -> 1 .. n]
  BY <1>8
<1> HIDE DEF p
<1>10. /\ Sorted(vs) \in Seq(Entries) /\ Len(Sorted(vs)) = n
       /\ \A a \in 1 .. n : Sorted(vs)[a] = vs[p[a]]
  <2>1. DOMAIN Sorted(vs) = 1 .. n /\ \A a \in 1 .. n : Sorted(vs)[a] = vs[p[a]]
    BY <1>1, <1>9 DEF Sorted
  <2>2. \A a \in 1 .. n : Sorted(vs)[a] \in Entries
    BY <1>2, <1>8, <2>1
  <2>3. Sorted(vs) = [a \in 1 .. n |-> Sorted(vs)[a]]
    BY <1>1 DEF Sorted
  <2>4. QED
    BY <2>1, <2>2, <2>3
<1>11. ASSUME NEW a \in 1 .. n, NEW b \in 1 .. n, a <= b
       PROVE  Sorted(vs)[a].depth <= Sorted(vs)[b].depth
  <2>1. <<p[a], p[b]>> \in R
    <3>1. rank[p[a]] <= rank[p[b]] /\ p[a] \in 1 .. n /\ p[b] \in 1 .. n
      BY <1>8, <1>11
    <3>2. QED
      BY <1>6, <3>1
  <2>2. After(vs[p[b]], vs[p[a]]) \/ ~After(vs[p[a]], vs[p[b]])
    BY <1>3, <1>8, <2>1
  <2>3. vs[p[a]].depth \in Int /\ vs[p[b]].depth \in Int
    <3>1. vs[p[a]] \in Entries /\ vs[p[b]] \in Entries
      BY <1>2, <1>8
    <3>2. QED
      BY <3>1, DepthType
  <2>4. vs[p[a]].depth <= vs[p[b]].depth
    BY <2>2, <2>3 DEF After
  <2>5. QED
    BY <1>10, <2>4
<1>12. ASSUME NEW k \in 1 .. n PROVE \E a \in 1 .. n : p[a] = k
  <2>1. PICK a \in 1 .. n : a = rank[k]
    BY <1>5
  <2>2. p[a] \in 1 .. n /\ rank[p[a]] = rank[k]
    BY <1>8, <2>1
  <2>3. QED
    BY <1>6, <2>2
<1>13. \E f \in [1 .. n -> 1 .. n] :
          /\ \A a, b \in 1 .. n : f[a] = f[b] => a = b
          /\ \A k \in 1 .. n : \E a \in 1 .. n : f[a] = k
          /\ \A a \in 1 .. n : Sorted(vs)[a] = vs[f[a]]
  <2>1. \A a, b \in 1 .. n : p[a] = p[b] => a = b
    BY <1>8
  <2>2. QED
    BY <1>p, <1>10, <1>12, <2>1
<1>14. /\ n = Len(vs) /\ Sorted(vs) \in Seq(Entries) /\ Len(Sorted(vs)) = n
       /\ \A a, b \in 1 .. n : a <= b => Sorted(vs)[a].depth <= Sorted(vs)[b].depth
  BY <1>1, <1>10, <1>11
<1>15. QED
  BY <1>13, <1>14 DEF Rearranged

-----------------------------------------------------------------------------
(***************************************************************************)
(* What add_operator_to_dp has made of the first n operators: one element  *)
(* for each variable, with a link if the batch computes it, and a depth    *)
(* above those of the link's inputs, which are all there.                  *)
(***************************************************************************)
NamesOnce(vs) == \A a, b \in 1 .. Len(vs) : vs[a].name = vs[b].name => a = b

GraphShape(vs, n) ==
  /\ vs \in Seq(Entries) /\ Len(vs) <= 3 * n
  /\ NamesOnce(vs)
  /\ \A a \in 1 .. Len(vs) :
       /\ \E m \in 1 .. n : vs[a].name \in {prog[m].out} \cup ToSet(prog[m].in)
       /\ vs[a].link <= n /\ vs[a].depth <= vs[a].link
       /\ vs[a].link # 0 => vs[a].depth # 0 /\ vs[a].name = prog[vs[a].link].out

GraphCovers(vs, n) ==
  \A k \in 1 .. n : prog[k].out # NoVar => \E a \in 1 .. Len(vs) : vs[a].link = k

GraphInputs(vs) ==
  \A a \in 1 .. Len(vs) : vs[a].link # 0 =>
    \A h \in ToSet(prog[vs[a].link].in) :
      /\ \E b \in 1 .. Len(vs) : vs[b].name = h
      /\ \A b \in 1 .. Len(vs) : vs[b].name = h => vs[b].depth < vs[a].depth

GraphOf(vs, n) == GraphShape(vs, n) /\ GraphCovers(vs, n) /\ GraphInputs(vs)

(* r is vs with an element for h, if there was none. *)
WithInput(r, vs, h) ==
  /\ r \in Seq(Entries) /\ Len(r) \in Len(vs) .. Len(vs) + 1
  /\ \A a \in 1 .. Len(vs) : r[a] = vs[a]
  /\ \A a \in Len(vs) + 1 .. Len(r) : r[a] = [name |-> h, link |-> 0, depth |-> 0]
  /\ NamesOnce(r)
  /\ \E a \in 1 .. Len(r) : r[a].name = h

LEMMA AddInputFacts ==
  ASSUME prog \in Programs, NEW vs \in Seq(Entries), NamesOnce(vs), NEW h \in Handles
  PROVE  WithInput(AddInput(vs, h), vs, h)
<1>1. Len(vs) \in Nat /\ DOMAIN vs = 1 .. Len(vs)
  BY LenProperties
<1>2. CASE Known(vs, h)
  <2>1. AddInput(vs, h) = vs
    BY <1>2 DEF AddInput
  <2>2. WithInput(vs, vs, h)
    BY <1>1, <1>2 DEF WithInput, Known
  <2>3. QED
    BY <2>1, <2>2
<1>3. CASE ~Known(vs, h)
  <2> DEFINE e == [name |-> h, link |-> 0, depth |-> 0]
             r == Append(vs, e)
  <2>1. AddInput(vs, h) = r
    BY <1>3 DEF AddInput
  <2>2. e \in Entries /\ e.name = h
    BY ProgramFacts DEF Entries, MaxLen
  <2> HIDE DEF e
  <2>3. /\ r \in Seq(Entries) /\ Len(r) = Len(vs) + 1
        /\ \A a \in 1 .. Len(vs) : r[a] = vs[a]
        /\ r[Len(vs) + 1] = e
    BY <2>2, AppendProperties
  <2> HIDE DEF r
  <2>4. \A a \in 1 .. Len(vs) : vs[a].name # h
    BY <1>1, <1>3 DEF Known
  <2>5. \A a \in 1 .. Len(r) : a \in 1 .. Len(vs) \/ a = Len(vs) + 1
    BY <1>1, <2>3
  <2>6. NamesOnce(r)
    BY <1>1, <2>2, <2>3, <2>4, <2>5 DEF NamesOnce
  <2>7. \A a \in Len(vs) + 1 .. Len(r) : r[a] = e
    BY <1>1, <2>3
  <2>8. Len(vs) + 1 \in 1 .. Len(r)
    BY <1>1, <2>3
  <2>9. WithInput(r, vs, h)
    BY <1>1, <2>2, <2>3, <2>6, <2>7, <2>8 DEF WithInput, e
  <2>10. QED
    BY <2>1, <2>9
<1>4. QED
  BY <1>2, <1>3

(* r is vs with the inputs of operator k that it lacked. *)
WithInputs(r, vs, k) ==
  /\ r \in Seq(Entries) /\ Len(r) \in Len(vs) .. Len(vs) + 2
  /\ \A a \in 1 .. Len(vs) : r[a] = vs[a]
  /\ \A a \in 1 .. Len(r) : a \in 1 .. Len(vs) \/
       (r[a].name \in ToSet(prog[k].in) /\ r[a].link = 0 /\ r[a].depth = 0)
  /\ NamesOnce(r)
  /\ \A h \in ToSet(prog[k].in) : \E a \in 1 .. Len(r) : r[a].name = h

LEMMA AddInputsFacts ==
  ASSUME prog \in Programs, NEW k \in 1 .. Len(prog), NEW vs \in Seq(Entries), NamesOnce(vs)
  PROVE  WithInputs(AddInputs(vs, prog[k].in), vs, k)
<1>r. PICK r : r = AddInputs(vs, prog[k].in)
  OBVIOUS
<1> SUFFICES WithInputs(r, vs, k)
  BY <1>r
<1>1. Len(vs) \in Nat
  BY LenProperties
<1>2. PICK f : f = AddInput(vs, prog[k].in[1])
  OBVIOUS
<1>3. ToSet(prog[k].in) \subseteq Handles
  BY ProgramFacts
<1>0. \/ Len(prog[k].in) = 1 /\ ToSet(prog[k].in) = {prog[k].in[1]}
      \/ Len(prog[k].in) = 2 /\ ToSet(prog[k].in) = {prog[k].in[1], prog[k].in[2]}
  BY ProgramFacts
<1>s. prog[k].in[1] \in ToSet(prog[k].in)
  BY <1>0
<1>t. PICK h \in Handles : h = prog[k].in[1]
  BY <1>3, <1>s
<1>4. CASE Len(prog[k].in) = 1 /\ ToSet(prog[k].in) = {prog[k].in[1]}
  <2>1. r = f
    BY <1>r, <1>2, <1>4 DEF AddInputs
  <2>2. /\ f \in Seq(Entries)
        /\ Len(f) \in Len(vs) .. Len(vs) + 1
        /\ \A a \in 1 .. Len(vs) : f[a] = vs[a]
        /\ \A a \in Len(vs) + 1 .. Len(f) :
             f[a] = [name |-> prog[k].in[1], link |-> 0, depth |-> 0]
        /\ NamesOnce(f)
        /\ \E a \in 1 .. Len(f) : f[a].name = prog[k].in[1]
    <3>1. WithInput(AddInput(vs, h), vs, h)
      BY AddInputFacts
    <3>2. WithInput(f, vs, h)
      BY <1>2, <1>t, <3>1
    <3>3. QED
      BY <1>t, <3>2 DEF WithInput
  <2>3. \A a \in 1 .. Len(f) : a \in 1 .. Len(vs) \/ a \in Len(vs) + 1 .. Len(f)
    BY <1>1, <2>2
  <2>4. \A a \in 1 .. Len(f) : a \in 1 .. Len(vs) \/
          (f[a].name \in ToSet(prog[k].in) /\ f[a].link = 0 /\ f[a].depth = 0)
    BY <1>4, <2>2, <2>3
  <2>5. Len(f) \in Len(vs) .. Len(vs) + 2
    BY <1>1, <2>2
  <2>6. QED
    BY <1>4, <2>1, <2>2, <2>4, <2>5 DEF WithInputs
<1>5. CASE Len(prog[k].in) = 2 /\ ToSet(prog[k].in) = {prog[k].in[1], prog[k].in[2]}
  <2>1. r = AddInput(f, prog[k].in[2])
    BY <1>r, <1>2, <1>5 DEF AddInputs
  <2>2. /\ f \in Seq(Entries)
        /\ Len(f) \in Len(vs) .. Len(vs) + 1
        /\ \A a \in 1 .. Len(vs) : f[a] = vs[a]
        /\ \A a \in Len(vs) + 1 .. Len(f) :
             f[a] = [name |-> prog[k].in[1], link |-> 0, depth |-> 0]
        /\ NamesOnce(f)
        /\ \E a \in 1 .. Len(f) : f[a].name = prog[k].in[1]
    <3>1. WithInput(AddInput(vs, h), vs, h)
      BY AddInputFacts
    <3>2. WithInput(f, vs, h)
      BY <1>2, <1>t, <3>1
    <3>3. QED
      BY <1>t, <3>2 DEF WithInput
  <2>z. PICK g \in Handles : g = prog[k].in[2]
    BY <1>3, <1>5
  <2>3. /\ r \in Seq(Entries)
        /\ Len(r) \in Len(f) .. Len(f) + 1
        /\ \A a \in 1 .. Len(f) : r[a] = f[a]
        /\ \A a \in Len(f) + 1 .. Len(r) :
             r[a] = [name |-> prog[k].in[2], link |-> 0, depth |-> 0]
        /\ NamesOnce(r)
        /\ \E a \in 1 .. Len(r) : r[a].name = prog[k].in[2]
    <3>1. f \in Seq(Entries) /\ NamesOnce(f)
      BY <2>2
    <3>2. r = AddInput(f, g) /\ g = prog[k].in[2]
      BY <2>1, <2>z
    <3>3. WithInput(AddInput(f, g), f, g)
      BY <3>1, AddInputFacts
    <3>4. WithInput(r, f, g)
      BY <3>2, <3>3
    <3>5. QED
      BY <3>2, <3>4 DEF WithInput
  <2>4. Len(f) \in Nat /\ Len(r) \in Nat
    BY <2>2, <2>3, LenProperties
  <2>5. \A a \in 1 .. Len(r) :
          a \in 1 .. Len(vs) \/ a \in Len(vs) + 1 .. Len(f) \/ a \in Len(f) + 1 .. Len(r)
    BY <1>1, <2>2, <2>3, <2>4
  <2>6. \A a \in Len(vs) + 1 .. Len(f) : a \in 1 .. Len(f)
    BY <1>1, <2>4
  <2>7. \A a \in 1 .. Len(r) : a \in 1 .. Len(vs) \/
          (r[a].name \in ToSet(prog[k].in) /\ r[a].link = 0 /\ r[a].depth = 0)
    <3>1. \A a \in Len(vs) + 1 .. Len(f) :
            r[a].name = prog[k].in[1] /\ r[a].link = 0 /\ r[a].depth = 0
      <4>1. \A a \in Len(vs) + 1 .. Len(f) : r[a] = f[a]
        BY <2>3, <2>6
      <4>2. QED
        BY <2>2, <4>1
    <3>2. \A a \in Len(f) + 1 .. Len(r) :
            r[a].name = prog[k].in[2] /\ r[a].link = 0 /\ r[a].depth = 0
      BY <2>3
    <3>3. prog[k].in[1] \in ToSet(prog[k].in) /\ prog[k].in[2] \in ToSet(prog[k].in)
      BY <1>5
    <3>4. QED
      BY <2>5, <3>1, <3>2, <3>3
  <2>8. \A a \in 1 .. Len(vs) : r[a] = vs[a]
    <3>1. \A a \in 1 .. Len(vs) : a \in 1 .. Len(f)
      BY <1>1, <2>2, <2>4
    <3>2. QED
      BY <2>2, <2>3, <3>1
  <2>9. Len(r) \in Len(vs) .. Len(vs) + 2
    BY <1>1, <2>2, <2>3, <2>4
  <2>10. \E a \in 1 .. Len(r) : r[a].name = prog[k].in[1]
    BY <2>2, <2>3, <2>4
  <2>11. QED
    BY <1>5, <2>3, <2>7, <2>8, <2>9, <2>10 DEF WithInputs
<1>6. QED
  BY <1>4, <1>5, ProgramFacts

(* calculate_depth finds a depth: one above the deepest input. *)
LEMMA DepthFacts ==
  ASSUME prog \in Programs, NEW k \in 1 .. Len(prog), NEW w \in Seq(Entries), NamesOnce(w),
         \A h \in ToSet(prog[k].in) : \E a \in 1 .. Len(w) : w[a].name = h,
         \A a \in 1 .. Len(w) : w[a].depth < k,
         NEW d, d = DepthOf(w, prog[k].in)
  PROVE  /\ d \in 1 .. MaxLen /\ d <= k
         /\ \A a \in 1 .. Len(w) : w[a].name \in ToSet(prog[k].in) => w[a].depth < d
<1>1. DOMAIN w = 1 .. Len(w) /\ \A a \in 1 .. Len(w) : w[a] \in Entries /\ w[a].depth \in Nat
  <2>1. DOMAIN w = 1 .. Len(w) /\ \A a \in 1 .. Len(w) : w[a] \in Entries
    BY LenProperties
  <2>2. \A v \in Entries : v.depth \in Nat
    BY DEF Entries, MaxLen
  <2>3. QED
    BY <2>1, <2>2
<1>2. k \in 1 .. MaxLen /\ MaxLen \in Nat
  <2>1. Len(prog) \in 1 .. MaxLen /\ MaxLen \in Nat
    BY ProgramFacts DEF MaxLen
  <2>2. QED
    BY <2>1
<1> DEFINE D(x) == /\ \E a \in DOMAIN w : w[a].name \in ToSet(prog[k].in) /\ x = w[a].depth + 1
                   /\ \A a \in DOMAIN w : w[a].name \in ToSet(prog[k].in) => w[a].depth < x
<1>3. \E b \in 1 .. Len(w) : w[b].name \in ToSet(prog[k].in) /\
         \A a \in 1 .. Len(w) : w[a].name \in ToSet(prog[k].in) => w[a].depth <= w[b].depth
  <2>1. CASE Len(prog[k].in) = 1 /\ ToSet(prog[k].in) = {prog[k].in[1]}
    <3>1. PICK b \in 1 .. Len(w) : w[b].name = prog[k].in[1]
      BY <2>1
    <3>2. \A a \in 1 .. Len(w) : w[a].name \in ToSet(prog[k].in) => a = b
      BY <2>1, <3>1 DEF NamesOnce
    <3>3. w[b].depth \in Nat /\ w[b].name \in ToSet(prog[k].in)
      BY <1>1, <2>1, <3>1
    <3>4. \A a \in 1 .. Len(w) : w[a].name \in ToSet(prog[k].in) => w[a].depth <= w[b].depth
      BY <3>2, <3>3
    <3>5. QED
      BY <3>3, <3>4
  <2>2. CASE Len(prog[k].in) = 2 /\ ToSet(prog[k].in) = {prog[k].in[1], prog[k].in[2]}
    <3>1. PICK b \in 1 .. Len(w) : w[b].name = prog[k].in[1]
      BY <2>2
    <3>2. PICK c \in 1 .. Len(w) : w[c].name = prog[k].in[2]
      BY <2>2
    <3>3. \A a \in 1 .. Len(w) : w[a].name \in ToSet(prog[k].in) => a = b \/ a = c
      BY <2>2, <3>1, <3>2 DEF NamesOnce
    <3>4. w[b].name \in ToSet(prog[k].in) /\ w[c].name \in ToSet(prog[k].in)
      BY <2>2, <3>1, <3>2
    <3>5. w[b].depth \in Nat /\ w[c].depth \in Nat
      BY <1>1
    <3>6. CASE w[b].depth <= w[c].depth
      <4>1. \A a \in 1 .. Len(w) : w[a].name \in ToSet(prog[k].in) => w[a].depth <= w[c].depth
        BY <3>3, <3>5, <3>6
      <4>2. QED
        BY <3>4, <4>1
    <3>7. CASE w[c].depth <= w[b].depth
      <4>1. \A a \in 1 .. Len(w) : w[a].name \in ToSet(prog[k].in) => w[a].depth <= w[b].depth
        BY <3>3, <3>5, <3>7
      <4>2. QED
        BY <3>4, <4>1
    <3>8. QED
      <4>1. w[b].depth <= w[c].depth \/ w[c].depth <= w[b].depth
        BY <3>5
      <4>2. QED
        BY <3>6, <3>7, <4>1
  <2>3. QED
    BY <2>1, <2>2, ProgramFacts
<1>4. \E x \in 1 .. MaxLen : D(x)
  <2>1. PICK b \in 1 .. Len(w) : w[b].name \in ToSet(prog[k].in) /\
         \A a \in 1 .. Len(w) : w[a].name \in ToSet(prog[k].in) => w[a].depth <= w[b].depth
    BY <1>3
  <2>2. w[b].depth + 1 \in 1 .. MaxLen
    <3>1. w[b].depth \in Nat /\ w[b].depth < k
      BY <1>1
    <3>2. QED
      BY <1>2, <3>1
  <2>3. \A a \in 1 .. Len(w) : w[a].name \in ToSet(prog[k].in) => w[a].depth < w[b].depth + 1
    BY <1>1, <2>1
  <2>4. D(w[b].depth + 1)
    BY <1>1, <2>1, <2>3
  <2>5. QED
    BY <2>2, <2>4
<1>5. d = CHOOSE x \in 1 .. MaxLen : D(x)
  BY DEF DepthOf
<1>6. d \in 1 .. MaxLen /\ D(d)
  <2> HIDE DEF D
  <2>1. QED
    BY <1>4, <1>5
<1>7. d <= k
  <2>1. PICK a \in 1 .. Len(w) : d = w[a].depth + 1
    BY <1>1, <1>6
  <2>2. QED
    BY <1>1, <1>2, <2>1
<1>8. QED
  BY <1>1, <1>6, <1>7

(* add_operator_to_dp keeps the graph. *)
LEMMA AddOperatorFacts ==
  ASSUME prog \in Programs, NEW k \in 1 .. Len(prog), NEW vs, GraphOf(vs, k - 1),
         prog[k].out # NoVar, NEW w, w = AddInputs(vs, prog[k].in),
         NEW d, d = DepthOf(w, prog[k].in)
  PROVE  GraphOf(Append(w, [name |-> prog[k].out, link |-> k, depth |-> d]), k)
<1>1. /\ vs \in Seq(Entries) /\ NamesOnce(vs) /\ Len(vs) <= 3 * (k - 1)
      /\ \A a \in 1 .. Len(vs) :
           /\ \E m \in 1 .. k - 1 : vs[a].name \in {prog[m].out} \cup ToSet(prog[m].in)
           /\ vs[a].link <= k - 1 /\ vs[a].depth <= vs[a].link
           /\ vs[a].link # 0 => vs[a].depth # 0 /\ vs[a].name = prog[vs[a].link].out
  BY DEF GraphOf, GraphShape
<1>2. /\ w \in Seq(Entries) /\ Len(w) \in Len(vs) .. Len(vs) + 2
      /\ \A a \in 1 .. Len(vs) : w[a] = vs[a]
      /\ \A a \in 1 .. Len(w) : a \in 1 .. Len(vs) \/
           (w[a].name \in ToSet(prog[k].in) /\ w[a].link = 0 /\ w[a].depth = 0)
      /\ NamesOnce(w)
      /\ \A h \in ToSet(prog[k].in) : \E a \in 1 .. Len(w) : w[a].name = h
  <2>1. vs \in Seq(Entries) /\ NamesOnce(vs)
    BY <1>1
  <2>2. WithInputs(AddInputs(vs, prog[k].in), vs, k)
    BY <2>1, AddInputsFacts
  <2>3. WithInputs(w, vs, k)
    BY <2>2
  <2>4. QED
    BY <2>3 DEF WithInputs
<1>3. Len(vs) \in Nat /\ Len(w) \in Nat /\ k \in Nat /\ Len(prog) \in Nat /\ k \in 1 .. Len(prog) /\ k # 0
  <2>1. Len(prog) \in Nat
    BY ProgramFacts DEF MaxLen
  <2>2. QED
    BY <1>1, <1>2, <2>1, LenProperties
<1>4. \A a \in 1 .. Len(w) : w[a] \in Entries /\ w[a].link \in Nat /\ w[a].depth \in Nat
  <2>1. \A a \in 1 .. Len(w) : w[a] \in Entries
    BY <1>2, LenProperties
  <2>2. \A v \in Entries : v.depth \in Nat /\ v.link \in Nat
    BY DEF Entries, MaxLen
  <2>3. QED
    BY <2>1, <2>2
<1>5. \A a \in 1 .. Len(w) :
        /\ w[a].link < k /\ w[a].depth <= w[a].link
        /\ w[a].link # 0 => a \in 1 .. Len(vs) /\ w[a].depth # 0 /\ w[a].name = prog[w[a].link].out
  <2>1. ASSUME NEW a \in 1 .. Len(w)
        PROVE  /\ w[a].link < k /\ w[a].depth <= w[a].link
               /\ w[a].link # 0 =>
                    a \in 1 .. Len(vs) /\ w[a].depth # 0 /\ w[a].name = prog[w[a].link].out
    <3>1. CASE a \in 1 .. Len(vs)
      <4>1. w[a] = vs[a]
        BY <1>2, <3>1
      <4>2. vs[a].link <= k - 1 /\ vs[a].depth <= vs[a].link
            /\ (vs[a].link # 0 => vs[a].depth # 0 /\ vs[a].name = prog[vs[a].link].out)
        BY <1>1, <3>1
      <4>3. w[a].link \in Nat
        BY <1>4
      <4>4. QED
        BY <1>3, <3>1, <4>1, <4>2, <4>3
    <3>2. CASE a \notin 1 .. Len(vs)
      <4>1. w[a].link = 0 /\ w[a].depth = 0
        BY <1>2, <3>2
      <4>2. QED
        BY <1>3, <4>1
    <3>3. QED
      BY <3>1, <3>2
  <2>2. QED
    BY <2>1
<1>6. \A a \in 1 .. Len(w) : \E m \in 1 .. k : w[a].name \in {prog[m].out} \cup ToSet(prog[m].in)
  <2>1. ASSUME NEW a \in 1 .. Len(w)
        PROVE  \E m \in 1 .. k : w[a].name \in {prog[m].out} \cup ToSet(prog[m].in)
    <3>1. CASE a \in 1 .. Len(vs)
      <4>1. PICK m \in 1 .. k - 1 : vs[a].name \in {prog[m].out} \cup ToSet(prog[m].in)
        BY <1>1, <3>1
      <4>2. m \in 1 .. k /\ w[a] = vs[a]
        BY <1>2, <1>3, <3>1
      <4>3. QED
        BY <4>1, <4>2
    <3>2. CASE a \notin 1 .. Len(vs)
      <4>1. w[a].name \in ToSet(prog[k].in)
        BY <1>2, <3>2
      <4>2. k \in 1 .. k
        BY <1>3
      <4>3. QED
        BY <4>1, <4>2
    <3>3. QED
      BY <3>1, <3>2
  <2>2. QED
    BY <2>1
<1>7. \A a \in 1 .. Len(w) : w[a].name # prog[k].out
  <2>1. ASSUME NEW a \in 1 .. Len(w) PROVE w[a].name # prog[k].out
    <3>0. /\ prog[k].out \notin ToSet(prog[k].in)
          /\ \A m \in 1 .. k - 1 : prog[k].out # prog[m].out /\ prog[k].out \notin ToSet(prog[m].in)
      BY ProgramFacts
    <3>2. CASE a \in 1 .. Len(vs)
      <4>1. PICK m \in 1 .. k - 1 : vs[a].name \in {prog[m].out} \cup ToSet(prog[m].in)
        BY <1>1, <3>2
      <4>2. w[a] = vs[a]
        BY <1>2, <3>2
      <4>3. prog[k].out # prog[m].out /\ prog[k].out \notin ToSet(prog[m].in)
        BY <3>0
      <4>4. QED
        BY <4>1, <4>2, <4>3
    <3>3. CASE a \notin 1 .. Len(vs)
      BY <1>2, <3>0, <3>3
    <3>4. QED
      BY <3>2, <3>3
  <2>2. QED
    BY <2>1
<1>8. /\ d \in 1 .. MaxLen /\ d <= k
      /\ \A a \in 1 .. Len(w) : w[a].name \in ToSet(prog[k].in) => w[a].depth < d
  <2>1. ASSUME NEW a \in 1 .. Len(w) PROVE w[a].depth < k
    <3>1. w[a].link < k /\ w[a].depth <= w[a].link /\ w[a].link \in Nat /\ w[a].depth \in Nat
      BY <1>4, <1>5
    <3>2. QED
      BY <1>3, <3>1
  <2>2. w \in Seq(Entries) /\ NamesOnce(w)
        /\ \A h \in ToSet(prog[k].in) : \E a \in 1 .. Len(w) : w[a].name = h
    BY <1>2
  <2>3. QED
    BY <2>1, <2>2, DepthFacts
<1> DEFINE e == [name |-> prog[k].out, link |-> k, depth |-> d]
           r == Append(w, e)
<1>9. e \in Entries /\ e.name = prog[k].out /\ e.link = k /\ e.depth = d
  <2>1. prog[k].out \in Handles
    BY ProgramFacts
  <2>2. k \in 0 .. Len(prog) /\ d \in 0 .. MaxLen
    BY <1>3, <1>8 DEF MaxLen
  <2>3. QED
    BY <2>1, <2>2 DEF Entries
<1> HIDE DEF e
<1>10. /\ r \in Seq(Entries) /\ Len(r) = Len(w) + 1
       /\ \A a \in 1 .. Len(w) : r[a] = w[a]
       /\ r[Len(w) + 1] = e
  BY <1>2, <1>9, AppendProperties
<1> HIDE DEF r
<1>11. \A a \in 1 .. Len(r) : a \in 1 .. Len(w) \/ a = Len(w) + 1
  BY <1>3, <1>10
<1>12. /\ Len(w) + 1 \in 1 .. Len(r) /\ k \in 1 .. k
       /\ \A a \in 1 .. Len(w) : a \in 1 .. Len(r)
       /\ \A a \in 1 .. Len(vs) : a \in 1 .. Len(w) /\ a \in 1 .. Len(r) /\ r[a] = vs[a]
  <2>1. Len(w) + 1 \in 1 .. Len(r) /\ k \in 1 .. k /\ \A a \in 1 .. Len(w) : a \in 1 .. Len(r)
    BY <1>3, <1>10
  <2>2. \A a \in 1 .. Len(vs) : a \in 1 .. Len(w)
    BY <1>2, <1>3
  <2>3. QED
    BY <1>2, <1>10, <2>1, <2>2
<1>13. NamesOnce(r)
  <2>1. ASSUME NEW a \in 1 .. Len(r), NEW b \in 1 .. Len(r), r[a].name = r[b].name PROVE a = b
    <3>1. CASE a \in 1 .. Len(w) /\ b \in 1 .. Len(w)
      BY <1>2, <1>10, <2>1, <3>1 DEF NamesOnce
    <3>2. CASE a \in 1 .. Len(w) /\ b = Len(w) + 1
      BY <1>7, <1>9, <1>10, <2>1, <3>2
    <3>3. CASE b \in 1 .. Len(w) /\ a = Len(w) + 1
      BY <1>7, <1>9, <1>10, <2>1, <3>3
    <3>4. QED
      BY <1>11, <3>1, <3>2, <3>3
  <2>2. QED
    BY <2>1 DEF NamesOnce
<1>14. GraphShape(r, k)
  <2>1. Len(r) <= 3 * k
    BY <1>1, <1>2, <1>3, <1>10
  <2>2. ASSUME NEW a \in 1 .. Len(r)
        PROVE  /\ \E m \in 1 .. k : r[a].name \in {prog[m].out} \cup ToSet(prog[m].in)
               /\ r[a].link <= k /\ r[a].depth <= r[a].link
               /\ r[a].link # 0 => r[a].depth # 0 /\ r[a].name = prog[r[a].link].out
    <3>1. CASE a \in 1 .. Len(w)
      <4>1. r[a] = w[a] /\ w[a].link \in Nat
        BY <1>4, <1>10, <3>1
      <4>2. w[a].link <= k
        BY <1>3, <1>5, <3>1, <4>1
      <4>3. QED
        BY <1>5, <1>6, <3>1, <4>1, <4>2
    <3>2. CASE a = Len(w) + 1
      <4>1. r[a].name = prog[k].out /\ r[a].link = k /\ r[a].depth = d
        BY <1>9, <1>10, <3>2
      <4>2. d # 0 /\ k <= k
        BY <1>3, <1>8
      <4>3. QED
        BY <1>8, <1>12, <4>1, <4>2
    <3>3. QED
      BY <1>11, <3>1, <3>2
  <2>3. QED
    BY <1>10, <1>13, <2>1, <2>2 DEF GraphShape
<1>15. GraphCovers(r, k)
  <2>1. ASSUME NEW m \in 1 .. k, prog[m].out # NoVar
        PROVE  \E a \in 1 .. Len(r) : r[a].link = m
    <3>1. CASE m = k
      BY <1>9, <1>10, <1>12, <3>1
    <3>2. CASE m # k
      <4>1. m \in 1 .. k - 1
        BY <1>3, <3>2
      <4>2. PICK a \in 1 .. Len(vs) : vs[a].link = m
        BY <2>1, <4>1 DEF GraphOf, GraphCovers
      <4>3. QED
        BY <1>12, <4>2
    <3>3. QED
      BY <3>1, <3>2
  <2>2. QED
    BY <2>1 DEF GraphCovers
<1>16. GraphInputs(r)
  <2>1. ASSUME NEW a \in 1 .. Len(r), r[a].link # 0, NEW h \in ToSet(prog[r[a].link].in)
        PROVE  \E b \in 1 .. Len(r) : r[b].name = h /\ r[b].depth < r[a].depth
    <3>1. CASE a \in 1 .. Len(w)
      <4>1. a \in 1 .. Len(vs) /\ r[a] = vs[a]
        BY <1>5, <1>10, <1>12, <2>1, <3>1
      <4>2. PICK b \in 1 .. Len(vs) : vs[b].name = h /\ vs[b].depth < vs[a].depth
        BY <2>1, <4>1 DEF GraphOf, GraphInputs
      <4>3. QED
        BY <1>12, <4>1, <4>2
    <3>2. CASE a = Len(w) + 1
      <4>1. r[a].link = k /\ r[a].depth = d
        BY <1>9, <1>10, <3>2
      <4>2. PICK b \in 1 .. Len(w) : w[b].name = h
        BY <1>2, <2>1, <4>1
      <4>3. w[b].depth < d
        BY <1>8, <2>1, <4>1, <4>2
      <4>4. QED
        BY <1>10, <1>12, <4>1, <4>2, <4>3
    <3>3. QED
      BY <1>11, <3>1, <3>2
  <2>2. ASSUME NEW a \in 1 .. Len(r), r[a].link # 0, NEW h \in ToSet(prog[r[a].link].in),
               NEW b \in 1 .. Len(r), r[b].name = h
        PROVE  r[b].depth < r[a].depth
    BY <1>13, <2>1, <2>2 DEF NamesOnce
  <2>3. QED
    BY <2>1, <2>2 DEF GraphInputs
<1>17. QED
  BY <1>14, <1>15, <1>16 DEF GraphOf, r, e

(* An operator without a handle leaves no trace. *)
LEMMA SkipFacts ==
  ASSUME prog \in Programs, NEW k \in 1 .. Len(prog), NEW vs, GraphOf(vs, k - 1),
         prog[k].out = NoVar
  PROVE  GraphOf(vs, k)
<1>1. k \in Nat /\ \A m \in 1 .. k - 1 : m \in 1 .. k
  <2>1. Len(prog) \in Nat
    BY ProgramFacts DEF MaxLen
  <2>2. QED
    BY <2>1
<1>2. /\ vs \in Seq(Entries) /\ NamesOnce(vs) /\ Len(vs) <= 3 * (k - 1) /\ Len(vs) \in Nat
      /\ \A a \in 1 .. Len(vs) :
           /\ \E m \in 1 .. k - 1 : vs[a].name \in {prog[m].out} \cup ToSet(prog[m].in)
           /\ vs[a].link <= k - 1 /\ vs[a].depth <= vs[a].link
           /\ vs[a].link # 0 => vs[a].depth # 0 /\ vs[a].name = prog[vs[a].link].out
  BY LenProperties DEF GraphOf, GraphShape
<1>3. \A a \in 1 .. Len(vs) : vs[a].link \in Nat
  <2>1. \A a \in 1 .. Len(vs) : vs[a] \in Entries
    BY <1>2, LenProperties
  <2>2. \A v \in Entries : v.link \in Nat
    BY DEF Entries
  <2>3. QED
    BY <2>1, <2>2
<1>4. \A a \in 1 .. Len(vs) : vs[a].link <= k
  BY <1>1, <1>2, <1>3
<1>5. Len(vs) <= 3 * k
  BY <1>1, <1>2
<1>6. GraphShape(vs, k)
  BY <1>1, <1>2, <1>4, <1>5 DEF GraphShape
<1>7. \A m \in 1 .. k : m = k \/ m \in 1 .. k - 1
  BY <1>1
<1>8. GraphCovers(vs, k)
  BY <1>7 DEF GraphOf, GraphCovers
<1>9. QED
  BY <1>6, <1>8 DEF GraphOf

(* The sort keeps the graph, and puts it in the order of its depths. *)
Ascending(vs) == \A a, b \in 1 .. Len(vs) : a <= b => vs[a].depth <= vs[b].depth

LEMMA SortedGraph ==
  ASSUME prog \in Programs, addr \in [Columns -> Int], NEW vs, NEW n, GraphOf(vs, n)
  PROVE  GraphOf(Sorted(vs), n) /\ Ascending(Sorted(vs))
<1>1. vs \in Seq(Entries) /\ Len(vs) \in Nat
  BY LenProperties DEF GraphOf, GraphShape
<1>2. PICK l \in Nat : l = Len(vs)
  BY <1>1
<1>3. PICK s : s = Sorted(vs)
  OBVIOUS
<1>4. /\ s \in Seq(Entries) /\ Len(s) = l
      /\ \A a, b \in 1 .. l : a <= b => s[a].depth <= s[b].depth
      /\ \E p \in [1 .. l -> 1 .. l] :
           /\ \A a, b \in 1 .. l : p[a] = p[b] => a = b
           /\ \A k \in 1 .. l : \E a \in 1 .. l : p[a] = k
           /\ \A a \in 1 .. l : s[a] = vs[p[a]]
  <2>1. Rearranged(Sorted(vs), vs, l)
    BY <1>1, <1>2, SortedFacts
  <2>2. Rearranged(s, vs, l)
    BY <1>3, <2>1
  <2>3. QED
    BY <2>2 DEF Rearranged
<1>5. PICK p \in [1 .. l -> 1 .. l] :
        /\ \A a, b \in 1 .. l : p[a] = p[b] => a = b
        /\ \A k \in 1 .. l : \E a \in 1 .. l : p[a] = k
        /\ \A a \in 1 .. l : s[a] = vs[p[a]]
  BY <1>4
<1>6. \A a \in 1 .. l : p[a] \in 1 .. l
  OBVIOUS
<1>7. NamesOnce(s)
  <2>1. NamesOnce(vs)
    BY DEF GraphOf, GraphShape
  <2>2. ASSUME NEW a \in 1 .. l, NEW b \in 1 .. l, s[a].name = s[b].name PROVE a = b
    <3>1. p[a] \in 1 .. l /\ p[b] \in 1 .. l /\ vs[p[a]].name = vs[p[b]].name
      BY <1>5, <1>6, <2>2
    <3>2. p[a] = p[b]
      BY <1>2, <2>1, <3>1 DEF NamesOnce
    <3>3. QED
      BY <1>5, <3>2
  <2>3. QED
    BY <1>4, <2>2 DEF NamesOnce
<1>8. GraphShape(s, n)
  <2>1. /\ Len(vs) <= 3 * n
        /\ \A a \in 1 .. Len(vs) :
             /\ \E m \in 1 .. n : vs[a].name \in {prog[m].out} \cup ToSet(prog[m].in)
             /\ vs[a].link <= n /\ vs[a].depth <= vs[a].link
             /\ vs[a].link # 0 => vs[a].depth # 0 /\ vs[a].name = prog[vs[a].link].out
    BY DEF GraphOf, GraphShape
  <2>2. ASSUME NEW a \in 1 .. l
        PROVE  /\ \E m \in 1 .. n : s[a].name \in {prog[m].out} \cup ToSet(prog[m].in)
               /\ s[a].link <= n /\ s[a].depth <= s[a].link
               /\ s[a].link # 0 => s[a].depth # 0 /\ s[a].name = prog[s[a].link].out
    <3>1. PICK c \in 1 .. Len(vs) : s[a] = vs[c]
      BY <1>2, <1>5, <1>6
    <3>2. QED
      BY <2>1, <3>1
  <2>3. QED
    BY <1>2, <1>4, <1>7, <2>1, <2>2 DEF GraphShape
<1>9. GraphCovers(s, n)
  <2>1. ASSUME NEW k \in 1 .. n, prog[k].out # NoVar
        PROVE  \E a \in 1 .. Len(s) : s[a].link = k
    <3>1. PICK b \in 1 .. Len(vs) : vs[b].link = k
      BY <2>1 DEF GraphOf, GraphCovers
    <3>2. PICK a \in 1 .. l : p[a] = b
      BY <1>2, <1>5
    <3>3. s[a] = vs[b] /\ a \in 1 .. Len(s)
      BY <1>4, <1>5, <3>2
    <3>4. QED
      BY <3>1, <3>3
  <2>2. QED
    BY <2>1 DEF GraphCovers
<1>10. GraphInputs(s)
  <2>1. ASSUME NEW a \in 1 .. Len(s), s[a].link # 0, NEW h \in ToSet(prog[s[a].link].in)
        PROVE  /\ \E b \in 1 .. Len(s) : s[b].name = h
               /\ \A b \in 1 .. Len(s) : s[b].name = h => s[b].depth < s[a].depth
    <3>1. p[a] \in 1 .. Len(vs) /\ s[a] = vs[p[a]]
      BY <1>2, <1>4, <1>5, <1>6
    <3>2. /\ \E c \in 1 .. Len(vs) : vs[c].name = h
          /\ \A c \in 1 .. Len(vs) : vs[c].name = h => vs[c].depth < s[a].depth
      BY <2>1, <3>1 DEF GraphOf, GraphInputs
    <3>3. PICK c \in 1 .. Len(vs) : vs[c].name = h
      BY <3>2
    <3>4. PICK b \in 1 .. l : p[b] = c
      BY <1>2, <1>5
    <3>5. b \in 1 .. Len(s) /\ s[b].name = h
      BY <1>4, <1>5, <3>3, <3>4
    <3>6. \A d \in 1 .. Len(s) : p[d] \in 1 .. Len(vs) /\ s[d] = vs[p[d]]
      BY <1>2, <1>4, <1>5, <1>6
    <3>7. QED
      BY <3>2, <3>5, <3>6
  <2>2. QED
    BY <2>1 DEF GraphInputs
<1>11. QED
  BY <1>3, <1>4, <1>7, <1>8, <1>9, <1>10 DEF GraphOf, Ascending

-----------------------------------------------------------------------------
(***************************************************************************)
(* The inductive invariant.  What was handed over are the links before i,  *)
(* but for the run of selects that starts at `start` and has yet to be     *)
(* executed; the run is of one column and of the stage's depth.  What has  *)
(* less depth than the stage has been executed once the wait is over.      *)
(***************************************************************************)
InRun(a) == select_par # NoVar /\ i <= Size /\ a \in start .. i - 1
Given == {a \in 1 .. i - 1 : variables[a].link # 0 /\ ~InRun(a)}
Handed == ToSet(outbox) \cup pending \cup finished

GraphInv ==
  /\ prog \in Programs /\ addr \in [Columns -> 1 .. Cardinality(Columns)]
  /\ at = "collect" => GraphOf(variables, i - 1)
  /\ at # "collect" => GraphOf(variables, Len(prog)) /\ Ascending(variables)

Pristine ==
  at = "collect" => /\ stage = 0 /\ start = 0 /\ select_par = NoVar
                    /\ outbox = <<>> /\ pending = {} /\ finished = {} /\ caller = "idle"

HandedIs == Handed = {variables[a].link : a \in Given}
RunIs ==
  select_par # NoVar /\ i <= Size =>
    /\ start \in 1 .. i - 1
    /\ \A a \in start .. i - 1 : /\ IsSelect(variables[a]) /\ ColOf(variables[a]) = select_par
                                 /\ variables[a].depth = stage
Ahead == \A a \in i .. Size : stage <= variables[a].depth
LowerFinished ==
  at = "loop" /\ caller = "idle" =>
    \A a \in 1 .. Size :
      variables[a].link # 0 /\ variables[a].depth < stage => variables[a].link \in finished
CallerFits ==
  /\ caller = "waiting" => outbox = <<>> /\ at \in {"loop", "end"}
  /\ at = "end" => caller = "waiting" /\ i = Size + 1
  /\ at = "done" => i = Size + 1 /\ pending = {} /\ outbox = <<>>
LoopInv ==
  at \in {"loop", "end", "done"} => HandedIs /\ RunIs /\ Ahead /\ LowerFinished /\ CallerFits

InputsDone(t) == \A k \in DOMAIN prog : prog[k].out \in ToSet(prog[t].in) => k \in finished
OutboxReady == \A t \in ToSet(outbox) : InputsDone(t)

BatchInv ==
  /\ TypeOK /\ InputsFirst /\ SubmittedOnce
  /\ GraphInv /\ Pristine /\ LoopInv /\ OutboxReady

(* The values, as long as no selection was inverted. *)
ValuesRight ==
  inverse = {} =>
    /\ \A h \in Handles \ Created : value[h] = "right"
    /\ \A k \in finished : value[prog[k].out] = "right"

-----------------------------------------------------------------------------
(* The graph that the loop goes over. *)
LEMMA AddrType ==
  ASSUME addr \in [Columns -> 1 .. Cardinality(Columns)]
  PROVE  addr \in [Columns -> Int]
<1>1. Cardinality(Columns) \in Nat
  BY BatchAssumption, FS_CardinalityType
<1>2. QED
  BY <1>1

LEMMA GraphSizes ==
  ASSUME prog \in Programs, NEW n \in Nat, NEW vs, GraphOf(vs, n), n <= Len(prog)
  PROVE  Len(vs) \in Nat /\ Len(vs) <= 3 * MaxLen
<1>1. vs \in Seq(Entries) /\ Len(vs) <= 3 * n
  BY DEF GraphOf, GraphShape
<1>2. Len(vs) \in Nat /\ Len(prog) \in 1 .. MaxLen
  BY <1>1, LenProperties, ProgramLength
<1>3. Len(vs) \in Nat /\ Len(vs) <= 3 * MaxLen
  <2>1. \A x, l \in Nat, y \in 1 .. MaxLen : x <= y /\ l <= 3 * x => l <= 3 * MaxLen
    BY DEF MaxLen
  <2>2. QED
    BY <1>1, <1>2, <2>1
<1>4. QED
  BY <1>3

LEMMA GraphTypes ==
  ASSUME GraphInv, at # "collect"
  PROVE  /\ Size \in Nat /\ Size <= 3 * MaxLen /\ prog \in Programs
         /\ \A a \in 1 .. Size :
              /\ variables[a] \in Entries
              /\ variables[a].depth \in 0 .. MaxLen /\ variables[a].depth \in Nat
              /\ variables[a].link = 0 => variables[a].depth = 0
              /\ variables[a].link # 0 =>
                   /\ variables[a].depth # 0 /\ variables[a].link \in DOMAIN prog
                   /\ prog[variables[a].link].out \in Handles \ {NoVar}
                   /\ variables[a].name = prog[variables[a].link].out
         /\ \A a, b \in 1 .. Size : a <= b => variables[a].depth <= variables[b].depth
<1>0. prog \in Programs /\ GraphOf(variables, Len(prog)) /\ Ascending(variables)
  BY DEF GraphInv
<1>1. Len(prog) \in 1 .. MaxLen /\ Len(prog) \in Nat /\ DOMAIN prog = 1 .. Len(prog)
  BY <1>0, ProgramLength
<1>2. Size \in Nat /\ Size <= 3 * MaxLen
  BY <1>0, <1>1, GraphSizes DEF Size
<1>3. \A v \in Entries :
        /\ v.depth \in 0 .. MaxLen /\ v.depth \in Nat /\ v.link \in 0 .. Len(prog)
        /\ v.name \in Handles
  BY DEF Entries, MaxLen
<1>4. \A a \in 1 .. Size :
        /\ variables[a] \in Entries
        /\ variables[a].link <= Len(prog) /\ variables[a].depth <= variables[a].link
        /\ variables[a].link # 0 =>
             variables[a].depth # 0 /\ variables[a].name = prog[variables[a].link].out
  BY <1>0, LenProperties DEF GraphOf, GraphShape, Size
<1>5. \A h \in Handles : h # NoVar
  BY DEF Handles
<1>6. ASSUME NEW a \in 1 .. Size
      PROVE  /\ variables[a] \in Entries
             /\ variables[a].depth \in 0 .. MaxLen /\ variables[a].depth \in Nat
             /\ variables[a].link = 0 => variables[a].depth = 0
             /\ variables[a].link # 0 =>
                   /\ variables[a].depth # 0 /\ variables[a].link \in DOMAIN prog
                   /\ prog[variables[a].link].out \in Handles \ {NoVar}
                   /\ variables[a].name = prog[variables[a].link].out
  <2>1. /\ variables[a].depth \in 0 .. MaxLen /\ variables[a].depth \in Nat
        /\ variables[a].link \in 0 .. Len(prog) /\ variables[a].name \in Handles
    BY <1>3, <1>4
  <2>2. variables[a].link # 0 => variables[a].link \in DOMAIN prog
    BY <1>1, <2>1
  <2>3. variables[a].link = 0 => variables[a].depth = 0
    BY <1>4, <2>1
  <2>4. QED
    BY <1>4, <1>5, <2>1, <2>2, <2>3
<1>7. \A a, b \in 1 .. Size : a <= b => variables[a].depth <= variables[b].depth
  BY <1>0 DEF Ascending, Size
<1>8. QED
  BY <1>0, <1>2, <1>6, <1>7

(* One element to a link, one link to an operator with a handle. *)
LEMMA LinksDiffer ==
  ASSUME GraphInv, at # "collect"
  PROVE  /\ \A a, b \in 1 .. Size :
              variables[a].link # 0 /\ variables[a].link = variables[b].link => a = b
         /\ \A k \in DOMAIN prog : prog[k].out # NoVar => \E a \in 1 .. Size : variables[a].link = k
<1>0. prog \in Programs /\ GraphOf(variables, Len(prog))
  BY DEF GraphInv
<1>1. DOMAIN prog = 1 .. Len(prog)
  BY <1>0, ProgramFacts
<1>2. \A k \in DOMAIN prog : prog[k].out # NoVar => \E a \in 1 .. Size : variables[a].link = k
  BY <1>0, <1>1 DEF GraphOf, GraphCovers, Size
<1>3. ASSUME NEW a \in 1 .. Size, NEW b \in 1 .. Size,
             variables[a].link # 0, variables[a].link = variables[b].link
      PROVE  a = b
  <2>1. variables[a].name = variables[b].name
    BY <1>3, GraphTypes
  <2>2. NamesOnce(variables)
    BY <1>0 DEF GraphOf, GraphShape
  <2>3. QED
    BY <2>1, <2>2 DEF NamesOnce, Size
<1>4. QED
  BY <1>2, <1>3

(* What computes an input of a link has less depth. *)
LEMMA InputLinks ==
  ASSUME GraphInv, at # "collect", NEW a \in 1 .. Size, variables[a].link # 0,
         NEW k \in DOMAIN prog, prog[k].out \in ToSet(prog[variables[a].link].in)
  PROVE  \E b \in 1 .. Size : variables[b].link = k /\ variables[b].depth < variables[a].depth
<1>0. prog \in Programs /\ GraphOf(variables, Len(prog))
  BY DEF GraphInv
<1>1. DOMAIN prog = 1 .. Len(prog) /\ variables[a].link \in 1 .. Len(prog)
  BY <1>0, ProgramFacts, GraphTypes
<1>2. prog[k].out # NoVar
  BY <1>0, <1>1, ProgramFacts
<1>3. PICK b \in 1 .. Size : variables[b].link = k
  BY <1>2, LinksDiffer
<1>4. k # 0
  <2>1. Len(prog) \in Nat
    BY <1>0, ProgramFacts DEF MaxLen
  <2>2. QED
    BY <1>1, <2>1
<1>5. variables[b].name = prog[k].out
  BY <1>3, <1>4, GraphTypes
<1>6. variables[b].depth < variables[a].depth
  BY <1>0, <1>5 DEF GraphOf, GraphInputs, Size
<1>7. QED
  BY <1>3, <1>6

-----------------------------------------------------------------------------
(* Initially there is no graph. *)
LEMMA InitGraph ==
  ASSUME prog \in Programs
  PROVE  GraphOf(<<>>, 0)
<1>1. <<>> \in Seq(Entries) /\ Len(<<>>) = 0
  BY EmptySeq
<1>2. \A a \in 1 .. Len(<<>>) : FALSE
  BY <1>1
<1>3. GraphShape(<<>>, 0)
  BY <1>1, <1>2 DEF GraphShape, NamesOnce
<1>4. QED
  BY <1>2, <1>3 DEF GraphOf, GraphCovers, GraphInputs

LEMMA InitHolds == Init => BatchInv /\ ValuesRight
<1> SUFFICES ASSUME Init PROVE BatchInv /\ ValuesRight
  OBVIOUS
<1>1. /\ prog \in Programs /\ addr \in [Columns -> 1 .. Cardinality(Columns)]
      /\ variables = <<>> /\ i = 1 /\ stage = 0 /\ select_par = NoVar /\ start = 0
      /\ at = "collect" /\ outbox = <<>> /\ inverse = {}
      /\ value = [h \in Handles |-> IF h \in Created THEN "unset" ELSE "right"]
      /\ pending = {} /\ finished = {} /\ caller = "idle"
  BY DEF Init, Pool!BarrierInit
<1>2. Len(<<>>) = 0 /\ <<>> \in Seq(DOMAIN prog) /\ ToSet(<<>>) = {} /\ IsInjective(<<>>)
  BY EmptySeq DEF ToSet, IsInjective
<1>3. TypeOK
  <2>1. Len(prog) \in Nat /\ i \in 1 .. Len(prog) + 1
    <3>1. Len(prog) \in Nat /\ Len(prog) \in 1 .. MaxLen
      BY <1>1, ProgramLength
    <3>2. QED
      BY <1>1, <3>1
  <2>2. Size = 0 /\ Size <= 3 * MaxLen /\ stage \in 0 .. MaxLen /\ start \in 0 .. Size
    BY <1>1, <1>2 DEF Size, MaxLen
  <2>3. value \in [Handles -> {"unset", "right", "complement", "wrong"}]
    BY <1>1
  <2>4. QED
    BY <1>1, <1>2, <2>1, <2>2, <2>3 DEF TypeOK
<1>4. InputsFirst /\ SubmittedOnce /\ OutboxReady /\ Pristine /\ LoopInv
  BY <1>1, <1>2 DEF InputsFirst, SubmittedOnce, OutboxReady, Pristine, LoopInv
<1>5. GraphInv
  <2>1. i - 1 = 0
    BY <1>1
  <2>2. GraphOf(variables, i - 1)
    BY <1>1, <2>1, InitGraph
  <2>3. QED
    BY <1>1, <2>2 DEF GraphInv
<1>6. ValuesRight
  BY <1>1 DEF ValuesRight
<1>7. QED
  BY <1>3, <1>4, <1>5, <1>6 DEF BatchInv

(* The graph of the next state, told by its elements. *)
LEMMA GraphNext ==
  ASSUME prog' = prog, NEW vs, vs = variables', NEW n, GraphOf(vs, n)
  PROVE  /\ i' - 1 = n => GraphOf(variables, i - 1)'
         /\ Len(prog) = n => GraphOf(variables, Len(prog))'
<1>1. Handles' = Handles
  BY DEF Handles, Created
<1>2. Entries' = Entries
  BY <1>1 DEF Entries
<1>3. GraphShape(vs, n)' = GraphShape(vs, n) /\ GraphCovers(vs, n)' = GraphCovers(vs, n)
  BY <1>1, <1>2 DEF GraphShape, GraphCovers, NamesOnce, Entries, Handles, Created
<1>4. GraphInputs(vs)' = GraphInputs(vs)
  BY DEF GraphInputs
<1>5. GraphOf(vs, n)'
  BY <1>3, <1>4 DEF GraphOf
<1>6. QED
  BY <1>5

(* add_operator_to_dp. *)
LEMMA CollectSteps ==
  ASSUME BatchInv, AddOperator \/ BatchExecute
  PROVE  BatchInv'
<1>1. /\ at = "collect" /\ prog \in Programs /\ GraphOf(variables, i - 1)
      /\ addr \in [Columns -> 1 .. Cardinality(Columns)] /\ addr \in [Columns -> Int]
      /\ stage = 0 /\ start = 0 /\ select_par = NoVar
      /\ outbox = <<>> /\ pending = {} /\ finished = {} /\ caller = "idle"
      /\ i \in 1 .. Len(prog) + 1 /\ inverse \in SUBSET DOMAIN prog
      /\ value \in [Handles -> {"unset", "right", "complement", "wrong"}]
  BY AddrType DEF BatchInv, GraphInv, Pristine, AddOperator, BatchExecute, TypeOK
<1>2. /\ UNCHANGED <<prog, grouped, addr, stage, select_par, start, outbox, inverse, value>>
      /\ UNCHANGED <<pending, finished, caller>>
      /\ \/ at' = at /\ i' = i + 1 /\ i <= Len(prog)
         \/ at' = "loop" /\ i' = 1 /\ i = Len(prog) + 1 /\ variables' = Sorted(variables)
  BY DEF AddOperator, BatchExecute, poolVars
<1>3. Len(prog) \in Nat /\ Len(prog) \in 1 .. MaxLen /\ i \in Nat /\ DOMAIN prog = 1 .. Len(prog)
  <2>1. Len(prog) \in Nat /\ Len(prog) \in 1 .. MaxLen /\ DOMAIN prog = 1 .. Len(prog)
    BY <1>1, ProgramLength
  <2>2. QED
    BY <1>1, <2>1
<1>4. /\ <<>> \in Seq(DOMAIN prog) /\ ToSet(<<>>) = {} /\ IsInjective(<<>>)
  BY EmptySeq DEF ToSet, IsInjective
<1>5. PICK vs : vs = variables'
  OBVIOUS
<1>6. /\ at' = "collect" => GraphOf(variables, i - 1)'
      /\ at' # "collect" => GraphOf(variables, Len(prog))' /\ Ascending(variables)'
      /\ \E n \in 0 .. Len(prog) : GraphOf(vs, n)
  <2>1. CASE AddOperator
    <3>1. i \in 1 .. Len(prog) /\ i' - 1 = i /\ at' = "collect"
      BY <1>1, <1>2, <1>3, <2>1 DEF AddOperator
    <3>2. GraphOf(vs, i)
      <4>1. CASE prog[i].out = NoVar
        <5>1. vs = variables
          BY <1>5, <2>1, <4>1 DEF AddOperator
        <5>2. GraphOf(variables, i)
          BY <1>1, <3>1, <4>1, SkipFacts
        <5>3. QED
          BY <5>1, <5>2
      <4>2. CASE prog[i].out # NoVar
        <5>1. PICK w : w = AddInputs(variables, prog[i].in)
          OBVIOUS
        <5>2. PICK d : d = DepthOf(w, prog[i].in)
          OBVIOUS
        <5>3. vs = Append(w, [name |-> prog[i].out, link |-> i, depth |-> d])
          BY <1>5, <2>1, <4>2, <5>1, <5>2 DEF AddOperator
        <5>4. GraphOf(Append(w, [name |-> prog[i].out, link |-> i, depth |-> d]), i)
          BY <1>1, <3>1, <4>2, <5>1, <5>2, AddOperatorFacts
        <5>5. QED
          BY <5>3, <5>4
      <4>3. QED
        BY <4>1, <4>2
    <3>3. GraphOf(variables, i - 1)'
      BY <1>2, <1>5, <3>1, <3>2, GraphNext
    <3>4. i \in 0 .. Len(prog)
      BY <1>3, <3>1
    <3>5. QED
      BY <3>1, <3>2, <3>3, <3>4
  <2>2. CASE BatchExecute
    <3>1. i - 1 = Len(prog) /\ at' = "loop" /\ vs = Sorted(variables)
      BY <1>3, <1>5, <2>2 DEF BatchExecute
    <3>2. GraphOf(Sorted(variables), Len(prog)) /\ Ascending(Sorted(variables))
      BY <1>1, <3>1, SortedGraph
    <3>3. GraphOf(vs, Len(prog)) /\ Ascending(vs)
      BY <3>1, <3>2
    <3>4. GraphOf(variables, Len(prog))'
      BY <1>2, <1>5, <3>3, GraphNext
    <3>5. Ascending(variables)'
      BY <1>5, <3>3 DEF Ascending
    <3>6. Len(prog) \in 0 .. Len(prog)
      BY <1>3
    <3>7. QED
      BY <3>1, <3>3, <3>4, <3>5, <3>6
  <2>3. QED
    BY <2>1, <2>2
<1>7. GraphInv'
  BY <1>1, <1>2, <1>6 DEF GraphInv
<1>8. Size' \in Nat /\ Size' <= 3 * MaxLen
  <2>1. PICK n \in 0 .. Len(prog) : GraphOf(vs, n)
    BY <1>6
  <2>2. Len(vs) \in Nat /\ Len(vs) <= 3 * MaxLen
    <3>1. n \in Nat /\ n <= Len(prog)
      BY <1>3
    <3>2. QED
      BY <1>1, <2>1, <3>1, GraphSizes
  <2>3. QED
    BY <1>5, <2>2 DEF Size
<1>9. TypeOK'
  <2>1. i' \in 1 .. (IF at' = "collect" THEN Len(prog') ELSE Size') + 1
    BY <1>1, <1>2, <1>3, <1>8
  <2>2. /\ stage' \in 0 .. MaxLen /\ start' \in 0 .. Size'
        /\ at' \in {"collect", "loop", "end", "done", "aborted"} /\ select_par' \in Columns \cup {NoVar}
    BY <1>1, <1>2, <1>8 DEF MaxLen
  <2>3. value' \in [Handles' -> {"unset", "right", "complement", "wrong"}]
    BY <1>1, <1>2 DEF Handles, Created
  <2>4. QED
    BY <1>1, <1>2, <1>4, <1>8, <2>1, <2>2, <2>3 DEF TypeOK
<1>10. InputsFirst' /\ SubmittedOnce' /\ OutboxReady' /\ Pristine'
  BY <1>1, <1>2, <1>4 DEF InputsFirst, SubmittedOnce, OutboxReady, Pristine
<1>11. LoopInv'
  <2>1. CASE AddOperator
    BY <1>1, <2>1 DEF AddOperator, LoopInv
  <2>2. CASE BatchExecute
    <3>1. i' = 1 /\ stage' = 0 /\ select_par' = NoVar /\ outbox' = <<>>
          /\ pending' = {} /\ finished' = {} /\ caller' = "idle" /\ at' = "loop"
      BY <1>1, <1>2, <2>2 DEF BatchExecute
    <3>2. HandedIs'
      BY <1>4, <3>1 DEF HandedIs, Handed, Given
    <3>3. \A a \in 1 .. Size' : 0 <= variables'[a].depth /\ variables'[a].depth \in Nat
      <4>1. vs \in Seq(Entries)
        BY <1>6 DEF GraphOf, GraphShape
      <4>2. \A a \in 1 .. Len(vs) : vs[a] \in Entries
        BY <4>1, LenProperties
      <4>3. \A v \in Entries : v.depth \in Nat
        BY DEF Entries, MaxLen
      <4>4. \A a \in 1 .. Len(vs) : vs[a].depth \in Nat /\ 0 <= vs[a].depth
        BY <4>2, <4>3
      <4>5. QED
        BY <1>5, <4>4 DEF Size
    <3>4. RunIs' /\ LowerFinished' /\ Ahead' /\ CallerFits'
      BY <3>1, <3>3 DEF RunIs, LowerFinished, Ahead, CallerFits
    <3>5. QED
      BY <3>2, <3>4 DEF LoopInv
  <2>3. QED
    BY <2>1, <2>2
<1>12. QED
  BY <1>7, <1>9, <1>10, <1>11 DEF BatchInv

-----------------------------------------------------------------------------
(* The links of a stretch of the graph are distinct operators of the batch. *)
LEMMA LinksAre ==
  ASSUME GraphInv, at # "collect", NEW from \in 1 .. Size, NEW to \in from + 1 .. Size + 1,
         \A a \in from .. to - 1 : variables[a].link # 0
  PROVE  /\ Links(from, to) \in Seq(DOMAIN prog) /\ IsInjective(Links(from, to))
         /\ ToSet(Links(from, to)) = {variables[a].link : a \in from .. to - 1}
<1>1. Size \in Nat
  BY GraphTypes
<1>2. PICK n \in Nat : n = to - from /\ from \in Nat /\ to = from + n /\ to <= Size + 1
  <2>1. to - from \in Nat /\ from \in Nat /\ to = from + (to - from) /\ to <= Size + 1
    BY <1>1
  <2>2. QED
    BY <2>1
<1>3. PICK o : o = Links(from, to)
  OBVIOUS
<1>4. o = [k \in 1 .. n |-> variables[from + k - 1].link]
  BY <1>2, <1>3 DEF Links
<1>5. \A k \in 1 .. n : from + k - 1 \in from .. to - 1 /\ from + k - 1 \in 1 .. Size
  BY <1>1, <1>2
<1>6. \A a \in from .. to - 1 : \E k \in 1 .. n : a = from + k - 1
  <2>1. ASSUME NEW a \in from .. to - 1 PROVE \E k \in 1 .. n : a = from + k - 1
    <3>1. a - from + 1 \in 1 .. n /\ a = from + (a - from + 1) - 1
      BY <1>2
    <3>2. QED
      BY <3>1
  <2>2. QED
    BY <2>1
<1>7. DOMAIN o = 1 .. n /\ \A k \in 1 .. n : o[k] = variables[from + k - 1].link
  BY <1>4
<1>8. \A k \in 1 .. n : o[k] \in DOMAIN prog
  <2>1. \A a \in from .. to - 1 : a \in 1 .. Size /\ variables[a].link # 0
    BY <1>1
  <2>2. \A a \in 1 .. Size : variables[a].link # 0 => variables[a].link \in DOMAIN prog
    BY GraphTypes
  <2>3. QED
    BY <1>5, <1>7, <2>1, <2>2
<1>9. o \in Seq(DOMAIN prog)
  <2>1. o = [k \in 1 .. n |-> o[k]]
    BY <1>4, <1>7
  <2>2. o \in [1 .. n -> DOMAIN prog]
    BY <1>8, <2>1
  <2>3. QED
    BY <2>2
<1>10. ToSet(o) = {variables[a].link : a \in from .. to - 1}
  <2>1. ToSet(o) = {o[k] : k \in 1 .. n}
    BY <1>7 DEF ToSet
  <2>2. \A k \in 1 .. n : \E a \in from .. to - 1 : o[k] = variables[a].link
    BY <1>5, <1>7
  <2>3. \A a \in from .. to - 1 : \E k \in 1 .. n : o[k] = variables[a].link
    BY <1>6, <1>7
  <2>4. QED
    BY <2>1, <2>2, <2>3
<1>11. IsInjective(o)
  <2>1. ASSUME NEW k \in 1 .. n, NEW m \in 1 .. n, o[k] = o[m] PROVE k = m
    <3>1. PICK a \in from .. to - 1 : a = from + k - 1 /\ a \in 1 .. Size /\ variables[a].link = o[k]
      BY <1>5, <1>7
    <3>2. PICK b \in from .. to - 1 : b = from + m - 1 /\ b \in 1 .. Size /\ variables[b].link = o[m]
      BY <1>5, <1>7
    <3>3. a = b
      BY <2>1, <3>1, <3>2, LinksDiffer
    <3>4. QED
      BY <1>2, <3>1, <3>2, <3>3
  <2>2. QED
    BY <1>7, <2>1 DEF IsInjective
<1>12. QED
  BY <1>3, <1>9, <1>10, <1>11

(* What the links of the stage may read has been executed. *)
LEMMA StageReady ==
  ASSUME BatchInv, Ready, NEW a \in 1 .. Size, variables[a].link # 0, variables[a].depth = stage
  PROVE  InputsDone(variables[a].link)
<1>1. GraphInv /\ at # "collect" /\ LowerFinished /\ at = "loop" /\ caller = "idle"
  BY DEF BatchInv, LoopInv, Ready
<1>2. ASSUME NEW k \in DOMAIN prog, prog[k].out \in ToSet(prog[variables[a].link].in)
      PROVE  k \in finished
  <2>1. PICK b \in 1 .. Size : variables[b].link = k /\ variables[b].depth < variables[a].depth
    BY <1>1, <1>2, InputLinks
  <2>2. k # 0
    <3>1. prog \in Programs
      BY <1>1 DEF GraphInv
    <3>2. k \in 1 .. Len(prog) /\ Len(prog) \in Nat
      BY <3>1, ProgramLength
    <3>3. QED
      BY <3>2
  <2>3. QED
    BY <1>1, <2>1, <2>2 DEF LowerFinished
<1>3. QED
  BY <1>2 DEF InputsDone

(***************************************************************************)
(* A stretch of the graph is handed over: links of the stage's depth that  *)
(* were not handed over before.                                            *)
(***************************************************************************)
LEMMA HandOver ==
  ASSUME BatchInv, Ready, NEW from \in 1 .. Size, NEW to \in from + 1 .. Size + 1,
         \A a \in from .. to - 1 :
           variables[a].link # 0 /\ variables[a].depth = stage /\ a \notin Given,
         outbox' = Links(from, to), UNCHANGED <<prog, variables, pending, finished>>,
         Given' = Given \cup (from .. to - 1)
  PROVE  outbox' \in Seq(DOMAIN prog) /\ SubmittedOnce' /\ OutboxReady' /\ HandedIs'
<1>1. /\ GraphInv /\ at # "collect" /\ HandedIs /\ at = "loop" /\ caller = "idle" /\ outbox = <<>>
      /\ Size \in Nat
  BY GraphTypes DEF BatchInv, LoopInv, Ready
<1>2. /\ outbox' \in Seq(DOMAIN prog) /\ IsInjective(outbox')
      /\ ToSet(outbox') = {variables[a].link : a \in from .. to - 1}
  BY <1>1, LinksAre
<1>3. \A a \in from .. to - 1 : a \in 1 .. Size
  BY <1>1
<1>4. Handed = pending \cup finished /\ Handed = {variables[a].link : a \in Given}
  <2>1. ToSet(<<>>) = {}
    BY DEF ToSet
  <2>2. QED
    BY <1>1, <2>1 DEF HandedIs, Handed
<1>5. \A a \in Given : a \in 1 .. Size
  <2>1. i \in 1 .. Size + 1
    BY <1>1 DEF BatchInv, TypeOK
  <2>2. QED
    BY <1>1, <2>1 DEF Given
<1>6. ToSet(outbox') \cap (pending \cup finished) = {}
  <2>1. ASSUME NEW a \in from .. to - 1, NEW b \in Given, variables[a].link = variables[b].link
        PROVE  FALSE
    <3>1. a = b
      BY <1>1, <1>3, <1>5, <2>1, LinksDiffer
    <3>2. QED
      BY <3>1
  <2>2. QED
    BY <1>2, <1>4, <2>1
<1>7. SubmittedOnce'
  BY <1>2, <1>6 DEF SubmittedOnce
<1>8. \A t \in ToSet(outbox') : InputsDone(t)
  BY <1>2, <1>3, StageReady
<1>9. OutboxReady'
  BY <1>8 DEF OutboxReady, InputsDone
<1>10. HandedIs'
  BY <1>2, <1>4 DEF HandedIs, Handed
<1>11. QED
  BY <1>2, <1>7, <1>9, <1>10

-----------------------------------------------------------------------------
(* What the steps of the loop have in common. *)
LEMMA GraphKept ==
  ASSUME GraphInv, at # "collect", at' # "collect", UNCHANGED <<prog, grouped, variables, addr>>
  PROVE  GraphInv'
<1>1. PICK vs : vs = variables
  OBVIOUS
<1>2. GraphOf(vs, Len(prog)) /\ Ascending(vs) /\ vs = variables'
  BY <1>1 DEF GraphInv
<1>3. GraphOf(variables, Len(prog))'
  BY <1>2, GraphNext
<1>4. Ascending(variables)'
  BY <1>2 DEF Ascending
<1>5. QED
  BY <1>3, <1>4 DEF GraphInv

LEMMA ValueKept ==
  ASSUME TypeOK, UNCHANGED <<prog, value>>
  PROVE  value' \in [Handles' -> {"unset", "right", "complement", "wrong"}]
BY DEF TypeOK, Handles, Created

LEMMA LoopStep ==
  ASSUME BatchInv, Ready, at' = "loop",
         UNCHANGED <<prog, grouped, variables, addr, stage, value, pending, finished, caller>>,
         i' \in i .. Size + 1, select_par' \in Columns \cup {NoVar}, start' \in 0 .. Size,
         inverse' \in SUBSET DOMAIN prog, outbox' \in Seq(DOMAIN prog),
         SubmittedOnce', OutboxReady', HandedIs', RunIs'
  PROVE  BatchInv'
<1>1. /\ GraphInv /\ at = "loop" /\ at # "collect" /\ caller = "idle" /\ TypeOK /\ InputsFirst
      /\ Ahead /\ LowerFinished /\ Size \in Nat /\ Size' = Size
  BY GraphTypes DEF BatchInv, LoopInv, Ready, Size
<1>2. GraphInv'
  BY <1>1, GraphKept
<1>3. TypeOK'
  <2>1. i \in 1 .. Size + 1 /\ Size <= 3 * MaxLen
    BY <1>1 DEF TypeOK
  <2>2. i' \in 1 .. Size + 1
    BY <1>1, <2>1
  <2>3. i' \in 1 .. (IF at' = "collect" THEN Len(prog') ELSE Size') + 1
    BY <1>1, <2>2
  <2>4. value' \in [Handles' -> {"unset", "right", "complement", "wrong"}]
    BY <1>1, ValueKept
  <2>5. /\ stage' \in 0 .. MaxLen /\ pending' \in SUBSET DOMAIN prog' /\ finished' \in SUBSET DOMAIN prog'
        /\ caller' \in {"idle", "waiting"}
    BY <1>1 DEF TypeOK
  <2>6. QED
    BY <1>1, <2>1, <2>3, <2>4, <2>5 DEF TypeOK
<1>4. InputsFirst'
  BY <1>1 DEF InputsFirst
<1>5. Pristine'
  BY DEF Pristine
<1>6. Ahead'
  <2>1. i \in 1 .. Size + 1
    BY <1>1 DEF TypeOK
  <2>2. \A a \in i' .. Size : a \in i .. Size
    BY <1>1, <2>1
  <2>3. QED
    BY <1>1, <2>2 DEF Ahead
<1>7. LowerFinished'
  BY <1>1 DEF LowerFinished
<1>8. CallerFits'
  BY <1>1 DEF CallerFits
<1>9. QED
  BY <1>2, <1>3, <1>4, <1>5, <1>6, <1>7, <1>8 DEF BatchInv, LoopInv

(* An assertion that fails leaves everything as it is. *)
LEMMA AbortStep ==
  ASSUME BatchInv, Ready, at' = "aborted",
         UNCHANGED <<prog, grouped, variables, addr, stage, value, pending, finished, caller>>,
         UNCHANGED <<outbox, inverse>>,
         i' \in i .. Size + 1, select_par' \in Columns \cup {NoVar}, start' \in 0 .. Size
  PROVE  BatchInv'
<1>1. /\ GraphInv /\ at = "loop" /\ at # "collect" /\ TypeOK /\ InputsFirst /\ SubmittedOnce
      /\ OutboxReady /\ Size \in Nat /\ Size' = Size
  BY GraphTypes DEF BatchInv, Ready, Size
<1>2. GraphInv'
  BY <1>1, GraphKept
<1>3. TypeOK'
  <2>1. i \in 1 .. Size + 1 /\ Size <= 3 * MaxLen
    BY <1>1 DEF TypeOK
  <2>2. i' \in 1 .. Size + 1
    BY <1>1, <2>1
  <2>3. i' \in 1 .. (IF at' = "collect" THEN Len(prog') ELSE Size') + 1
    BY <1>1, <2>2
  <2>4. value' \in [Handles' -> {"unset", "right", "complement", "wrong"}]
    BY <1>1, ValueKept
  <2>5. /\ stage' \in 0 .. MaxLen /\ pending' \in SUBSET DOMAIN prog' /\ finished' \in SUBSET DOMAIN prog'
        /\ caller' \in {"idle", "waiting"} /\ outbox' \in Seq(DOMAIN prog') /\ inverse' \in SUBSET DOMAIN prog'
    BY <1>1 DEF TypeOK
  <2>6. QED
    BY <1>1, <2>1, <2>3, <2>4, <2>5 DEF TypeOK
<1>4. InputsFirst' /\ SubmittedOnce' /\ OutboxReady'
  BY <1>1 DEF InputsFirst, SubmittedOnce, OutboxReady, InputsDone
<1>5. Pristine' /\ LoopInv'
  BY DEF Pristine, LoopInv
<1>6. QED
  BY <1>2, <1>3, <1>4, <1>5 DEF BatchInv

(* execute_multiselect hands a stretch over, if it is of selects on one column. *)
LEMMA MultiselectStep ==
  ASSUME BatchInv, Ready, NEW from \in 1 .. Size, NEW to \in from + 1 .. Size + 1,
         Multiselect(from, to),
         UNCHANGED <<prog, grouped, variables, addr, stage, value, pending, finished, caller>>,
         i' \in i .. Size + 1, select_par' \in Columns \cup {NoVar}, start' \in 0 .. Size,
         \A a \in from .. to - 1 : variables[a].depth = stage /\ a \notin Given,
         (\A a \in from .. to - 1 : IsSelect(variables[a])) =>
            Given' = Given \cup (from .. to - 1) /\ RunIs'
  PROVE  BatchInv'
<1>1. GraphInv /\ at # "collect" /\ TypeOK /\ Size \in Nat
  BY GraphTypes DEF BatchInv, Ready
<1>2. CASE \A k \in from .. to - 1 :
             IsSelect(variables[k]) /\ ColOf(variables[k]) = ColOf(variables[from])
  <2>1. /\ at' = "loop" /\ outbox' = Links(from, to)
        /\ \E flags \in [from .. to - 1 -> Estimates] :
             inverse' = inverse \cup {variables[k].link : k \in {m \in from .. to - 1 : flags[m]}}
    BY <1>2 DEF Multiselect
  <2>2. \A a \in from .. to - 1 : variables[a].link # 0
    BY <1>2 DEF IsSelect
  <2>3. \A a \in from .. to - 1 : a \in 1 .. Size
    BY <1>1
  <2>4. \A a \in from .. to - 1 : variables[a].link \in DOMAIN prog
    BY <1>1, <2>2, <2>3, GraphTypes
  <2>5. inverse' \in SUBSET DOMAIN prog
    BY <1>1, <2>1, <2>4 DEF TypeOK
  <2>6. Given' = Given \cup (from .. to - 1) /\ RunIs'
    BY <1>2
  <2>7. outbox' \in Seq(DOMAIN prog) /\ SubmittedOnce' /\ OutboxReady' /\ HandedIs'
    BY <2>1, <2>2, <2>6, HandOver
  <2>8. QED
    BY <2>1, <2>5, <2>6, <2>7, LoopStep
<1>3. CASE ~ \A k \in from .. to - 1 :
             IsSelect(variables[k]) /\ ColOf(variables[k]) = ColOf(variables[from])
  <2>1. at' = "aborted" /\ UNCHANGED <<outbox, inverse>>
    BY <1>3 DEF Multiselect
  <2>2. QED
    BY <2>1, AbortStep
<1>4. QED
  BY <1>2, <1>3

-----------------------------------------------------------------------------
(* The steps of the loop. *)
LEMMA AtElement ==
  ASSUME BatchInv, Ready, i <= Size
  PROVE  /\ GraphInv /\ at = "loop" /\ at # "collect" /\ TypeOK /\ HandedIs /\ RunIs
         /\ Size \in Nat /\ i \in 1 .. Size /\ i \in Nat /\ i + 1 \in i .. Size + 1 /\ i \in i .. Size + 1
         /\ Gv = variables[i] /\ (Gv.link # 0 => Gv.link \in DOMAIN prog)
<1>1. GraphInv /\ at = "loop" /\ at # "collect" /\ TypeOK /\ HandedIs /\ RunIs
  BY DEF BatchInv, LoopInv, Ready
<1>2. Size \in Nat
  BY <1>1, GraphTypes
<1>3. i \in 1 .. Size + 1
  BY <1>1 DEF TypeOK
<1>4. i \in 1 .. Size /\ i \in Nat /\ i + 1 \in i .. Size + 1 /\ i \in i .. Size + 1
  BY <1>2, <1>3
<1>5. Gv = variables[i] /\ (Gv.link # 0 => Gv.link \in DOMAIN prog)
  BY <1>1, <1>4, GraphTypes DEF Gv
<1>6. QED
  BY <1>1, <1>2, <1>4, <1>5

LEMMA RunFacts ==
  ASSUME BatchInv, Ready, i <= Size, select_par # NoVar
  PROVE  /\ start \in 1 .. i - 1 /\ start \in 1 .. Size /\ i \in start + 1 .. Size + 1
         /\ i + 1 \in start + 1 .. Size + 1
         /\ \A a \in start .. i - 1 : /\ IsSelect(variables[a]) /\ ColOf(variables[a]) = select_par
                                      /\ variables[a].link # 0 /\ variables[a].depth = stage
                                      /\ a \notin Given
<1>1. RunIs /\ Size \in Nat /\ i \in 1 .. Size
  BY AtElement
<1>2. /\ start \in 1 .. i - 1
      /\ \A a \in start .. i - 1 : /\ IsSelect(variables[a]) /\ ColOf(variables[a]) = select_par
                                   /\ variables[a].depth = stage
  BY <1>1 DEF RunIs
<1>3. start \in 1 .. Size /\ i \in start + 1 .. Size + 1 /\ i + 1 \in start + 1 .. Size + 1
  BY <1>1, <1>2
<1>4. \A a \in start .. i - 1 : variables[a].link # 0 /\ a \notin Given
  BY <1>2 DEF IsSelect, Given, InRun
<1>5. QED
  BY <1>2, <1>3, <1>4

(* The run of selects ends, because the stage does or another link comes. *)
LEMMA RunEnds ==
  ASSUME BatchInv, EndStage \/ FlushBeforeLink
  PROVE  BatchInv'
<1>1. /\ Ready /\ i <= Size /\ select_par # NoVar /\ Multiselect(start, i)
      /\ select_par' = NoVar /\ start' = 0 /\ i' = i
      /\ UNCHANGED <<prog, grouped, variables, addr, stage, value, pending, finished, caller>>
  BY DEF EndStage, FlushBeforeLink, Visit, graphVars, poolVars
<1>2. /\ start \in 1 .. i - 1 /\ start \in 1 .. Size /\ i \in start + 1 .. Size + 1
      /\ \A a \in start .. i - 1 : variables[a].link # 0 /\ variables[a].depth = stage /\ a \notin Given
  BY <1>1, RunFacts
<1>3. Size \in Nat /\ i \in 1 .. Size /\ i \in i .. Size + 1 /\ 0 \in 0 .. Size
  BY <1>1, AtElement
<1>4. Given' = Given \cup (start .. i - 1)
  <2>1. Given' = {a \in 1 .. i - 1 : variables[a].link # 0}
    BY <1>1 DEF Given, InRun
  <2>2. Given = {a \in 1 .. i - 1 : variables[a].link # 0 /\ a \notin start .. i - 1}
    BY <1>1 DEF Given, InRun
  <2>3. \A a \in start .. i - 1 : a \in 1 .. i - 1
    BY <1>2, <1>3
  <2>4. QED
    BY <1>2, <2>1, <2>2, <2>3
<1>5. RunIs'
  BY <1>1 DEF RunIs
<1>6. QED
  BY <1>1, <1>2, <1>3, <1>4, <1>5, MultiselectStep

(* The first select of a run, and a select that ends one. *)
LEMMA FirstSelectStep ==
  ASSUME BatchInv, VisitFirstSelect
  PROVE  BatchInv'
<1>1. /\ Ready /\ i <= Size /\ stage = Gv.depth /\ IsSelect(Gv) /\ select_par = NoVar
      /\ start' = i /\ i' = i + 1
      /\ UNCHANGED <<prog, grouped, variables, addr, stage, value, pending, finished, caller>>
  BY DEF VisitFirstSelect, Visit, Advance, graphVars, poolVars
<1>2. /\ Size \in Nat /\ i \in 1 .. Size /\ i \in Nat /\ i + 1 \in i .. Size + 1 /\ Gv = variables[i]
      /\ at = "loop" /\ TypeOK /\ HandedIs /\ GraphInv
  BY <1>1, AtElement
<1>3. Gv.link # 0 /\ Gv \in Entries /\ ColOf(Gv) \in Columns
  <2>1. Gv \in Entries
    BY <1>2, GraphTypes
  <2>2. prog \in Programs /\ addr \in [Columns -> Int]
    BY <1>2, AddrType DEF GraphInv
  <2>3. QED
    BY <1>1, <2>1, <2>2, SelectColumn DEF IsSelect
<1>4. Given = {a \in 1 .. i - 1 : variables[a].link # 0} /\ i \notin Given
  BY <1>1, <1>2 DEF Given, InRun
<1>5. CASE i = Size
  <2>1. Multiselect(i, i + 1) /\ select_par' = NoVar
    BY <1>5 DEF VisitFirstSelect
  <2>2. i + 1 \in i + 1 .. Size + 1 /\ i .. (i + 1) - 1 = {i} /\ 1 .. (i + 1) - 1 = (1 .. i - 1) \cup {i}
    BY <1>2
  <2>3. Given' = Given \cup (i .. (i + 1) - 1)
    <3>1. Given' = {a \in 1 .. (i + 1) - 1 : variables[a].link # 0}
      BY <1>1, <2>1 DEF Given, InRun
    <3>2. QED
      BY <1>2, <1>3, <1>4, <2>2, <3>1
  <2>4. RunIs'
    BY <2>1 DEF RunIs
  <2>5. \A a \in i .. (i + 1) - 1 : variables[a].depth = stage /\ a \notin Given
    BY <1>1, <1>2, <1>4, <2>2
  <2>6. i' \in i .. Size + 1 /\ select_par' \in Columns \cup {NoVar} /\ start' \in 0 .. Size
    BY <1>1, <1>2, <2>1
  <2>7. QED
    BY <1>1, <1>2, <2>1, <2>2, <2>3, <2>4, <2>5, <2>6, MultiselectStep
<1>6. CASE i # Size
  <2>1. select_par' = ColOf(Gv) /\ UNCHANGED <<at, outbox, inverse>>
    BY <1>6 DEF VisitFirstSelect
  <2>2. select_par' # NoVar /\ i' <= Size /\ i' = i + 1 /\ Size' = Size
    BY <1>1, <1>2, <1>3, <1>6, <2>1, BatchAssumption DEF Size
  <2>3. i .. (i + 1) - 1 = {i} /\ 1 .. (i + 1) - 1 = (1 .. i - 1) \cup {i} /\ i \in 1 .. (i + 1) - 1
    BY <1>2
  <2>4. Given' = Given
    <3>1. Given' = {a \in 1 .. (i + 1) - 1 : variables[a].link # 0 /\ a \notin i .. (i + 1) - 1}
      BY <1>1, <2>1, <2>2 DEF Given, InRun
    <3>2. \A a \in 1 .. i - 1 : a # i
      BY <1>2
    <3>3. QED
      BY <1>4, <2>3, <3>1, <3>2
  <2>5. RunIs'
    <3>1. \A a \in i .. (i + 1) - 1 : /\ IsSelect(variables[a])' /\ ColOf(variables[a])' = ColOf(Gv)
                                      /\ variables[a].depth = stage
      BY <1>1, <1>2, <2>3 DEF IsSelect, ColOf
    <3>2. QED
      BY <1>1, <2>1, <2>2, <2>3, <3>1 DEF RunIs
  <2>6. HandedIs' /\ SubmittedOnce' /\ OutboxReady'
    BY <1>1, <1>2, <2>1, <2>4 DEF HandedIs, Handed, BatchInv, SubmittedOnce, OutboxReady, InputsDone
  <2>7. /\ i' \in i .. Size + 1 /\ select_par' \in Columns \cup {NoVar} /\ start' \in 0 .. Size
        /\ inverse' \in SUBSET DOMAIN prog /\ outbox' \in Seq(DOMAIN prog) /\ at' = "loop"
    BY <1>1, <1>2, <1>3, <2>1 DEF TypeOK
  <2>8. QED
    BY <1>1, <2>5, <2>6, <2>7, LoopStep
<1>7. QED
  BY <1>5, <1>6

LEMMA SameColumnStep ==
  ASSUME BatchInv, VisitSameColumn
  PROVE  BatchInv'
<1>1. /\ Ready /\ i <= Size /\ i # Size /\ stage = Gv.depth /\ IsSelect(Gv) /\ select_par = ColOf(Gv)
      /\ i' = i + 1 /\ UNCHANGED <<select_par, start, at, outbox, inverse>>
      /\ UNCHANGED <<prog, grouped, variables, addr, stage, value, pending, finished, caller>>
  BY DEF VisitSameColumn, Visit, Advance, graphVars, poolVars
<1>2. /\ Size \in Nat /\ i \in 1 .. Size /\ i \in Nat /\ i + 1 \in i .. Size + 1 /\ Gv = variables[i]
      /\ at = "loop" /\ TypeOK /\ HandedIs /\ GraphInv
  BY <1>1, AtElement
<1>3. Gv \in Entries /\ ColOf(Gv) \in Columns
  <2>1. Gv \in Entries
    BY <1>2, GraphTypes
  <2>2. prog \in Programs /\ addr \in [Columns -> Int]
    BY <1>2, AddrType DEF GraphInv
  <2>3. QED
    BY <1>1, <2>1, <2>2, SelectColumn
<1>4. select_par # NoVar /\ i' <= Size /\ Size' = Size
  BY <1>1, <1>2, <1>3, BatchAssumption DEF Size
<1>5. /\ start \in 1 .. i - 1
      /\ \A a \in start .. i - 1 : /\ IsSelect(variables[a]) /\ ColOf(variables[a]) = select_par
                                   /\ variables[a].depth = stage
  BY <1>1, <1>4, RunFacts
<1>6. /\ start \in 1 .. (i + 1) - 1
      /\ \A a \in start .. (i + 1) - 1 : a \in start .. i - 1 \/ a = i
      /\ \A a \in 1 .. (i + 1) - 1 : a \in 1 .. i - 1 \/ a = i
      /\ \A a \in 1 .. i - 1 : a \in 1 .. (i + 1) - 1 /\ a # i
      /\ \A a \in start .. i - 1 : a \in start .. (i + 1) - 1
      /\ i \in start .. (i + 1) - 1
  BY <1>2, <1>5
<1>7. Given' = Given
  <2>1. Given' = {a \in 1 .. (i + 1) - 1 : variables[a].link # 0 /\ a \notin start .. (i + 1) - 1}
    BY <1>1, <1>4 DEF Given, InRun
  <2>2. Given = {a \in 1 .. i - 1 : variables[a].link # 0 /\ a \notin start .. i - 1}
    BY <1>1, <1>4 DEF Given, InRun
  <2>3. QED
    BY <1>6, <2>1, <2>2
<1>8. RunIs'
  <2>1. ASSUME NEW a \in start .. (i + 1) - 1
        PROVE  /\ IsSelect(variables[a]) /\ ColOf(variables[a]) = select_par
               /\ variables[a].depth = stage
    BY <1>1, <1>2, <1>5, <1>6
  <2>2. \A a \in start .. (i + 1) - 1 : /\ IsSelect(variables[a])' /\ ColOf(variables[a])' = select_par
                                        /\ variables[a].depth = stage
    BY <1>1, <2>1 DEF IsSelect, ColOf
  <2>3. QED
    BY <1>1, <1>6, <2>2 DEF RunIs
<1>9. HandedIs' /\ SubmittedOnce' /\ OutboxReady'
  BY <1>1, <1>2, <1>7 DEF HandedIs, Handed, BatchInv, SubmittedOnce, OutboxReady, InputsDone
<1>10. /\ i' \in i .. Size + 1 /\ select_par' \in Columns \cup {NoVar} /\ start' \in 0 .. Size
       /\ inverse' \in SUBSET DOMAIN prog /\ outbox' \in Seq(DOMAIN prog) /\ at' = "loop"
  BY <1>1, <1>2 DEF TypeOK
<1>11. QED
  BY <1>1, <1>8, <1>9, <1>10, LoopStep

LEMMA OtherColumnStep ==
  ASSUME BatchInv, VisitOtherColumn
  PROVE  BatchInv'
<1>1. /\ Ready /\ i <= Size /\ stage = Gv.depth /\ IsSelect(Gv) /\ select_par # NoVar
      /\ Multiselect(start, IF i = Size THEN i + 1 ELSE i)
      /\ i' = i + 1 /\ select_par' = ColOf(Gv) /\ start' = i
      /\ UNCHANGED <<prog, grouped, variables, addr, stage, value, pending, finished, caller>>
  BY DEF VisitOtherColumn, Visit, Advance, graphVars, poolVars
<1>2. /\ Size \in Nat /\ i \in 1 .. Size /\ i \in Nat /\ i + 1 \in i .. Size + 1 /\ Gv = variables[i]
      /\ at = "loop" /\ TypeOK /\ HandedIs /\ GraphInv
  BY <1>1, AtElement
<1>3. Gv \in Entries /\ ColOf(Gv) \in Columns /\ Gv.link # 0
  <2>1. Gv \in Entries
    BY <1>2, GraphTypes
  <2>2. prog \in Programs /\ addr \in [Columns -> Int]
    BY <1>2, AddrType DEF GraphInv
  <2>3. QED
    BY <1>1, <2>1, <2>2, SelectColumn DEF IsSelect
<1>4. /\ start \in 1 .. i - 1 /\ start \in 1 .. Size /\ i \in start + 1 .. Size + 1
      /\ i + 1 \in start + 1 .. Size + 1
      /\ \A a \in start .. i - 1 : variables[a].link # 0 /\ variables[a].depth = stage /\ a \notin Given
  BY <1>1, RunFacts
<1>5. i' \in i .. Size + 1 /\ select_par' \in Columns \cup {NoVar} /\ start' \in 0 .. Size
      /\ select_par' # NoVar /\ Size' = Size
  BY <1>1, <1>2, <1>3, BatchAssumption DEF Size
<1>6. /\ \A a \in start .. (i + 1) - 1 : a \in start .. i - 1 \/ a = i
      /\ \A a \in 1 .. (i + 1) - 1 : a \in 1 .. i - 1 \/ a = i
      /\ \A a \in 1 .. i - 1 : a \in 1 .. (i + 1) - 1 /\ a # i
      /\ \A a \in start .. i - 1 : a \in start .. (i + 1) - 1 /\ a \in 1 .. i - 1
      /\ i \in start .. (i + 1) - 1 /\ i \in 1 .. (i + 1) - 1 /\ i .. (i + 1) - 1 = {i}
  BY <1>2, <1>4
<1>7. Given = {a \in 1 .. i - 1 : variables[a].link # 0 /\ a \notin start .. i - 1} /\ i \notin Given
  <2>1. Given = {a \in 1 .. i - 1 : variables[a].link # 0 /\ a \notin start .. i - 1}
    BY <1>1 DEF Given, InRun
  <2>2. QED
    BY <1>6, <2>1
<1>8. CASE i = Size
  <2>1. Multiselect(start, i + 1)
    BY <1>1, <1>8
  <2>2. i' = Size + 1 /\ ~(i' <= Size')
    BY <1>1, <1>2, <1>5, <1>8
  <2>3. Given' = Given \cup (start .. (i + 1) - 1)
    <3>1. Given' = {a \in 1 .. (i + 1) - 1 : variables[a].link # 0}
      BY <1>1, <2>2 DEF Given, InRun
    <3>2. QED
      BY <1>2, <1>3, <1>4, <1>6, <1>7, <3>1
  <2>4. RunIs'
    BY <2>2 DEF RunIs
  <2>5. \A a \in start .. (i + 1) - 1 : variables[a].depth = stage /\ a \notin Given
    BY <1>1, <1>2, <1>4, <1>6, <1>7
  <2>6. QED
    BY <1>1, <1>4, <1>5, <2>1, <2>3, <2>4, <2>5, MultiselectStep
<1>9. CASE i # Size
  <2>1. Multiselect(start, i)
    BY <1>1, <1>9
  <2>2. i' <= Size'
    BY <1>1, <1>2, <1>5, <1>9
  <2>3. Given' = Given \cup (start .. i - 1)
    <3>1. Given' = {a \in 1 .. (i + 1) - 1 : variables[a].link # 0 /\ a \notin i .. (i + 1) - 1}
      BY <1>1, <1>5, <2>2 DEF Given, InRun
    <3>2. QED
      BY <1>4, <1>6, <1>7, <3>1
  <2>4. RunIs'
    <3>1. \A a \in i .. (i + 1) - 1 : /\ IsSelect(variables[a])' /\ ColOf(variables[a])' = ColOf(Gv)
                                      /\ variables[a].depth = stage
      BY <1>1, <1>2, <1>6 DEF IsSelect, ColOf
    <3>2. QED
      BY <1>1, <1>6, <3>1 DEF RunIs
  <2>5. \A a \in start .. i - 1 : variables[a].depth = stage /\ a \notin Given
    BY <1>4
  <2>6. QED
    BY <1>1, <1>4, <1>5, <2>1, <2>3, <2>4, <2>5, MultiselectStep
<1>10. QED
  BY <1>8, <1>9

(* An element without a link, and a link that is executed by itself. *)
LEMMA SingleStep ==
  ASSUME BatchInv, VisitInput \/ VisitLink
  PROVE  BatchInv'
<1>1. /\ Ready /\ i <= Size /\ stage = Gv.depth /\ i' = i + 1
      /\ UNCHANGED <<select_par, at, inverse>>
      /\ UNCHANGED <<prog, grouped, variables, addr, stage, value, pending, finished, caller>>
      /\ \/ Gv.link = 0 /\ start' = start /\ outbox' = outbox
         \/ Gv.link # 0 /\ start' = 0 /\ outbox' = <<Gv.link>> /\ select_par = NoVar
  BY DEF VisitInput, VisitLink, Visit, Advance, graphVars, poolVars
<1>2. /\ Size \in Nat /\ i \in 1 .. Size /\ i \in Nat /\ i + 1 \in i .. Size + 1 /\ Gv = variables[i]
      /\ at = "loop" /\ at # "collect" /\ TypeOK /\ HandedIs /\ GraphInv /\ RunIs
  BY <1>1, AtElement
<1>3. select_par = NoVar
  <2>1. SUFFICES ASSUME Gv.link = 0, select_par # NoVar PROVE FALSE
    BY <1>1
  <2>2. stage = 0
    BY <1>1, <1>2, <2>1, GraphTypes
  <2>3. /\ start \in start .. i - 1 /\ start \in 1 .. Size
        /\ variables[start].link # 0 /\ variables[start].depth = stage
    <3>1. start \in 1 .. i - 1 /\ start \in 1 .. Size
      BY <1>1, <2>1, RunFacts
    <3>2. start \in start .. i - 1
      BY <1>2, <3>1
    <3>3. QED
      BY <1>1, <2>1, <3>1, <3>2, RunFacts
  <2>4. QED
    BY <1>2, <2>2, <2>3, GraphTypes
<1>4. /\ \A a \in 1 .. (i + 1) - 1 : a \in 1 .. i - 1 \/ a = i
      /\ \A a \in 1 .. i - 1 : a \in 1 .. (i + 1) - 1 /\ a # i
      /\ i \in 1 .. (i + 1) - 1 /\ i .. (i + 1) - 1 = {i} /\ i + 1 \in i + 1 .. Size + 1
  BY <1>2
<1>5. /\ Given = {a \in 1 .. i - 1 : variables[a].link # 0} /\ i \notin Given
      /\ Given' = {a \in 1 .. (i + 1) - 1 : variables[a].link # 0}
  BY <1>1, <1>3, <1>4 DEF Given, InRun
<1>6. RunIs'
  BY <1>1, <1>3 DEF RunIs
<1>7. /\ i' \in i .. Size + 1 /\ select_par' \in Columns \cup {NoVar} /\ start' \in 0 .. Size
      /\ inverse' \in SUBSET DOMAIN prog /\ at' = "loop"
  BY <1>1, <1>2 DEF TypeOK
<1>8. outbox' \in Seq(DOMAIN prog) /\ SubmittedOnce' /\ OutboxReady' /\ HandedIs'
  <2>1. CASE Gv.link = 0 /\ outbox' = outbox
    <3>1. Given' = Given
      BY <1>2, <1>4, <1>5, <2>1
    <3>2. HandedIs' /\ SubmittedOnce' /\ OutboxReady'
      BY <1>1, <1>2, <2>1, <3>1 DEF HandedIs, Handed, BatchInv, SubmittedOnce, OutboxReady, InputsDone
    <3>3. QED
      BY <1>2, <2>1, <3>2 DEF TypeOK
  <2>2. CASE Gv.link # 0 /\ outbox' = <<Gv.link>>
    <3>1. Given' = Given \cup (i .. (i + 1) - 1)
      BY <1>2, <1>4, <1>5, <2>2
    <3>2. outbox' = Links(i, i + 1)
      <4>1. (i + 1) - i = 1 /\ i + 1 - 1 = i
        BY <1>2
      <4>2. Links(i, i + 1) = [k \in 1 .. 1 |-> variables[i + k - 1].link]
        BY <4>1 DEF Links
      <4>3. [k \in 1 .. 1 |-> variables[i + k - 1].link] = <<variables[i].link>>
        BY <4>1
      <4>4. QED
        BY <1>2, <2>2, <4>2, <4>3
    <3>3. \A a \in i .. (i + 1) - 1 :
            variables[a].link # 0 /\ variables[a].depth = stage /\ a \notin Given
      BY <1>1, <1>2, <1>4, <1>5, <2>2
    <3>4. QED
      BY <1>1, <1>2, <1>4, <3>1, <3>2, <3>3, HandOver
  <2>3. QED
    BY <1>1, <2>1, <2>2
<1>9. QED
  BY <1>1, <1>6, <1>7, <1>8, LoopStep

-----------------------------------------------------------------------------
(* The waits. *)
LEMMA BeginWaits ==
  ASSUME BatchInv, StageWait \/ FinalWait
  PROVE  BatchInv'
<1>1. /\ Ready /\ at = "loop" /\ at # "collect" /\ outbox = <<>> /\ caller = "idle" /\ caller' = "waiting"
      /\ UNCHANGED <<prog, grouped, variables, addr, i, select_par, outbox, inverse, value>>
      /\ UNCHANGED <<pending, finished>>
      /\ \/ at' = "loop" /\ i <= Size /\ select_par = NoVar /\ stage' = Gv.depth /\ start' = 0
         \/ at' = "end" /\ i = Size + 1 /\ stage' = stage /\ start' = start
  BY DEF StageWait, FinalWait, Ready, graphVars, Pool!BeginWait
<1>2. /\ GraphInv /\ TypeOK /\ HandedIs /\ RunIs /\ Size \in Nat /\ Size' = Size
      /\ InputsFirst /\ SubmittedOnce /\ OutboxReady /\ Ahead
  BY <1>1, GraphTypes DEF BatchInv, LoopInv, Size
<1>3. i \in 1 .. Size + 1
  BY <1>1, <1>2 DEF TypeOK
<1>4. GraphInv'
  BY <1>1, <1>2, GraphKept
<1>5. stage' \in 0 .. MaxLen
  <2>1. i <= Size => Gv.depth \in 0 .. MaxLen
    BY <1>1, <1>2, <1>3, GraphTypes DEF Gv
  <2>2. QED
    BY <1>1, <1>2, <2>1 DEF TypeOK
<1>6. TypeOK'
  <2>1. value' \in [Handles' -> {"unset", "right", "complement", "wrong"}]
    BY <1>1, <1>2, ValueKept
  <2>2. i' \in 1 .. (IF at' = "collect" THEN Len(prog') ELSE Size') + 1
    BY <1>1, <1>2, <1>3
  <2>3. start' \in 0 .. Size'
    BY <1>1, <1>2 DEF TypeOK
  <2>4. QED
    BY <1>1, <1>2, <1>5, <2>1, <2>2, <2>3 DEF TypeOK
<1>7. InputsFirst' /\ SubmittedOnce' /\ OutboxReady' /\ Pristine'
  BY <1>1, <1>2 DEF InputsFirst, SubmittedOnce, OutboxReady, InputsDone, Pristine
<1>8. HandedIs'
  <2>1. Given' = Given
    BY <1>1, <1>2 DEF Given, InRun
  <2>2. QED
    BY <1>1, <1>2, <2>1 DEF HandedIs, Handed
<1>9. RunIs'
  <2>1. CASE select_par = NoVar
    BY <1>1, <2>1 DEF RunIs
  <2>2. CASE i = Size + 1
    BY <1>1, <1>2, <2>2 DEF RunIs
  <2>3. QED
    BY <1>1, <2>1, <2>2
<1>10. Ahead'
  <2>1. CASE i <= Size /\ stage' = Gv.depth
    <3>1. i \in 1 .. Size /\ \A a \in i .. Size : a \in 1 .. Size /\ i <= a
      BY <1>2, <1>3, <2>1
    <3>2. \A a \in i .. Size : variables[i].depth <= variables[a].depth
      BY <1>1, <1>2, <3>1, GraphTypes
    <3>3. QED
      BY <1>1, <1>2, <2>1, <3>2 DEF Ahead, Gv
  <2>2. CASE stage' = stage
    BY <1>1, <1>2, <2>2 DEF Ahead
  <2>3. QED
    BY <1>1, <2>1, <2>2
<1>11. LowerFinished' /\ CallerFits'
  BY <1>1, <1>2 DEF LowerFinished, CallerFits
<1>12. QED
  BY <1>4, <1>6, <1>7, <1>8, <1>9, <1>10, <1>11 DEF BatchInv, LoopInv

LEMMA WaitEnds ==
  ASSUME BatchInv, WaitReturns
  PROVE  BatchInv'
<1>1. /\ caller = "waiting" /\ caller' = "idle" /\ pending = {}
      /\ at' = IF at = "end" THEN "done" ELSE at
      /\ UNCHANGED <<prog, grouped, variables, addr, i, stage, select_par, start, outbox, inverse, value>>
      /\ UNCHANGED <<pending, finished>>
  BY DEF WaitReturns, graphVars, Pool!EndWait
<1>2. /\ at \in {"loop", "end", "aborted"} /\ at' \in {"loop", "done", "aborted"}
      /\ at # "collect" /\ at' # "collect" /\ at # "done"
      /\ (at = "end" <=> at' = "done") /\ (at = "loop" <=> at' = "loop")
      /\ at # "aborted" => outbox = <<>>
  BY <1>1 DEF BatchInv, TypeOK, Pristine, LoopInv, CallerFits
<1>3. /\ GraphInv /\ TypeOK /\ Size \in Nat /\ Size' = Size
      /\ InputsFirst /\ SubmittedOnce /\ OutboxReady
  BY <1>1, <1>2, GraphTypes DEF BatchInv, Size
<1>4. GraphInv'
  BY <1>1, <1>2, <1>3, GraphKept
<1>5. TypeOK'
  <2>1. value' \in [Handles' -> {"unset", "right", "complement", "wrong"}]
    BY <1>1, <1>3, ValueKept
  <2>2. i' \in 1 .. (IF at' = "collect" THEN Len(prog') ELSE Size') + 1
    BY <1>1, <1>2, <1>3 DEF TypeOK
  <2>3. QED
    BY <1>1, <1>2, <1>3, <2>1, <2>2 DEF TypeOK
<1>6. InputsFirst' /\ SubmittedOnce' /\ OutboxReady' /\ Pristine'
  BY <1>1, <1>2, <1>3 DEF InputsFirst, SubmittedOnce, OutboxReady, InputsDone, Pristine
<1>7. LoopInv'
  <2>1. SUFFICES ASSUME at \in {"loop", "end"} PROVE LoopInv'
    BY <1>2 DEF LoopInv
  <2>2. HandedIs /\ RunIs /\ Ahead /\ CallerFits /\ outbox = <<>>
    BY <1>2, <2>1 DEF BatchInv, LoopInv
  <2>3. HandedIs'
    <3>1. Given' = Given
      BY <1>1, <1>3 DEF Given, InRun
    <3>2. QED
      BY <1>1, <2>2, <3>1 DEF HandedIs, Handed
  <2>4. RunIs'
    BY <1>1, <1>3, <2>2 DEF RunIs, IsSelect, ColOf
  <2>5. Ahead' /\ CallerFits'
    BY <1>1, <1>2, <1>3, <2>2 DEF Ahead, CallerFits
  <2>6. LowerFinished'
    <3>1. SUFFICES ASSUME NEW a \in 1 .. Size, variables[a].link # 0, variables[a].depth < stage
                   PROVE  variables[a].link \in finished
      BY <1>1, <1>3 DEF LowerFinished
    <3>2. finished = {variables[b].link : b \in Given}
      <4>1. ToSet(<<>>) = {}
        BY DEF ToSet
      <4>2. QED
        BY <1>1, <2>2, <4>1 DEF HandedIs, Handed
    <3>3. /\ variables[a].depth \in Nat /\ stage \in Nat
          /\ \A b \in 1 .. Size : variables[b].depth \in Nat
      BY <1>2, <1>3, GraphTypes DEF TypeOK, MaxLen
    <3>4. i \in 1 .. Size + 1
      BY <1>2, <1>3 DEF TypeOK
    <3>5. a \in 1 .. i - 1
      <4>1. a \notin i .. Size
        BY <2>2, <3>1, <3>3 DEF Ahead
      <4>2. QED
        BY <1>3, <3>4, <4>1
    <3>6. ~InRun(a)
      <4>1. SUFFICES ASSUME InRun(a) PROVE FALSE
        OBVIOUS
      <4>2. variables[a].depth = stage
        BY <2>2, <4>1 DEF InRun, RunIs
      <4>3. QED
        BY <3>1, <3>3, <4>2
    <3>7. QED
      BY <3>1, <3>2, <3>5, <3>6 DEF Given
  <2>7. QED
    BY <2>3, <2>4, <2>5, <2>6 DEF LoopInv
<1>8. QED
  BY <1>4, <1>5, <1>6, <1>7 DEF BatchInv

-----------------------------------------------------------------------------
(* The pool. *)
LEMMA HeadAndRest ==
  ASSUME NEW S, NEW s \in Seq(S), s # <<>>, IsInjective(s)
  PROVE  /\ Head(s) \in S /\ Tail(s) \in Seq(S) /\ ToSet(s) = {Head(s)} \cup ToSet(Tail(s))
         /\ Head(s) \notin ToSet(Tail(s)) /\ IsInjective(Tail(s))
<1>1. PICK n \in Nat : n = Len(s) /\ DOMAIN s = 1 .. n
  BY LenProperties
<1>2. n # 0
  BY <1>1, EmptySeq
<1>3. PICK r : r = Tail(s)
  OBVIOUS
<1>4. /\ Head(s) \in S /\ r \in Seq(S) /\ Len(r) = n - 1
      /\ \A k \in 1 .. Len(r) : r[k] = s[k + 1]
  BY <1>1, <1>3, HeadTailProperties
<1>5. DOMAIN r = 1 .. n - 1 /\ \A k \in 1 .. n - 1 : r[k] = s[k + 1] /\ k + 1 \in 1 .. n
  <2>1. DOMAIN r = 1 .. n - 1 /\ \A k \in 1 .. n - 1 : r[k] = s[k + 1]
    BY <1>4, LenProperties
  <2>2. \A k \in 1 .. n - 1 : k + 1 \in 1 .. n
    BY <1>1
  <2>3. QED
    BY <2>1, <2>2
<1>6. Head(s) = s[1] /\ 1 \in 1 .. n
  BY <1>1, <1>2
<1>7. \A k \in 1 .. n : k = 1 \/ (k - 1 \in 1 .. n - 1 /\ k = (k - 1) + 1)
  BY <1>1
<1>8. /\ ToSet(s) = {s[k] : k \in 1 .. n}
      /\ ToSet(r) = {r[k] : k \in 1 .. n - 1}
  BY <1>1, <1>5 DEF ToSet
<1>9. ToSet(s) = {Head(s)} \cup ToSet(r)
  <2>1. ASSUME NEW x \in ToSet(s) PROVE x \in {Head(s)} \cup ToSet(r)
    <3>1. PICK k \in 1 .. n : x = s[k]
      BY <1>8
    <3>2. CASE k = 1
      BY <1>6, <3>1, <3>2
    <3>3. CASE k # 1
      <4>1. PICK m \in 1 .. n - 1 : k = m + 1
        BY <1>7, <3>3
      <4>2. x = r[m]
        BY <1>5, <3>1, <4>1
      <4>3. QED
        BY <1>8, <4>2
    <3>4. QED
      BY <3>2, <3>3
  <2>2. ASSUME NEW x \in ToSet(r) PROVE x \in ToSet(s)
    BY <1>5, <1>8
  <2>3. Head(s) \in ToSet(s)
    BY <1>6, <1>8
  <2>4. QED
    BY <2>1, <2>2, <2>3
<1>10. \A k, m \in 1 .. n : s[k] = s[m] => k = m
  BY <1>1 DEF IsInjective
<1>11. Head(s) \notin ToSet(r)
  <2>1. \A k \in 1 .. n - 1 : k + 1 # 1
    BY <1>1
  <2>2. QED
    BY <1>5, <1>6, <1>8, <1>10, <2>1
<1>12. IsInjective(r)
  <2>1. ASSUME NEW k \in 1 .. n - 1, NEW m \in 1 .. n - 1, r[k] = r[m] PROVE k = m
    <3>1. k + 1 = m + 1
      BY <1>5, <1>10, <2>1
    <3>2. QED
      BY <1>1, <3>1
  <2>2. QED
    BY <1>5, <2>1 DEF IsInjective
<1>13. QED
  BY <1>3, <1>4, <1>9, <1>11, <1>12

LEMMA AddTaskStep ==
  ASSUME BatchInv, AddTask
  PROVE  BatchInv'
<1>1. /\ at # "aborted" /\ outbox # <<>> /\ caller = "idle" /\ outbox' = Tail(outbox)
      /\ pending' = pending \cup {Head(outbox)} /\ UNCHANGED <<finished, caller>>
      /\ UNCHANGED <<prog, grouped, variables, addr, i, stage, select_par, start, at, inverse, value>>
  BY DEF AddTask, locals, graphVars, Pool!Submit
<1>2. at = "loop" /\ HandedIs /\ RunIs /\ Ahead /\ LowerFinished
  BY <1>1 DEF BatchInv, TypeOK, Pristine, LoopInv, CallerFits
<1>3. /\ GraphInv /\ TypeOK /\ Size \in Nat /\ Size' = Size /\ at # "collect" /\ at' # "collect"
      /\ InputsFirst /\ SubmittedOnce /\ OutboxReady
  BY <1>1, <1>2, GraphTypes DEF BatchInv, Size
<1>4. PICK t : t = Head(outbox)
  OBVIOUS
<1>5. /\ t \in DOMAIN prog /\ outbox' \in Seq(DOMAIN prog)
      /\ ToSet(outbox) = {t} \cup ToSet(outbox') /\ t \notin ToSet(outbox') /\ IsInjective(outbox')
  <2>1. outbox \in Seq(DOMAIN prog) /\ IsInjective(outbox)
    BY <1>3 DEF TypeOK, SubmittedOnce
  <2>2. QED
    BY <1>1, <1>4, <2>1, HeadAndRest
<1>6. GraphInv'
  BY <1>1, <1>3, GraphKept
<1>7. TypeOK'
  <2>1. value' \in [Handles' -> {"unset", "right", "complement", "wrong"}]
    BY <1>1, <1>3, ValueKept
  <2>2. i' \in 1 .. (IF at' = "collect" THEN Len(prog') ELSE Size') + 1
    BY <1>1, <1>3 DEF TypeOK
  <2>3. pending' \in SUBSET DOMAIN prog'
    BY <1>1, <1>3, <1>4, <1>5 DEF TypeOK
  <2>4. QED
    BY <1>1, <1>3, <1>5, <2>1, <2>2, <2>3 DEF TypeOK
<1>8. InputsFirst'
  <2>1. InputsDone(t)
    BY <1>3, <1>5 DEF OutboxReady
  <2>2. QED
    BY <1>1, <1>3, <1>4, <2>1 DEF InputsFirst, InputsDone
<1>9. SubmittedOnce'
  BY <1>1, <1>3, <1>4, <1>5 DEF SubmittedOnce
<1>10. OutboxReady' /\ Pristine'
  BY <1>1, <1>3, <1>5 DEF OutboxReady, InputsDone, Pristine
<1>11. HandedIs'
  <2>1. Given' = Given
    BY <1>1, <1>3 DEF Given, InRun
  <2>2. Handed' = Handed
    BY <1>1, <1>4, <1>5 DEF Handed
  <2>3. QED
    BY <1>1, <1>2, <2>1, <2>2 DEF HandedIs
<1>12. RunIs'
  BY <1>1, <1>2, <1>3 DEF RunIs, IsSelect, ColOf
<1>13. Ahead' /\ LowerFinished' /\ CallerFits'
  BY <1>1, <1>2, <1>3 DEF Ahead, LowerFinished, CallerFits
<1>14. QED
  BY <1>6, <1>7, <1>8, <1>9, <1>10, <1>11, <1>12, <1>13 DEF BatchInv, LoopInv

LEMMA ExecuteStep ==
  ASSUME BatchInv, NEW t \in 1 .. MaxLen, Execute(t)
  PROVE  BatchInv'
<1>1. /\ at # "aborted" /\ t \in pending /\ caller' = caller
      /\ pending' = pending \ {t} /\ finished' = finished \cup {t}
      /\ value' = [value EXCEPT ![prog[t].out] = Result(t)]
      /\ UNCHANGED <<prog, grouped, variables, addr, i, stage, select_par, start, at, outbox, inverse>>
  BY DEF Execute, locals, graphVars, Pool!Perform
<1>2. at \in {"loop", "end"} /\ HandedIs /\ RunIs /\ Ahead /\ LowerFinished /\ CallerFits
  BY <1>1 DEF BatchInv, TypeOK, Pristine, LoopInv, CallerFits
<1>3. /\ GraphInv /\ TypeOK /\ Size \in Nat /\ Size' = Size /\ at # "collect" /\ at' # "collect"
      /\ InputsFirst /\ SubmittedOnce /\ OutboxReady
  BY <1>1, <1>2, GraphTypes DEF BatchInv, Size
<1>4. GraphInv'
  BY <1>1, <1>3, GraphKept
<1>5. TypeOK'
  <2>1. value' \in [Handles' -> {"unset", "right", "complement", "wrong"}]
    <3>1. Result(t) \in {"unset", "right", "complement", "wrong"}
      BY DEF Result
    <3>2. value \in [Handles -> {"unset", "right", "complement", "wrong"}] /\ Handles' = Handles
      BY <1>1, <1>3 DEF TypeOK, Handles, Created
    <3>3. QED
      BY <1>1, <3>1, <3>2
  <2>2. i' \in 1 .. (IF at' = "collect" THEN Len(prog') ELSE Size') + 1
    BY <1>1, <1>3 DEF TypeOK
  <2>3. pending' \in SUBSET DOMAIN prog' /\ finished' \in SUBSET DOMAIN prog'
    BY <1>1, <1>3 DEF TypeOK
  <2>4. QED
    BY <1>1, <1>3, <2>1, <2>2, <2>3 DEF TypeOK
<1>6. InputsFirst' /\ SubmittedOnce' /\ OutboxReady' /\ Pristine'
  BY <1>1, <1>3 DEF InputsFirst, SubmittedOnce, OutboxReady, InputsDone, Pristine
<1>7. HandedIs'
  <2>1. Given' = Given
    BY <1>1, <1>3 DEF Given, InRun
  <2>2. Handed' = Handed
    BY <1>1 DEF Handed
  <2>3. QED
    BY <1>1, <1>2, <2>1, <2>2 DEF HandedIs
<1>8. RunIs'
  BY <1>1, <1>2, <1>3 DEF RunIs, IsSelect, ColOf
<1>9. Ahead' /\ LowerFinished' /\ CallerFits'
  BY <1>1, <1>2, <1>3 DEF Ahead, LowerFinished, CallerFits
<1>10. QED
  BY <1>4, <1>5, <1>6, <1>7, <1>8, <1>9 DEF BatchInv, LoopInv

(* Where nothing happens. *)
LEMMA Stutters ==
  ASSUME BatchInv, UNCHANGED vars
  PROVE  BatchInv'
<1>1. /\ UNCHANGED <<prog, grouped, variables, addr, i, stage, select_par, start, at>>
      /\ UNCHANGED <<outbox, inverse, value, pending, finished, caller>>
  BY DEF vars, graphVars, locals, poolVars
<1>2. GraphInv'
  <2>1. PICK vs : vs = variables
    OBVIOUS
  <2>2. at = "collect" => GraphOf(variables, i - 1)'
    BY <1>1, <2>1, GraphNext DEF BatchInv, GraphInv
  <2>3. at # "collect" => GraphOf(variables, Len(prog))' /\ Ascending(variables)'
    BY <1>1, <2>1, GraphNext DEF BatchInv, GraphInv, Ascending
  <2>4. QED
    BY <1>1, <2>2, <2>3 DEF BatchInv, GraphInv
<1>3. TypeOK'
  <2>1. value' \in [Handles' -> {"unset", "right", "complement", "wrong"}]
    BY <1>1, ValueKept DEF BatchInv
  <2>2. QED
    BY <1>1, <2>1 DEF BatchInv, TypeOK, Size
<1>4. InputsFirst' /\ SubmittedOnce' /\ OutboxReady' /\ Pristine'
  BY <1>1 DEF BatchInv, InputsFirst, SubmittedOnce, OutboxReady, InputsDone, Pristine
<1>5. LoopInv'
  <2>1. SUFFICES ASSUME at \in {"loop", "end", "done"} PROVE LoopInv'
    BY <1>1 DEF LoopInv
  <2>2. HandedIs /\ RunIs /\ Ahead /\ LowerFinished /\ CallerFits
    BY <2>1 DEF BatchInv, LoopInv
  <2>3. HandedIs'
    BY <1>1, <2>2 DEF HandedIs, Handed, Given, InRun, Size
  <2>4. RunIs'
    BY <1>1, <2>2 DEF RunIs, IsSelect, ColOf, Size
  <2>5. Ahead' /\ LowerFinished' /\ CallerFits'
    BY <1>1, <2>2 DEF Ahead, LowerFinished, CallerFits, Size
  <2>6. QED
    BY <2>3, <2>4, <2>5 DEF LoopInv
<1>6. QED
  BY <1>2, <1>3, <1>4, <1>5 DEF BatchInv

LEMMA BatchStep == BatchInv /\ [Next]_vars => BatchInv'
<1> SUFFICES ASSUME BatchInv, [Next]_vars PROVE BatchInv'
  OBVIOUS
<1>1. CASE AddOperator \/ BatchExecute
  BY <1>1, CollectSteps
<1>2. CASE EndStage \/ FlushBeforeLink
  BY <1>2, RunEnds
<1>3. CASE StageWait \/ FinalWait
  BY <1>3, BeginWaits
<1>4. CASE WaitReturns
  BY <1>4, WaitEnds
<1>5. CASE VisitInput \/ VisitLink
  BY <1>5, SingleStep
<1>6. CASE VisitFirstSelect
  BY <1>6, FirstSelectStep
<1>7. CASE VisitSameColumn
  BY <1>7, SameColumnStep
<1>8. CASE VisitOtherColumn
  BY <1>8, OtherColumnStep
<1>9. CASE AddTask
  BY <1>9, AddTaskStep
<1>10. CASE \E t \in 1 .. MaxLen : Execute(t)
  BY <1>10, ExecuteStep
<1>11. CASE UNCHANGED vars
  BY <1>11, Stutters
<1>12. QED
  BY <1>1, <1>2, <1>3, <1>4, <1>5, <1>6, <1>7, <1>8, <1>9, <1>10, <1>11 DEF Next, ServerStep

(***************************************************************************)
(* batch_execute: whatever the operators of the batch, the heuristic and   *)
(* the order of the columns, no link is handed to the pool twice, and none *)
(* before the links that compute its inputs have been executed.            *)
(***************************************************************************)
THEOREM LinksInOrder == Spec => []StagesInOrder
<1>1. Init => BatchInv
  BY InitHolds
<1>2. BatchInv => StagesInOrder
  BY DEF BatchInv, StagesInOrder
<1>3. QED
  BY <1>1, <1>2, BatchStep, PTL DEF Spec

-----------------------------------------------------------------------------
(* The results. *)
LEMMA InverseSteps ==
  ASSUME TypeOK, [Next]_vars
  PROVE  /\ inverse \subseteq inverse' /\ prog' = prog
         /\ \/ UNCHANGED <<value, finished>>
            \/ \E t \in 1 .. MaxLen : Execute(t)
         /\ Estimates \subseteq {FALSE} => inverse' = inverse
<1> DEFINE Same == inverse' = inverse /\ prog' = prog /\ UNCHANGED <<value, finished>>
<1>1. ASSUME NEW from, NEW to, Multiselect(from, to)
      PROVE  inverse \subseteq inverse' /\ (Estimates \subseteq {FALSE} => inverse' = inverse)
  <2>1. CASE UNCHANGED inverse
    BY <2>1
  <2>2. CASE \E flags \in [from .. to - 1 -> Estimates] :
               inverse' = inverse \cup {variables[k].link : k \in {m \in from .. to - 1 : flags[m]}}
    <3>1. PICK flags \in [from .. to - 1 -> Estimates] :
               inverse' = inverse \cup {variables[k].link : k \in {m \in from .. to - 1 : flags[m]}}
      BY <2>2
    <3>2. Estimates \subseteq {FALSE} => {m \in from .. to - 1 : flags[m]} = {}
      OBVIOUS
    <3>3. QED
      BY <3>1, <3>2
  <2>3. QED
    BY <1>1, <2>1, <2>2 DEF Multiselect
<1>2. CASE EndStage \/ FlushBeforeLink \/ VisitOtherColumn
  <2>1. prog' = prog /\ UNCHANGED <<value, finished>> /\ \E from, to : Multiselect(from, to)
    BY <1>2 DEF EndStage, FlushBeforeLink, VisitOtherColumn, Advance, graphVars, poolVars
  <2>2. QED
    BY <1>1, <2>1
<1>3. CASE VisitFirstSelect
  <2>1. /\ prog' = prog /\ UNCHANGED <<value, finished>>
        /\ inverse' = inverse \/ Multiselect(i, i + 1)
    BY <1>3 DEF VisitFirstSelect, Advance, graphVars, poolVars
  <2>2. QED
    BY <1>1, <2>1
<1>4. CASE AddOperator \/ BatchExecute \/ StageWait \/ FinalWait \/ WaitReturns
  <2>1. Same
    BY <1>4 DEF AddOperator, BatchExecute, StageWait, FinalWait, WaitReturns, graphVars, poolVars,
                Pool!BeginWait, Pool!EndWait
  <2>2. QED
    BY <2>1
<1>5. CASE VisitInput \/ VisitSameColumn \/ VisitLink \/ AddTask
  <2>1. Same
    BY <1>5 DEF VisitInput, VisitSameColumn, VisitLink, AddTask, Advance, graphVars, poolVars, Pool!Submit
  <2>2. QED
    BY <2>1
<1>6. CASE UNCHANGED vars
  BY <1>6 DEF vars, graphVars, poolVars
<1>7. CASE \E t \in 1 .. MaxLen : Execute(t)
  BY <1>7 DEF Execute, graphVars
<1>8. QED
  BY <1>2, <1>3, <1>4, <1>5, <1>6, <1>7 DEF Next, ServerStep

LEMMA ValuesStep == BatchInv /\ ValuesRight /\ [Next]_vars => ValuesRight'
<1> SUFFICES ASSUME BatchInv, ValuesRight, [Next]_vars, inverse' = {}
             PROVE  /\ \A h \in Handles \ Created : value'[h] = "right"
                    /\ \A k \in finished' : value'[prog[k].out] = "right"
  <2>1. prog' = prog => Handles' = Handles /\ Created' = Created
    BY DEF Handles, Created
  <2>2. BatchInv /\ [Next]_vars => prog' = prog
    BY InverseSteps DEF BatchInv
  <2>3. QED
    BY <2>1, <2>2 DEF ValuesRight
<1>1. /\ inverse = {} /\ prog' = prog
      /\ \/ UNCHANGED <<value, finished>>
         \/ \E t \in 1 .. MaxLen : Execute(t)
  BY InverseSteps DEF BatchInv
<1>2. /\ \A h \in Handles \ Created : value[h] = "right"
      /\ \A k \in finished : value[prog[k].out] = "right"
  BY <1>1 DEF ValuesRight
<1>3. CASE UNCHANGED <<value, finished>>
  BY <1>2, <1>3
<1>4. CASE \E t \in 1 .. MaxLen : Execute(t)
  <2>1. PICK t \in 1 .. MaxLen : Execute(t)
    BY <1>4
  <2>2. /\ at # "aborted" /\ t \in pending /\ finished' = finished \cup {t}
        /\ value' = [value EXCEPT ![prog[t].out] = Result(t)]
    BY <2>1 DEF Execute, Pool!Perform
  <2>3. at \in {"loop", "end"} /\ at # "collect" /\ HandedIs /\ GraphInv /\ TypeOK /\ InputsFirst
    BY <2>2 DEF BatchInv, TypeOK, Pristine, LoopInv, CallerFits
  <2>4. prog \in Programs /\ DOMAIN prog = 1 .. Len(prog) /\ t \in DOMAIN prog
    BY <2>2, <2>3, ProgramFacts DEF GraphInv, TypeOK
  <2>5. prog[t].out \in Handles /\ prog[t].out \in Created
    <3>1. PICK a \in Given : variables[a].link = t
      BY <2>2, <2>3 DEF HandedIs, Handed
    <3>2. a \in 1 .. Size /\ variables[a].link # 0
      <4>1. Size \in Nat
        BY <2>3, GraphTypes
      <4>2. i \in 1 .. Size + 1
        BY <2>3 DEF TypeOK
      <4>3. QED
        BY <4>1, <4>2 DEF Given
    <3>3. QED
      BY <2>3, <2>4, <3>1, <3>2, GraphTypes DEF Created
  <2>6. \A h \in ToSet(prog[t].in) : value[h] = "right"
    <3>1. ASSUME NEW h \in ToSet(prog[t].in) PROVE value[h] = "right"
      <4>1. h \in Handles
        BY <2>4, ProgramFacts
      <4>2. CASE h \in Created
        <5>1. PICK k \in DOMAIN prog : h = prog[k].out
          BY <4>2 DEF Created
        <5>2. k \in finished
          BY <2>2, <2>3, <5>1 DEF InputsFirst
        <5>3. QED
          BY <1>2, <5>1, <5>2
      <4>3. QED
        BY <1>2, <4>1, <4>2
    <3>2. QED
      BY <3>1
  <2>7. Result(t) = "right"
    BY <1>1, <2>6 DEF Result
  <2>8. DOMAIN value = Handles
    BY <2>3 DEF TypeOK
  <2>9. value'[prog[t].out] = "right" /\ \A h \in Handles : h # prog[t].out => value'[h] = value[h]
    BY <2>2, <2>5, <2>7, <2>8
  <2>10. ASSUME NEW k \in finished' PROVE value'[prog[k].out] = "right"
    BY <1>2, <2>2, <2>7, <2>9
  <2>11. QED
    BY <1>2, <2>5, <2>9, <2>10
<1>5. QED
  BY <1>1, <1>3, <1>4

(* When the batch is over, every link has been executed. *)
LEMMA AllExecuted ==
  ASSUME BatchInv, at = "done", NEW k \in DOMAIN prog, prog[k].out # NoVar
  PROVE  k \in finished
<1>1. /\ GraphInv /\ at # "collect" /\ HandedIs /\ i = Size + 1 /\ pending = {} /\ outbox = <<>>
      /\ Size \in Nat
  BY GraphTypes DEF BatchInv, LoopInv, CallerFits
<1>2. PICK a \in 1 .. Size : variables[a].link = k
  BY <1>1, LinksDiffer
<1>3. k # 0
  <2>1. k \in 1 .. Len(prog) /\ Len(prog) \in Nat
    BY <1>1, ProgramLength DEF GraphInv
  <2>2. QED
    BY <2>1
<1>4. a \in Given
  <2>1. a \in 1 .. i - 1 /\ ~(i <= Size)
    BY <1>1
  <2>2. QED
    BY <1>2, <1>3, <2>1 DEF Given, InRun
<1>5. k \in Handed
  BY <1>1, <1>2, <1>4 DEF HandedIs
<1>6. ToSet(<<>>) = {}
  BY DEF ToSet
<1>7. QED
  BY <1>1, <1>5, <1>6 DEF Handed

(***************************************************************************)
(* batch_execute: when it is over and the estimator had no selection kept  *)
(* as its complement, every operator has the result it would have had on   *)
(* its own, whatever the operators, the heuristic and the order of the     *)
(* columns.                                                                *)
(***************************************************************************)
THEOREM ResultsKept == Spec => [](inverse = {} => BatchSame)
<1>1. Init => BatchInv /\ ValuesRight
  BY InitHolds
<1>2. BatchInv /\ ValuesRight => (inverse = {} => BatchSame)
  BY AllExecuted DEF ValuesRight, BatchSame
<1>3. QED
  BY <1>1, <1>2, BatchStep, ValuesStep, PTL DEF Spec

(* The same, where the estimator never does that, as in the run. *)
THEOREM ResultsKeptUninverted ==
  ASSUME Estimates \subseteq {FALSE}
  PROVE  Spec => []BatchSame
<1>1. Init => BatchInv /\ ValuesRight /\ inverse = {}
  BY InitHolds DEF Init
<1>2. BatchInv /\ inverse = {} /\ [Next]_vars => (inverse = {})'
  BY InverseSteps DEF BatchInv
<1>3. BatchInv /\ ValuesRight /\ inverse = {} => BatchSame
  BY AllExecuted DEF ValuesRight, BatchSame
<1>4. QED
  BY <1>1, <1>2, <1>3, BatchStep, ValuesStep, PTL DEF Spec

-----------------------------------------------------------------------------
(* What the statements that report an error have changed. *)
Emptied == Var("select", <<>>, NoSrc)
KnownChange ==
  /\ UNCHANGED <<catalog, files, graph>>
  /\ \/ UNCHANGED <<db, pool>>
     \/ \E q \in Queries : DbLost(Parse(q)) \/ ResultsEmptied(Parse(q))

LEMMA FailedStep ==
  ASSUME [SessionNext]_allVars, issued' # issued, status' = "failed"
  PROVE  KnownChange
<1>1. CASE Transfer \/ Crash
  BY <1>1 DEF Transfer, Crash, Abort, Killed, Load
<1>2. CASE Statement
  <2>1. PICK q \in Queries : LET o == Parse(q) IN
       \/ Malformed(o) \/ RefusedInBatch(o) \/ Push(o) \/ BatchQuery(o) \/ ExecuteBatch(o)
       \/ Query(o) \/ Join(o) \/ PrintVariables(o) \/ Info(o) \/ Time(o)
       \/ Create(o) \/ InsertRow(o) \/ FreedDb(o) \/ LoadQuery(o) \/ Shutdown(o)
    BY <1>2 DEF Statement
  <2>2. PICK o : o = Parse(q)
    OBVIOUS
  <2>3. CASE Malformed(o) \/ RefusedInBatch(o) \/ BatchQuery(o) \/ PrintVariables(o) \/ Info(o)
    BY <2>3 DEF Malformed, RefusedInBatch, BatchQuery, PrintVariables, Info, Reply, SameDb, SameSession, dbVars, KnownChange
  <2>4. CASE Push(o) \/ ExecuteBatch(o) \/ LoadQuery(o) \/ Shutdown(o) \/ FreedDb(o)
    BY <2>4 DEF Push, ExecuteBatch, LoadQuery, Shutdown, FreedDb, BeginSave, Reply, SameDb, SameSession, dbVars,
         Abort, Killed, KnownChange
  <2>5. CASE Query(o)
    BY <2>5 DEF Query, Reply, SameDb, SameSession, dbVars, Abort, Killed, KnownChange
  <2>6. CASE Time(o)
    BY <2>6 DEF Time, Reply, SameDb, SameSession, dbVars, KnownChange
  <2>7. CASE Create(o) /\ ~CreateDb(o)
    BY <2>7 DEF Create, CreateTable, CreateColumn, CreateIndex, Change, KnownChange
  <2>8. CASE InsertRow(o)
    BY <2>8 DEF InsertRow, Insert, Change, SameSession, Abort, Killed, KnownChange
  <2>9. CASE Create(o) /\ CreateDb(o)
    <3>1. o.name \in TooLong /\ UNCHANGED <<catalog, files, graph, pool>>
      BY <2>9 DEF Create, CreateDb
    <3>2. CASE db = NoDb
      BY <2>9, <3>1, <3>2 DEF CreateDb, KnownChange
    <3>3. CASE o.type # "create_db"
      BY <2>9, <3>1, <3>3 DEF Create, CreateTable, CreateColumn, CreateIndex, Change, KnownChange
    <3>4. CASE db # NoDb /\ o.type = "create_db"
      BY <2>2, <2>9, <3>1, <3>4 DEF CreateDb, DbLost, KnownChange
    <3>5. QED
      BY <3>2, <3>3, <3>4
  <2>10. CASE Join(o)
    <3>1. CASE Len(o.handle) # 2
      BY <2>10, <3>1 DEF Join, Reply, SameDb, SameSession, dbVars, KnownChange
    <3>2. CASE Len(o.handle) = 2
      <4>1. /\ UNCHANGED <<db, catalog, files, graph>> /\ o.type = "join"
            /\ pool' = Stored(Stored(pool, o.handle[1], Emptied), o.handle[2], Emptied)
        BY <2>10, <3>2 DEF Join, Reply, SameDb, dbVars, Emptied
      <4>2. ResultsEmptied(o)
        BY <3>2, <4>1 DEF ResultsEmptied, Emptied
      <4>3. QED
        BY <2>2, <4>1, <4>2 DEF KnownChange
    <3>3. QED
      BY <3>1, <3>2
  <2>11. QED
    BY <2>1, <2>2, <2>3, <2>4, <2>5, <2>6, <2>7, <2>8, <2>9, <2>10
<1>3. CASE Saving \/ Connect \/ Disconnect \/ Start \/ UNCHANGED allVars
  BY <1>3 DEF Saving, Connect, Disconnect, Start, sessionVars, allVars
<1>4. QED
  BY <1>1, <1>2, <1>3 DEF SessionNext

(* A statement that reports an error has changed nothing, but for a        *)
(* create_db that loses the database and a join that empties its results.  *)
THEOREM FailedStatements == SessionSpec => FailedChangesAreKnown
<1>1. [SessionNext]_allVars => [(issued' # issued /\ status' = "failed") =>
       /\ UNCHANGED <<catalog, files, graph>>
       /\ \/ UNCHANGED <<db, pool>>
          \/ \E q \in Queries : DbLost(Parse(q)) \/ ResultsEmptied(Parse(q))]_allVars
  BY FailedStep DEF KnownChange
<1>2. QED
  BY <1>1, PTL DEF SessionSpec, FailedChangesAreKnown

-----------------------------------------------------------------------------
(* The database: its tables have distinct columns, no more than they were  *)
(* created for, and hold numbers.                                          *)
Maps(f) == f = [x \in DOMAIN f |-> f[x]] /\ DOMAIN f \in SUBSET Names
TableRight(table) ==
  /\ table = [count |-> table.count, order |-> table.order, data |-> table.data, bare |-> table.bare]
  /\ Maps(table.data)
  /\ \A c \in DOMAIN table.data : table.data[c] \in Data
  /\ table.order \in Seq(Names) /\ Distinct(table.order)
  /\ DOMAIN table.data = ToSet(table.order)
  /\ table.count \in Nat /\ Len(table.order) <= table.count
DbRight(d) ==
  /\ d = [name |-> d.name, tables |-> d.tables]
  /\ Maps(d.tables)
  /\ \A t \in DOMAIN d.tables : TableRight(d.tables[t])

(* The files: the catalog names every table once, and every column of it. *)
Lists == [name : Names, columns : Seq(Names)]
TextRight(text) ==
  /\ text.kind \in {"missing", "empty", "text"}
  /\ text.kind = "text" =>
       /\ text.tables \in Seq(Lists)
       /\ \A j, k \in DOMAIN text.tables : text.tables[j].name = text.tables[k].name => j = k
       /\ \A k \in DOMAIN text.tables : Distinct(text.tables[k].columns)
FilesRight(fs) ==
  /\ fs = [id \in DOMAIN fs |-> fs[id]]
  /\ \A id \in DOMAIN fs : fs[id] \in Data

(* While the server saves there is no catalog, and what is not to be       *)
(* written any more is written.                                            *)
SaveRight ==
  /\ catalog = Empty
  /\ todo \in SUBSET Unwritten
  /\ \A id \in Unwritten \ todo : id \in DOMAIN files /\ files[id] = ColumnData(id)

StoreInv ==
  /\ server \in {"down", "up", "saving"}
  /\ DbRight(db)
  /\ TextRight(catalog)
  /\ FilesRight(files)
  /\ server = "down" => db = NoDb
  /\ server = "saving" => SaveRight

(* A variable: what it was made from is of its time, and as long as the    *)
(* column has not been replaced its data is what it was made from.         *)
SourceRight(v) ==
  /\ v.src.gen \in Nat /\ v.src.gen <= generation
  /\ v.src.gen = generation =>
       /\ ColumnExists(v.src.col)
       /\ IF v.src.kind = "select"
          THEN /\ v.src.size \in 0 .. Len(ColumnData(v.src.col))
               /\ v.data = Positions(SubSeq(ColumnData(v.src.col), 1, v.src.size), v.src.low, v.src.high)
          ELSE /\ \A k \in DOMAIN v.src.at : v.src.at[k] + 1 \in DOMAIN ColumnData(v.src.col)
               /\ v.data = [k \in DOMAIN v.src.at |-> ColumnData(v.src.col)[v.src.at[k] + 1]]
VarRight(v) ==
  /\ v.type \in {"select", "fetch", "aggregate", "time"}
  /\ (v.ok /\ v.src # NoSrc) => SourceRight(v)
PoolRight(p) == \A n \in DOMAIN p : VarRight(p[n])

Queued == {Parse(q) : q \in {r \in Queries : Parse(r).type \in QueryTypes}}
BatchRight(g) == g # <<>> => g = <<g[1]>> /\ g[1] \in Seq(Queued)
SessionInv ==
  /\ StoreInv
  /\ client \in {"none", "connected"}
  /\ generation \in Nat
  /\ server = "down" => pool = <<>>
  /\ BatchRight(graph)
  /\ PoolRight(pool)

-----------------------------------------------------------------------------
(* The tables that the statements make. *)
LEMMA EmptyTables ==
  /\ Maps(<<>>) /\ DOMAIN <<>> = {}
  /\ \A name : DbRight([name |-> name, tables |-> <<>>])
<1>1. DOMAIN <<>> = {}
  OBVIOUS
<1>2. <<>> = [x \in {} |-> <<>>[x]]
  OBVIOUS
<1>3. Maps(<<>>)
  BY <1>1, <1>2 DEF Maps
<1>4. QED
  BY <1>1, <1>3 DEF DbRight

LEMMA WithTableRight ==
  ASSUME DbRight(db), NEW table, TableRight(table), NEW t \in Names
  PROVE  /\ DbRight(WithTable(t, table)) /\ WithTable(t, table).name = db.name
         /\ DOMAIN WithTable(t, table).tables = TableNames \cup {t}
         /\ WithTable(t, table).tables[t] = table
         /\ \A u \in TableNames \ {t} : WithTable(t, table).tables[u] = db.tables[u]
<1>1. PICK new : new = [u \in TableNames \cup {t} |-> IF u = t THEN table ELSE db.tables[u]]
  OBVIOUS
<1>2. PICK name, tables : db = [name |-> name, tables |-> tables]
  BY DEF DbRight
<1>3. WithTable(t, table) = [name |-> name, tables |-> new]
  BY <1>1, <1>2 DEF WithTable
<1>4. /\ DOMAIN new = TableNames \cup {t} /\ new[t] = table
      /\ \A u \in TableNames \ {t} : new[u] = db.tables[u]
  BY <1>1
<1>5. new = [u \in DOMAIN new |-> new[u]] /\ DOMAIN new \in SUBSET Names
  BY <1>1, <1>4 DEF DbRight, Maps, TableNames
<1>6. \A u \in DOMAIN new : TableRight(new[u])
  BY <1>4 DEF DbRight, TableNames
<1>7. PICK d : d = WithTable(t, table)
  OBVIOUS
<1>8. d.name = name /\ d.tables = new /\ d = [name |-> d.name, tables |-> d.tables] /\ db.name = name
  BY <1>2, <1>3, <1>7
<1>9. DbRight(d)
  BY <1>5, <1>6, <1>8 DEF DbRight, Maps
<1>10. QED
  BY <1>4, <1>7, <1>8, <1>9

LEMMA NewTableRight ==
  ASSUME NEW count \in Nat
  PROVE  TableRight(NewTable(count))
<1>1. <<>> \in Seq(Names) /\ Len(<<>>) = 0 /\ DOMAIN <<>> = {} /\ ToSet(<<>>) = {}
  BY DEF ToSet
<1>2. Distinct(<<>>)
  BY <1>1 DEF Distinct
<1>3. QED
  BY <1>1, <1>2, EmptyTables DEF NewTable, TableRight

\* There are as many columns as the order lists.
LEMMA Listed ==
  ASSUME NEW s \in Seq(Names), Distinct(s)
  PROVE  IsFiniteSet(ToSet(s)) /\ Cardinality(ToSet(s)) = Len(s)
<1>1. PICK n \in Nat : n = Len(s) /\ DOMAIN s = 1 .. n
  OBVIOUS
<1>2. s \in [1 .. n -> ToSet(s)]
  BY <1>1 DEF ToSet
<1>3. \A x \in ToSet(s) : \E k \in 1 .. n : s[k] = x
  BY <1>1 DEF ToSet
<1>4. \A j, k \in 1 .. n : s[j] = s[k] => j = k
  BY <1>1 DEF Distinct
<1>5. s \in Bijection(1 .. n, ToSet(s))
  BY <1>2, <1>3, <1>4 DEF Bijection, Injection, Surjection, IsInjective
<1>6. ExistsBijection(1 .. n, ToSet(s))
  BY <1>5 DEF ExistsBijection
<1>7. IsFiniteSet(1 .. n) /\ Cardinality(1 .. n) = n
  BY FS_Interval
<1>8. QED
  BY <1>1, <1>6, <1>7, FS_Bijection, Zenon

LEMMA WithColumnRight ==
  ASSUME NEW table, TableRight(table), NEW c \in Names, c \notin DOMAIN table.data,
         Cardinality(DOMAIN table.data) # table.count, 0 <= MaxRows
  PROVE  /\ TableRight(WithColumn(table, c))
         /\ DOMAIN WithColumn(table, c).data = DOMAIN table.data \cup {c}
         /\ \A d \in DOMAIN table.data : WithColumn(table, c).data[d] = table.data[d]
<1>1. PICK count, order, data, bare :
        /\ table = [count |-> count, order |-> order, data |-> data, bare |-> bare]
        /\ table.count = count /\ table.order = order /\ table.data = data
  BY DEF TableRight
<1>2. PICK new : new = [d \in DOMAIN data \cup {c} |-> IF d = c THEN <<>> ELSE data[d]]
  OBVIOUS
<1>3. PICK longer : longer = Append(order, c)
  OBVIOUS
<1>4. WithColumn(table, c) = [count |-> count, order |-> longer, data |-> new, bare |-> bare]
  <2>1. WithColumn(table, c) = [table EXCEPT !.order = longer, !.data = new]
    BY <1>1, <1>2, <1>3, Zenon DEF WithColumn
  <2>2. QED
    BY <1>1, <2>1
<1>5. /\ order \in Seq(Names) /\ Distinct(order) /\ DOMAIN data = ToSet(order)
      /\ count \in Nat /\ Len(order) <= count /\ DOMAIN data \in SUBSET Names
      /\ \A d \in DOMAIN data : data[d] \in Data
  BY <1>1 DEF TableRight, Maps
<1>6. Len(order) + 1 <= count /\ Len(order) \in Nat
  <2>1. Cardinality(DOMAIN data) = Len(order)
    BY <1>5, Listed
  <2>2. QED
    BY <1>1, <1>5, <2>1
<1>7. longer \in Seq(Names) /\ Len(longer) = Len(order) + 1 /\ longer[Len(order) + 1] = c
      /\ \A k \in 1 .. Len(order) : longer[k] = order[k]
  BY <1>3, <1>5
<1>8. c \notin ToSet(order)
  BY <1>1, <1>5
<1>9. Distinct(longer)
  <2>1. \A k \in 1 .. Len(order) : order[k] # c
    BY <1>5, <1>8 DEF ToSet
  <2>2. \A j, k \in 1 .. Len(order) : order[j] = order[k] => j = k
    BY <1>5 DEF Distinct
  <2>3. DOMAIN longer = 1 .. Len(order) + 1
    BY <1>7
  <2>4. QED
    BY <1>6, <1>7, <2>1, <2>2, <2>3 DEF Distinct
<1>10. ToSet(longer) = ToSet(order) \cup {c}
  <2>1. DOMAIN longer = 1 .. Len(order) + 1 /\ DOMAIN order = 1 .. Len(order)
    BY <1>5, <1>7
  <2>2. QED
    BY <1>6, <1>7, <2>1 DEF ToSet
<1>11. <<>> \in Data
  BY DEF Data
<1>12. DOMAIN new = DOMAIN data \cup {c} /\ \A d \in DOMAIN data : new[d] = data[d]
  BY <1>1, <1>2
<1>13. \A d \in DOMAIN new : new[d] \in Data
  BY <1>2, <1>5, <1>11
<1>14. Maps(new)
  BY <1>2, <1>5, <1>12 DEF Maps
<1>15. PICK made : made = WithColumn(table, c)
  OBVIOUS
<1>16. made.count = count /\ made.order = longer /\ made.data = new
       /\ made = [count |-> made.count, order |-> made.order, data |-> made.data, bare |-> made.bare]
  BY <1>4, <1>15
<1>17. TableRight(made)
  BY <1>5, <1>6, <1>7, <1>9, <1>10, <1>12, <1>13, <1>14, <1>16 DEF TableRight
<1>18. QED
  BY <1>1, <1>12, <1>15, <1>16, <1>17

\* A row that names every column makes every column one longer.
LEMMA InsertedRight ==
  ASSUME NEW table, TableRight(table), NEW values \in Seq(Int), Len(values) = Cardinality(DOMAIN table.data),
         \A c \in DOMAIN table.data : Len(table.data[c]) < MaxRows, MaxRows \in Nat
  PROVE  /\ TableRight(Inserted(table, values))
         /\ DOMAIN Inserted(table, values).data = DOMAIN table.data
         /\ \A c \in DOMAIN table.data : \E x \in Int : Inserted(table, values).data[c] = Append(table.data[c], x)
<1>1. PICK count, order, data, bare :
        /\ table = [count |-> count, order |-> order, data |-> data, bare |-> bare]
        /\ table.count = count /\ table.order = order /\ table.data = data
  BY DEF TableRight
<1>2. PICK new : new = [c \in DOMAIN table.data |->
        LET mine == {k \in DOMAIN values : table.order[k] = c}
        IN IF mine = {} THEN table.data[c] ELSE Append(table.data[c], values[CHOOSE k \in mine : TRUE])]
  OBVIOUS
<1>3. Inserted(table, values) = [count |-> count, order |-> order, data |-> new, bare |-> bare]
  <2>1. Inserted(table, values) = [table EXCEPT !.data = new]
    BY <1>2, Zenon DEF Inserted
  <2>2. QED
    BY <1>1, <2>1
<1>4. /\ order \in Seq(Names) /\ Distinct(order) /\ DOMAIN data = ToSet(order)
      /\ count \in Nat /\ Len(order) <= count /\ DOMAIN data \in SUBSET Names
      /\ \A d \in DOMAIN data : data[d] \in Data
  BY <1>1 DEF TableRight, Maps
<1>5. DOMAIN values = DOMAIN order
  <2>1. Cardinality(DOMAIN data) = Len(order)
    BY <1>4, Listed
  <2>2. QED
    BY <1>1, <1>4, <2>1
<1>6. ASSUME NEW c \in DOMAIN data PROVE \E x \in Int : new[c] = Append(data[c], x)
  <2>1. PICK mine : mine = {k \in DOMAIN values : table.order[k] = c}
    OBVIOUS
  <2>2. mine # {}
    BY <1>1, <1>4, <1>5, <1>6, <2>1 DEF ToSet
  <2>3. PICK k : k = (CHOOSE j \in mine : TRUE)
    OBVIOUS
  <2>4. k \in mine
    BY <2>2, <2>3
  <2>5. new[c] = Append(data[c], values[k])
    <3>1. c \in DOMAIN table.data /\ table.data[c] = data[c]
      BY <1>1, <1>6
    <3>2. QED
      BY <1>2, <2>1, <2>2, <2>3, <3>1
  <2>6. values[k] \in Int
    BY <2>1, <2>4
  <2>7. QED
    BY <2>5, <2>6
<1>7. DOMAIN new = DOMAIN data /\ new = [c \in DOMAIN new |-> new[c]]
  BY <1>1, <1>2
<1>8. \A c \in DOMAIN new : new[c] \in Data
  <2>1. ASSUME NEW c \in DOMAIN data PROVE new[c] \in Data
    <3>1. PICK x \in Int : new[c] = Append(data[c], x)
      BY <1>6
    <3>2. data[c] \in Seq(Int) /\ Len(data[c]) < MaxRows
      BY <1>1, <1>4 DEF Data
    <3>3. Append(data[c], x) \in Seq(Int) /\ Len(Append(data[c], x)) = Len(data[c]) + 1
      BY <3>2
    <3>4. QED
      BY <3>1, <3>2, <3>3 DEF Data
  <2>2. QED
    BY <1>7, <2>1
<1>9. Maps(new)
  BY <1>4, <1>7 DEF Maps
<1>10. PICK made : made = Inserted(table, values)
  OBVIOUS
<1>11. made.count = count /\ made.order = order /\ made.data = new
       /\ made = [count |-> made.count, order |-> made.order, data |-> made.data, bare |-> made.bare]
  BY <1>3, <1>10
<1>12. TableRight(made)
  BY <1>4, <1>7, <1>8, <1>9, <1>11 DEF TableRight
<1>13. QED
  BY <1>1, <1>6, <1>7, <1>10, <1>11, <1>12

\* A file's columns have a value for each of its rows; the others stay.
LEMMA LoadedRight ==
  ASSUME NEW table, TableRight(table), NEW f \in Files
  PROVE  /\ TableRight(Loaded(table, f.header, f.rows))
         /\ DOMAIN Loaded(table, f.header, f.rows).data = DOMAIN table.data
         /\ \A c \in ToSet(f.header) \cap DOMAIN table.data :
              Len(Loaded(table, f.header, f.rows).data[c]) = Len(f.rows)
<1>1. PICK count, order, data, bare :
        /\ table = [count |-> count, order |-> order, data |-> data, bare |-> bare]
        /\ table.count = count /\ table.order = order /\ table.data = data
  BY DEF TableRight
<1>2. PICK header, rows : header = f.header /\ rows = f.rows
  OBVIOUS
<1>3. PICK new : new = [c \in DOMAIN data |->
        LET mine == {k \in DOMAIN header : header[k] = c}
        IN IF mine = {} THEN data[c] ELSE [r \in DOMAIN rows |-> rows[r][CHOOSE k \in mine : TRUE]]]
  OBVIOUS
<1>4. PICK left : Loaded(table, header, rows) = [count |-> count, order |-> order, data |-> new, bare |-> left]
  <2>1. PICK left : left = bare \ ToSet(header)
    OBVIOUS
  <2>2. Loaded(table, header, rows) = [table EXCEPT !.bare = left, !.data = new]
    BY <1>1, <1>3, <2>1, Zenon DEF Loaded
  <2>3. QED
    BY <1>1, <2>2
<1>5. /\ order \in Seq(Names) /\ Distinct(order) /\ DOMAIN data = ToSet(order)
      /\ count \in Nat /\ Len(order) <= count /\ DOMAIN data \in SUBSET Names
      /\ \A d \in DOMAIN data : data[d] \in Data
  BY <1>1 DEF TableRight, Maps
<1>6. /\ header \in Seq(Names) /\ rows \in Seq([DOMAIN header -> Int]) /\ Len(rows) <= MaxRows
  BY <1>2, FilesAssumption
<1>7. ASSUME NEW c \in DOMAIN data
      PROVE  new[c] \in Data /\ (c \in ToSet(header) => Len(new[c]) = Len(rows))
  <2>1. PICK mine : mine = {k \in DOMAIN header : header[k] = c}
    OBVIOUS
  <2>2. PICK k : k = (CHOOSE j \in mine : TRUE)
    OBVIOUS
  <2>3. CASE mine = {}
    BY <1>3, <1>5, <1>7, <2>1, <2>3 DEF ToSet
  <2>4. CASE mine # {}
    <3>1. k \in DOMAIN header
      BY <2>1, <2>2, <2>4
    <3>2. new[c] = [r \in DOMAIN rows |-> rows[r][k]]
      BY <1>3, <1>7, <2>1, <2>2, <2>4
    <3>3. PICK n \in Nat : n = Len(rows) /\ DOMAIN rows = 1 .. n
      BY <1>6
    <3>4. \A r \in 1 .. n : rows[r][k] \in Int
      BY <1>6, <3>1, <3>3
    <3>5. new[c] \in [1 .. n -> Int]
      BY <3>2, <3>3, <3>4
    <3>6. new[c] \in Seq(Int) /\ Len(new[c]) = n
      BY <3>5
    <3>7. QED
      BY <1>6, <3>3, <3>6 DEF Data
  <2>5. QED
    BY <2>3, <2>4
<1>8. DOMAIN new = DOMAIN data
  BY <1>3
<1>9. Maps(new)
  BY <1>3, <1>5, <1>8 DEF Maps
<1>10. PICK made : made = Loaded(table, header, rows)
  OBVIOUS
<1>11. made.count = count /\ made.order = order /\ made.data = new
       /\ made = [count |-> made.count, order |-> made.order, data |-> made.data, bare |-> made.bare]
  BY <1>4, <1>10
<1>12. TableRight(made)
  BY <1>5, <1>7, <1>8, <1>9, <1>11 DEF TableRight
<1>13. QED
  BY <1>1, <1>2, <1>7, <1>8, <1>10, <1>11, <1>12

-----------------------------------------------------------------------------
(* What a statement does to the columns there were: they stay, and at most *)
(* a value comes behind what they hold; and rows that were whole stay so.  *)
Longer(old, new) == new = old \/ \E x \in Int : new = Append(old, x)
ColumnsStay ==
  \A id : ColumnExists(id) => ColumnExists(id)' /\ Longer(ColumnData(id), ColumnData(id)')
RowsStay ==
  \A t \in TableNames \cap DOMAIN db'.tables :
    (DOMAIN db'.tables[t].data = ColumnNames(t) /\ Aligned(db.tables, t)) => Aligned(db'.tables, t)

\* One table is put: it is new, or its columns stay.
LEMMA PutTable ==
  ASSUME DbRight(db), NEW t \in Names, NEW table, TableRight(table), db' = WithTable(t, table),
         t \in TableNames => \A c \in ColumnNames(t) :
            c \in DOMAIN table.data /\ Longer(db.tables[t].data[c], table.data[c])
  PROVE  DbRight(db') /\ ColumnsStay
<1>1. PICK d : d = WithTable(t, table)
  OBVIOUS
<1>2. /\ DbRight(d) /\ d.name = db.name /\ DOMAIN d.tables = TableNames \cup {t} /\ d.tables[t] = table
      /\ \A u \in TableNames \ {t} : d.tables[u] = db.tables[u]
  BY <1>1, WithTableRight
<1>3. db' = d /\ d # NoDb
  <2>1. DOMAIN NoDb.tables = {}
    BY EmptyTables DEF NoDb
  <2>2. QED
    BY <1>1, <1>2, <2>1
<1>4. ASSUME NEW id, ColumnExists(id)
      PROVE  ColumnExists(id)' /\ Longer(ColumnData(id), ColumnData(id)')
  <2>1. /\ Len(id) = 3 /\ db.name = id[1] /\ id[2] \in TableNames /\ id[3] \in ColumnNames(id[2])
    BY <1>4 DEF ColumnExists, TableExists, DbExists
  <2>2. id[2] \in DOMAIN d.tables /\ id[3] \in DOMAIN d.tables[id[2]].data
        /\ Longer(db.tables[id[2]].data[id[3]], d.tables[id[2]].data[id[3]])
    BY <1>2, <2>1 DEF ColumnNames, Longer
  <2>3. ColumnExists(id)'
    BY <1>2, <1>3, <2>1, <2>2 DEF ColumnExists, TableExists, DbExists, TableNames, ColumnNames
  <2>4. QED
    BY <1>3, <2>2, <2>3 DEF ColumnData
<1>5. QED
  BY <1>2, <1>3, <1>4 DEF ColumnsStay

LEMMA NothingPut ==
  ASSUME db' = db
  PROVE  ColumnsStay /\ RowsStay
BY DEF ColumnsStay, RowsStay, Longer, ColumnExists, TableExists, DbExists, TableNames, ColumnNames, ColumnData

LEMMA CreateTableStays ==
  ASSUME DbRight(db), NEW o, CreateTable(o), o.name \in Names \cup TooLong, o.count \in Nat
  PROVE  DbRight(db') /\ ColumnsStay /\ RowsStay
<1>1. CASE o.name \notin TooLong /\ DbExists(o.db) /\ o.name \notin TableNames
  <2>1. db' = WithTable(o.name, NewTable(o.count)) /\ o.name \in Names
    BY <1>1 DEF CreateTable, Change
  <2>2. TableRight(NewTable(o.count))
    BY NewTableRight
  <2>3. PICK t, table : t = o.name /\ table = NewTable(o.count)
    OBVIOUS
  <2>4. DbRight(db') /\ ColumnsStay
    BY <1>1, <2>1, <2>2, <2>3, PutTable
  <2>5. \A u \in TableNames : db'.tables[u] = db.tables[u]
    <3>1. \A u \in TableNames \ {t} : WithTable(t, table).tables[u] = db.tables[u]
      BY <2>1, <2>2, <2>3, WithTableRight
    <3>2. QED
      BY <1>1, <2>1, <2>3, <3>1
  <2>6. RowsStay
    BY <2>5 DEF RowsStay, Aligned
  <2>7. QED
    BY <2>4, <2>6
<1>2. CASE ~(o.name \notin TooLong /\ DbExists(o.db) /\ o.name \notin TableNames)
  BY <1>2, NothingPut DEF CreateTable, Change
<1>3. QED
  BY <1>1, <1>2

\* The table that a name belongs to.
LEMMA TableAt ==
  ASSUME DbRight(db), NEW id, TableExists(id)
  PROVE  id[2] \in TableNames /\ id[2] \in Names /\ TableRight(db.tables[id[2]])
BY DEF TableExists, DbRight, Maps, TableNames

LEMMA CreateColumnStays ==
  ASSUME DbRight(db), NEW o, CreateColumn(o), o.name \in Names \cup TooLong, MaxRows \in Nat
  PROVE  DbRight(db') /\ ColumnsStay /\ RowsStay
<1>1. PICK t, c, table : t = o.tbl[2] /\ c = o.name /\ table = db.tables[t]
  OBVIOUS
<1>2. CASE c \notin TooLong /\ TableExists(o.tbl) /\ c \notin ColumnNames(t) /\ Cardinality(ColumnNames(t)) # table.count
  <2>1. t \in TableNames /\ t \in Names /\ TableRight(table)
    BY <1>1, <1>2, TableAt
  <2>2. PICK new : new = WithColumn(table, c)
    OBVIOUS
  <2>3. TableRight(new) /\ DOMAIN new.data = DOMAIN table.data \cup {c}
        /\ \A d \in DOMAIN table.data : new.data[d] = table.data[d]
    <3>1. ColumnNames(t) = DOMAIN table.data
      BY <1>1 DEF ColumnNames
    <3>2. c \in Names /\ c \notin DOMAIN table.data /\ Cardinality(DOMAIN table.data) # table.count /\ 0 <= MaxRows
      BY <1>1, <1>2, <3>1
    <3>3. QED
      BY <2>1, <2>2, <3>2, WithColumnRight
  <2>4. db' = WithTable(t, new)
    BY <1>1, <1>2, <2>2 DEF CreateColumn, Change
  <2>5. DbRight(db') /\ ColumnsStay
    BY <1>1, <2>1, <2>3, <2>4, PutTable DEF ColumnNames, Longer
  <2>6. /\ \A u \in TableNames \ {t} : db'.tables[u] = db.tables[u]
        /\ db'.tables[t] = new
    BY <2>1, <2>3, <2>4, WithTableRight
  <2>7. DOMAIN db'.tables[t].data # ColumnNames(t)
    BY <1>1, <1>2, <2>3, <2>6 DEF ColumnNames
  <2>8. RowsStay
    BY <2>6, <2>7 DEF RowsStay, Aligned
  <2>9. QED
    BY <2>5, <2>8
<1>3. CASE ~(c \notin TooLong /\ TableExists(o.tbl) /\ c \notin ColumnNames(t) /\ Cardinality(ColumnNames(t)) # table.count)
  BY <1>1, <1>3, NothingPut DEF CreateColumn, Change
<1>4. QED
  BY <1>2, <1>3

LEMMA InsertStays ==
  ASSUME DbRight(db), NEW o, InsertRow(o), ~Abort, o.values \in Seq(Int), MaxRows \in Nat
  PROVE  DbRight(db') /\ ColumnsStay /\ RowsStay
<1>1. PICK t, values, table : t = o.tbl[2] /\ values = o.values /\ table = db.tables[t]
  OBVIOUS
<1>2. CASE TableExists(o.tbl) /\ Len(values) = Cardinality(ColumnNames(t))
  <2>1. t \in TableNames /\ t \in Names /\ TableRight(table)
    BY <1>1, <1>2, TableAt
  <2>2. \A c \in DOMAIN table.data : Len(table.data[c]) < MaxRows
    BY <1>1, <1>2 DEF InsertRow, ColumnNames
  <2>3. PICK new : new = Inserted(table, values)
    OBVIOUS
  <2>4. /\ TableRight(new) /\ DOMAIN new.data = DOMAIN table.data
        /\ \A c \in DOMAIN table.data : \E x \in Int : new.data[c] = Append(table.data[c], x)
    BY <1>1, <1>2, <2>1, <2>2, <2>3, InsertedRight DEF ColumnNames
  <2>5. db' = WithTable(t, new)
    BY <1>1, <1>2, <2>3 DEF InsertRow, Insert, Taken, Change
  <2>6. \A c \in ColumnNames(t) : c \in DOMAIN new.data /\ Longer(db.tables[t].data[c], new.data[c])
    BY <1>1, <2>4 DEF ColumnNames, Longer
  <2>7. DbRight(db') /\ ColumnsStay
    BY <2>1, <2>4, <2>5, <2>6, PutTable
  <2>8. /\ \A u \in TableNames \ {t} : db'.tables[u] = db.tables[u]
        /\ db'.tables[t] = new
    BY <2>1, <2>4, <2>5, WithTableRight
  <2>9. Aligned(db.tables, t) => Aligned(db'.tables, t)
    <3>1. \A c \in DOMAIN table.data : Len(new.data[c]) = Len(table.data[c]) + 1
      <4>1. \A s \in Seq(Int), x \in Int : Len(Append(s, x)) = Len(s) + 1
        OBVIOUS
      <4>2. \A c \in DOMAIN table.data : table.data[c] \in Seq(Int)
        BY <2>1 DEF TableRight, Data
      <4>3. ASSUME NEW c \in DOMAIN table.data PROVE Len(new.data[c]) = Len(table.data[c]) + 1
        <5>1. PICK x \in Int : new.data[c] = Append(table.data[c], x)
          BY <2>4
        <5>2. QED
          BY <4>1, <4>2, <5>1
      <4>4. QED
        BY <4>3
    <3>2. PICK x, y : x = db.tables[t].data /\ y = new.data
      OBVIOUS
    <3>3. DOMAIN y = DOMAIN x /\ \A c \in DOMAIN x : Len(y[c]) = Len(x[c]) + 1
      BY <1>1, <2>4, <3>1, <3>2
    <3>4. (\A c, d \in DOMAIN x : Len(x[c]) = Len(x[d])) => \A c, d \in DOMAIN y : Len(y[c]) = Len(y[d])
      BY <3>3
    <3>5. db'.tables[t].data = y
      BY <2>8, <3>2
    <3>6. QED
      BY <3>2, <3>4, <3>5 DEF Aligned
  <2>10. RowsStay
    BY <2>8, <2>9 DEF RowsStay, Aligned
  <2>11. QED
    BY <2>7, <2>10
<1>3. CASE ~(TableExists(o.tbl) /\ Len(values) = Cardinality(ColumnNames(t)))
  BY <1>1, <1>3, NothingPut DEF InsertRow, Insert, Taken, Change
<1>4. QED
  BY <1>2, <1>3

LEMMA LoadStays ==
  ASSUME DbRight(db), NEW f \in Files, Load(f.tbl[2], f.header, f.rows),
         \A k \in DOMAIN f.header : ColumnExists(<<f.tbl[1], f.tbl[2], f.header[k]>>)
  PROVE  /\ DbRight(db')
         /\ ColumnNames(f.tbl[2]) \subseteq ToSet(f.header) => RowsStay
<1>1. PICK t, header, rows, table :
        t = f.tbl[2] /\ header = f.header /\ rows = f.rows /\ table = db.tables[t]
  OBVIOUS
<1>2. t \in TableNames /\ t \in Names /\ TableRight(table)
  <2>1. header \in Seq(Names) /\ header # <<>>
    BY <1>1, FilesAssumption
  <2>2. 1 \in DOMAIN header
    BY <2>1
  <2>3. ColumnExists(<<f.tbl[1], t, header[1]>>)
    BY <1>1, <2>2
  <2>4. TableExists(<<f.tbl[1], t>>)
    BY <2>3 DEF ColumnExists
  <2>5. QED
    BY <1>1, <2>4, TableAt
<1>3. PICK new : new = Loaded(table, header, rows)
  OBVIOUS
<1>4. /\ TableRight(new) /\ DOMAIN new.data = DOMAIN table.data
      /\ \A c \in ToSet(header) \cap DOMAIN table.data : Len(new.data[c]) = Len(rows)
  BY <1>1, <1>2, <1>3, LoadedRight
<1>5. db' = WithTable(t, new)
  BY <1>1, <1>3 DEF Load
<1>6. /\ DbRight(db') /\ db'.tables[t] = new
      /\ \A u \in TableNames \ {t} : db'.tables[u] = db.tables[u]
  BY <1>2, <1>4, <1>5, WithTableRight
<1>7. ASSUME ColumnNames(t) \subseteq ToSet(header) PROVE RowsStay
  <2>1. Aligned(db'.tables, t)
    BY <1>1, <1>4, <1>6, <1>7 DEF Aligned, ColumnNames
  <2>2. QED
    BY <1>6, <2>1 DEF RowsStay, Aligned
<1>8. QED
  BY <1>1, <1>6, <1>7

-----------------------------------------------------------------------------
(* The names in slot order are the names. *)
LEMMA SlotNumbers ==
  /\ \A n \in Names : Slot(n) \in DOMAIN SlotOrder /\ SlotOrder[Slot(n)] = n /\ Slot(n) \in Nat
  /\ IsFiniteSet(Names)
<1>1. SlotOrder \in Seq(Names) /\ Distinct(SlotOrder)
  BY CatalogAssumption DEF Distinct
<1>2. ASSUME NEW n \in Names PROVE Slot(n) \in DOMAIN SlotOrder /\ SlotOrder[Slot(n)] = n
  <2>1. \E k \in DOMAIN SlotOrder : SlotOrder[k] = n
    BY DEF Names, ToSet
  <2>2. QED
    BY <2>1 DEF Slot
<1>3. \A k \in DOMAIN SlotOrder : k \in Nat
  BY <1>1
<1>4. IsFiniteSet(Names)
  BY <1>1, Listed DEF Names
<1>5. QED
  BY <1>2, <1>3, <1>4

Below(names, n) == {m \in names : Slot(m) <= Slot(n)}

LEMMA SlotRanks ==
  ASSUME NEW names \in SUBSET Names
  PROVE  /\ IsFiniteSet(names) /\ Cardinality(names) \in Nat
         /\ \A n \in names : Cardinality(Below(names, n)) \in 1 .. Cardinality(names)
         /\ \A m, n \in names : Cardinality(Below(names, m)) = Cardinality(Below(names, n)) => m = n
<1>1. IsFiniteSet(names) /\ Cardinality(names) \in Nat
  BY SlotNumbers, FS_Subset, FS_CardinalityType
<1>2. ASSUME NEW n \in names
      PROVE  IsFiniteSet(Below(names, n)) /\ Cardinality(Below(names, n)) \in 1 .. Cardinality(names)
  <2>1. Below(names, n) \in SUBSET names /\ n \in Below(names, n)
    BY SlotNumbers DEF Below
  <2>2. IsFiniteSet(Below(names, n)) /\ Cardinality(Below(names, n)) <= Cardinality(names)
    BY <1>1, <2>1, FS_Subset
  <2>3. Cardinality(Below(names, n)) \in Nat \ {0}
    BY <2>1, <2>2, FS_EmptySet, FS_CardinalityType
  <2>4. QED
    BY <1>1, <2>2, <2>3
<1>3. ASSUME NEW m \in names, NEW n \in names, Slot(m) <= Slot(n), m # n
      PROVE  Cardinality(Below(names, m)) # Cardinality(Below(names, n))
  <2>1. Below(names, m) \in SUBSET Below(names, n)
    BY <1>3, SlotNumbers DEF Below
  <2>2. Slot(m) # Slot(n)
    BY <1>3, SlotNumbers
  <2>3. n \in Below(names, n) /\ n \notin Below(names, m)
    BY <1>3, <2>2, SlotNumbers DEF Below
  <2>4. QED
    BY <1>2, <2>1, <2>3, FS_Subset
<1>4. \A m, n \in names : Slot(m) <= Slot(n) \/ Slot(n) <= Slot(m)
  BY SlotNumbers
<1>5. QED
  BY <1>1, <1>2, <1>3, <1>4

LEMMA InOrder ==
  ASSUME NEW names \in SUBSET Names
  PROVE  /\ InSlotOrder(names) \in Seq(Names) /\ ToSet(InSlotOrder(names)) = names
         /\ Distinct(InSlotOrder(names))
<1>1. PICK n \in Nat : n = Cardinality(names)
  BY SlotRanks
<1>2. PICK rank : rank = [m \in names |-> Cardinality(Below(names, m))]
  OBVIOUS
<1>3. rank \in Injection(names, 1 .. n)
  BY <1>1, <1>2, SlotRanks DEF Injection, IsInjective
<1>4. rank \in Surjection(names, 1 .. n)
  <2>1. IsFiniteSet(1 .. n) /\ Cardinality(1 .. n) = n
    BY FS_Interval
  <2>2. QED
    BY <1>1, <1>3, <2>1, FS_Injection
<1>5. PICK s : s = InSlotOrder(names)
  OBVIOUS
<1>6. s = [k \in 1 .. n |-> CHOOSE m \in names : Cardinality(Below(names, m)) = k]
  BY <1>1, <1>5 DEF InSlotOrder, Below
<1>7. \A k \in 1 .. n : s[k] \in names /\ Cardinality(Below(names, s[k])) = k
  <2>1. ASSUME NEW k \in 1 .. n PROVE s[k] \in names /\ Cardinality(Below(names, s[k])) = k
    <3>1. \E m \in names : Cardinality(Below(names, m)) = k
      BY <1>2, <1>4 DEF Surjection
    <3>2. QED
      BY <1>6, <3>1
  <2>2. QED
    BY <2>1
<1>8. s \in [1 .. n -> Names] /\ DOMAIN s = 1 .. n
  BY <1>6, <1>7
<1>9. \A m \in names : \E k \in 1 .. n : s[k] = m
  <2>1. ASSUME NEW m \in names PROVE \E k \in 1 .. n : s[k] = m
    <3>1. PICK k \in 1 .. n : k = Cardinality(Below(names, m))
      BY <1>1, SlotRanks
    <3>2. s[k] = m
      BY <1>7, <3>1, SlotRanks
    <3>3. QED
      BY <3>2
  <2>2. QED
    BY <2>1
<1>10. ToSet(s) = names
  BY <1>7, <1>8, <1>9 DEF ToSet
<1>11. Distinct(s)
  BY <1>7, <1>8 DEF Distinct
<1>12. s \in Seq(Names)
  BY <1>8
<1>13. QED
  BY <1>5, <1>10, <1>11, <1>12

-----------------------------------------------------------------------------
(* A shutdown writes the columns, and then the text that names them. *)
LEMMA LeastOne ==
  ASSUME NEW A, A \subseteq Nat, A # {}
  PROVE  \E n \in A : \A k \in A : n <= k
<1>1. PICK R : R = OpToRel(<, Nat)
  OBVIOUS
<1>2. IsWellFoundedOn(R, Nat)
  BY <1>1, NatLessThanWellFounded
<1>3. PICK n \in A : \A k \in A : ~ (<<k, n>> \in R)
  BY <1>2, WFMin
<1>4. ASSUME NEW k \in A PROVE n <= k
  <2>1. k \in Nat /\ n \in Nat
    OBVIOUS
  <2>2. ~ (k < n)
    BY <1>1, <1>3, <2>1 DEF OpToRel
  <2>3. QED
    BY <2>1, <2>2
<1>5. QED
  BY <1>4

LEMMA ColumnsAre ==
  ASSUME DbRight(db), NEW id \in Unwritten
  PROVE  /\ id = <<db.name, id[2], id[3]>> /\ id[2] \in TableNames /\ id[3] \in ColumnNames(id[2])
         /\ id[2] \in Names /\ id[3] \in Names /\ ColumnData(id) \in Data
<1>1. PICK t, c : t \in TableNames /\ c \in ColumnNames(t) /\ id = <<db.name, t, c>>
  BY DEF Unwritten
<1>2. id[2] = t /\ id[3] = c
  BY <1>1
<1>3. TableRight(db.tables[t]) /\ t \in Names
  BY <1>1 DEF DbRight, Maps, TableNames
<1>4. db.tables[t].data[c] \in Data /\ c \in Names
  BY <1>1, <1>3 DEF TableRight, Maps, ColumnNames
<1>5. QED
  BY <1>1, <1>2, <1>3, <1>4 DEF ColumnData

LEMMA NextIs ==
  ASSUME DbRight(db), todo \in SUBSET Unwritten, todo # {}
  PROVE  NextColumn \in todo
<1>1. \A id \in todo : Slot(id[2]) \in Nat /\ Slot(id[3]) \in Nat
  BY ColumnsAre, SlotNumbers
<1>2. PICK A : A = {Slot(id[2]) : id \in todo}
  OBVIOUS
<1>3. A \subseteq Nat /\ A # {}
  BY <1>1, <1>2
<1>4. PICK a \in A : \A k \in A : a <= k
  BY <1>3, LeastOne
<1>5. PICK B : B = {Slot(id[3]) : id \in {r \in todo : Slot(r[2]) = a}}
  OBVIOUS
<1>6. B \subseteq Nat /\ B # {}
  BY <1>1, <1>2, <1>4, <1>5
<1>7. PICK b \in B : \A k \in B : b <= k
  BY <1>6, LeastOne
<1>8. PICK id \in todo : Slot(id[2]) = a /\ Slot(id[3]) = b
  BY <1>5, <1>7
<1>9. ASSUME NEW other \in todo
      PROVE  LET r == Rank(id)
                 q == Rank(other)
             IN r[1] < q[1] \/ (r[1] = q[1] /\ r[2] <= q[2])
  <2>1. a <= Slot(other[2]) /\ a \in Nat /\ Slot(other[2]) \in Nat
    BY <1>1, <1>2, <1>3, <1>4
  <2>2. Slot(other[2]) = a => b <= Slot(other[3])
    BY <1>5, <1>7
  <2>3. a < Slot(other[2]) \/ (a = Slot(other[2]) /\ b <= Slot(other[3]))
    BY <2>1, <2>2
  <2>4. QED
    BY <1>8, <2>3 DEF Rank
<1>10. QED
  BY <1>8, <1>9 DEF NextColumn

(* What OnDisk and CatalogText say, of a text, files and a database. *)
DiskOf(text, fs) ==
  IF text.kind # "text" THEN <<>>
  ELSE [t \in {text.tables[k].name : k \in DOMAIN text.tables} |->
          LET k == CHOOSE j \in DOMAIN text.tables : text.tables[j].name = t
          IN [c \in ToSet(text.tables[k].columns) |->
                IF <<text.name, t, c>> \in DOMAIN fs THEN fs[<<text.name, t, c>>] ELSE <<>>]]

LEMMA DiskIs == OnDisk = DiskOf(catalog, files)
BY DEF OnDisk, DiskOf

LEMMA NoText ==
  ASSUME NEW text, text.kind # "text", NEW fs
  PROVE  DiskOf(text, fs) = <<>>
BY DEF DiskOf

LEMMA TextIs ==
  ASSUME DbRight(db), db # NoDb, db # Dangling
  PROVE  /\ CatalogText.kind = "text" /\ CatalogText.name = db.name /\ CatalogText.tables \in Seq(Lists)
         /\ \A k \in DOMAIN CatalogText.tables :
              CatalogText.tables[k].columns = InSlotOrder(ColumnNames(CatalogText.tables[k].name))
         /\ {CatalogText.tables[k].name : k \in DOMAIN CatalogText.tables} = TableNames
         /\ \A j, k \in DOMAIN CatalogText.tables :
              CatalogText.tables[j].name = CatalogText.tables[k].name => j = k
<1>1. PICK s : s = InSlotOrder(TableNames)
  OBVIOUS
<1>2. s \in Seq(Names) /\ ToSet(s) = TableNames /\ Distinct(s)
  <2>1. TableNames \in SUBSET Names
    BY DEF DbRight, Maps, TableNames
  <2>2. QED
    BY <1>1, <2>1, InOrder
<1>3. PICK lists : lists = [k \in DOMAIN s |-> [name |-> s[k], columns |-> InSlotOrder(ColumnNames(s[k]))]]
  OBVIOUS
<1>4. CatalogText = [kind |-> "text", name |-> db.name, tables |-> lists]
  BY <1>1, <1>3 DEF CatalogText
<1>5. PICK n \in Nat : n = Len(s) /\ DOMAIN s = 1 .. n
  BY <1>2
<1>6. \A k \in 1 .. n : lists[k].name = s[k] /\ lists[k].columns = InSlotOrder(ColumnNames(s[k]))
  BY <1>3, <1>5
<1>7. \A k \in 1 .. n : s[k] \in TableNames /\ s[k] \in Names /\ InSlotOrder(ColumnNames(s[k])) \in Seq(Names)
  <2>1. ASSUME NEW k \in 1 .. n
        PROVE  s[k] \in TableNames /\ s[k] \in Names /\ InSlotOrder(ColumnNames(s[k])) \in Seq(Names)
    <3>1. s[k] \in TableNames /\ s[k] \in Names
      BY <1>2, <1>5 DEF ToSet
    <3>2. ColumnNames(s[k]) \in SUBSET Names
      BY <3>1 DEF DbRight, TableRight, Maps, TableNames, ColumnNames
    <3>3. QED
      BY <3>1, <3>2, InOrder
  <2>2. QED
    BY <2>1
<1>8. lists \in [1 .. n -> Lists]
  BY <1>3, <1>5, <1>7 DEF Lists
<1>9. lists \in Seq(Lists) /\ DOMAIN lists = 1 .. n
  BY <1>8
<1>10. {lists[k].name : k \in 1 .. n} = TableNames
  <2>1. {s[k] : k \in 1 .. n} = TableNames
    BY <1>2, <1>5 DEF ToSet
  <2>2. QED
    BY <1>6, <2>1
<1>11. \A j, k \in 1 .. n : lists[j].name = lists[k].name => j = k
  BY <1>2, <1>5, <1>6 DEF Distinct
<1>12. QED
  BY <1>4, <1>6, <1>9, <1>10, <1>11

\* The text that a shutdown ends with is a catalog.
LEMMA TextWritten ==
  ASSUME DbRight(db)
  PROVE  TextRight(CatalogText)
<1>1. CASE db = NoDb
  BY <1>1 DEF CatalogText, Empty, TextRight
<1>2. CASE db = Dangling
  <2>1. PICK text : text = CatalogText
    OBVIOUS
  <2>2. text.kind \in {"empty", "text"} /\ (text.kind = "text" => text.tables = <<>>)
    BY <1>2, <2>1 DEF CatalogText, Empty
  <2>3. ASSUME text.kind = "text" PROVE text.tables \in Seq(Lists) /\ DOMAIN text.tables = {}
    <3>1. <<>> \in Seq(Lists) /\ DOMAIN <<>> = {}
      OBVIOUS
    <3>2. QED
      BY <2>2, <2>3, <3>1
  <2>4. TextRight(text)
    BY <2>2, <2>3 DEF TextRight
  <2>5. QED
    BY <2>1, <2>4
<1>3. CASE db # NoDb /\ db # Dangling
  <2>1. PICK text : text = CatalogText
    OBVIOUS
  <2>2. /\ text.kind = "text" /\ text.tables \in Seq(Lists)
        /\ \A j, k \in DOMAIN text.tables : text.tables[j].name = text.tables[k].name => j = k
    BY <1>3, <2>1, TextIs
  <2>3. ASSUME NEW k \in DOMAIN text.tables PROVE Distinct(text.tables[k].columns)
    <3>1. PICK t : t = text.tables[k].name
      OBVIOUS
    <3>2. t \in TableNames /\ text.tables[k].columns = InSlotOrder(ColumnNames(t))
      BY <1>3, <2>1, <2>3, <3>1, TextIs
    <3>3. ColumnNames(t) \in SUBSET Names
      BY <3>2 DEF DbRight, TableRight, Maps, TableNames, ColumnNames
    <3>4. QED
      BY <3>2, <3>3, InOrder
  <2>4. QED
    BY <2>1, <2>2, <2>3 DEF TextRight
<1>4. QED
  BY <1>1, <1>2, <1>3

\* When every column is written, the text and the files are the database.
LEMMA Saved ==
  ASSUME DbRight(db), \A id \in Unwritten : id \in DOMAIN files /\ files[id] = ColumnData(id)
  PROVE  DiskOf(CatalogText, files) = Contents(db)
<1>1. CASE db = NoDb
  <2>1. DiskOf(CatalogText, files) = <<>>
    BY <1>1, NoText DEF CatalogText, Empty
  <2>2. Contents(db) = <<>>
    BY <1>1, EmptyTables DEF Contents, NoDb, Maps
  <2>3. QED
    BY <2>1, <2>2
<1>2. CASE db = Dangling /\ db # NoDb
  <2>1. PICK text : text = CatalogText
    OBVIOUS
  <2>2. text.kind = "text" /\ text.tables = <<>>
    BY <1>2, <2>1 DEF CatalogText
  <2>3. PICK table : table = [t \in {text.tables[k].name : k \in DOMAIN text.tables} |->
            LET k == CHOOSE j \in DOMAIN text.tables : text.tables[j].name = t
            IN [c \in ToSet(text.tables[k].columns) |->
                  IF <<text.name, t, c>> \in DOMAIN files THEN files[<<text.name, t, c>>] ELSE <<>>]]
    OBVIOUS
  <2>4. DiskOf(text, files) = table
    BY <2>2, <2>3, Zenon DEF DiskOf
  <2>5. DOMAIN table = {} /\ table = [t \in DOMAIN table |-> table[t]]
    BY <2>2, <2>3
  <2>6. PICK all : all = Contents(db)
    OBVIOUS
  <2>7. DOMAIN all = {} /\ all = [t \in DOMAIN all |-> all[t]]
    BY <1>2, <2>6, EmptyTables DEF Contents, Dangling
  <2>8. table = all
    BY <2>5, <2>7
  <2>9. QED
    BY <2>1, <2>4, <2>6, <2>8
<1>3. CASE db # NoDb /\ db # Dangling
  <2>1. PICK text : text = CatalogText
    OBVIOUS
  <2>2. /\ text.kind = "text" /\ text.name = db.name
        /\ \A k \in DOMAIN text.tables : text.tables[k].columns = InSlotOrder(ColumnNames(text.tables[k].name))
        /\ {text.tables[k].name : k \in DOMAIN text.tables} = TableNames
    BY <1>3, <2>1, TextIs
  <2>3. ASSUME NEW t \in TableNames
        PROVE  LET k == CHOOSE j \in DOMAIN text.tables : text.tables[j].name = t
               IN [c \in ToSet(text.tables[k].columns) |->
                     IF <<text.name, t, c>> \in DOMAIN files THEN files[<<text.name, t, c>>] ELSE <<>>]
                  = db.tables[t].data
    <3>1. PICK k : k = (CHOOSE j \in DOMAIN text.tables : text.tables[j].name = t)
      OBVIOUS
    <3>2. \E j \in DOMAIN text.tables : text.tables[j].name = t
      BY <2>2, <2>3
    <3>3. k \in DOMAIN text.tables /\ text.tables[k].name = t
      BY <3>1, <3>2
    <3>4. ColumnNames(t) \in SUBSET Names /\ db.tables[t].data = [c \in ColumnNames(t) |-> db.tables[t].data[c]]
      BY <2>3 DEF DbRight, TableRight, Maps, TableNames, ColumnNames
    <3>5. ToSet(text.tables[k].columns) = ColumnNames(t)
      BY <2>2, <3>3, <3>4, InOrder
    <3>6. ASSUME NEW c \in ColumnNames(t)
          PROVE  <<text.name, t, c>> \in DOMAIN files /\ files[<<text.name, t, c>>] = db.tables[t].data[c]
      <4>1. PICK id : id = <<db.name, t, c>>
        OBVIOUS
      <4>2. id \in Unwritten
        BY <2>3, <3>6, <4>1 DEF Unwritten
      <4>3. id[2] = t /\ id[3] = c
        BY <4>1
      <4>4. QED
        BY <2>2, <4>1, <4>2, <4>3 DEF ColumnData
    <3>7. [c \in ToSet(text.tables[k].columns) |->
             IF <<text.name, t, c>> \in DOMAIN files THEN files[<<text.name, t, c>>] ELSE <<>>]
          = [c \in ColumnNames(t) |-> db.tables[t].data[c]]
      BY <3>5, <3>6
    <3>8. QED
      BY <3>1, <3>4, <3>7
  <2>4. DiskOf(text, files) = [t \in TableNames |-> db.tables[t].data]
    <3>1. PICK table : table = [t \in {text.tables[k].name : k \in DOMAIN text.tables} |->
            LET k == CHOOSE j \in DOMAIN text.tables : text.tables[j].name = t
            IN [c \in ToSet(text.tables[k].columns) |->
                  IF <<text.name, t, c>> \in DOMAIN files THEN files[<<text.name, t, c>>] ELSE <<>>]]
      OBVIOUS
    <3>2. DiskOf(text, files) = table
      BY <2>2, <3>1, Zenon DEF DiskOf
    <3>3. DOMAIN table = TableNames /\ table = [t \in DOMAIN table |-> table[t]]
      BY <2>2, <3>1
    <3>4. \A t \in TableNames : table[t] = db.tables[t].data
      BY <2>2, <2>3, <3>1
    <3>5. QED
      BY <3>2, <3>3, <3>4
  <2>5. QED
    BY <2>1, <2>4 DEF Contents, TableNames
<1>4. QED
  BY <1>1, <1>2, <1>3

\* A startup makes of a table of the text a table, of what the files hold.
LEMMA RestoredRight ==
  ASSUME TextRight(catalog), catalog.kind = "text", FilesRight(files), NEW k \in DOMAIN catalog.tables, MaxRows \in Nat
  PROVE  TableRight(Restored(catalog, k)) /\ catalog.tables[k].name \in Names
<1>1. PICK list : list = catalog.tables[k]
  OBVIOUS
<1>2. list.name \in Names /\ list.columns \in Seq(Names) /\ Distinct(list.columns)
  <2>1. list \in Lists
    BY <1>1 DEF TextRight
  <2>2. QED
    BY <1>1, <2>1 DEF TextRight, Lists
<1>3. PICK data : data = [c \in ToSet(list.columns) |->
        IF <<catalog.name, list.name, c>> \in DOMAIN files THEN files[<<catalog.name, list.name, c>>] ELSE <<>>]
  OBVIOUS
<1>4. PICK bare : Restored(catalog, k) = [count |-> Len(list.columns), order |-> list.columns, data |-> data, bare |-> bare]
  <2>1. PICK empty : empty = {c \in ToSet(list.columns) : /\ <<catalog.name, list.name, c>> \in DOMAIN files
                                                        /\ files[<<catalog.name, list.name, c>>] = <<>>}
    OBVIOUS
  <2>2. QED
    BY <1>1, <1>3, <2>1 DEF Restored
<1>5. DOMAIN data = ToSet(list.columns) /\ DOMAIN data \in SUBSET Names
  BY <1>2, <1>3 DEF ToSet
<1>6. \A c \in DOMAIN data : data[c] \in Data
  <2>1. <<>> \in Data
    BY DEF Data
  <2>2. QED
    BY <1>3, <2>1 DEF FilesRight
<1>7. Maps(data)
  BY <1>3, <1>5 DEF Maps
<1>8. Len(list.columns) \in Nat
  BY <1>2
<1>9. PICK table : table = Restored(catalog, k)
  OBVIOUS
<1>10. table.count = Len(list.columns) /\ table.order = list.columns /\ table.data = data
       /\ table = [count |-> table.count, order |-> table.order, data |-> table.data, bare |-> table.bare]
  BY <1>4, <1>9
<1>11. TableRight(table)
  BY <1>2, <1>5, <1>6, <1>7, <1>8, <1>10 DEF TableRight
<1>12. QED
  BY <1>1, <1>2, <1>9, <1>11

LEMMA Started ==
  ASSUME Startup, TextRight(catalog), FilesRight(files), MaxRows \in Nat
  PROVE  DbRight(db') /\ Contents(db') = DiskOf(catalog, files)
<1>1. CASE catalog.kind # "text"
  <2>1. PICK name : db' = [name |-> name, tables |-> <<>>]
    BY <1>1 DEF Startup, TextRight, NoDb
  <2>2. Contents(db') = <<>>
    BY <2>1, EmptyTables DEF Contents, Maps
  <2>3. QED
    BY <1>1, <2>1, <2>2, EmptyTables, NoText
<1>2. CASE catalog.kind = "text"
  <2>1. PICK names : names = {catalog.tables[k].name : k \in DOMAIN catalog.tables}
    OBVIOUS
  <2>2. PICK tables : tables = [t \in names |->
          Restored(catalog, CHOOSE k \in DOMAIN catalog.tables : catalog.tables[k].name = t)]
    OBVIOUS
  <2>3. db' = [name |-> catalog.name, tables |-> tables]
    BY <1>2, <2>1, <2>2 DEF Startup
  <2>4. DOMAIN tables = names /\ tables = [t \in DOMAIN tables |-> tables[t]]
    BY <2>2
  <2>5. ASSUME NEW t \in names
        PROVE  /\ t \in Names /\ TableRight(tables[t])
               /\ LET k == CHOOSE j \in DOMAIN catalog.tables : catalog.tables[j].name = t
                  IN tables[t].data = [c \in ToSet(catalog.tables[k].columns) |->
                       IF <<catalog.name, t, c>> \in DOMAIN files THEN files[<<catalog.name, t, c>>] ELSE <<>>]
    <3>1. PICK k : k = (CHOOSE j \in DOMAIN catalog.tables : catalog.tables[j].name = t)
      OBVIOUS
    <3>2. k \in DOMAIN catalog.tables /\ catalog.tables[k].name = t
      BY <2>1, <3>1
    <3>3. tables[t] = Restored(catalog, k)
      BY <2>2, <3>1
    <3>4. TableRight(Restored(catalog, k)) /\ t \in Names
      BY <1>2, <3>2, RestoredRight
    <3>5. Restored(catalog, k).data = [c \in ToSet(catalog.tables[k].columns) |->
             IF <<catalog.name, t, c>> \in DOMAIN files THEN files[<<catalog.name, t, c>>] ELSE <<>>]
      BY <3>2 DEF Restored
    <3>6. QED
      BY <3>1, <3>3, <3>4, <3>5
  <2>6. DbRight(db')
    <3>1. names \in SUBSET Names
      BY <2>5
    <3>2. db'.name = catalog.name /\ db'.tables = tables /\ db' = [name |-> db'.name, tables |-> db'.tables]
      BY <2>3
    <3>3. QED
      BY <2>4, <2>5, <3>1, <3>2 DEF DbRight, Maps
  <2>7. Contents(db') = [t \in names |-> tables[t].data]
    BY <2>3, <2>4 DEF Contents
  <2>8. PICK disk : disk = [t \in {catalog.tables[k].name : k \in DOMAIN catalog.tables} |->
            LET k == CHOOSE j \in DOMAIN catalog.tables : catalog.tables[j].name = t
            IN [c \in ToSet(catalog.tables[k].columns) |->
                  IF <<catalog.name, t, c>> \in DOMAIN files THEN files[<<catalog.name, t, c>>] ELSE <<>>]]
    OBVIOUS
  <2>9. DiskOf(catalog, files) = disk
    BY <1>2, <2>8, Zenon DEF DiskOf
  <2>10. DOMAIN disk = names /\ disk = [t \in names |-> disk[t]]
    BY <2>1, <2>8
  <2>11. \A t \in names : disk[t] = tables[t].data
    BY <2>1, <2>5, <2>8
  <2>12. QED
    BY <2>6, <2>7, <2>9, <2>10, <2>11
<1>3. QED
  BY <1>1, <1>2

-----------------------------------------------------------------------------
(* One step of a shutdown. *)
LEMMA SameColumns ==
  ASSUME db' = db
  PROVE  Unwritten' = Unwritten /\ \A id : ColumnData(id)' = ColumnData(id)
BY DEF Unwritten, ColumnData, TableNames, ColumnNames

LEMMA RemoveFileKeeps ==
  ASSUME StoreInv, RemoveFile
  PROVE  StoreInv' /\ OnDisk' = <<>> /\ OnDisk = <<>>
<1>1. /\ server = "saving" /\ NextColumn \in todo /\ todo \in SUBSET Unwritten
      /\ UNCHANGED <<server, db, catalog, todo>> /\ catalog = Empty
      /\ files' = [id \in DOMAIN files \ {NextColumn} |-> files[id]]
  BY NextIs DEF StoreInv, SaveRight, RemoveFile
<1>2. PICK id \in todo : id = NextColumn
  BY <1>1
<1>3. files' = [r \in DOMAIN files \ {id} |-> files[r]]
  BY <1>1, <1>2
<1>4. FilesRight(files')
  BY <1>3 DEF StoreInv, FilesRight
<1>5. \A r \in Unwritten \ todo : r \in DOMAIN files' /\ files'[r] = ColumnData(r)
  BY <1>2, <1>3, <1>1 DEF StoreInv, SaveRight
<1>6. SaveRight'
  BY <1>1, <1>5, SameColumns DEF SaveRight
<1>7. DbRight(db)' /\ TextRight(catalog)' /\ FilesRight(files)'
  BY <1>1, <1>4 DEF StoreInv, DbRight, TextRight, FilesRight
<1>8. StoreInv'
  BY <1>1, <1>6, <1>7 DEF StoreInv
<1>9. OnDisk = <<>> /\ OnDisk' = <<>>
  BY <1>1 DEF OnDisk, Empty
<1>10. QED
  BY <1>8, <1>9

LEMMA WriteFileKeeps ==
  ASSUME StoreInv, WriteFile
  PROVE  StoreInv' /\ OnDisk' = <<>> /\ OnDisk = <<>>
<1>1. /\ server = "saving" /\ NextColumn \in todo /\ todo \in SUBSET Unwritten
      /\ UNCHANGED <<server, db, catalog>> /\ catalog = Empty /\ todo' = todo \ {NextColumn}
      /\ files' = [id \in DOMAIN files \cup {NextColumn} |->
                     IF id = NextColumn THEN ColumnData(id) ELSE files[id]]
  BY NextIs DEF StoreInv, SaveRight, WriteFile
<1>2. PICK id \in todo : id = NextColumn
  BY <1>1
<1>3. files' = [r \in DOMAIN files \cup {id} |-> IF r = id THEN ColumnData(r) ELSE files[r]]
  BY <1>1, <1>2
<1>4. FilesRight(files')
  <2>1. ColumnData(id) \in Data
    BY <1>1, <1>2, ColumnsAre DEF StoreInv
  <2>2. QED
    BY <1>3, <2>1 DEF StoreInv, FilesRight
<1>5. \A r \in Unwritten \ todo' : r \in DOMAIN files' /\ files'[r] = ColumnData(r)
  BY <1>1, <1>2, <1>3 DEF StoreInv, SaveRight
<1>6. SaveRight'
  BY <1>1, <1>5, SameColumns DEF SaveRight
<1>7. DbRight(db)' /\ TextRight(catalog)' /\ FilesRight(files)'
  BY <1>1, <1>4 DEF StoreInv, DbRight, TextRight, FilesRight
<1>8. StoreInv'
  BY <1>1, <1>6, <1>7 DEF StoreInv
<1>9. OnDisk = <<>> /\ OnDisk' = <<>>
  BY <1>1 DEF OnDisk, Empty
<1>10. QED
  BY <1>8, <1>9

LEMMA EndSaveKeeps ==
  ASSUME StoreInv, EndSave
  PROVE  StoreInv' /\ OnDisk' = Contents(db)
<1>1. /\ server = "saving" /\ server' = "up" /\ catalog' = CatalogText /\ UNCHANGED <<db, files>>
      /\ \A id \in Unwritten : id \in DOMAIN files /\ files[id] = ColumnData(id)
  BY DEF StoreInv, SaveRight, EndSave
<1>2. DbRight(db) /\ FilesRight(files)
  BY DEF StoreInv
<1>3. TextRight(CatalogText)
  BY <1>2, TextWritten
<1>4. DbRight(db)' /\ TextRight(catalog)' /\ FilesRight(files)'
  BY <1>1, <1>2, <1>3 DEF DbRight, TextRight, FilesRight
<1>5. StoreInv'
  BY <1>1, <1>4 DEF StoreInv
<1>6. OnDisk' = DiskOf(CatalogText, files)
  BY <1>1 DEF OnDisk, DiskOf
<1>7. QED
  BY <1>1, <1>2, <1>5, <1>6, Saved

-----------------------------------------------------------------------------
(* The variables that queries store. *)
Types == {"select", "fetch", "aggregate", "time"}

LEMMA PlainRight ==
  ASSUME NEW type \in Types, NEW data
  PROVE  VarRight(Var(type, data, NoSrc)) /\ VarRight(Spoilt(type))
<1>1. Var(type, data, NoSrc).type = type /\ Var(type, data, NoSrc).src = NoSrc
  BY DEF Var
<1>2. Spoilt(type).type = type /\ Spoilt(type).ok = FALSE
  BY DEF Spoilt
<1>3. QED
  BY <1>1, <1>2 DEF VarRight, Types

LEMMA StoredRight ==
  ASSUME NEW p, PoolRight(p), NEW name, NEW v, VarRight(v)
  PROVE  PoolRight(Stored(p, name, v))
BY DEF PoolRight, Stored

LEMMA TypesOf ==
  ASSUME NEW o, o.type \in QueryTypes
  PROVE  TypeOf(o) \in Types
BY DEF QueryTypes, TypeOf, Types

\* A column is there, and it holds numbers.
LEMMA ColumnIs ==
  ASSUME DbRight(db), NEW id, ColumnExists(id)
  PROVE  ColumnData(id) \in Data
<1>1. id[2] \in TableNames /\ id[3] \in ColumnNames(id[2])
  BY DEF ColumnExists, TableExists
<1>2. TableRight(db.tables[id[2]])
  BY <1>1 DEF DbRight, TableNames
<1>3. QED
  BY <1>1, <1>2 DEF TableRight, ColumnNames, ColumnData

LEMMA ValuesOfColumn ==
  ASSUME NEW p, NEW id, ColumnExists(id)
  PROVE  ValuesOf(p, id) = ColumnData(id)
BY DEF ColumnExists, ValuesOf, HasVar

LEMMA SelectRight ==
  ASSUME DbRight(db), generation \in Nat, NEW p, NEW o, o.type = "select"
  PROVE  VarRight(Computed(p, o))
<1>1. PICK data : data = ValuesOf(p, o.col)
  OBVIOUS
<1>2. PICK among : among = Positions(data, o.low, o.high)
  OBVIOUS
<1>3. CASE ~ColumnExists(o.col)
  <2>1. Computed(p, o) = Var("select", among, NoSrc)
    BY <1>1, <1>2, <1>3 DEF Computed
  <2>2. QED
    BY <2>1, PlainRight DEF Types
<1>4. CASE ColumnExists(o.col)
  <2>1. PICK src : src = [kind |-> "select", col |-> o.col, gen |-> generation, size |-> Len(data),
                          low |-> o.low, high |-> o.high]
    OBVIOUS
  <2>2. Computed(p, o) = Var("select", among, src)
    BY <1>1, <1>2, <1>4, <2>1 DEF Computed
  <2>3. PICK v : v = Computed(p, o)
    OBVIOUS
  <2>4. v.type = "select" /\ v.data = among /\ v.src = src
    BY <2>2, <2>3 DEF Var
  <2>5. data \in Seq(Int) /\ data = ColumnData(o.col)
    BY <1>1, <1>4, ValuesOfColumn, ColumnIs DEF Data
  <2>6. SubSeq(data, 1, Len(data)) = data /\ Len(data) \in 0 .. Len(data)
    BY <2>5
  <2>7. SourceRight(v)
    <3>1. /\ v.src.gen = generation /\ v.src.col = o.col /\ v.src.kind = "select"
          /\ v.src.size = Len(data) /\ v.src.low = o.low /\ v.src.high = o.high
      BY <2>1, <2>4
    <3>2. v.data = Positions(SubSeq(ColumnData(v.src.col), 1, v.src.size), v.src.low, v.src.high)
      BY <1>2, <2>4, <2>5, <2>6, <3>1
    <3>3. v.src.size \in 0 .. Len(ColumnData(v.src.col))
      BY <2>5, <2>6, <3>1
    <3>4. v.src.gen \in Nat /\ v.src.gen <= generation
      BY <3>1
    <3>5. QED
      BY <1>4, <3>1, <3>2, <3>3, <3>4 DEF SourceRight
  <2>8. QED
    BY <2>3, <2>4, <2>7 DEF VarRight
<1>5. QED
  BY <1>3, <1>4

LEMMA FetchRight ==
  ASSUME DbRight(db), generation \in Nat, NEW p, NEW o, o.type = "fetch"
  PROVE  VarRight(Computed(p, o))
<1>1. PICK data, places : data = ValuesOf(p, o.col) /\ places = p[o.sel[1]].data
  OBVIOUS
<1>2. PICK got : got = [k \in DOMAIN places |-> data[places[k] + 1]]
  OBVIOUS
<1>3. CASE \E k \in DOMAIN places : places[k] + 1 \notin DOMAIN data
  <2>1. Computed(p, o) = Spoilt("fetch")
    BY <1>1, <1>3 DEF Computed
  <2>2. QED
    BY <2>1, PlainRight DEF Types
<1>4. CASE ~ColumnExists(o.col) /\ ~ \E k \in DOMAIN places : places[k] + 1 \notin DOMAIN data
  <2>1. Computed(p, o) = Var("fetch", got, NoSrc)
    BY <1>1, <1>2, <1>4 DEF Computed
  <2>2. QED
    BY <2>1, PlainRight DEF Types
<1>5. CASE ColumnExists(o.col) /\ ~ \E k \in DOMAIN places : places[k] + 1 \notin DOMAIN data
  <2>1. PICK src : src = [kind |-> "fetch", col |-> o.col, gen |-> generation, at |-> places]
    OBVIOUS
  <2>2. Computed(p, o) = Var("fetch", got, src)
    BY <1>1, <1>2, <1>5, <2>1 DEF Computed
  <2>3. PICK v : v = Computed(p, o)
    OBVIOUS
  <2>4. v.type = "fetch" /\ v.data = got /\ v.src = src
    BY <2>2, <2>3 DEF Var
  <2>5. data = ColumnData(o.col)
    BY <1>1, <1>5, ValuesOfColumn
  <2>6. SourceRight(v)
    BY <1>2, <1>5, <2>1, <2>4, <2>5 DEF SourceRight
  <2>7. QED
    BY <2>3, <2>4, <2>6 DEF VarRight
<1>6. QED
  BY <1>3, <1>4, <1>5

LEMMA ComputedRight ==
  ASSUME DbRight(db), generation \in Nat, NEW p, NEW o, o.type \in QueryTypes
  PROVE  VarRight(Computed(p, o))
<1>1. CASE o.type = "select"
  BY <1>1, SelectRight
<1>2. CASE o.type = "fetch"
  BY <1>2, FetchRight
<1>3. CASE o.type \in {"reselect", "aggregate", "combine"}
  <2>1. \E type \in Types : \E data : Computed(p, o) = Var(type, data, NoSrc)
    <3>1. CASE o.type = "reselect"
      <4>1. \E data : Computed(p, o) = Var("select", data, NoSrc)
        BY <3>1 DEF Computed
      <4>2. QED
        BY <4>1 DEF Types
    <3>2. CASE o.type = "aggregate"
      <4>1. \E data : Computed(p, o) = Var("aggregate", data, NoSrc)
        BY <3>2 DEF Computed
      <4>2. QED
        BY <4>1 DEF Types
    <3>3. CASE o.type = "combine"
      <4>1. \E data : Computed(p, o) = Var("fetch", data, NoSrc)
        BY <3>3 DEF Computed
      <4>2. QED
        BY <4>1 DEF Types
    <3>4. QED
      BY <1>3, <3>1, <3>2, <3>3
  <2>2. QED
    BY <2>1, PlainRight
<1>4. QED
  BY <1>1, <1>2, <1>3 DEF QueryTypes

\* A column that stays, and may be longer, leaves what was made from it right.
LEMMA SourceStays ==
  ASSUME DbRight(db), ColumnsStay, generation' = generation, NEW v, VarRight(v)
  PROVE  VarRight(v)'
<1>1. CASE ~(v.ok /\ v.src # NoSrc)
  BY <1>1 DEF VarRight
<1>2. CASE v.ok /\ v.src # NoSrc
  <2>1. SourceRight(v)
    BY <1>2 DEF VarRight
  <2>2. CASE v.src.gen # generation
    BY <1>2, <2>1, <2>2 DEF VarRight, SourceRight
  <2>3. CASE v.src.gen = generation
    <3>1. PICK id : id = v.src.col
      OBVIOUS
    <3>2. ColumnExists(id) /\ ColumnExists(id)' /\ Longer(ColumnData(id), ColumnData(id)')
      BY <2>1, <2>3, <3>1 DEF SourceRight, ColumnsStay
    <3>3. PICK old, new : old = ColumnData(id) /\ new = ColumnData(id)'
      OBVIOUS
    <3>4. old \in Seq(Int) /\ Longer(old, new)
      BY <3>2, <3>3, ColumnIs DEF Data
    <3>5. /\ Len(old) \in Nat /\ new \in Seq(Int) /\ Len(old) <= Len(new)
          /\ \A k \in DOMAIN old : k \in DOMAIN new /\ new[k] = old[k]
          /\ \A n \in 0 .. Len(old) : SubSeq(new, 1, n) = SubSeq(old, 1, n)
      <4>1. CASE new = old
        BY <3>4, <4>1
      <4>2. CASE \E x \in Int : new = Append(old, x)
        <5>1. PICK x \in Int : new = Append(old, x)
          BY <4>2
        <5>2. new \in Seq(Int) /\ Len(new) = Len(old) + 1 /\ Len(old) \in Nat
              /\ \A k \in 1 .. Len(old) : new[k] = old[k]
          BY <3>4, <5>1
        <5>3. ASSUME NEW n \in 0 .. Len(old) PROVE SubSeq(new, 1, n) = SubSeq(old, 1, n)
          BY <3>4, <5>2, <5>3
        <5>4. QED
          BY <3>4, <5>2, <5>3
      <4>3. QED
        BY <3>4, <4>1, <4>2 DEF Longer
    <3>6. SourceRight(v)'
      <4>1. CASE v.src.kind = "select"
        <5>1. v.src.size \in 0 .. Len(old) /\ v.data = Positions(SubSeq(old, 1, v.src.size), v.src.low, v.src.high)
          BY <2>1, <2>3, <3>1, <3>3, <4>1 DEF SourceRight
        <5>2. v.src.size \in 0 .. Len(new) /\ v.data = Positions(SubSeq(new, 1, v.src.size), v.src.low, v.src.high)
          <6>1. PICK n : n = v.src.size
            OBVIOUS
          <6>2. n \in 0 .. Len(old) /\ Len(new) \in Nat
            BY <3>5, <5>1, <6>1
          <6>3. SubSeq(new, 1, n) = SubSeq(old, 1, n) /\ n \in 0 .. Len(new)
            BY <3>5, <6>2
          <6>4. QED
            BY <5>1, <6>1, <6>3
        <5>3. QED
          BY <2>1, <3>1, <3>2, <3>3, <4>1, <5>2 DEF SourceRight
      <4>2. CASE v.src.kind # "select"
        <5>1. /\ \A k \in DOMAIN v.src.at : v.src.at[k] + 1 \in DOMAIN old
              /\ v.data = [k \in DOMAIN v.src.at |-> old[v.src.at[k] + 1]]
          BY <2>1, <2>3, <3>1, <3>3, <4>2 DEF SourceRight
        <5>2. /\ \A k \in DOMAIN v.src.at : v.src.at[k] + 1 \in DOMAIN new
              /\ v.data = [k \in DOMAIN v.src.at |-> new[v.src.at[k] + 1]]
          BY <3>5, <5>1
        <5>3. QED
          BY <2>1, <3>1, <3>2, <3>3, <4>2, <5>2 DEF SourceRight
      <4>3. QED
        BY <4>1, <4>2
    <3>7. QED
      BY <1>2, <3>6 DEF VarRight
  <2>4. QED
    BY <2>2, <2>3
<1>3. QED
  BY <1>1, <1>2

LEMMA SourceOld ==
  ASSUME generation \in Nat, generation' = generation + 1, NEW v, VarRight(v)
  PROVE  VarRight(v)'
BY DEF VarRight, SourceRight

-----------------------------------------------------------------------------
(***************************************************************************)
(* Executing a batch.  The fold over its links is a recursive function     *)
(* over the sets of their places; that there is one, and only one, is      *)
(* shown for a least set without.                                          *)
(***************************************************************************)
Executed(base, s) == FoldLeft(AfterLink, base, s)
Runs(base, s, S, g) ==
  g = [t \in SUBSET S |-> IF t = {} THEN base ELSE AfterLink(g[t \ {Max(t)}], s[Max(t)])]

\* A set of finite sets has one of which no proper subset is in it.
LEMMA Smallest ==
  ASSUME NEW A, A # {}, \A s \in A : IsFiniteSet(s)
  PROVE  \E s \in A : \A t \in A : t \subseteq s => t = s
<1>1. PICK R : R = OpToRel(<, Nat)
  OBVIOUS
<1>2. IsWellFoundedOn(R, Nat)
  BY <1>1, NatLessThanWellFounded
<1>3. PICK N : N = {Cardinality(s) : s \in A}
  OBVIOUS
<1>4. N \subseteq Nat /\ N # {}
  BY <1>3, FS_CardinalityType
<1>5. PICK n \in N : \A k \in N : ~ (<<k, n>> \in R)
  BY <1>2, <1>4, WFMin
<1>6. PICK s \in A : n = Cardinality(s)
  BY <1>3
<1>7. ASSUME NEW t \in A, t \subseteq s, t # s PROVE FALSE
  <2>1. Cardinality(t) < Cardinality(s)
    <3>1. IsFiniteSet(s) /\ IsFiniteSet(t)
      OBVIOUS
    <3>2. Cardinality(t) <= Cardinality(s) /\ Cardinality(t) # Cardinality(s)
      BY <1>7, <3>1, FS_Subset
    <3>3. QED
      BY <3>1, <3>2, FS_CardinalityType
  <2>2. Cardinality(t) \in N /\ Cardinality(t) \in Nat /\ n \in Nat
    BY <1>3, <1>4
  <2>3. <<Cardinality(t), n>> \in R
    BY <1>1, <1>6, <2>1, <2>2 DEF OpToRel
  <2>4. QED
    BY <1>5, <2>2, <2>3
<1>8. QED
  BY <1>6, <1>7

\* A nonempty set of places has a last one.
LEMMA LastPlace ==
  ASSUME NEW n \in Nat, NEW t \in SUBSET (1 .. n), t # {}
  PROVE  Max(t) \in t /\ \A y \in t : y <= Max(t)
<1>1. PICK R : R = OpToRel(<, Nat)
  OBVIOUS
<1>2. IsWellFoundedOn(R, Nat)
  BY <1>1, NatLessThanWellFounded
<1>3. PICK N : N = {n - y : y \in t}
  OBVIOUS
<1>4. N \subseteq Nat /\ N # {}
  <2>1. \A y \in t : n - y \in Nat
    OBVIOUS
  <2>2. N \subseteq Nat
    BY <1>3, <2>1, Zenon
  <2>3. N # {}
    BY <1>3, Zenon
  <2>4. QED
    BY <2>2, <2>3
<1>5. PICK m \in N : \A k \in N : ~ (<<k, m>> \in R)
  BY <1>2, <1>4, WFMin
<1>6. PICK x \in t : m = n - x
  BY <1>3
<1>7. ASSUME NEW y \in t PROVE x >= y
  <2>1. n - y \in N /\ n - y \in Nat /\ m \in Nat
    BY <1>3, <1>4
  <2>2. ~ (n - y < m)
    BY <1>1, <1>5, <2>1 DEF OpToRel
  <2>3. x \in Int /\ y \in Int
    OBVIOUS
  <2>4. QED
    BY <1>6, <2>2, <2>3
<1>8. PICK z : z = Max(t)
  OBVIOUS
<1>9. z \in t /\ \A y \in t : z >= y
  <2>1. \E q \in t : \A y \in t : q >= y
    BY <1>7
  <2>2. z = CHOOSE q \in t : \A y \in t : q >= y
    BY <1>8 DEF Max
  <2>3. QED
    BY <2>1, <2>2, Zenon
<1>10. QED
  BY <1>8, <1>9

\* What runs at some places runs at their subsets.
LEMMA RunsBelow ==
  ASSUME NEW base, NEW s, NEW S, NEW g, Runs(base, s, S, g), NEW T, T \subseteq S
  PROVE  Runs(base, s, T, [t \in SUBSET T |-> g[t]])
<1>1. PICK h : h = [t \in SUBSET T |-> g[t]]
  OBVIOUS
<1>2. ASSUME NEW t \in SUBSET T
      PROVE  h[t] = IF t = {} THEN base ELSE AfterLink(h[t \ {Max(t)}], s[Max(t)])
  <2>1. h[t] = g[t] /\ h[t \ {Max(t)}] = g[t \ {Max(t)}]
    BY <1>1
  <2>2. t \in SUBSET S
    OBVIOUS
  <2>3. g[t] = IF t = {} THEN base ELSE AfterLink(g[t \ {Max(t)}], s[Max(t)])
    BY <2>2 DEF Runs
  <2>4. QED
    BY <2>1, <2>3
<1>3. h = [t \in SUBSET T |-> IF t = {} THEN base ELSE AfterLink(h[t \ {Max(t)}], s[Max(t)])]
  BY <1>1, <1>2
<1>4. QED
  BY <1>1, <1>3 DEF Runs

LEMMA RunsOnce ==
  ASSUME NEW base, NEW s, NEW n \in Nat, NEW S \in SUBSET (1 .. n), NEW g, NEW h, Runs(base, s, S, g), Runs(base, s, S, h)
  PROVE  g = h
<1>1. PICK A : A = {t \in SUBSET S : g[t] # h[t]}
  OBVIOUS
<1>2. CASE A = {}
  <2>1. \A t \in SUBSET S : g[t] = h[t]
    BY <1>1, <1>2
  <2>2. DOMAIN g = SUBSET S /\ DOMAIN h = SUBSET S /\ g = [t \in DOMAIN g |-> g[t]] /\ h = [t \in DOMAIN h |-> h[t]]
    BY DEF Runs
  <2>3. QED
    BY <2>1, <2>2
<1>3. CASE A # {}
  <2>1. \A t \in A : IsFiniteSet(t)
    <3>1. IsFiniteSet(1 .. n)
      BY FS_Interval
    <3>2. \A t \in A : t \subseteq 1 .. n
      BY <1>1
    <3>3. QED
      BY <3>1, <3>2, FS_Subset, Zenon
  <2>2. PICK t \in A : \A u \in A : u \subseteq t => u = t
    BY <1>3, <2>1, Smallest
  <2>3. t \in SUBSET S /\ g[t] # h[t]
    BY <1>1
  <2>4. /\ g[t] = IF t = {} THEN base ELSE AfterLink(g[t \ {Max(t)}], s[Max(t)])
        /\ h[t] = IF t = {} THEN base ELSE AfterLink(h[t \ {Max(t)}], s[Max(t)])
    BY <2>3 DEF Runs
  <2>5. t # {} /\ t \ {Max(t)} \subseteq t /\ t \ {Max(t)} # t
    BY <2>3, <2>4, LastPlace
  <2>6. t \ {Max(t)} \in SUBSET S /\ t \ {Max(t)} \notin A
    BY <2>2, <2>3, <2>5
  <2>7. QED
    BY <1>1, <2>3, <2>4, <2>6
<1>4. QED
  BY <1>2, <1>3

\* What is executed of a sequence is a value at all its places.
LEMMA ExecutedIs ==
  ASSUME NEW base, NEW s, NEW n \in Nat, DOMAIN s = 1 .. n, NEW g, Runs(base, s, 1 .. n, g)
  PROVE  Executed(base, s) = g[1 .. n]
<1>1. PICK k : k = (CHOOSE q : Runs(base, s, DOMAIN s, q))
  OBVIOUS
<1>2. Runs(base, s, 1 .. n, k)
  BY <1>1
<1>3. k = g
  BY <1>2, RunsOnce
<1>4. Executed(base, s) = (CHOOSE q : Runs(base, s, DOMAIN s, q))[DOMAIN s]
  BY Zenon DEF Executed, FoldLeft, MapThenFoldSet, Runs
<1>5. QED
  BY <1>1, <1>3, <1>4

\* Every sequence runs.
LEMMA RunsExist ==
  ASSUME NEW base, NEW s, NEW n \in Nat
  PROVE  \E g : Runs(base, s, 1 .. n, g)
<1>1. PICK A : A = {S \in SUBSET (1 .. n) : ~ \E g : Runs(base, s, S, g)}
  OBVIOUS
<1>2. CASE A = {}
  BY <1>1, <1>2
<1>3. CASE A # {}
  <2>1. \A S \in A : IsFiniteSet(S)
    <3>1. IsFiniteSet(1 .. n)
      BY FS_Interval
    <3>2. \A t \in A : t \subseteq 1 .. n
      BY <1>1
    <3>3. QED
      BY <3>1, <3>2, FS_Subset, Zenon
  <2>2. PICK S \in A : \A u \in A : u \subseteq S => u = S
    BY <1>3, <2>1, Smallest
  <2>3. S \in SUBSET (1 .. n) /\ ~ \E g : Runs(base, s, S, g)
    BY <1>1
  <2>4. PICK own : own = [t \in SUBSET (1 .. n) |-> CHOOSE g : Runs(base, s, t, g)]
    OBVIOUS
  <2>5. ASSUME NEW t \in SUBSET S, t # S PROVE Runs(base, s, t, own[t])
    <3>1. t \in SUBSET (1 .. n) /\ t \notin A
      BY <2>2, <2>3, <2>5
    <3>2. \E g : Runs(base, s, t, g)
      BY <1>1, <3>1
    <3>3. own[t] = CHOOSE g : Runs(base, s, t, g)
      BY <2>4, <3>1
    <3>4. QED
      BY <3>2, <3>3, Zenon
  <2>6. ASSUME NEW t \in SUBSET S, t # S, t # {}
        PROVE  own[t][t] = AfterLink(own[t \ {Max(t)}][t \ {Max(t)}], s[Max(t)])
    <3>1. PICK u : u = t \ {Max(t)}
      OBVIOUS
    <3>2. u \in SUBSET S /\ u # S /\ u \subseteq t
      BY <2>6, <3>1
    <3>3. Runs(base, s, t, own[t]) /\ Runs(base, s, u, own[u])
      BY <2>5, <2>6, <3>2
    <3>4. PICK h : h = [v \in SUBSET u |-> own[t][v]]
      OBVIOUS
    <3>5. Runs(base, s, u, h)
      BY <3>2, <3>3, <3>4, RunsBelow
    <3>6. h = own[u]
      <4>1. u \in SUBSET (1 .. n)
        BY <2>3, <3>2
      <4>2. QED
        BY <3>3, <3>5, <4>1, RunsOnce
    <3>7. own[t][u] = own[u][u]
      BY <3>4, <3>6
    <3>8. own[t][t] = AfterLink(own[t][u], s[Max(t)])
      BY <2>6, <3>1, <3>3 DEF Runs
    <3>9. QED
      BY <3>1, <3>7, <3>8
  <2>7. PICK h : h = [t \in SUBSET S |-> IF t = {} THEN base
                        ELSE AfterLink(own[t \ {Max(t)}][t \ {Max(t)}], s[Max(t)])]
    OBVIOUS
  <2>8. ASSUME NEW t \in SUBSET S, t # {} PROVE h[t \ {Max(t)}] = own[t \ {Max(t)}][t \ {Max(t)}]
    <3>1. PICK u : u = t \ {Max(t)}
      OBVIOUS
    <3>2. u \in SUBSET S /\ u # S
      BY <2>3, <2>8, <3>1, LastPlace
    <3>3. CASE u = {}
      <4>1. h[u] = base
        BY <2>7, <3>2, <3>3
      <4>2. own[u][u] = base
        BY <2>5, <3>2, <3>3 DEF Runs
      <4>3. QED
        BY <3>1, <4>1, <4>2
    <3>4. CASE u # {}
      <4>1. h[u] = AfterLink(own[u \ {Max(u)}][u \ {Max(u)}], s[Max(u)])
        BY <2>7, <3>2, <3>4
      <4>2. QED
        BY <2>6, <3>1, <3>2, <3>4, <4>1
    <3>5. QED
      BY <3>3, <3>4
  <2>9. h = [t \in SUBSET S |-> IF t = {} THEN base ELSE AfterLink(h[t \ {Max(t)}], s[Max(t)])]
    BY <2>7, <2>8
  <2>10. QED
    BY <2>3, <2>9 DEF Runs
<1>4. QED
  BY <1>2, <1>3

\* A link leaves the variables right, and so does a batch of links.
Context(r) == r = [ok |-> r.ok, pool |-> r.pool] /\ PoolRight(r.pool)

LEMMA LinkRight ==
  ASSUME DbRight(db), generation \in Nat, NEW r, Context(r), NEW o, o.type \in QueryTypes
  PROVE  Context(AfterLink(r, o))
<1>1. PICK ok, p : r = [ok |-> ok, pool |-> p] /\ r.ok = ok /\ r.pool = p /\ PoolRight(p)
  BY DEF Context
<1>2. \/ AfterLink(r, o) = [ok |-> FALSE, pool |-> p]
      \/ AfterLink(r, o) = [ok |-> ok, pool |-> Stored(p, o.handle[1], Spoilt(TypeOf(o)))]
      \/ AfterLink(r, o) = [ok |-> ok, pool |-> Stored(p, o.handle[1], Computed(p, o))]
  <2>1. \/ AfterLink(r, o) = [r EXCEPT !.ok = FALSE]
        \/ AfterLink(r, o) = [r EXCEPT !.pool = Stored(p, o.handle[1], Spoilt(TypeOf(o)))]
        \/ AfterLink(r, o) = [r EXCEPT !.pool = Stored(p, o.handle[1], Computed(p, o))]
    BY <1>1, Zenon DEF AfterLink
  <2>2. PICK no : no = FALSE
    OBVIOUS
  <2>3. [r EXCEPT !.ok = no] = [ok |-> no, pool |-> p]
    BY <1>1
  <2>4. \A q : [r EXCEPT !.pool = q] = [ok |-> ok, pool |-> q]
    BY <1>1
  <2>5. QED
    BY <2>1, <2>2, <2>3, <2>4, Zenon
<1>3. VarRight(Spoilt(TypeOf(o))) /\ VarRight(Computed(p, o))
  BY PlainRight, TypesOf, ComputedRight
<1>4. \A v : VarRight(v) => PoolRight(Stored(p, o.handle[1], v))
  BY <1>1, StoredRight
<1>5. \A a, q : PoolRight(q) => Context([ok |-> a, pool |-> q])
  BY DEF Context
<1>6. QED
  BY <1>1, <1>2, <1>3, <1>4, <1>5, Zenon

LEMMA ExecutedRight ==
  ASSUME DbRight(db), generation \in Nat, PoolRight(pool), NEW s \in Seq(Queued)
  PROVE  Context(Executed([ok |-> TRUE, pool |-> pool], s))
<1>1. PICK n \in Nat : n = Len(s) /\ DOMAIN s = 1 .. n
  OBVIOUS
<1>2. PICK base : base = [ok |-> TRUE, pool |-> pool]
  OBVIOUS
<1>3. Context(base)
  BY <1>2 DEF Context
<1>4. PICK g : Runs(base, s, 1 .. n, g)
  BY <1>1, RunsExist
<1>5. PICK A : A = {t \in SUBSET (1 .. n) : ~Context(g[t])}
  OBVIOUS
<1>6. CASE A = {}
  <2>1. 1 .. n \in SUBSET (1 .. n)
    OBVIOUS
  <2>2. Context(g[1 .. n])
    BY <1>5, <1>6, <2>1
  <2>3. Executed(base, s) = g[1 .. n]
    BY <1>1, <1>4, ExecutedIs
  <2>4. QED
    BY <1>2, <2>2, <2>3
<1>7. CASE A # {}
  <2>1. \A t \in A : IsFiniteSet(t)
    <3>1. IsFiniteSet(1 .. n)
      BY FS_Interval
    <3>2. \A t \in A : t \subseteq 1 .. n
      BY <1>5
    <3>3. QED
      BY <3>1, <3>2, FS_Subset, Zenon
  <2>2. PICK t \in A : \A u \in A : u \subseteq t => u = t
    BY <1>7, <2>1, Smallest
  <2>3. t \in SUBSET (1 .. n) /\ ~Context(g[t])
    BY <1>5
  <2>4. g[t] = IF t = {} THEN base ELSE AfterLink(g[t \ {Max(t)}], s[Max(t)])
    BY <1>4, <2>3 DEF Runs
  <2>5. t # {}
    BY <1>3, <2>3, <2>4
  <2>6. Max(t) \in t
    BY <2>3, <2>5, LastPlace
  <2>7. PICK u, o : u = t \ {Max(t)} /\ o = s[Max(t)]
    OBVIOUS
  <2>8. u \in SUBSET (1 .. n) /\ u \subseteq t /\ u # t
    BY <2>3, <2>6, <2>7
  <2>9. Context(g[u])
    BY <1>5, <2>2, <2>8
  <2>10. o \in Queued
    <3>1. PICK k : k = Max(t)
      OBVIOUS
    <3>2. k \in DOMAIN s /\ o = s[k]
      BY <1>1, <2>3, <2>6, <2>7, <3>1
    <3>3. QED
      BY <3>2
  <2>11. o.type \in QueryTypes
    BY <2>10 DEF Queued
  <2>12. Context(AfterLink(g[u], o))
    BY <2>9, <2>11, LinkRight
  <2>13. QED
    BY <2>3, <2>4, <2>5, <2>7, <2>12
<1>8. QED
  BY <1>6, <1>7

-----------------------------------------------------------------------------
(* What a statement does to the session: nothing to the database, or a     *)
(* change of it and nothing else, or the start of a shutdown.              *)
Quiet ==
  /\ UNCHANGED <<db, catalog, files, todo, server, client, generation>>
  /\ PoolRight(pool') /\ BatchRight(graph')
Changed ==
  /\ UNCHANGED <<catalog, files, todo, server, client, pool, graph>>
  /\ DbRight(db')
  /\ (generation' = generation /\ ColumnsStay) \/ generation' = generation + 1
Saves ==
  /\ server' = "saving" /\ catalog' = Empty /\ todo' = Unwritten
  /\ UNCHANGED <<db, files, client, pool, graph, generation>>

LEMMA Assumed == MaxRows \in Nat /\ 0 <= MaxRows
BY CatalogAssumption

LEMMA BatchSteps ==
  ASSUME SessionInv, server = "up", NEW q \in Queries, NEW o, o = Parse(q), Push(o) \/ BatchQuery(o) \/ ExecuteBatch(o)
  PROVE  Abort \/ Quiet
<1>1. DbRight(db) /\ generation \in Nat /\ PoolRight(pool) /\ BatchRight(graph)
  BY DEF SessionInv, StoreInv
<1>2. CASE Push(o) /\ ~Abort
  <2>1. CASE UNCHANGED <<pool, graph>>
    BY <1>1, <1>2, <2>1 DEF Push, Quiet, SameDb, SameSession, dbVars
  <2>2. CASE ~UNCHANGED <<pool, graph>>
    <3>1. /\ o.type \in QueryTypes /\ graph # <<>>
          /\ graph' = <<Append(graph[1], o)>>
          /\ pool' = Stored(pool, o.handle[1], Var(TypeOf(o), <<>>, NoSrc))
          /\ UNCHANGED <<db, catalog, files, todo, server, client, generation>>
      BY <1>2, <2>2 DEF Push, SameDb, SameSession, dbVars
    <3>2. o \in Queued
      BY <3>1 DEF Queued
    <3>3. graph[1] \in Seq(Queued)
      BY <1>1, <3>1 DEF BatchRight
    <3>4. Append(graph[1], o) \in Seq(Queued)
      BY <3>2, <3>3
    <3>5. BatchRight(graph')
      BY <3>1, <3>4 DEF BatchRight
    <3>6. VarRight(Var(TypeOf(o), <<>>, NoSrc))
      BY <3>1, TypesOf, PlainRight
    <3>7. PoolRight(pool')
      BY <1>1, <3>1, <3>6, StoredRight
    <3>8. QED
      BY <3>1, <3>5, <3>7 DEF Quiet
  <2>3. QED
    BY <2>1, <2>2
<1>3. CASE BatchQuery(o)
  <2>1. graph' = << <<>> >> /\ pool' = pool
        /\ UNCHANGED <<db, catalog, files, todo, server, client, generation>>
    BY <1>3 DEF BatchQuery, SameDb, dbVars
  <2>2. <<>> \in Seq(Queued)
    OBVIOUS
  <2>3. BatchRight(graph')
    BY <2>1, <2>2 DEF BatchRight
  <2>4. QED
    BY <1>1, <2>1, <2>3 DEF Quiet
<1>4. CASE ExecuteBatch(o) /\ ~Abort
  <2>1. CASE graph = <<>>
    BY <1>1, <1>4, <2>1 DEF ExecuteBatch, Quiet, SameDb, SameSession, dbVars
  <2>2. CASE graph # <<>>
    <3>1. PICK r : r = Executed([ok |-> TRUE, pool |-> pool], graph[1])
      OBVIOUS
    <3>2. graph[1] \in Seq(Queued)
      BY <1>1, <2>2 DEF BatchRight
    <3>3. Context(r)
      BY <1>1, <3>1, <3>2, ExecutedRight
    <3>4. pool' = r.pool /\ graph' = <<>>
          /\ UNCHANGED <<db, catalog, files, todo, server, client, generation>>
      BY <1>4, <2>2, <3>1 DEF ExecuteBatch, Executed, SameDb, dbVars
    <3>5. QED
      BY <3>3, <3>4 DEF Context, Quiet, BatchRight
  <2>3. QED
    BY <2>1, <2>2
<1>5. QED
  BY <1>2, <1>3, <1>4

LEMMA QuerySteps ==
  ASSUME SessionInv, server = "up", NEW o, Query(o) \/ Join(o) \/ Time(o)
  PROVE  Abort \/ Quiet
<1>1. DbRight(db) /\ generation \in Nat /\ PoolRight(pool) /\ BatchRight(graph)
  BY DEF SessionInv, StoreInv
<1>2. ASSUME UNCHANGED <<db, catalog, files, todo, server, client, generation, graph>>, PoolRight(pool')
      PROVE  Quiet
  BY <1>1, <1>2 DEF Quiet
<1>3. CASE Query(o) /\ ~Abort
  <2>1. UNCHANGED <<db, catalog, files, todo, server, client, generation, graph>>
    BY <1>3 DEF Query, SameDb, SameSession, dbVars
  <2>2. CASE pool' = pool
    BY <1>1, <1>2, <2>1, <2>2
  <2>3. CASE pool' # pool
    <3>1. PICK name, v : /\ v = Computed(pool, o) \/ v = Spoilt(TypeOf(o))
                         /\ pool' = Stored(pool, name, [v EXCEPT !.col = (o.type = "fetch")])
      <4>1. PICK name, good, v : /\ v = IF good THEN Computed(pool, o) ELSE Spoilt(TypeOf(o))
                                 /\ pool' = Stored(pool, name, [v EXCEPT !.col = (o.type = "fetch")])
        BY <1>3, <2>3, Zenon DEF Query, SameSession
      <4>2. QED
        BY <4>1
    <3>2. o.type \in QueryTypes
      BY <1>3 DEF Query
    <3>3. VarRight(Computed(pool, o)) /\ VarRight(Spoilt(TypeOf(o)))
      BY <1>1, <3>2, ComputedRight, TypesOf, PlainRight
    <3>4. VarRight([v EXCEPT !.col = (o.type = "fetch")])
      BY <3>1, <3>3 DEF VarRight, SourceRight
    <3>5. PoolRight(pool')
      BY <1>1, <3>1, <3>4, StoredRight
    <3>6. QED
      BY <1>2, <2>1, <3>5
  <2>4. QED
    BY <2>2, <2>3
<1>4. CASE Join(o)
  <2>1. UNCHANGED <<db, catalog, files, todo, server, client, generation, graph>>
    BY <1>4 DEF Join, SameDb, SameSession, dbVars
  <2>2. CASE pool' = pool
    BY <1>1, <1>2, <2>1, <2>2
  <2>3. CASE pool' # pool
    <3>1. PICK p : p = Stored(Stored(pool, o.handle[1], Emptied), o.handle[2], Emptied)
      OBVIOUS
    <3>2. \/ pool' = p
          \/ \E x, y : pool' = Stored(Stored(p, o.handle[1], Var("select", x, NoSrc)), o.handle[2], Var("select", y, NoSrc))
          \/ pool' = Stored(Stored(p, o.handle[1], Spoilt("select")), o.handle[2], Spoilt("select"))
      BY <1>4, <2>3, <3>1 DEF Join, SameSession, Emptied
    <3>3. VarRight(Emptied) /\ VarRight(Spoilt("select")) /\ \A x : VarRight(Var("select", x, NoSrc))
      BY PlainRight DEF Types, Emptied
    <3>4. PoolRight(p)
      BY <1>1, <3>1, <3>3, StoredRight
    <3>5. PoolRight(pool')
      BY <3>2, <3>3, <3>4, StoredRight
    <3>6. QED
      BY <1>2, <2>1, <3>5
  <2>4. QED
    BY <2>2, <2>3
<1>5. CASE Time(o)
  <2>1. UNCHANGED <<db, catalog, files, todo, server, client, generation, graph>>
    BY <1>5 DEF Time, SameDb, SameSession, dbVars
  <2>2. CASE pool' = pool
    BY <1>1, <1>2, <2>1, <2>2
  <2>3. CASE pool' # pool
    <3>1. \/ pool' = Stored(pool, o.handle[1], Spoilt("time"))
          \/ pool' = Stored(pool, o.handle[1], Var("time", <<>>, NoSrc))
      BY <1>5, <2>3 DEF Time, SameSession
    <3>2. VarRight(Spoilt("time")) /\ VarRight(Var("time", <<>>, NoSrc))
      BY PlainRight DEF Types
    <3>3. PoolRight(pool')
      BY <1>1, <3>1, <3>2, StoredRight
    <3>4. QED
      BY <1>2, <2>1, <3>3
  <2>4. QED
    BY <2>2, <2>3
<1>6. QED
  BY <1>3, <1>4, <1>5

LEMMA CreateSteps ==
  ASSUME SessionInv, NEW q \in Queries, NEW o, o = Parse(q), Create(o) \/ InsertRow(o)
  PROVE  Abort \/ (Changed /\ RowsStay)
<1>1. DbRight(db)
  BY DEF SessionInv, StoreInv
<1>2. /\ o.type = "create_tbl" => o.name \in Names \cup TooLong /\ o.count \in Nat
      /\ o.type = "create_col" => o.name \in Names \cup TooLong
      /\ o.type = "insert" => o.values \in Seq(Int)
  BY StatementsAssumption
<1>3. CASE Create(o)
  <2>1. UNCHANGED <<catalog, files, todo, server, client, pool, graph>>
    BY <1>3 DEF Create, CreateDb, CreateTable, CreateColumn, CreateIndex, Change
  <2>2. CASE o.type = "create_db"
    <3>1. CreateDb(o) /\ generation' = generation + 1
      BY <1>3, <2>2 DEF Create
    <3>2. PICK name : db' = [name |-> name, tables |-> <<>>]
      BY <3>1 DEF CreateDb, NoDb, Dangling
    <3>3. DbRight(db') /\ DOMAIN db'.tables = {}
      BY <3>2, EmptyTables
    <3>4. RowsStay
      BY <3>3 DEF RowsStay
    <3>5. QED
      BY <2>1, <3>1, <3>3, <3>4 DEF Changed
  <2>3. CASE o.type = "create_tbl"
    <3>1. CreateTable(o) /\ generation' = generation
      BY <1>3, <2>3 DEF Create
    <3>2. QED
      BY <1>1, <1>2, <2>1, <2>3, <3>1, CreateTableStays DEF Changed
  <2>4. CASE o.type = "create_col"
    <3>1. CreateColumn(o) /\ generation' = generation
      BY <1>3, <2>4 DEF Create
    <3>2. QED
      BY <1>1, <1>2, <2>1, <2>4, <3>1, CreateColumnStays, Assumed DEF Changed
  <2>5. CASE o.type = "create_idx"
    <3>1. db' = db /\ generation' = generation
      BY <1>3, <2>5 DEF Create, CreateIndex, Change
    <3>2. QED
      BY <1>1, <2>1, <3>1, NothingPut DEF Changed
  <2>6. QED
    BY <1>3, <2>2, <2>3, <2>4, <2>5 DEF Create
<1>4. CASE InsertRow(o) /\ ~Abort
  <2>1. UNCHANGED <<catalog, files, todo, server, client, pool, graph, generation>> /\ o.type = "insert"
    BY <1>4 DEF InsertRow, Insert, Change, SameSession, dbVars
  <2>2. QED
    BY <1>1, <1>2, <1>4, <2>1, InsertStays, Assumed DEF Changed
<1>5. QED
  BY <1>3, <1>4

LEMMA StatementSteps ==
  ASSUME SessionInv, Statement
  PROVE  server = "up" /\ (Abort \/ Quiet \/ (Changed /\ RowsStay) \/ Saves)
<1>1. PICK q \in Queries : LET o == Parse(q) IN
       \/ Malformed(o) \/ RefusedInBatch(o) \/ Push(o) \/ BatchQuery(o) \/ ExecuteBatch(o)
       \/ Query(o) \/ Join(o) \/ PrintVariables(o) \/ Info(o) \/ Time(o)
       \/ Create(o) \/ InsertRow(o) \/ FreedDb(o) \/ LoadQuery(o) \/ Shutdown(o)
  BY DEF Statement
<1>2. PICK o : o = Parse(q)
  OBVIOUS
<1>3. server = "up"
  BY DEF Statement
<1>4. CASE Malformed(o) \/ RefusedInBatch(o) \/ PrintVariables(o) \/ Info(o)
  <2>1. UNCHANGED <<db, catalog, files, todo, server, client, generation, pool, graph>>
    BY <1>4 DEF Malformed, RefusedInBatch, PrintVariables, Info, SameDb, SameSession, dbVars
  <2>2. QED
    BY <1>3, <2>1 DEF Quiet, SessionInv
<1>5. CASE LoadQuery(o) \/ FreedDb(o)
  BY <1>3, <1>5 DEF LoadQuery, FreedDb
<1>6. CASE Shutdown(o)
  BY <1>3, <1>6 DEF Shutdown, BeginSave, Saves
<1>7. QED
  BY <1>1, <1>2, <1>3, <1>4, <1>5, <1>6, BatchSteps, QuerySteps, CreateSteps

\* A file names columns that are there, and then all of the table's.
WholeFiles ==
  \A f \in Files :
    (\A k \in DOMAIN f.header : ColumnExists(<<f.tbl[1], f.tbl[2], f.header[k]>>)) =>
      ColumnNames(f.tbl[2]) \subseteq ToSet(f.header)

LEMMA TransferSteps ==
  ASSUME SessionInv, Transfer
  PROVE  server = "up" /\ (Abort \/ (Changed /\ (WholeFiles => RowsStay)))
<1>1. DbRight(db) /\ generation \in Nat
  BY DEF SessionInv, StoreInv
<1>2. PICK f \in Files :
       IF \A k \in DOMAIN f.header : ColumnExists(<<f.tbl[1], f.tbl[2], f.header[k]>>)
       THEN /\ Load(f.tbl[2], f.header, f.rows)
            /\ generation' = generation + 1
            /\ UNCHANGED <<client, leaving, pool, graph>>
       ELSE Abort
  BY DEF Transfer
<1>3. server = "up"
  BY DEF Transfer
<1>4. CASE \A k \in DOMAIN f.header : ColumnExists(<<f.tbl[1], f.tbl[2], f.header[k]>>)
  <2>1. Load(f.tbl[2], f.header, f.rows) /\ generation' = generation + 1 /\ UNCHANGED <<client, pool, graph>>
    BY <1>2, <1>4
  <2>2. DbRight(db') /\ (ColumnNames(f.tbl[2]) \subseteq ToSet(f.header) => RowsStay)
    BY <1>1, <1>4, <2>1, LoadStays
  <2>3. UNCHANGED <<catalog, files, todo, server>>
    BY <2>1 DEF Load
  <2>4. Changed
    BY <2>1, <2>2, <2>3 DEF Changed
  <2>5. WholeFiles => RowsStay
    BY <1>4, <2>2 DEF WholeFiles
  <2>6. QED
    BY <1>3, <2>4, <2>5
<1>5. QED
  BY <1>2, <1>3, <1>4

-----------------------------------------------------------------------------
(* The invariant. *)
LEMMA SameRight ==
  ASSUME db' = db, generation' = generation, DbRight(db), NEW p, PoolRight(p)
  PROVE  PoolRight(p)'
BY NothingPut, SourceStays DEF PoolRight

LEMMA EmptyRight == PoolRight(<<>>) /\ PoolRight(<<>>)' /\ BatchRight(<<>>) /\ BatchRight(<<>>)'
BY DEF PoolRight, BatchRight

LEMMA QuietKeeps ==
  ASSUME SessionInv, server # "down", Quiet
  PROVE  SessionInv'
<1>1. DbRight(db)' /\ TextRight(catalog)' /\ FilesRight(files)'
  BY DEF SessionInv, StoreInv, Quiet, DbRight, TextRight, FilesRight
<1>2. SaveRight => SaveRight'
  <2>1. Unwritten' = Unwritten /\ \A id : ColumnData(id)' = ColumnData(id)
    BY SameColumns DEF Quiet
  <2>2. QED
    BY <2>1 DEF Quiet, SaveRight
<1>3. StoreInv'
  BY <1>1, <1>2 DEF SessionInv, StoreInv, Quiet
<1>4. PoolRight(pool)'
  <2>1. PICK p : p = pool'
    OBVIOUS
  <2>2. PoolRight(p) /\ DbRight(db) /\ db' = db /\ generation' = generation
    BY <2>1 DEF Quiet, SessionInv, StoreInv
  <2>3. PoolRight(p)'
    BY <2>2, SameRight
  <2>4. QED
    BY <2>1, <2>3
<1>5. BatchRight(graph)'
  BY DEF Quiet, BatchRight
<1>6. QED
  BY <1>3, <1>4, <1>5 DEF SessionInv, Quiet

LEMMA ChangedKeeps ==
  ASSUME SessionInv, server = "up", Changed
  PROVE  SessionInv'
<1>1. DbRight(db)' /\ TextRight(catalog)' /\ FilesRight(files)' /\ server' = "up"
  BY DEF SessionInv, StoreInv, Changed, DbRight, TextRight, FilesRight
<1>2. StoreInv'
  BY <1>1 DEF StoreInv
<1>3. PoolRight(pool)'
  <2>1. \A v : VarRight(v) => VarRight(v)'
    BY SourceStays, SourceOld DEF Changed, SessionInv, StoreInv
  <2>2. pool' = pool
    BY DEF Changed
  <2>3. QED
    BY <2>1, <2>2 DEF SessionInv, PoolRight
<1>4. generation' \in Nat /\ client' \in {"none", "connected"} /\ BatchRight(graph)'
  BY DEF Changed, SessionInv, BatchRight
<1>5. QED
  BY <1>1, <1>2, <1>3, <1>4 DEF SessionInv

LEMMA SavesKeeps ==
  ASSUME SessionInv, Saves
  PROVE  SessionInv'
<1>1. DbRight(db)' /\ TextRight(catalog)' /\ FilesRight(files)' /\ server' = "saving"
  BY DEF SessionInv, StoreInv, Saves, DbRight, TextRight, FilesRight, Empty
<1>2. SaveRight'
  <2>1. Unwritten' = Unwritten
    BY SameColumns DEF Saves
  <2>2. QED
    BY <2>1 DEF Saves, SaveRight
<1>3. StoreInv'
  BY <1>1, <1>2 DEF StoreInv
<1>4. PoolRight(pool)'
  <2>1. PoolRight(pool) /\ DbRight(db) /\ db' = db /\ generation' = generation /\ pool' = pool
    BY DEF Saves, SessionInv, StoreInv
  <2>2. PICK p : p = pool
    OBVIOUS
  <2>3. PoolRight(p)'
    BY <2>1, <2>2, SameRight
  <2>4. QED
    BY <2>1, <2>2, <2>3
<1>5. QED
  BY <1>1, <1>3, <1>4 DEF SessionInv, Saves, BatchRight

LEMMA KilledKeeps ==
  ASSUME SessionInv, Killed, Reset
  PROVE  SessionInv'
<1>1. /\ server' = "down" /\ db' = NoDb /\ catalog' = catalog /\ files' = files
      /\ client' = "none" /\ pool' = <<>> /\ graph' = <<>> /\ generation' = 0
  BY DEF Killed, Reset
<1>2. DbRight(db')
  BY <1>1, EmptyTables DEF NoDb
<1>3. TextRight(catalog)' /\ FilesRight(files)'
  BY <1>1 DEF SessionInv, StoreInv, TextRight, FilesRight
<1>4. StoreInv'
  BY <1>1, <1>2, <1>3 DEF StoreInv
<1>5. PoolRight(pool)' /\ BatchRight(graph)'
  BY <1>1 DEF PoolRight, BatchRight
<1>6. QED
  BY <1>1, <1>4, <1>5 DEF SessionInv

LEMMA SavingKeeps ==
  ASSUME SessionInv, Saving
  PROVE  /\ SessionInv' /\ UNCHANGED db
         /\ server = "saving" /\ server' \in {"saving", "up"}
         /\ \/ server' = "saving" /\ OnDisk' = OnDisk
            \/ server' = "up" /\ OnDisk' = Contents(db)
<1>1. StoreInv
  BY DEF SessionInv
<1>2. /\ StoreInv' /\ UNCHANGED db /\ server = "saving"
      /\ \/ server' = "saving" /\ OnDisk' = OnDisk
         \/ server' = "up" /\ OnDisk' = Contents(db)
  <2>1. CASE RemoveFile
    BY <1>1, <2>1, RemoveFileKeeps DEF RemoveFile
  <2>2. CASE WriteFile
    BY <1>1, <2>2, WriteFileKeeps DEF WriteFile
  <2>3. CASE EndSave
    BY <1>1, <2>3, EndSaveKeeps DEF EndSave
  <2>4. QED
    BY <2>1, <2>2, <2>3 DEF Saving
<1>3. UNCHANGED <<client, pool, graph, generation>>
  BY DEF Saving, sessionVars
<1>4. PoolRight(pool)'
  <2>1. PICK p : p = pool
    OBVIOUS
  <2>2. PoolRight(p) /\ DbRight(db)
    BY <2>1 DEF SessionInv, StoreInv
  <2>3. PoolRight(p)'
    BY <1>2, <1>3, <2>2, SameRight
  <2>4. QED
    BY <1>3, <2>1, <2>3
<1>5. QED
  BY <1>2, <1>3, <1>4 DEF SessionInv, BatchRight

LEMMA StartKeeps ==
  ASSUME SessionInv, Start
  PROVE  SessionInv' /\ Contents(db') = OnDisk /\ OnDisk' = OnDisk /\ server = "down" /\ server' = "up" /\ db = NoDb
<1>1. Startup /\ UNCHANGED <<client, pool, graph, generation>>
  BY DEF Start, sessionVars
<1>2. server = "down" /\ server' = "up" /\ UNCHANGED <<catalog, files>>
  BY <1>1 DEF Startup
<1>3. TextRight(catalog) /\ FilesRight(files) /\ pool = <<>> /\ db = NoDb
  BY <1>2 DEF SessionInv, StoreInv
<1>4. DbRight(db') /\ Contents(db') = DiskOf(catalog, files)
  BY <1>1, <1>3, Started, Assumed
<1>5. StoreInv'
  BY <1>2, <1>3, <1>4 DEF StoreInv, TextRight, FilesRight
<1>6. PoolRight(pool)' /\ BatchRight(graph)'
  BY <1>1, <1>3 DEF PoolRight, BatchRight, SessionInv
<1>7. SessionInv'
  BY <1>1, <1>2, <1>5, <1>6 DEF SessionInv
<1>8. OnDisk' = OnDisk
  BY <1>2 DEF OnDisk
<1>9. QED
  BY <1>2, <1>3, <1>4, <1>7, <1>8, DiskIs

Idle ==
  /\ UNCHANGED <<db, catalog, files, todo, server, pool, graph, generation>>
  /\ client' \in {client, "connected"}

LEMMA IdleKeeps ==
  ASSUME SessionInv, Idle
  PROVE  SessionInv'
<1>1. DbRight(db)' /\ TextRight(catalog)' /\ FilesRight(files)'
  BY DEF SessionInv, StoreInv, Idle, DbRight, TextRight, FilesRight
<1>2. SaveRight => SaveRight'
  <2>1. Unwritten' = Unwritten /\ \A id : ColumnData(id)' = ColumnData(id)
    BY SameColumns DEF Idle
  <2>2. QED
    BY <2>1 DEF Idle, SaveRight
<1>3. StoreInv'
  BY <1>1, <1>2 DEF SessionInv, StoreInv, Idle
<1>4. PoolRight(pool)'
  <2>1. PICK p : p = pool
    OBVIOUS
  <2>2. PoolRight(p) /\ DbRight(db) /\ db' = db /\ generation' = generation
    BY <2>1 DEF Idle, SessionInv, StoreInv
  <2>3. PoolRight(p)'
    BY <2>2, SameRight
  <2>4. QED
    BY <2>1, <2>3 DEF Idle
<1>5. BatchRight(graph)'
  BY DEF Idle, SessionInv, BatchRight
<1>6. QED
  BY <1>3, <1>4, <1>5 DEF SessionInv, Idle

LEMMA DisconnectKeeps ==
  ASSUME SessionInv, Disconnect, ~leaving
  PROVE  SessionInv' /\ server = "up" /\ UNCHANGED <<server, db, catalog, files>>
<1>1. /\ server = "up" /\ UNCHANGED <<db, catalog, files, todo, server>>
      /\ client' = "none" /\ pool' = <<>> /\ graph' = <<>> /\ generation' = 0
  BY DEF Disconnect, Reset, SameDb, dbVars
<1>2. StoreInv'
  BY <1>1 DEF SessionInv, StoreInv, DbRight, TextRight, FilesRight
<1>3. PoolRight(pool)' /\ BatchRight(graph)'
  BY <1>1 DEF PoolRight, BatchRight
<1>4. QED
  BY <1>1, <1>2, <1>3 DEF SessionInv

LEMMA SessionFirst ==
  ASSUME SessionInit
  PROVE  SessionInv
<1>1. PICK disk \in Disks : catalog = disk.catalog /\ files = disk.files
  BY DEF SessionInit
<1>2. TextRight(catalog)
  <2>1. catalog.kind \in {"missing", "empty", "text"}
    BY <1>1, DisksAssumption
  <2>2. CASE catalog.kind = "text"
    <3>1. /\ catalog.tables \in Seq(Lists)
          /\ Distinct([k \in DOMAIN catalog.tables |-> catalog.tables[k].name])
          /\ \A k \in DOMAIN catalog.tables : Distinct(catalog.tables[k].columns)
      BY <1>1, <2>2, DisksAssumption DEF Lists
    <3>2. \A j, k \in DOMAIN catalog.tables : catalog.tables[j].name = catalog.tables[k].name => j = k
      BY <3>1 DEF Distinct
    <3>3. QED
      BY <2>1, <3>1, <3>2 DEF TextRight
  <2>3. QED
    BY <2>1, <2>2 DEF TextRight
<1>3. FilesRight(files)
  BY <1>1, DisksAssumption DEF FilesRight
<1>4. DbRight(NoDb)
  BY EmptyTables DEF NoDb
<1>5. QED
  BY <1>2, <1>3, <1>4, EmptyRight DEF SessionInit, SessionInv, StoreInv

(* A step of the session, by what it does to the store. *)
Steps ==
  \/ server # "down" /\ Killed /\ Reset
  \/ server = "up" /\ Quiet
  \/ server = "up" /\ Changed
  \/ server = "up" /\ Saves
  \/ Saving
  \/ Start
  \/ Disconnect /\ ~leaving
  \/ Idle

LEMMA SessionSteps ==
  ASSUME SessionInv, [SessionNext]_allVars
  PROVE  Steps
<1>1. CASE Statement
  BY <1>1, StatementSteps DEF Steps, Abort
<1>2. CASE Transfer
  BY <1>2, TransferSteps DEF Steps, Abort
<1>3. CASE Connect
  BY <1>3 DEF Steps, Idle, Connect, SameDb, dbVars
<1>4. CASE Disconnect
  BY <1>4 DEF Steps, Disconnect
<1>5. CASE Crash
  BY <1>5 DEF Steps, Crash
<1>6. CASE Saving \/ Start \/ UNCHANGED allVars
  BY <1>6 DEF Steps, Idle, allVars, dbVars, sessionVars
<1>7. QED
  BY <1>1, <1>2, <1>3, <1>4, <1>5, <1>6 DEF SessionNext

LEMMA SessionStep ==
  ASSUME SessionInv, [SessionNext]_allVars
  PROVE  SessionInv'
<1>1. CASE server # "down" /\ Killed /\ Reset
  BY <1>1, KilledKeeps
<1>2. CASE server = "up" /\ Quiet
  BY <1>2, QuietKeeps
<1>3. CASE server = "up" /\ Changed
  BY <1>3, ChangedKeeps
<1>4. CASE server = "up" /\ Saves
  BY <1>4, SavesKeeps
<1>5. CASE Saving
  BY <1>5, SavingKeeps
<1>6. CASE Start
  BY <1>6, StartKeeps
<1>7. CASE Disconnect /\ ~leaving
  BY <1>7, DisconnectKeeps
<1>8. CASE Idle
  BY <1>8, IdleKeeps
<1>9. QED
  BY <1>1, <1>2, <1>3, <1>4, <1>5, <1>6, <1>7, <1>8, SessionSteps DEF Steps

LEMMA SessionAlways == SessionSpec => []SessionInv
BY SessionFirst, SessionStep, PTL DEF SessionSpec

LEMMA RightNow ==
  ASSUME SessionInv
  PROVE  SelectionsStayRight
<1>1. SessionOK
  <2>1. server \in {"down", "up", "saving"} /\ client \in {"none", "connected"}
    BY DEF SessionInv, StoreInv
  <2>2. \A n \in DOMAIN pool : pool[n].type \in {"select", "fetch", "aggregate", "time"}
    BY DEF SessionInv, PoolRight, VarRight
  <2>3. ASSUME NEW t \in TableNames
        PROVE  /\ ToSet(db.tables[t].order) = ColumnNames(t)
               /\ Len(db.tables[t].order) <= db.tables[t].count
               /\ \A c \in ColumnNames(t) : Len(db.tables[t].data[c]) <= MaxRows
    <3>1. TableRight(db.tables[t])
      BY <2>3 DEF SessionInv, StoreInv, DbRight, TableNames
    <3>2. QED
      BY <3>1 DEF TableRight, Data, ColumnNames
  <2>4. QED
    BY <2>1, <2>2, <2>3 DEF SessionOK
<1>2. ASSUME NEW n \in DOMAIN pool, pool[n].ok, pool[n].src # NoSrc, StillThere(pool[n].src)
      PROVE  IF pool[n].src.kind = "select"
             THEN pool[n].data = Positions(SubSeq(ColumnData(pool[n].src.col), 1, pool[n].src.size),
                                           pool[n].src.low, pool[n].src.high)
             ELSE pool[n].data = [k \in DOMAIN pool[n].src.at |->
                                    ColumnData(pool[n].src.col)[pool[n].src.at[k] + 1]]
  <2>1. PICK v : v = pool[n]
    OBVIOUS
  <2>2. SourceRight(v) /\ v.src.gen = generation
    BY <1>2, <2>1 DEF SessionInv, PoolRight, VarRight, StillThere
  <2>3. QED
    BY <2>1, <2>2 DEF SourceRight
<1>3. QED
  BY <1>1, <1>2 DEF SelectionsStayRight

(* Positions and fetched values stay what they say of their column. *)
THEOREM SelectionsAreRight == SessionSpec => []SelectionsStayRight
BY SessionAlways, RightNow, PTL

LEMMA NoTables ==
  ASSUME db = NoDb \/ db' = NoDb
  PROVE  RowsStay
<1>1. DOMAIN NoDb.tables = {}
  BY EmptyTables DEF NoDb
<1>2. QED
  BY <1>1 DEF RowsStay, TableNames

LEMMA RowsStep ==
  ASSUME SessionInv, WholeFiles, [SessionNext]_allVars
  PROVE  RowsStay
<1>1. CASE Statement
  BY <1>1, StatementSteps, NothingPut, NoTables DEF Abort, Killed, Quiet, Saves
<1>2. CASE Transfer
  BY <1>2, TransferSteps, NoTables DEF Abort, Killed
<1>3. CASE Connect \/ Disconnect
  BY <1>3, NothingPut, NoTables DEF Connect, Disconnect, Killed, SameDb, dbVars
<1>4. CASE Crash
  BY <1>4, NoTables DEF Crash, Killed
<1>5. CASE Start
  BY <1>5, StartKeeps, NoTables
<1>6. CASE Saving
  BY <1>6, SavingKeeps, NothingPut
<1>7. CASE UNCHANGED allVars
  BY <1>7, NothingPut DEF allVars, dbVars
<1>8. QED
  BY <1>1, <1>2, <1>3, <1>4, <1>5, <1>6, <1>7 DEF SessionNext

(* Rows stay together, when clients transfer files of whole tables. *)
THEOREM RowsStayTogether == SessionSpec /\ []WholeFiles => RowsTogether
<1>1. SessionInv /\ WholeFiles /\ [SessionNext]_allVars =>
        [\A t \in TableNames \cap DOMAIN db'.tables :
           (DOMAIN db'.tables[t].data = ColumnNames(t) /\ Aligned(db.tables, t)) => Aligned(db'.tables, t)]_db
  BY RowsStep DEF RowsStay
<1>2. QED
  BY <1>1, SessionAlways, PTL DEF SessionSpec, RowsTogether

LEMMA StoreStep ==
  ASSUME SessionInv, SessionInv', [SessionNext]_allVars
  PROVE  [Store!StoreNext]_<<server # "down", Contents(db), OnDisk>>
<1>1. Steps
  BY SessionSteps
<1>2. PICK running, later : running = (server # "down") /\ later = (server' # "down")
  OBVIOUS
<1>3. CASE server # "down" /\ Killed /\ Reset
  <2>1. OnDisk' = OnDisk /\ Contents(db') = <<>>
    <3>1. DOMAIN NoDb.tables = {}
      BY EmptyTables DEF NoDb
    <3>2. Contents(NoDb) = <<>>
      BY <3>1, EmptyTables DEF Contents, Maps
    <3>3. QED
      BY <1>3, <3>2 DEF Killed, OnDisk
  <2>2. Store!Stop
    BY <1>3, <2>1 DEF Killed, Store!Stop, Contents
  <2>3. QED
    BY <2>2 DEF Store!StoreNext
<1>4. CASE server = "up" /\ (Quiet \/ Changed)
  <2>1. server' = "up" /\ OnDisk' = OnDisk
    BY <1>4 DEF Quiet, Changed, OnDisk
  <2>2. Store!Change
    BY <1>4, <2>1 DEF Store!Change
  <2>3. QED
    BY <2>2 DEF Store!StoreNext
<1>5. CASE server = "up" /\ Saves
  <2>1. server' = "saving" /\ Contents(db)' = Contents(db) /\ OnDisk' = <<>>
    BY <1>5 DEF Saves, Contents, OnDisk, Empty
  <2>2. Store!BeginSave
    BY <1>5, <2>1 DEF Store!BeginSave
  <2>3. QED
    BY <2>2 DEF Store!StoreNext
<1>6. CASE Saving
  <2>1. /\ server = "saving" /\ server' # "down" /\ Contents(db)' = Contents(db)
        /\ OnDisk' = OnDisk \/ OnDisk' = Contents(db)
    BY <1>6, SavingKeeps DEF Contents
  <2>2. Store!EndSave \/ Store!Change
    BY <2>1 DEF Store!EndSave, Store!Change
  <2>3. QED
    BY <2>2 DEF Store!StoreNext
<1>7. CASE Start
  <2>1. server = "down" /\ server' = "up" /\ Contents(db)' = OnDisk /\ OnDisk' = OnDisk
    BY <1>7, StartKeeps DEF Contents
  <2>2. Store!Start
    BY <2>1 DEF Store!Start
  <2>3. QED
    BY <2>2 DEF Store!StoreNext
<1>8. CASE (Disconnect /\ ~leaving) \/ Idle
  <2>1. UNCHANGED <<server, db, catalog, files>>
    BY <1>8, DisconnectKeeps DEF Idle
  <2>2. UNCHANGED <<server # "down", Contents(db), OnDisk>>
    BY <2>1 DEF Contents, OnDisk
  <2>3. QED
    BY <2>2
<1>9. QED
  BY <1>1, <1>3, <1>4, <1>5, <1>6, <1>7, <1>8 DEF Steps

(* A server starts with what the last completed shutdown saved. *)
THEOREM StoreIsDurable == SessionSpec => ImplementsStore
<1>1. SessionInit => Store!StoreInit
  <2>1. Contents(NoDb) = <<>>
    <3>1. DOMAIN NoDb.tables = {}
      BY EmptyTables DEF NoDb
    <3>2. QED
      BY <3>1, EmptyTables DEF Contents, Maps
  <2>2. QED
    BY <2>1 DEF SessionInit, Store!StoreInit
<1>2. SessionInv /\ SessionInv' /\ [SessionNext]_allVars =>
        [Store!StoreNext]_<<server # "down", Contents(db), OnDisk>>
  BY StoreStep
<1>3. QED
  BY <1>1, <1>2, SessionAlways, PTL DEF SessionSpec, ImplementsStore, Store!StoreSpec
=============================================================================
