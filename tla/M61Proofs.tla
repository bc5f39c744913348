----------------------------- MODULE M61Proofs -----------------------------
(***************************************************************************)
(* The debugging allocator keeps its blocks, for every size of memory and  *)
(* every program that calls it: what is in a block stays, the reports are  *)
(* of the blocks and the calls there are, and frees are judged rightly.    *)
(***************************************************************************)
EXTENDS M61, FiniteSetTheorems, WellFoundedInduction, TLAPS

-----------------------------------------------------------------------------
(* The inductive invariant says where blocks are: those of the program and *)
(* those that wait to be reused lie apart from each other, in memory the   *)
(* system has given out.  It is stated of any heap h, the blocks l the     *)
(* program has in it and the pointers fr it has freed, because realloc     *)
(* goes through heaps that no step ends in.                                *)

Fields == {"mem", "allocs", "base", "frees", "low", "high", "nactive", "active_size", "ntotal",
           "total_size", "nfail", "fail_size", "heap_min", "heap_max", "hits", "total"}

Shaped(h) ==
  /\ DOMAIN h = Fields /\ DOMAIN h.mem = 0 .. MemSize - 1
  /\ h.low \in Nat /\ h.high \in Nat /\ h.low <= h.high /\ h.high <= MemSize
  /\ h.heap_min \in Nat /\ h.heap_max \in Nat
  /\ \A a \in DOMAIN h.mem : h.mem[a].kind \in {"byte", "sz", "line", "ff"}

\* What the program knows of a block is a record, with as many cells as the block has.
Known(b) ==
  /\ DOMAIN b = {"size", "line", "content", "past"} /\ b.size \in Nat
  /\ DOMAIN b.content = 1 .. b.size

\* The cells of a block, metadata and padding included: the first and how many.
Span(p, b) == <<p - Meta, b.size + Meta + Pad>>
Apart(s, t) == s[1] + s[2] <= t[1] \/ t[1] + t[2] <= s[1]
GivenOut(h, s) ==
  /\ s \in Nat \X Nat /\ s[2] >= Meta + Pad
  /\ s[1] + s[2] <= h.low \/ (h.high <= s[1] /\ s[1] + s[2] <= MemSize)

Laid(h, l) ==
  /\ h.allocs = DOMAIN l /\ h.base = {Span(p, l[p]) : p \in DOMAIN l}
  /\ \A p \in DOMAIN l : p \in Nat /\ Known(l[p]) /\ GivenOut(h, Span(p, l[p]))
  /\ \A p, q \in DOMAIN l : p # q => Apart(Span(p, l[p]), Span(q, l[q]))
  /\ \A f \in h.frees : GivenOut(h, f) /\ \A p \in DOMAIN l : Apart(f, Span(p, l[p]))
  /\ \A f, g \in h.frees : f # g => Apart(f, g)

\* A block is in memory as the program knows it.
Whole(h, p, b) ==
  /\ h.mem[p - 2] = Cell("sz", b.size) /\ h.mem[p - 1] = Cell("line", b.line)
  /\ \A i \in 1 .. b.size : b.content[i] # Undefined => h.mem[p + i - 1] = ByteOf(b.content[i])
  /\ h.mem[p + b.size] = b.past

\* A block that was freed shows it until it is reused.
Erased(h, l, fr) ==
  /\ \A f \in h.frees : h.mem[f[1]] = FF /\ h.mem[f[1] + 1] = FF
  /\ \A p \in fr \ DOMAIN l : \E f \in h.frees : f[1] = p - Meta

Bounded(h, l) ==
  /\ \A p \in DOMAIN l : h.heap_min <= p /\ p + l[p].size <= h.heap_max
  /\ \A f \in h.frees : h.heap_min <= f[1] + Meta /\ f[1] + Meta <= h.heap_max

Counted(h, l) == IsFiniteSet(DOMAIN l) /\ h.nactive = Cardinality(DOMAIN l)

Sound(h, l, fr) ==
  /\ Shaped(h) /\ Laid(h, l)
  /\ \A p \in DOMAIN l : Whole(h, p, l[p])
  /\ Erased(h, l, fr) /\ Bounded(h, l) /\ Counted(h, l)

Whys == {"none", "not_in_heap", "double_free", "not_allocated", "wild_write", "segfault", "realloc"}

IInv == Sound(heap, live, freed) /\ freed \subseteq Nat /\ verdict.why \in Whys

-----------------------------------------------------------------------------
(* Numbers.                                                                *)

\* A size with what a block adds to it that comes out larger has not wrapped.
LEMMA TotalIs ==
  ASSUME NEW n \in 0 .. Modulus - 1, (n + Meta + Pad) % Modulus > n
  PROVE  (n + Meta + Pad) % Modulus = n + Meta + Pad
<1>1. Modulus \in Nat /\ Modulus > 3 /\ n \in Nat /\ n < Modulus /\ n + Meta + Pad = n + 3
  BY CallsTyped DEF Meta, Pad
<1>2. CASE n + 3 < Modulus
  BY <1>1, <1>2
<1>3. CASE n + 3 >= Modulus
  <2>1. n + 3 - Modulus \in 0 .. 2 /\ n + 3 - Modulus < Modulus
    BY <1>1, <1>3
  <2>2. (n + 3) % Modulus = n + 3 - Modulus
    BY <1>1, <2>1
  <2>3. QED
    BY <1>1, <2>1, <2>2
<1>4. QED
  BY <1>1, <1>2, <1>3

\* Nor has the product of two sizes that both are at most what came out, when that is small.
LEMMA ProductIs ==
  ASSUME NEW n \in Nat, NEW sz \in Nat, n <= (n * sz) % Modulus, sz <= (n * sz) % Modulus,
         (n * sz) % Modulus < MaxMalloc
  PROVE  (n * sz) % Modulus = n * sz
<1>1. Modulus \in Nat /\ Modulus > 3 /\ MaxMalloc \in Nat
  BY CallsTyped
<1>2. n < MaxMalloc /\ sz < MaxMalloc /\ n * sz \in Nat /\ (n * sz) % Modulus \in Nat
  BY <1>1
<1>3. n * sz <= n * MaxMalloc
  BY <1>1, <1>2
<1>4. n * MaxMalloc < MaxMalloc * MaxMalloc
  BY <1>1, <1>2
<1>5. MaxMalloc * MaxMalloc <= Modulus
  BY SizesDoNotWrap
<1>6. n * MaxMalloc \in Nat /\ MaxMalloc * MaxMalloc \in Nat
  BY <1>1
<1>7. n * sz < Modulus
  BY <1>1, <1>2, <1>3, <1>4, <1>5, <1>6
<1>8. QED
  BY <1>1, <1>2, <1>7

\* Rests: what a size_t is of a number.
LEMMA DivIs ==
  ASSUME NEW M \in Nat \ {0}, NEW x \in Nat
  PROVE  /\ x \div M \in Nat /\ x % M \in 0 .. M - 1
         /\ x = M * (x \div M) + (x % M)
<1>1. M > 0 /\ M \in Int /\ x \in Int
  OBVIOUS
<1>2. x % M \in 0 .. M - 1
  BY <1>1
<1>4. x = M * (x \div M) + (x % M)
  BY <1>1
<1>3. x \div M \in Int
  BY <1>1
<1>5. x \div M >= 0
  BY <1>1, <1>2,<1>3
<1>6. QED
  BY <1>2, <1>3, <1>4, <1>5

LEMMA RestIs ==
  ASSUME NEW M \in Nat \ {0}, NEW k \in Nat, NEW r \in 0 .. M - 1
  PROVE  ((M * k) + r) % M = r
<1>1. PICK x, q, s : x = M * k + r /\ q = x \div M /\ s = x % M
  OBVIOUS
<1>2. x \in Nat
  BY <1>1
<1>3. q \in Nat /\ s \in 0 .. M - 1 /\ x = M * q + s
  BY <1>1, <1>2, DivIs
<1>4. CASE q > k
  <2>1. M * q >= M * (k + 1)
    BY <1>3, <1>4
  <2>2. M * (k + 1) = M * k + M
    OBVIOUS
  <2>3. M * q \in Nat /\ M * k \in Nat /\ r \in Nat /\ s \in Nat /\ r < M
    BY <1>3
  <2>4. QED
    BY <1>1, <1>3, <2>1, <2>2, <2>3
<1>5. CASE k > q
  <2>1. M * k >= M * (q + 1)
    BY <1>3, <1>5
  <2>2. M * (q + 1) = M * q + M
    BY <1>3
  <2>3. M * q \in Nat /\ M * k \in Nat /\ r \in Nat /\ s \in Nat /\ s < M
    BY <1>3
  <2>4. QED
    BY <1>1, <1>3, <2>1, <2>2, <2>3
<1>6. CASE k = q
  BY <1>1, <1>3, <1>6
<1>7. QED
  BY <1>3, <1>4, <1>5, <1>6

\* A size_t that a number is added to is that of their sum.
LEMMA ModAdd ==
  ASSUME NEW M \in Nat \ {0}, NEW x \in Nat, NEW d \in Nat
  PROVE  ((x % M) + d) % M = (x + d) % M
<1>1. PICK q, r, y : q = x \div M /\ r = x % M /\ y = r + d
  OBVIOUS
<1>2. q \in Nat /\ r \in 0 .. M - 1 /\ x = M * q + r
  BY <1>1, DivIs
<1>3. y \in Nat
  BY <1>1, <1>2
<1>4. PICK k, s : k = y \div M /\ s = y % M
  OBVIOUS
<1>5. k \in Nat /\ s \in 0 .. M - 1 /\ y = M * k + s
  BY <1>3, <1>4, DivIs
<1>6. x + d = M * (q + k) + s
  <2>1. M * (q + k) = M * q + M * k /\ M * q \in Nat /\ M * k \in Nat
    BY <1>2, <1>5
  <2>2. QED
    BY <1>1, <1>2, <1>5, <2>1
<1>7. (x + d) % M = s
  <2>1. q + k \in Nat
    BY <1>2, <1>5
  <2>2. (M * (q + k) + s) % M = s
    BY <1>5, <2>1, RestIs
  <2>3. QED
    BY <1>6, <2>2
<1>8. QED
  BY <1>1, <1>4, <1>7

\* Two sizes that grow by the same, one of them a part of the other.
LEMMA BothGrow ==
  ASSUME NEW rest \in Nat, NEW part \in Nat, NEW d \in Nat
  PROVE  (((rest + part) % Modulus) + d) % Modulus = (rest + ((part + d) % Modulus)) % Modulus
<1>1. PICK M \in Nat \ {0} : M = Modulus
  BY CallsTyped
<1>2. (((rest + part) % M) + d) % M = ((rest + part) + d) % M
  <2>1. rest + part \in Nat
    OBVIOUS
  <2>2. PICK x \in Nat : x = rest + part
    BY <2>1
  <2>3. ((x % M) + d) % M = (x + d) % M
    BY ModAdd
  <2>4. QED
    BY <2>2, <2>3
<1>3. (((part + d) % M) + rest) % M = ((part + d) + rest) % M
  <2>1. part + d \in Nat
    OBVIOUS
  <2>2. PICK x \in Nat : x = part + d
    BY <2>1
  <2>3. ((x % M) + rest) % M = (x + rest) % M
    BY ModAdd
  <2>4. QED
    BY <2>2, <2>3
<1>4. (part + d) % M \in Nat
  BY DivIs
<1>5. (rest + part) + d = (part + d) + rest /\ rest + ((part + d) % M) = ((part + d) % M) + rest
  BY <1>4
<1>6. QED
  BY <1>1, <1>2, <1>3, <1>5

\* The larger and the smaller of two numbers.
LEMMA MaxMin ==
  ASSUME NEW a \in Nat, NEW b \in Nat
  PROVE  /\ Max({a, b}) \in Nat /\ Max({a, b}) >= a /\ Max({a, b}) >= b
         /\ Min({a, b}) \in Nat /\ Min({a, b}) <= a /\ Min({a, b}) <= b /\ Min({a, b}) \in {a, b}
<1>1. \E x \in {a, b} : \A y \in {a, b} : x >= y
  OBVIOUS
<1>2. \E x \in {a, b} : \A y \in {a, b} : x =< y
  OBVIOUS
<1>3. Max({a, b}) \in {a, b} /\ \A y \in {a, b} : Max({a, b}) >= y
  BY <1>1 DEF Max
<1>4. Min({a, b}) \in {a, b} /\ \A y \in {a, b} : Min({a, b}) =< y
  BY <1>2 DEF Min
<1>5. QED
  BY <1>3, <1>4

\* The least of a set of numbers.
LEMMA MinIs ==
  ASSUME NEW S, S \subseteq Nat, S # {}
  PROVE  Min(S) \in S /\ \A y \in S : Min(S) <= y
<1>1. PICK R : R = OpToRel(<, Nat)
  OBVIOUS
<1>2. IsWellFoundedOn(R, Nat)
  BY <1>1, NatLessThanWellFounded
<1>3. PICK x \in S : \A y \in S : ~ (<<y, x>> \in R)
  BY <1>2, WFMin
<1>4. \A a, b \in Nat : a < b => <<a, b>> \in R
  BY <1>1 DEF OpToRel
<1>5. \A y \in S : ~ (y < x)
  BY <1>3, <1>4
<1>6. \A y \in S : x =< y
  BY <1>5
<1>7. QED
  BY <1>6 DEF Min

-----------------------------------------------------------------------------
(* The base allocator.                                                     *)

\* Only the fields of the base allocator differ.
SameButBase(g, h) ==
  /\ g.mem = h.mem /\ g.allocs = h.allocs /\ g.nactive = h.nactive
  /\ g.heap_min = h.heap_min /\ g.heap_max = h.heap_max

\* What base_malloc gives lies apart from all there is, in memory given out.
LEMMA BaseMallocIs ==
  ASSUME NEW h, NEW l, Shaped(h), Laid(h, l), NEW n \in Nat, n >= Meta + Pad,
         NEW b \in BaseMalloc(h, n), b.ok
  PROVE  /\ Shaped(b.h) /\ SameButBase(b.h, h)
         /\ b.h.base = h.base \cup {<<b.at, n>>}
         /\ b.h.frees \subseteq h.frees /\ \A f \in h.frees : f \in b.h.frees \/ f[1] = b.at
         /\ h.low <= b.h.low /\ b.h.high <= h.high
         /\ b.at \in Nat /\ GivenOut(b.h, <<b.at, n>>)
         /\ \A p \in DOMAIN l : Apart(<<b.at, n>>, Span(p, l[p]))
         /\ \A f \in b.h.frees : Apart(<<b.at, n>>, f)
<1>0. /\ DOMAIN h = Fields /\ h.low \in Nat /\ h.high \in Nat /\ h.low <= h.high /\ h.high <= MemSize
      /\ MemSize \in Nat
  BY MemoryFits DEF Shaped
<1> DEFINE Reused(f) == [h EXCEPT !.frees = @ \ {f}, !.base = @ \cup {<<f[1], n>>}]
           Bottom == [h EXCEPT !.low = @ + n, !.base = @ \cup {<<h.low, n>>}]
           Top == [h EXCEPT !.high = @ - n, !.base = @ \cup {<<h.high - n, n>>}]
<1>1. \/ \E f \in h.frees : f[2] >= n /\ b = [h |-> Reused(f), at |-> f[1], ok |-> TRUE]
      \/ h.low + n <= h.high /\ b = [h |-> Bottom, at |-> h.low, ok |-> TRUE]
      \/ h.low + n <= h.high /\ b = [h |-> Top, at |-> h.high - n, ok |-> TRUE]
  <2> DEFINE None == [h |-> h, at |-> 0, ok |-> FALSE]
             Old(f) == [h |-> Reused(f), at |-> f[1], ok |-> TRUE]
             Low == [h |-> Bottom, at |-> h.low, ok |-> TRUE]
             High == [h |-> Top, at |-> h.high - n, ok |-> TRUE]
  <2>1. BaseMalloc(h, n) = {Old(f) : f \in {g \in h.frees : g[2] >= n}}
                             \cup (IF h.low + n > h.high THEN {None} ELSE {Low, High})
    BY Zenon DEF BaseMalloc
  <2>2. ~None.ok
    OBVIOUS
  <2> HIDE DEF Reused, Bottom, Top, None, Old, Low, High
  <2>3. (\E f \in h.frees : f[2] >= n /\ b = Old(f)) \/ (h.low + n <= h.high /\ b \in {Low, High})
    <3>1. b # None
      BY <2>2
    <3>2. CASE h.low + n > h.high
      BY <2>1, <3>1, <3>2
    <3>3. CASE ~ (h.low + n > h.high)
      BY <1>0, <2>1, <3>3
    <3>4. QED
      BY <3>2, <3>3
  <2>4. QED
    BY <2>3 DEF Old, Low, High
<1>2. CASE \E f \in h.frees : f[2] >= n /\ b = [h |-> Reused(f), at |-> f[1], ok |-> TRUE]
  <2>1. PICK f \in h.frees : f[2] >= n /\ b = [h |-> Reused(f), at |-> f[1], ok |-> TRUE]
    BY <1>2
  <2>2. /\ DOMAIN Reused(f) = Fields /\ SameButBase(Reused(f), h) /\ Reused(f).low = h.low
        /\ Reused(f).high = h.high /\ Reused(f).base = h.base \cup {<<f[1], n>>}
        /\ Reused(f).frees = h.frees \ {f}
    BY <1>0 DEF Fields, SameButBase
  <2>3. b.h = Reused(f) /\ b.at = f[1]
    BY <2>1
  <2> HIDE DEF Reused
  <2>4. Shaped(b.h)
    BY <2>2, <2>3 DEF Shaped, SameButBase
  <2>5. GivenOut(h, f) /\ f[1] \in Nat /\ f[2] \in Nat
    BY DEF Laid, GivenOut
  <2>6. GivenOut(b.h, <<b.at, n>>)
    BY <1>0, <2>1, <2>2, <2>3, <2>5 DEF GivenOut
  <2>7. ASSUME NEW p \in DOMAIN l PROVE Apart(<<b.at, n>>, Span(p, l[p]))
    <3>1. Apart(f, Span(p, l[p])) /\ p \in Nat /\ l[p].size \in Nat
      BY DEF Laid, Known
    <3>2. QED
      BY <2>1, <2>3, <2>5, <3>1 DEF Apart, Span, Meta, Pad
  <2>8. ASSUME NEW g \in b.h.frees PROVE Apart(<<b.at, n>>, g)
    <3>1. g \in h.frees /\ g # f
      BY <2>2, <2>3
    <3>2. Apart(f, g) /\ g[1] \in Nat /\ g[2] \in Nat
      BY <3>1 DEF Laid, GivenOut
    <3>3. QED
      BY <2>1, <2>3, <2>5, <3>2 DEF Apart
  <2>9. QED
    BY <1>0, <2>2, <2>3, <2>4, <2>5, <2>6, <2>7, <2>8
<1>3. ASSUME h.low + n <= h.high, NEW at \in {h.low, h.high - n}, b.at = at,
             /\ DOMAIN b.h = Fields /\ SameButBase(b.h, h) /\ b.h.frees = h.frees
             /\ b.h.base = h.base \cup {<<at, n>>},
             \/ b.h.low = h.low + n /\ b.h.high = h.high /\ at = h.low
             \/ b.h.low = h.low /\ b.h.high = h.high - n /\ at = h.high - n
      PROVE  /\ Shaped(b.h) /\ SameButBase(b.h, h)
             /\ b.h.base = h.base \cup {<<b.at, n>>}
             /\ b.h.frees \subseteq h.frees /\ \A f \in h.frees : f \in b.h.frees \/ f[1] = b.at
             /\ h.low <= b.h.low /\ b.h.high <= h.high
             /\ b.at \in Nat /\ GivenOut(b.h, <<b.at, n>>)
             /\ \A p \in DOMAIN l : Apart(<<b.at, n>>, Span(p, l[p]))
             /\ \A f \in b.h.frees : Apart(<<b.at, n>>, f)
  <2>1. /\ b.at \in Nat /\ b.h.low \in Nat /\ b.h.high \in Nat /\ b.h.low <= b.h.high
        /\ b.h.high <= MemSize /\ h.low <= b.h.low /\ b.h.high <= h.high
        /\ h.low <= b.at /\ b.at + n <= h.high
    BY <1>0, <1>3
  <2>2. Shaped(b.h)
    BY <1>3, <2>1 DEF Shaped, SameButBase
  <2>3. GivenOut(b.h, <<b.at, n>>)
    BY <1>0, <1>3, <2>1 DEF GivenOut
  <2>4. ASSUME NEW s, GivenOut(h, s) PROVE Apart(<<b.at, n>>, s)
    <3>1. s[1] \in Nat /\ s[2] \in Nat /\ (s[1] + s[2] <= h.low \/ h.high <= s[1])
      BY <2>4 DEF GivenOut
    <3>2. QED
      BY <1>0, <2>1, <3>1 DEF Apart
  <2>5. /\ \A p \in DOMAIN l : GivenOut(h, Span(p, l[p]))
        /\ \A f \in h.frees : GivenOut(h, f)
    BY DEF Laid
  <2>6. QED
    BY <1>3, <2>1, <2>2, <2>3, <2>4, <2>5
<1>4. CASE h.low + n <= h.high /\ b = [h |-> Bottom, at |-> h.low, ok |-> TRUE]
  <2>1. /\ DOMAIN Bottom = Fields /\ SameButBase(Bottom, h) /\ Bottom.low = h.low + n
        /\ Bottom.high = h.high /\ Bottom.base = h.base \cup {<<h.low, n>>}
        /\ Bottom.frees = h.frees
    BY <1>0 DEF Fields, SameButBase
  <2>2. b.h = Bottom /\ b.at = h.low
    BY <1>4
  <2> HIDE DEF Bottom
  <2>3. QED
    BY <1>3, <1>4, <2>1, <2>2
<1>5. CASE h.low + n <= h.high /\ b = [h |-> Top, at |-> h.high - n, ok |-> TRUE]
  <2>1. /\ DOMAIN Top = Fields /\ SameButBase(Top, h) /\ Top.low = h.low
        /\ Top.high = h.high - n /\ Top.base = h.base \cup {<<h.high - n, n>>}
        /\ Top.frees = h.frees
    BY <1>0 DEF Fields, SameButBase
  <2>2. b.h = Top /\ b.at = h.high - n
    BY <1>5
  <2> HIDE DEF Top
  <2>3. QED
    BY <1>3, <1>5, <2>1, <2>2
<1>6. QED
  BY <1>1, <1>2, <1>4, <1>5

\* What fails leaves the heap.
LEMMA NoneIs ==
  ASSUME NEW h, NEW n, NEW b \in BaseMalloc(h, n), ~b.ok
  PROVE  b.h = h
<1> DEFINE Old(f) == [h |-> [h EXCEPT !.frees = @ \ {f}, !.base = @ \cup {<<f[1], n>>}], at |-> f[1], ok |-> TRUE]
           Low == [h |-> [h EXCEPT !.low = @ + n, !.base = @ \cup {<<h.low, n>>}], at |-> h.low, ok |-> TRUE]
           High == [h |-> [h EXCEPT !.high = @ - n, !.base = @ \cup {<<h.high - n, n>>}],
                    at |-> h.high - n, ok |-> TRUE]
           None == [h |-> h, at |-> 0, ok |-> FALSE]
<1>1. BaseMalloc(h, n) = {Old(f) : f \in {g \in h.frees : g[2] >= n}}
                           \cup (IF h.low + n > h.high THEN {None} ELSE {Low, High})
  BY Zenon DEF BaseMalloc
<1>2. (\A f : Old(f).ok) /\ Low.ok /\ High.ok /\ None.h = h
  OBVIOUS
<1> HIDE DEF Old, Low, High, None
<1>3. QED
  BY <1>1, <1>2

\* Where a block of the program is.
LEMMA SpanIs ==
  ASSUME NEW h, NEW l, Shaped(h), Laid(h, l), NEW q \in DOMAIN l
  PROVE  /\ q \in Nat /\ l[q].size \in Nat /\ q - 2 \in Nat /\ q + l[q].size + 1 <= MemSize
         /\ Span(q, l[q])[1] = q - 2 /\ Span(q, l[q])[2] = l[q].size + 3
<1>1. q \in Nat /\ l[q].size \in Nat /\ GivenOut(h, Span(q, l[q]))
  BY DEF Laid, Known
<1>2. Span(q, l[q])[1] = q - 2 /\ Span(q, l[q])[2] = l[q].size + 3
  BY <1>1 DEF Span, Meta, Pad
<1>3. /\ Span(q, l[q])[1] \in Nat
      /\ Span(q, l[q])[1] + Span(q, l[q])[2] <= h.low \/ Span(q, l[q])[1] + Span(q, l[q])[2] <= MemSize
  BY <1>1 DEF GivenOut
<1>4. h.low \in Nat /\ h.high \in Nat /\ h.low <= h.high /\ h.high <= MemSize /\ MemSize \in Nat
  BY MemoryFits DEF Shaped
<1>5. (q - 2) + (l[q].size + 3) <= MemSize
  BY <1>1, <1>2, <1>3, <1>4
<1>6. QED
  BY <1>1, <1>2, <1>3, <1>4, <1>5

-----------------------------------------------------------------------------
(* m61_malloc.                                                             *)

\* What samples and statistics change, no block depends on.
SameBlocks(g, h) ==
  /\ DOMAIN g = Fields /\ g.mem = h.mem /\ g.allocs = h.allocs /\ g.base = h.base
  /\ g.frees = h.frees /\ g.low = h.low /\ g.high = h.high /\ g.nactive = h.nactive
  /\ g.heap_min = h.heap_min /\ g.heap_max = h.heap_max

\* The invariant looks at no other field.
LEMMA SameIsSound ==
  ASSUME NEW h, NEW g, NEW l, NEW fr, Sound(h, l, fr), SameBlocks(g, h)
  PROVE  Sound(g, l, fr)
<1>1. Shaped(g)
  BY DEF Sound, Shaped, SameBlocks
<1>2. Laid(g, l)
  BY DEF Sound, Laid, GivenOut, SameBlocks
<1>3. \A p \in DOMAIN l : Whole(g, p, l[p])
  BY DEF Sound, Whole, SameBlocks
<1>4. Erased(g, l, fr) /\ Bounded(g, l) /\ Counted(g, l)
  BY DEF Sound, Erased, Bounded, Counted, SameBlocks
<1>5. QED
  BY <1>1, <1>2, <1>3, <1>4 DEF Sound

\* A sample touches no block.
LEMMA AddIs ==
  ASSUME NEW h, NEW line, NEW sz, DOMAIN h = Fields, NEW a \in Add(h, line, sz)
  PROVE  SameBlocks(a, h)
BY DEF Add, SameBlocks, Fields

\* A call that fails touches no block.
LEMMA FailedIs ==
  ASSUME NEW h, NEW sz, DOMAIN h = Fields
  PROVE  SameBlocks(Failed(h, sz), h)
BY DEF Failed, SameBlocks, Fields

\* The block that is placed at what base_malloc gave.
Places(h, l, fr, n, line, b, g, p) ==
  /\ Sound(h, l, fr) /\ fr \subseteq Nat /\ n \in Nat
  /\ b \in BaseMalloc(h, n + Meta + Pad) /\ b.ok
  /\ g = Placed(b.h, b.at, n, line) /\ p = b.at + Meta
LEMMA PlacedIs ==
  ASSUME NEW h, NEW l, NEW fr, NEW n, NEW line, NEW b, NEW g, NEW p, Places(h, l, fr, n, line, b, g, p)
  PROVE  /\ Sound(g, With(l, p, Block(n, line, Blank(n))), fr)
         /\ p \in Nat /\ p # Null /\ p \notin DOMAIN l
         /\ \A a \in 0 .. MemSize - 1 : a \notin {p - 2, p - 1, p + n} => g.mem[a] = h.mem[a]
         /\ \A f \in h.frees : f[1] = p - Meta \/ Apart(<<p - Meta, n + Meta + Pad>>, f)
<1> DEFINE new == Block(n, line, Blank(n))
           k == With(l, p, new)
<1>0. /\ Shaped(h) /\ Laid(h, l) /\ (\A q \in DOMAIN l : Whole(h, q, l[q])) /\ Erased(h, l, fr)
      /\ Bounded(h, l) /\ Counted(h, l) /\ n + Meta + Pad \in Nat /\ n + Meta + Pad = n + 3
      /\ n + Meta + Pad >= Meta + Pad /\ MemSize \in Nat
      /\ Sound(h, l, fr) /\ fr \subseteq Nat /\ n \in Nat /\ b.ok /\ b \in BaseMalloc(h, n + Meta + Pad)
      /\ g = Placed(b.h, b.at, n, line) /\ p = b.at + Meta
  BY MemoryFits DEF Sound, Meta, Pad, Places
<1>1. /\ Shaped(b.h) /\ SameButBase(b.h, h)
      /\ b.h.base = h.base \cup {<<b.at, n + Meta + Pad>>}
      /\ b.h.frees \subseteq h.frees /\ \A f \in h.frees : f \in b.h.frees \/ f[1] = b.at
      /\ h.low <= b.h.low /\ b.h.high <= h.high
      /\ b.at \in Nat /\ GivenOut(b.h, <<b.at, n + Meta + Pad>>)
      /\ \A q \in DOMAIN l : Apart(<<b.at, n + Meta + Pad>>, Span(q, l[q]))
      /\ \A f \in b.h.frees : Apart(<<b.at, n + Meta + Pad>>, f)
  BY <1>0, BaseMallocIs
<1>2. /\ p \in Nat /\ p - Meta = b.at /\ p # Null /\ p - 2 = b.at /\ p - 1 = b.at + 1
  BY <1>0, <1>1 DEF Meta, Null
<1>3. /\ DOMAIN g = Fields
      /\ g.mem = [b.h.mem EXCEPT ![b.at] = Cell("sz", n), ![b.at + 1] = Cell("line", line), ![p + n] = FF]
      /\ g.allocs = b.h.allocs \cup {p} /\ g.nactive = b.h.nactive + 1
      /\ g.heap_max = Max({b.h.heap_max, p + n}) /\ g.heap_min = Min({b.h.heap_min, p})
      /\ g.base = b.h.base /\ g.frees = b.h.frees /\ g.low = b.h.low /\ g.high = b.h.high
  <2>1. g = [b.h EXCEPT !.mem = [@ EXCEPT ![b.at] = Cell("sz", n), ![b.at + 1] = Cell("line", line), ![p + n] = FF],
            !.allocs = @ \cup {p},
            !.nactive = @ + 1, !.ntotal = @ + 1, !.active_size = @ + n, !.total_size = (@ + n) % Modulus,
            !.heap_max = Max({@, p + n}), !.heap_min = Min({@, p})]
    BY <1>0, Zenon DEF Placed
  <2>2. DOMAIN b.h = Fields
    BY <1>1 DEF Shaped
  <2>3. QED
    BY <2>1, <2>2 DEF Fields
<1>4. /\ b.at \in 0 .. MemSize - 1 /\ b.at + 1 \in 0 .. MemSize - 1 /\ p + n \in 0 .. MemSize - 1
      /\ b.at # p + n /\ b.at + 1 # p + n /\ b.at # b.at + 1
  <2>1. b.at + (n + 3) <= MemSize
    <3>1. b.at + (n + Meta + Pad) <= b.h.low \/ b.at + (n + Meta + Pad) <= MemSize
      BY <1>1 DEF GivenOut
    <3>2. b.h.low \in Nat /\ b.h.high \in Nat /\ b.h.low <= b.h.high /\ b.h.high <= MemSize
      BY <1>1 DEF Shaped
    <3>3. n + Meta + Pad = n + 3 /\ n \in Nat /\ b.at \in Nat /\ MemSize \in Nat
      BY <1>0, <1>1
    <3>4. QED
      BY <3>1, <3>2, <3>3
  <2>2. QED
    BY <1>0, <1>1, <1>2, <2>1 DEF Meta
<1>5. /\ DOMAIN g.mem = 0 .. MemSize - 1
      /\ g.mem[p - 2] = Cell("sz", n) /\ g.mem[p - 1] = Cell("line", line) /\ g.mem[p + n] = FF
      /\ \A a \in 0 .. MemSize - 1 : a \notin {p - 2, p - 1, p + n} => g.mem[a] = h.mem[a]
  <2>1. DOMAIN b.h.mem = 0 .. MemSize - 1 /\ b.h.mem = h.mem
    BY <1>1 DEF Shaped, SameButBase
  <2>2. /\ DOMAIN g.mem = 0 .. MemSize - 1
        /\ g.mem[b.at] = Cell("sz", n) /\ g.mem[b.at + 1] = Cell("line", line) /\ g.mem[p + n] = FF
        /\ \A a \in 0 .. MemSize - 1 : a \notin {b.at, b.at + 1, p + n} => g.mem[a] = b.h.mem[a]
    <3>1. PICK M, N : M = b.h.mem /\ N = g.mem
      OBVIOUS
    <3>2. N = [M EXCEPT ![b.at] = Cell("sz", n), ![b.at + 1] = Cell("line", line), ![p + n] = FF]
      BY <1>3, <3>1
    <3>3. DOMAIN M = 0 .. MemSize - 1
      BY <2>1, <3>1
    <3>4. PICK x, y, z : x = b.at /\ y = b.at + 1 /\ z = p + n
      OBVIOUS
    <3>5. /\ x \in 0 .. MemSize - 1 /\ y \in 0 .. MemSize - 1 /\ z \in 0 .. MemSize - 1
          /\ x # y /\ x # z /\ y # z
          /\ N = [M EXCEPT ![x] = Cell("sz", n), ![y] = Cell("line", line), ![z] = FF]
      BY <1>4, <3>2, <3>4
    <3>6. /\ DOMAIN N = 0 .. MemSize - 1 /\ N[x] = Cell("sz", n) /\ N[y] = Cell("line", line) /\ N[z] = FF
          /\ \A a \in 0 .. MemSize - 1 : a \notin {x, y, z} => N[a] = M[a]
      BY <3>3, <3>5
    <3>7. QED
      BY <3>1, <3>4, <3>6
  <2>3. QED
    BY <1>2, <2>1, <2>2
<1>6. Shaped(g) /\ p + n \in Nat
  <2>1. p + n \in Nat /\ b.h.heap_min \in Nat /\ b.h.heap_max \in Nat
    <3>1. b.h.heap_min \in Nat /\ b.h.heap_max \in Nat
      BY <1>1 DEF Shaped
    <3>2. n \in Nat /\ p \in Nat
      BY <1>0, <1>2
    <3>3. QED
      BY <3>1, <3>2
  <2>2. g.heap_min \in Nat /\ g.heap_max \in Nat
    <3>1. Max({b.h.heap_max, p + n}) \in Nat /\ Min({b.h.heap_min, p}) \in Nat
      BY <1>2, <2>1, MaxMin, Zenon
    <3>2. QED
      BY <1>3, <3>1
  <2>3. \A a \in 0 .. MemSize - 1 : g.mem[a].kind \in {"byte", "sz", "line", "ff"}
    <3>1. /\ Cell("sz", n).kind = "sz" /\ Cell("line", line).kind = "line" /\ FF.kind = "ff"
      BY DEF Cell, FF
    <3>2. \A a \in 0 .. MemSize - 1 : h.mem[a].kind \in {"byte", "sz", "line", "ff"}
      BY <1>0 DEF Shaped
    <3>3. QED
      BY <1>5, <3>1, <3>2
  <2>4. QED
    BY <1>1, <1>3, <1>5, <2>1, <2>2, <2>3 DEF Shaped
<1>7. \A q \in DOMAIN l : /\ Apart(<<p - Meta, n + Meta + Pad>>, Span(q, l[q]))
                          /\ q \in Nat /\ l[q].size \in Nat /\ GivenOut(h, Span(q, l[q]))
  BY <1>0, <1>1, <1>2 DEF Laid, Known
<1>8. p \notin DOMAIN l
  <2>1. ASSUME NEW q \in DOMAIN l PROVE p # q
    <3>1. /\ q \in Nat /\ l[q].size \in Nat
          /\ (p - 2) + (n + 3) <= q - 2 \/ (q - 2) + (l[q].size + 3) <= p - 2
      BY <1>0, <1>2, <1>7, SpanIs DEF Apart, Meta
    <3>2. QED
      BY <1>0, <1>2, <3>1
  <2>2. QED
    BY <2>1
<1>9. /\ DOMAIN k = DOMAIN l \cup {p} /\ k[p] = new /\ \A q \in DOMAIN l : k[q] = l[q]
  BY <1>8 DEF With
<1>10. Known(new) /\ new.size = n /\ new.line = line /\ new.past = FF
       /\ \A i \in 1 .. n : new.content[i] = Undefined
  BY <1>0 DEF Block, Known, Blank
<1>11. Span(p, new) = <<p - Meta, n + Meta + Pad>> /\ Span(p, new) = <<b.at, n + Meta + Pad>>
  BY <1>2, <1>10 DEF Span
<1> HIDE DEF new, k
<1>12. Laid(g, k)
  <2>1. \A s : GivenOut(h, s) => GivenOut(g, s)
    <3>1. /\ h.low \in Nat /\ h.high \in Nat /\ g.low \in Nat /\ g.high \in Nat
          /\ h.low <= g.low /\ g.high <= h.high
      BY <1>0, <1>1, <1>3 DEF Shaped
    <3>2. ASSUME NEW s, GivenOut(h, s) PROVE GivenOut(g, s)
      <4>1. s \in Nat \X Nat /\ s[1] \in Nat /\ s[2] \in Nat
        BY <3>2 DEF GivenOut
      <4>2. QED
        BY <1>0, <3>1, <3>2, <4>1 DEF GivenOut
    <3>3. QED
      BY <3>2
  <2>2. g.allocs = DOMAIN k
    BY <1>0, <1>1, <1>3, <1>9 DEF Laid, SameButBase
  <2>3. g.base = {Span(q, k[q]) : q \in DOMAIN k}
    <3>1. g.base = {Span(q, l[q]) : q \in DOMAIN l} \cup {Span(p, new)}
      BY <1>0, <1>1, <1>3, <1>11 DEF Laid
    <3>2. {Span(q, k[q]) : q \in DOMAIN k} = {Span(q, l[q]) : q \in DOMAIN l} \cup {Span(p, new)}
      BY <1>9
    <3>3. QED
      BY <3>1, <3>2
  <2>4. GivenOut(g, Span(p, new))
    BY <1>1, <1>3, <1>11 DEF GivenOut
  <2>5. \A q \in DOMAIN k : q \in Nat /\ Known(k[q]) /\ GivenOut(g, Span(q, k[q]))
    BY <1>0, <1>2, <1>9, <1>10, <2>1, <2>4 DEF Laid
  <2>6. \A q \in DOMAIN l : Apart(Span(p, new), Span(q, l[q])) /\ Apart(Span(q, l[q]), Span(p, new))
    BY <1>7, <1>11 DEF Apart
  <2>7. \A q, r \in DOMAIN k : q # r => Apart(Span(q, k[q]), Span(r, k[r]))
    BY <1>0, <1>9, <2>6 DEF Laid
  <2>8. \A f \in g.frees : GivenOut(g, f) /\ \A q \in DOMAIN k : Apart(f, Span(q, k[q]))
    <3>1. SUFFICES ASSUME NEW f \in g.frees PROVE GivenOut(g, f) /\ \A q \in DOMAIN k : Apart(f, Span(q, k[q]))
      OBVIOUS
    <3>2. f \in h.frees /\ f \in b.h.frees
      BY <1>1, <1>3
    <3>3. GivenOut(g, f) /\ \A q \in DOMAIN l : Apart(f, Span(q, l[q]))
      BY <1>0, <2>1, <3>2 DEF Laid
    <3>4. Apart(f, Span(p, new))
      BY <1>1, <1>11, <3>2 DEF Apart
    <3>5. QED
      BY <1>9, <3>3, <3>4
  <2>9. \A f, e \in g.frees : f # e => Apart(f, e)
    BY <1>0, <1>1, <1>3 DEF Laid
  <2>10. QED
    BY <2>2, <2>3, <2>5, <2>7, <2>8, <2>9 DEF Laid
<1>13. ASSUME NEW q \in DOMAIN l PROVE Whole(g, q, l[q])
  <2>1. /\ q \in Nat /\ l[q].size \in Nat /\ q - 2 \in Nat
        /\ (p + n + 1 <= q - 2 \/ q + l[q].size + 1 <= p - 2) /\ q + l[q].size + 1 <= MemSize
    <3>1. /\ q \in Nat /\ l[q].size \in Nat /\ q - 2 \in Nat
          /\ (p - 2) + (n + 3) <= q - 2 \/ (q - 2) + (l[q].size + 3) <= p - 2
      BY <1>0, <1>2, <1>7, SpanIs DEF Apart, Meta
    <3>2. (q - 2) + (l[q].size + 3) <= MemSize
      BY <1>0, <3>1, SpanIs
    <3>3. QED
      BY <1>0, <1>2, <3>1, <3>2
  <2>2. \A a \in (q - 2) .. (q + l[q].size) : g.mem[a] = h.mem[a]
    <3>1. SUFFICES ASSUME NEW a \in (q - 2) .. (q + l[q].size) PROVE g.mem[a] = h.mem[a]
      OBVIOUS
    <3>2. a \in 0 .. MemSize - 1 /\ a \notin {p - 2, p - 1, p + n}
      BY <1>0, <1>2, <2>1
    <3>3. QED
      BY <1>5, <3>2
  <2>3. /\ g.mem[q - 2] = h.mem[q - 2] /\ g.mem[q - 1] = h.mem[q - 1]
        /\ g.mem[q + l[q].size] = h.mem[q + l[q].size]
        /\ \A i \in 1 .. l[q].size : g.mem[q + i - 1] = h.mem[q + i - 1]
    BY <2>1, <2>2
  <2>4. Whole(h, q, l[q])
    BY <1>0
  <2>5. QED
    BY <2>3, <2>4 DEF Whole
<1>14. Whole(g, p, new)
  BY <1>5, <1>10 DEF Whole
<1>15. Erased(g, k, fr)
  <2>1. ASSUME NEW f \in g.frees PROVE g.mem[f[1]] = FF /\ g.mem[f[1] + 1] = FF
    <3>1. f \in h.frees /\ f \in b.h.frees /\ Apart(<<b.at, n + Meta + Pad>>, f) /\ GivenOut(h, f)
      BY <1>0, <1>1, <1>3 DEF Laid
    <3>2. h.mem[f[1]] = FF /\ h.mem[f[1] + 1] = FF
      BY <1>0, <3>1 DEF Erased
    <3>3. /\ f[1] \in Nat /\ f[2] \in Nat /\ f[2] >= 3 /\ f[1] + f[2] <= MemSize
          /\ (b.at + (n + 3) <= f[1] \/ f[1] + f[2] <= b.at)
      <4>1. f[1] \in Nat /\ f[2] \in Nat /\ f[2] >= 3 /\ f[1] + f[2] <= MemSize
        <5>1. f \in Nat \X Nat /\ f[2] >= 3 /\ (f[1] + f[2] <= h.low \/ f[1] + f[2] <= MemSize)
          BY <3>1 DEF GivenOut, Meta, Pad
        <5>2. h.low \in Nat /\ h.high \in Nat /\ h.low <= h.high /\ h.high <= MemSize
          BY <1>0 DEF Shaped
        <5>3. QED
          BY <5>1, <5>2, MemoryFits
      <4>2. b.at + (n + Meta + Pad) <= f[1] \/ f[1] + f[2] <= b.at
        BY <3>1 DEF Apart
      <4>3. QED
        BY <1>0, <4>1, <4>2
    <3>4. /\ f[1] \in 0 .. MemSize - 1 /\ f[1] + 1 \in 0 .. MemSize - 1
          /\ f[1] \notin {p - 2, p - 1, p + n} /\ f[1] + 1 \notin {p - 2, p - 1, p + n}
      BY <1>0, <1>1, <1>2, <3>3 DEF Meta
    <3>5. QED
      BY <1>5, <3>2, <3>4
  <2>2. ASSUME NEW q \in fr \ DOMAIN k PROVE \E f \in g.frees : f[1] = q - Meta
    <3>1. q \in fr \ DOMAIN l /\ q # p
      BY <1>9
    <3>2. PICK f \in h.frees : f[1] = q - Meta
      BY <1>0, <3>1 DEF Erased
    <3>3. CASE f \in b.h.frees
      BY <1>3, <3>2, <3>3
    <3>4. CASE f[1] = b.at
      <4>1. q - Meta = p - Meta /\ q \in Nat
        BY <1>0, <1>2, <3>1, <3>2, <3>4
      <4>2. QED
        BY <3>1, <4>1, <1>2 DEF Meta
    <3>5. QED
      BY <1>1, <3>3, <3>4
  <2>3. QED
    BY <2>1, <2>2 DEF Erased
<1>16. Bounded(g, k)
  <2>1. /\ h.heap_min \in Nat /\ h.heap_max \in Nat /\ b.h.heap_min = h.heap_min
        /\ b.h.heap_max = h.heap_max
    BY <1>0, <1>1 DEF Shaped, SameButBase
  <2>2. /\ g.heap_min \in Nat /\ g.heap_max \in Nat /\ g.heap_min <= h.heap_min
        /\ h.heap_max <= g.heap_max /\ g.heap_min <= p /\ p + n <= g.heap_max
    <3>1. /\ Max({h.heap_max, p + n}) >= h.heap_max /\ Max({h.heap_max, p + n}) >= p + n
          /\ Min({h.heap_min, p}) <= h.heap_min /\ Min({h.heap_min, p}) <= p
      BY <1>2, <1>6, <2>1, MaxMin, Zenon
    <3>2. /\ g.heap_min \in Nat /\ g.heap_max \in Nat
      BY <1>6 DEF Shaped
    <3>3. QED
      BY <1>2, <1>3, <1>6, <2>1, <3>1, <3>2
  <2>3. ASSUME NEW q \in DOMAIN k PROVE g.heap_min <= q /\ q + k[q].size <= g.heap_max
    BY <1>0, <1>2, <1>7, <1>9, <1>10, <2>1, <2>2 DEF Bounded
  <2>4. ASSUME NEW f \in g.frees PROVE g.heap_min <= f[1] + Meta /\ f[1] + Meta <= g.heap_max
    <3>1. f \in h.frees /\ f[1] \in Nat /\ h.heap_min <= f[1] + Meta /\ f[1] + Meta <= h.heap_max
      BY <1>0, <1>1, <1>3 DEF Laid, GivenOut, Bounded
    <3>2. f[1] + Meta \in Nat
      BY <3>1 DEF Meta
    <3>3. QED
      BY <2>1, <2>2, <3>1, <3>2
  <2>5. QED
    BY <2>3, <2>4 DEF Bounded
<1>17. Counted(g, k)
  BY <1>0, <1>1, <1>3, <1>8, <1>9, FS_AddElement DEF Counted, SameButBase
<1>18. Sound(g, k, fr)
  BY <1>6, <1>9, <1>12, <1>13, <1>14, <1>15, <1>16, <1>17 DEF Sound
<1>19. \A f \in h.frees : f[1] = p - Meta \/ Apart(<<p - Meta, n + Meta + Pad>>, f)
  BY <1>1, <1>2
<1>20. QED
  BY <1>2, <1>5, <1>8, <1>18, <1>19 DEF k, new

\* m61_malloc as a whole: what it gives, if anything, is a new block, and no cell but the three
\* of its metadata and padding changes.
Given(h, l, fr, n, line, m) ==
  /\ m = [h |-> m.h, ptr |-> m.ptr]
  /\ m.ptr = Null => Sound(m.h, l, fr)
  /\ m.ptr # Null =>
       /\ n + Meta + Pad < MaxMalloc /\ m.ptr \in Nat /\ m.ptr \notin DOMAIN l
       /\ Sound(m.h, With(l, m.ptr, Block(n, line, Blank(n))), fr)
       /\ \A a \in 0 .. MemSize - 1 : a \notin {m.ptr - 2, m.ptr - 1, m.ptr + n} => m.h.mem[a] = h.mem[a]
       /\ \A f \in h.frees : f[1] = m.ptr - Meta \/ Apart(<<m.ptr - Meta, n + Meta + Pad>>, f)
LEMMA MallocIs ==
  ASSUME NEW h, NEW l, NEW fr, Sound(h, l, fr), fr \subseteq Nat, NEW n \in 0 .. Modulus - 1, NEW line,
         NEW m \in Malloc(h, n, line)
  PROVE  Given(h, l, fr, n, line, m)
<1> DEFINE total == (n + Meta + Pad) % Modulus
           Result(a, b) == IF b.ok THEN [h |-> Placed(b.h, b.at, n, line), ptr |-> b.at + Meta]
                           ELSE [h |-> Failed(b.h, n), ptr |-> Null]
           None(a) == [h |-> Failed(a, n), ptr |-> Null]
<1>0. n \in Nat /\ DOMAIN h = Fields
  BY CallsTyped DEF Sound, Shaped
<1>1. PICK a \in Add(h, line, n) :
        m \in IF total > n /\ total < MaxMalloc THEN {Result(a, b) : b \in BaseMalloc(a, total)} ELSE {None(a)}
  BY Zenon DEF Malloc
<1>2. SameBlocks(a, h) /\ Sound(a, l, fr)
  <2>1. SameBlocks(a, h)
    BY <1>0, AddIs
  <2>2. QED
    BY <2>1, SameIsSound
<1>3. DOMAIN a = Fields /\ a.mem = h.mem /\ a.frees = h.frees
  BY <1>2 DEF SameBlocks
<1>4. ASSUME NEW c, c = a PROVE Sound(Failed(c, n), l, fr)
  <2>1. SameBlocks(Failed(c, n), c) /\ Sound(c, l, fr)
    BY <1>2, <1>3, <1>4, FailedIs
  <2>2. QED
    BY <2>1, SameIsSound
<1>5. CASE ~ (total > n /\ total < MaxMalloc)
  <2>1. m.ptr = Null /\ m.h = Failed(a, n)
    BY <1>1, <1>5
  <2>3. m = [h |-> m.h, ptr |-> m.ptr]
    BY <1>1, <1>5
  <2>2. QED
    BY <1>4, <2>1, <2>3 DEF Given
<1>6. CASE total > n /\ total < MaxMalloc
  <2>1. total = n + Meta + Pad
    BY <1>6, TotalIs
  <2> HIDE DEF total
  <2>2. PICK b \in BaseMalloc(a, total) : m = Result(a, b)
    BY <1>1, <1>6
  <2>6. m = [h |-> m.h, ptr |-> m.ptr]
    BY <2>2
  <2>3. CASE ~b.ok
    <3>1. b.h = a
      BY <1>3, <2>2, <2>3, NoneIs
    <3>2. m.ptr = Null /\ m.h = Failed(b.h, n)
      BY <2>2, <2>3
    <3>3. QED
      BY <1>4, <2>6, <3>1, <3>2 DEF Given
  <2>4. CASE b.ok
    <3>1. m.ptr = b.at + Meta /\ m.h = Placed(b.h, b.at, n, line)
      BY <2>2, <2>4
    <3>2. b \in BaseMalloc(a, n + Meta + Pad)
      BY <2>1
    <3>3. PICK g, p : g = m.h /\ p = m.ptr
      OBVIOUS
    <3>4. g = Placed(b.h, b.at, n, line) /\ p = b.at + Meta
      BY <3>1, <3>3
    <3>8. Places(a, l, fr, n, line, b, g, p)
      BY <1>0, <1>2, <2>4, <3>2, <3>4 DEF Places
    <3>5. /\ Sound(g, With(l, p, Block(n, line, Blank(n))), fr)
          /\ p \in Nat /\ p # Null /\ p \notin DOMAIN l
          /\ \A x \in 0 .. MemSize - 1 : x \notin {p - 2, p - 1, p + n} => g.mem[x] = a.mem[x]
          /\ \A f \in a.frees : f[1] = p - Meta \/ Apart(<<p - Meta, n + Meta + Pad>>, f)
      BY <3>8, PlacedIs
    <3>6. n + Meta + Pad < MaxMalloc
      BY <1>6, <2>1
    <3>7. QED
      BY <1>3, <2>6, <3>3, <3>5, <3>6 DEF Given
  <2>5. QED
    BY <2>3, <2>4
<1>7. QED
  BY <1>5, <1>6

-----------------------------------------------------------------------------
(* What is written into a block: the program's writes, what calloc clears  *)
(* and what realloc copies.                                                *)

\* Writing to the payload of a block, or to the padding after it, hurts no other block.
Written(h, l, p, g, k) ==
  /\ DOMAIN g = Fields /\ \A x \in Fields \ {"mem"} : g[x] = h[x]
  /\ DOMAIN g.mem = 0 .. MemSize - 1
  /\ \A a \in 0 .. MemSize - 1 : /\ a < p \/ a > p + l[p].size => g.mem[a] = h.mem[a]
                                 /\ g.mem[a].kind \in {"byte", "sz", "line", "ff"}
  /\ DOMAIN k = DOMAIN l /\ \A q \in DOMAIN l : q # p => k[q] = l[q]
  /\ Known(k[p]) /\ k[p].size = l[p].size /\ k[p].line = l[p].line
  /\ \A i \in 1 .. k[p].size : k[p].content[i] # Undefined => g.mem[p + i - 1] = ByteOf(k[p].content[i])
  /\ g.mem[p + k[p].size] = k[p].past
LEMMA WrittenIs ==
  ASSUME NEW h, NEW l, NEW fr, Sound(h, l, fr), NEW p \in DOMAIN l,
         NEW g, NEW k, Written(h, l, p, g, k)
  PROVE  Sound(g, k, fr)
<1>0. /\ Shaped(h) /\ Laid(h, l) /\ (\A q \in DOMAIN l : Whole(h, q, l[q])) /\ Erased(h, l, fr)
      /\ Bounded(h, l) /\ Counted(h, l) /\ MemSize \in Nat
  BY MemoryFits DEF Sound
<1>1. /\ g.allocs = h.allocs /\ g.base = h.base /\ g.frees = h.frees /\ g.low = h.low /\ g.high = h.high
      /\ g.nactive = h.nactive /\ g.heap_min = h.heap_min /\ g.heap_max = h.heap_max
  BY DEF Fields, Written
<1>2. \A q \in DOMAIN l : k[q].size = l[q].size /\ k[q].line = l[q].line /\ Span(q, k[q]) = Span(q, l[q])
  BY DEF Span, Written
<1>3. /\ p \in Nat /\ l[p].size \in Nat /\ p - 2 \in Nat /\ p + l[p].size + 1 <= MemSize
      /\ Span(p, l[p])[1] = p - 2 /\ Span(p, l[p])[2] = l[p].size + 3
  BY <1>0, SpanIs
<1>4. Shaped(g)
  BY <1>0, <1>1 DEF Shaped, Written
<1>5. Laid(g, k)
  <2>1. \A s : GivenOut(h, s) <=> GivenOut(g, s)
    BY <1>1 DEF GivenOut
  <2>2. g.base = {Span(q, k[q]) : q \in DOMAIN k}
    BY <1>0, <1>1, <1>2 DEF Laid, Written
  <2>3. \A q \in DOMAIN k : q \in Nat /\ Known(k[q]) /\ GivenOut(g, Span(q, k[q]))
    BY <1>0, <1>2, <2>1 DEF Laid, Written
  <2>4. QED
    BY <1>0, <1>1, <1>2, <2>1, <2>2, <2>3 DEF Laid, Written
<1>6. ASSUME NEW q \in DOMAIN k PROVE Whole(g, q, k[q])
  <2>1. CASE q = p
    <3>1. p - 2 \in 0 .. MemSize - 1 /\ p - 1 \in 0 .. MemSize - 1 /\ p - 2 < p /\ p - 1 < p
      BY <1>0, <1>3
    <3>2. g.mem[p - 2] = h.mem[p - 2] /\ g.mem[p - 1] = h.mem[p - 1]
      BY <3>1 DEF Written
    <3>3. Whole(h, p, l[p])
      BY <1>0
    <3>4. QED
      BY <2>1, <3>2, <3>3 DEF Whole, Written
  <2>2. CASE q # p
    <3>0. q \in DOMAIN l
      BY DEF Written
    <3>1. /\ q \in Nat /\ l[q].size \in Nat /\ q - 2 \in Nat /\ q + l[q].size + 1 <= MemSize
          /\ Span(q, l[q])[1] = q - 2 /\ Span(q, l[q])[2] = l[q].size + 3
      BY <1>0, <3>0, SpanIs
    <3>2. Apart(Span(p, l[p]), Span(q, l[q]))
      BY <1>0, <2>2, <3>0 DEF Laid
    <3>3. (p - 2) + (l[p].size + 3) <= q - 2 \/ (q - 2) + (l[q].size + 3) <= p - 2
      BY <1>3, <3>1, <3>2 DEF Apart
    <3>4. ASSUME NEW a \in (q - 2) .. (q + l[q].size) PROVE g.mem[a] = h.mem[a]
      <4>1. a \in 0 .. MemSize - 1 /\ (a < p \/ a > p + l[p].size)
        BY <1>0, <1>3, <3>1, <3>3
      <4>2. QED
        BY <4>1 DEF Written
    <3>5. /\ g.mem[q - 2] = h.mem[q - 2] /\ g.mem[q - 1] = h.mem[q - 1]
          /\ g.mem[q + l[q].size] = h.mem[q + l[q].size]
          /\ \A i \in 1 .. l[q].size : g.mem[q + i - 1] = h.mem[q + i - 1]
      BY <3>1, <3>4
    <3>6. Whole(h, q, l[q]) /\ k[q] = l[q]
      BY <1>0, <2>2, <3>0 DEF Written
    <3>7. QED
      BY <3>5, <3>6 DEF Whole
  <2>3. QED
    BY <2>1, <2>2
<1>7. Erased(g, k, fr)
  <2>1. ASSUME NEW f \in g.frees PROVE g.mem[f[1]] = FF /\ g.mem[f[1] + 1] = FF
    <3>1. /\ f \in h.frees /\ f[1] \in Nat /\ f[2] \in Nat /\ f[2] >= 3 /\ f[1] + f[2] <= MemSize
          /\ Apart(f, Span(p, l[p]))
      <4>1. f \in h.frees /\ GivenOut(h, f) /\ Apart(f, Span(p, l[p]))
        BY <1>0, <1>1 DEF Laid
      <4>2. QED
        BY <1>0, <4>1 DEF GivenOut, Shaped, Meta, Pad
    <3>2. f[1] + f[2] <= p - 2 \/ (p - 2) + (l[p].size + 3) <= f[1]
      BY <1>3, <3>1 DEF Apart
    <3>3. /\ f[1] \in 0 .. MemSize - 1 /\ f[1] + 1 \in 0 .. MemSize - 1
          /\ f[1] < p \/ f[1] > p + l[p].size
          /\ f[1] + 1 < p \/ f[1] + 1 > p + l[p].size
      BY <1>0, <1>3, <3>1, <3>2
    <3>4. h.mem[f[1]] = FF /\ h.mem[f[1] + 1] = FF
      BY <1>0, <3>1 DEF Erased
    <3>5. QED
      BY <3>3, <3>4 DEF Written
  <2>2. QED
    BY <1>0, <1>1, <2>1 DEF Erased, Written
<1>8. Bounded(g, k) /\ Counted(g, k)
  BY <1>0, <1>1, <1>2 DEF Bounded, Counted, Written
<1>9. QED
  BY <1>4, <1>5, <1>6, <1>7, <1>8 DEF Sound

-----------------------------------------------------------------------------
(* m61_free.                                                               *)

\* The heap that m61_free leaves when it does not complain.
Released(h, p, n) ==
  BaseFree([h EXCEPT !.nactive = @ - 1, !.active_size = @ - n,
                     !.mem = [@ EXCEPT ![p - 2] = FF, ![p - 1] = FF], !.allocs = @ \ {p}], p - Meta)

Releases(h, l, fr, p, g) ==
  Sound(h, l, fr) /\ fr \subseteq Nat /\ p \in DOMAIN l /\ g = Released(h, p, l[p].size)
MarkedFree(g, h, p) == \A a \in 0 .. MemSize - 1 : a \notin {p - 2, p - 1} => g.mem[a] = h.mem[a]
LEMMA ReleasedIs ==
  ASSUME NEW h, NEW l, NEW fr, NEW p, NEW g, Releases(h, l, fr, p, g)
  PROVE  /\ Sound(g, Without(l, p), fr \cup {p})
         /\ Span(p, l[p]) \in g.frees
         /\ MarkedFree(g, h, p)
<1> DEFINE k == Without(l, p)
           s == Span(p, l[p])
           e == [h EXCEPT !.nactive = @ - 1, !.active_size = @ - l[p].size,
                          !.mem = [@ EXCEPT ![p - 2] = FF, ![p - 1] = FF], !.allocs = @ \ {p}]
           mine == {b \in e.base : b[1] = p - Meta}
<1>0. /\ Shaped(h) /\ Laid(h, l) /\ (\A q \in DOMAIN l : Whole(h, q, l[q])) /\ Erased(h, l, fr)
      /\ Bounded(h, l) /\ Counted(h, l) /\ MemSize \in Nat
      /\ fr \subseteq Nat /\ p \in DOMAIN l
  BY MemoryFits DEF Sound, Releases
<1>1. \A q \in DOMAIN l : /\ q \in Nat /\ l[q].size \in Nat /\ q - 2 \in Nat /\ q + l[q].size + 1 <= MemSize
                          /\ Span(q, l[q])[1] = q - 2 /\ Span(q, l[q])[2] = l[q].size + 3
  BY <1>0, SpanIs
<1>2. /\ DOMAIN e = Fields /\ e.mem = [h.mem EXCEPT ![p - 2] = FF, ![p - 1] = FF]
      /\ e.allocs = h.allocs \ {p} /\ e.nactive = h.nactive - 1 /\ e.base = h.base /\ e.frees = h.frees
      /\ e.low = h.low /\ e.high = h.high /\ e.heap_min = h.heap_min /\ e.heap_max = h.heap_max
  BY <1>0 DEF Shaped, Fields
<1>3. g = [e EXCEPT !.base = @ \ mine, !.frees = @ \cup mine]
  BY Zenon DEF Releases, Released, BaseFree
<1> HIDE DEF e
<1>4. mine = {s}
  <2>1. e.base = {Span(q, l[q]) : q \in DOMAIN l}
    BY <1>0, <1>2 DEF Laid
  <2>2. s \in e.base /\ s[1] = p - Meta
    BY <1>0, <1>1, <2>1 DEF Meta
  <2>3. ASSUME NEW b \in e.base, b[1] = p - Meta PROVE b = s
    <3>1. PICK q \in DOMAIN l : b = Span(q, l[q])
      BY <2>1
    <3>2. q - 2 = p - 2 /\ q \in Nat /\ p \in Nat
      BY <1>0, <1>1, <2>3, <3>1 DEF Meta
    <3>3. q = p
      BY <3>2
    <3>4. QED
      BY <3>1, <3>3
  <2>4. QED
    BY <2>2, <2>3
<1> HIDE DEF mine
<1>5. /\ DOMAIN g = Fields /\ g.mem = [h.mem EXCEPT ![p - 2] = FF, ![p - 1] = FF]
      /\ g.allocs = h.allocs \ {p} /\ g.nactive = h.nactive - 1
      /\ g.base = h.base \ {s} /\ g.frees = h.frees \cup {s}
      /\ g.low = h.low /\ g.high = h.high /\ g.heap_min = h.heap_min /\ g.heap_max = h.heap_max
  BY <1>2, <1>3, <1>4 DEF Fields
<1>6. DOMAIN k = DOMAIN l \ {p} /\ \A q \in DOMAIN l \ {p} : k[q] = l[q]
  BY DEF Without
<1>7. /\ p \in Nat /\ l[p].size \in Nat /\ p - 2 \in 0 .. MemSize - 1 /\ p - 1 \in 0 .. MemSize - 1
      /\ p - 2 # p - 1 /\ s[1] = p - 2 /\ s[2] = l[p].size + 3 /\ (p - 2) + 1 = p - 1
      /\ p + l[p].size + 1 <= MemSize
  BY <1>0, <1>1
<1> HIDE DEF k
<1>8. /\ DOMAIN g.mem = 0 .. MemSize - 1 /\ g.mem[p - 2] = FF /\ g.mem[p - 1] = FF
      /\ \A a \in 0 .. MemSize - 1 : a \notin {p - 2, p - 1} => g.mem[a] = h.mem[a]
  <2>1. DOMAIN h.mem = 0 .. MemSize - 1
    BY <1>0 DEF Shaped
  <2>2. QED
    BY <1>5, <1>7, <2>1
<1>9. Shaped(g)
  <2>1. FF.kind = "ff" /\ \A a \in 0 .. MemSize - 1 : h.mem[a].kind \in {"byte", "sz", "line", "ff"}
    BY <1>0 DEF FF, Shaped
  <2>2. \A a \in 0 .. MemSize - 1 : g.mem[a].kind \in {"byte", "sz", "line", "ff"}
    BY <1>8, <2>1
  <2>3. QED
    BY <1>0, <1>5, <1>8, <2>2 DEF Shaped
<1>10. Laid(g, k)
  <2>1. \A t : GivenOut(h, t) <=> GivenOut(g, t)
    BY <1>5 DEF GivenOut
  <2>2. g.allocs = DOMAIN k
    BY <1>0, <1>5, <1>6 DEF Laid
  <2>3. \A q \in DOMAIN k : Span(q, k[q]) # s
    <3>1. ASSUME NEW q \in DOMAIN k PROVE Span(q, k[q]) # s
      <4>1. q \in DOMAIN l /\ q # p /\ q \in Nat /\ Span(q, l[q])[1] = q - 2 /\ k[q] = l[q]
        BY <1>1, <1>6
      <4>2. q - 2 # p - 2
        BY <1>7, <4>1
      <4>3. QED
        BY <1>7, <4>1, <4>2
    <3>2. QED
      BY <3>1
  <2>4. g.base = {Span(q, k[q]) : q \in DOMAIN k}
    <3>1. h.base = {Span(q, l[q]) : q \in DOMAIN l}
      BY <1>0 DEF Laid
    <3>2. h.base = {Span(q, k[q]) : q \in DOMAIN k} \cup {s}
      BY <1>0, <1>6, <3>1
    <3>3. QED
      BY <1>5, <2>3, <3>2
  <2>5. \A q \in DOMAIN k : q \in Nat /\ Known(k[q]) /\ GivenOut(g, Span(q, k[q]))
    BY <1>0, <1>6, <2>1 DEF Laid
  <2>6. \A q, r \in DOMAIN k : q # r => Apart(Span(q, k[q]), Span(r, k[r]))
    BY <1>0, <1>6 DEF Laid
  <2>7. GivenOut(g, s) /\ \A q \in DOMAIN k : Apart(s, Span(q, k[q]))
    BY <1>0, <1>6, <2>1 DEF Laid
  <2>8. \A f \in g.frees : GivenOut(g, f) /\ \A q \in DOMAIN k : Apart(f, Span(q, k[q]))
    <3>1. \A f \in h.frees : GivenOut(g, f) /\ \A q \in DOMAIN k : Apart(f, Span(q, k[q]))
      BY <1>0, <1>6, <2>1 DEF Laid
    <3>2. QED
      BY <1>5, <2>7, <3>1
  <2>9. \A f, t \in g.frees : f # t => Apart(f, t)
    <3>1. \A f, t \in h.frees : f # t => Apart(f, t)
      BY <1>0 DEF Laid
    <3>2. \A f \in h.frees : Apart(f, s) /\ Apart(s, f)
      BY <1>0 DEF Laid, Apart
    <3>3. QED
      BY <1>5, <3>1, <3>2
  <2>10. QED
    BY <2>2, <2>4, <2>5, <2>6, <2>8, <2>9 DEF Laid
<1>11. ASSUME NEW q \in DOMAIN k PROVE Whole(g, q, k[q])
  <2>1. /\ q \in DOMAIN l /\ q # p /\ k[q] = l[q] /\ q \in Nat /\ l[q].size \in Nat /\ q - 2 \in Nat
        /\ q + l[q].size + 1 <= MemSize /\ Span(q, l[q])[1] = q - 2 /\ Span(q, l[q])[2] = l[q].size + 3
    BY <1>1, <1>6
  <2>2. Apart(s, Span(q, l[q])) /\ Whole(h, q, l[q])
    BY <1>0, <2>1 DEF Laid
  <2>3. (p - 2) + (l[p].size + 3) <= q - 2 \/ (q - 2) + (l[q].size + 3) <= p - 2
    BY <1>7, <2>1, <2>2 DEF Apart
  <2>4. ASSUME NEW a \in (q - 2) .. (q + l[q].size) PROVE g.mem[a] = h.mem[a]
    <3>1. a \in 0 .. MemSize - 1 /\ a \notin {p - 2, p - 1}
      BY <1>0, <1>7, <2>1, <2>3
    <3>2. QED
      BY <1>8, <3>1
  <2>5. /\ g.mem[q - 2] = h.mem[q - 2] /\ g.mem[q - 1] = h.mem[q - 1]
        /\ g.mem[q + l[q].size] = h.mem[q + l[q].size]
        /\ \A i \in 1 .. l[q].size : g.mem[q + i - 1] = h.mem[q + i - 1]
    BY <2>1, <2>4
  <2>6. QED
    BY <2>1, <2>2, <2>5 DEF Whole
<1>12. Erased(g, k, fr \cup {p})
  <2>1. ASSUME NEW f \in h.frees PROVE g.mem[f[1]] = FF /\ g.mem[f[1] + 1] = FF
    <3>1. GivenOut(h, f) /\ h.mem[f[1]] = FF /\ h.mem[f[1] + 1] = FF
      BY <1>0 DEF Laid, Erased
    <3>2. f[1] \in 0 .. MemSize - 1 /\ f[1] + 1 \in 0 .. MemSize - 1
      <4>1. f[1] \in Nat /\ f[2] \in Nat /\ f[2] >= 3 /\ (f[1] + f[2] <= h.low \/ f[1] + f[2] <= MemSize)
        BY <3>1 DEF GivenOut, Meta, Pad
      <4>2. h.low \in Nat /\ h.high \in Nat /\ h.low <= h.high /\ h.high <= MemSize /\ MemSize \in Nat
        BY <1>0 DEF Shaped
      <4>3. QED
        BY <4>1, <4>2
    <3>3. QED
      BY <1>8, <3>1, <3>2
  <2>2. g.mem[s[1]] = FF /\ g.mem[s[1] + 1] = FF
    BY <1>7, <1>8
  <2>3. ASSUME NEW q \in (fr \cup {p}) \ DOMAIN k PROVE \E f \in g.frees : f[1] = q - Meta
    <3>1. CASE q = p
      BY <1>5, <1>7, <3>1 DEF Meta
    <3>2. CASE q # p
      <4>1. q \in fr \ DOMAIN l
        BY <1>6, <3>2
      <4>2. QED
        BY <1>0, <1>5, <4>1 DEF Erased
    <3>3. QED
      BY <3>1, <3>2
  <2>4. QED
    BY <1>5, <2>1, <2>2, <2>3 DEF Erased
<1>13. Bounded(g, k)
  <2>1. h.heap_min \in Nat /\ h.heap_max \in Nat /\ h.heap_min <= p /\ p + l[p].size <= h.heap_max
    BY <1>0 DEF Shaped, Bounded
  <2>2. s[1] + Meta = p /\ p <= h.heap_max
    BY <1>7, <2>1 DEF Meta
  <2>3. QED
    BY <1>0, <1>5, <1>6, <2>1, <2>2 DEF Bounded
<1>14. Counted(g, k)
  BY <1>0, <1>5, <1>6, FS_RemoveElement DEF Counted
<1>15. Sound(g, k, fr \cup {p})
  BY <1>9, <1>10, <1>11, <1>12, <1>13, <1>14 DEF Sound
<1>16. QED
  BY <1>5, <1>8, <1>15 DEF k, MarkedFree

\* m61_free as a whole: it complains of a block only if that was written past its end, and of
\* a pointer that was freed before as what it is.
Judged(h, l, fr, p, f) ==
  /\ f.why \in {"none", "not_in_heap", "double_free", "not_allocated", "wild_write", "segfault"}
  /\ f.why = "none" => p \in DOMAIN l /\ l[p].past = FF /\ f.h = Released(h, p, l[p].size)
  /\ f.why # "none" => /\ p \in DOMAIN l => l[p].past # FF /\ f.why = "wild_write"
                       /\ p \in fr \ DOMAIN l => f.why = "double_free"
LEMMA FreeIs ==
  ASSUME NEW h, NEW l, NEW fr, Sound(h, l, fr), fr \subseteq Nat, NEW p \in Nat, NEW f \in Free(h, p)
  PROVE  Judged(h, l, fr, p, f)
<1>0. /\ Shaped(h) /\ Laid(h, l) /\ (\A q \in DOMAIN l : Whole(h, q, l[q])) /\ Erased(h, l, fr)
      /\ Bounded(h, l) /\ h.allocs = DOMAIN l /\ h.heap_min \in Nat /\ h.heap_max \in Nat
  BY DEF Sound, Laid, Shaped
<1>1. CASE h.heap_min > p \/ h.heap_max < p
  <2>1. f = [h |-> h, why |-> "not_in_heap"]
    BY <1>1 DEF Free
  <2>2. p \notin DOMAIN l
    <3>1. ASSUME p \in DOMAIN l PROVE FALSE
      <4>1. l[p].size \in Nat /\ h.heap_min <= p /\ p + l[p].size <= h.heap_max
        BY <1>0, <3>1, SpanIs DEF Bounded
      <4>2. QED
        BY <1>0, <1>1, <4>1
    <3>2. QED
      BY <3>1
  <2>3. p \notin fr \ DOMAIN l
    <3>1. ASSUME p \in fr \ DOMAIN l PROVE FALSE
      <4>1. PICK e \in h.frees : e[1] = p - Meta
        BY <1>0, <3>1 DEF Erased
      <4>2. h.heap_min <= e[1] + Meta /\ e[1] + Meta <= h.heap_max
        BY <1>0, <4>1 DEF Bounded
      <4>3. QED
        BY <1>0, <1>1, <4>1, <4>2 DEF Meta
    <3>2. QED
      BY <3>1
  <2>4. QED
    BY <2>1, <2>2, <2>3 DEF Judged
<1>2. CASE ~ (h.heap_min > p \/ h.heap_max < p) /\ p \notin DOMAIN l
  <2>1. f \in IF IsFF(h, p - Meta, Meta) THEN {[h |-> h, why |-> "double_free"]}
              ELSE {[h |-> h, why |-> w] : w \in {"not_allocated", "segfault"}}
    BY <1>0, <1>2 DEF Free
  <2>2. f.why \in {"double_free", "not_allocated", "segfault"}
    BY <2>1
  <2>3. ASSUME p \in fr \ DOMAIN l PROVE f.why = "double_free"
    <3>1. PICK e \in h.frees : e[1] = p - Meta
      BY <1>0, <2>3 DEF Erased
    <3>2. h.mem[e[1]] = FF /\ h.mem[e[1] + 1] = FF
      BY <1>0, <3>1 DEF Erased
    <3>3. \A a \in (p - 2) .. ((p - 2) + 2 - 1) : a = p - 2 \/ a = (p - 2) + 1
      OBVIOUS
    <3>4. IsFF(h, p - Meta, Meta)
      BY <3>1, <3>2, <3>3 DEF IsFF, Meta
    <3>5. QED
      BY <2>1, <3>4
  <2>4. QED
    BY <1>2, <2>2, <2>3 DEF Judged
<1>3. CASE ~ (h.heap_min > p \/ h.heap_max < p) /\ p \in DOMAIN l
  <2>1. Whole(h, p, l[p]) /\ l[p].size \in Nat
    BY <1>0, <1>3 DEF Laid, Known
  <2>2. h.mem[p - Meta].v = l[p].size
    BY <2>1 DEF Whole, Cell, Meta
  <2>3. IsFF(h, p + l[p].size, Pad) <=> l[p].past = FF
    <3>1. \A a : a \in (p + l[p].size) .. (p + l[p].size + 1 - 1) <=> a = p + l[p].size
      BY <2>1
    <3>2. IsFF(h, p + l[p].size, Pad) <=> h.mem[p + l[p].size] = FF
      BY <3>1 DEF IsFF, Pad
    <3>3. QED
      BY <2>1, <3>2 DEF Whole
  <2>4. f \in IF ~IsFF(h, p + l[p].size, Pad) THEN {[h |-> h, why |-> "wild_write"]}
              ELSE {[h |-> Released(h, p, l[p].size), why |-> "none"]}
    BY <1>0, <1>3, <2>2 DEF Free, Released
  <2>5. QED
    BY <1>3, <2>3, <2>4 DEF Judged
<1>4. QED
  BY <1>1, <1>2, <1>3

-----------------------------------------------------------------------------
(* m61_calloc and m61_realloc.                                             *)

\* A block that was just given out is filled with a content.
Fills(h, l, fr, p, n, line, content, g) ==
  /\ Sound(h, With(l, p, Block(n, line, Blank(n))), fr) /\ n \in Nat /\ DOMAIN content = 1 .. n
  /\ DOMAIN g = Fields /\ \A x \in Fields \ {"mem"} : g[x] = h[x]
  /\ DOMAIN g.mem = 0 .. MemSize - 1
  /\ \A a \in 0 .. MemSize - 1 : /\ a < p \/ a >= p + n => g.mem[a] = h.mem[a]
                                 /\ g.mem[a].kind \in {"byte", "sz", "line", "ff"}
  /\ \A i \in 1 .. n : content[i] # Undefined => g.mem[p + i - 1] = ByteOf(content[i])
LEMMA FilledIs ==
  ASSUME NEW h, NEW l, NEW fr, NEW p, NEW n, NEW line, NEW content, NEW g, Fills(h, l, fr, p, n, line, content, g)
  PROVE  Sound(g, With(l, p, Block(n, line, content)), fr)
<1>1. PICK j, k : j = With(l, p, Block(n, line, Blank(n))) /\ k = With(l, p, Block(n, line, content))
  OBVIOUS
<1>2. /\ DOMAIN j = DOMAIN l \cup {p} /\ DOMAIN k = DOMAIN j /\ \A q \in DOMAIN j : q # p => k[q] = j[q]
      /\ j[p] = Block(n, line, Blank(n)) /\ k[p] = Block(n, line, content)
  BY <1>1 DEF With
<1>3. /\ j[p].size = n /\ j[p].line = line /\ j[p].past = FF
      /\ k[p].size = n /\ k[p].line = line /\ k[p].past = FF /\ k[p].content = content /\ Known(k[p])
  BY <1>2 DEF Block, Known, Fills
<1>4. Sound(h, j, fr)
  BY <1>1 DEF Fills
<1>5. p \in Nat /\ p + n + 1 <= MemSize /\ h.mem[p + n] = FF
  <2>1. Shaped(h) /\ Laid(h, j) /\ Whole(h, p, j[p]) /\ p \in DOMAIN j
    BY <1>2, <1>4 DEF Sound
  <2>2. p \in Nat /\ p + n + 1 <= MemSize
    BY <1>3, <2>1, SpanIs
  <2>3. QED
    BY <1>3, <2>1, <2>2 DEF Whole
<1>6. p + n \in 0 .. MemSize - 1 /\ n \in Nat
  BY <1>5, MemoryFits DEF Fills
<1>7. g.mem[p + n] = FF
  BY <1>5, <1>6 DEF Fills
<1>8. \A a \in 0 .. MemSize - 1 : a > p + n => a >= p + n
  BY <1>6
<1>9. Written(h, j, p, g, k)
  BY <1>2, <1>3, <1>7, <1>8 DEF Fills, Written
<1>10. Sound(g, k, fr)
  <2>1. p \in DOMAIN j
    BY <1>2
  <2>2. QED
    BY <1>4, <1>9, <2>1, WrittenIs
<1>11. QED
  BY <1>1, <1>10

\* m61_calloc as a whole: what it gives is all zeros, as large as the product.
LEMMA CallocIs ==
  ASSUME NEW h, NEW l, NEW fr, Sound(h, l, fr), fr \subseteq Nat, NEW n \in 0 .. Modulus - 1,
         NEW sz \in 0 .. Modulus - 1, NEW line, NEW m \in Calloc(h, n, sz, line)
  PROVE  /\ m.ptr = Null => Sound(m.h, l, fr)
         /\ m.ptr # Null => Sound(m.h, With(l, m.ptr, Block(n * sz, line, [i \in 1 .. n * sz |-> 0])), fr)
<1> DEFINE size == (n * sz) % Modulus
           Zeros(e) == [e EXCEPT !.h.mem = [a \in DOMAIN @ |-> IF a \in e.ptr .. (e.ptr + size - 1)
                                                                THEN Cell("byte", 0) ELSE @[a]]]
<1>0. /\ n \in Nat /\ sz \in Nat /\ size \in 0 .. Modulus - 1 /\ n * sz \in Nat /\ Modulus \in Nat
      /\ MaxMalloc \in Nat
  BY CallsTyped
<1>1. m \in IF ~ (sz <= size /\ n <= size) THEN {[h |-> Failed(h, size), ptr |-> Null]}
            ELSE {IF e.ptr = Null THEN e ELSE Zeros(e) : e \in Malloc(h, size, line)}
  BY Zenon DEF Calloc
<1>2. CASE ~ (sz <= size /\ n <= size)
  <2>1. m.ptr = Null /\ m.h = Failed(h, size)
    BY <1>1, <1>2
  <2>2. SameBlocks(m.h, h)
    BY <2>1, FailedIs DEF Sound, Shaped
  <2>3. QED
    BY <2>1, <2>2, SameIsSound
<1>3. CASE sz <= size /\ n <= size
  <2>1. PICK e \in Malloc(h, size, line) : m = IF e.ptr = Null THEN e ELSE Zeros(e)
    BY <1>1, <1>3
  <2> HIDE DEF size
  <2>2. /\ e = [h |-> e.h, ptr |-> e.ptr]
        /\ e.ptr = Null => Sound(e.h, l, fr)
        /\ e.ptr # Null => /\ size + Meta + Pad < MaxMalloc /\ e.ptr \in Nat
                           /\ Sound(e.h, With(l, e.ptr, Block(size, line, Blank(size))), fr)
    <3>1. Sound(h, l, fr) /\ fr \subseteq Nat /\ size \in 0 .. Modulus - 1 /\ e \in Malloc(h, size, line)
      BY <1>0, <2>1
    <3>2. Given(h, l, fr, size, line, e)
      BY <3>1, MallocIs
    <3>3. QED
      BY <3>2 DEF Given
  <2>3. CASE e.ptr = Null
    BY <2>1, <2>2, <2>3
  <2>4. CASE e.ptr # Null
    <3>1. size = n * sz
      <4>1. size < MaxMalloc
        BY <1>0, <2>2, <2>4 DEF Meta, Pad
      <4>2. QED
        BY <1>0, <1>3, <4>1, ProductIs DEF size
    <3>2. PICK g, p : g = m.h /\ p = e.ptr
      OBVIOUS
    <3>3. DOMAIN e.h = Fields /\ DOMAIN e.h.mem = 0 .. MemSize - 1
      BY <2>2, <2>4 DEF Sound, Shaped
    <3>4. /\ m.ptr = p
          /\ g = [e.h EXCEPT !.mem = [a \in DOMAIN @ |-> IF a \in p .. (p + size - 1) THEN Cell("byte", 0) ELSE @[a]]]
      BY <2>1, <2>2, <2>4, <3>2
    <3>5. /\ DOMAIN g = Fields /\ \A x \in Fields \ {"mem"} : g[x] = e.h[x]
          /\ g.mem = [a \in 0 .. MemSize - 1 |-> IF a \in p .. (p + size - 1) THEN Cell("byte", 0) ELSE e.h.mem[a]]
      BY <3>3, <3>4 DEF Fields
    <3>6. PICK content : content = [i \in 1 .. size |-> 0]
      OBVIOUS
    <3>7. p \in Nat /\ size \in Nat /\ Sound(e.h, With(l, p, Block(size, line, Blank(size))), fr)
      BY <1>0, <2>2, <2>4, <3>2
    <3>8. \A a \in 0 .. MemSize - 1 : /\ a < p \/ a >= p + size => g.mem[a] = e.h.mem[a]
                                      /\ g.mem[a].kind \in {"byte", "sz", "line", "ff"}
      <4>1. \A a \in 0 .. MemSize - 1 : e.h.mem[a].kind \in {"byte", "sz", "line", "ff"}
        BY <3>3, <3>7 DEF Sound, Shaped
      <4>2. Cell("byte", 0).kind = "byte"
        BY DEF Cell
      <4>3. \A a \in 0 .. MemSize - 1 : a < p \/ a >= p + size => a \notin p .. (p + size - 1)
        BY <3>7
      <4>4. QED
        BY <3>5, <4>1, <4>2, <4>3
    <3>9. \A i \in 1 .. size : g.mem[p + i - 1] = ByteOf(content[i])
      <4>1. p + size + 1 <= MemSize
        <5>1. PICK k : k = With(l, p, Block(size, line, Blank(size)))
          OBVIOUS
        <5>2. p \in DOMAIN k /\ k[p].size = size
          BY <5>1 DEF With, Block
        <5>3. Shaped(e.h) /\ Laid(e.h, k)
          BY <3>7, <5>1 DEF Sound
        <5>4. QED
          BY <5>2, <5>3, SpanIs
      <4>2. \A i \in 1 .. size : p + i - 1 \in p .. (p + size - 1) /\ p + i - 1 \in 0 .. MemSize - 1
        BY <3>7, <4>1, MemoryFits
      <4>3. ByteOf(0) = Cell("byte", 0)
        BY DEF ByteOf, AllOnes
      <4>4. QED
        BY <3>5, <3>6, <4>2, <4>3
    <3>10. Fills(e.h, l, fr, p, size, line, content, g)
      BY <3>5, <3>6, <3>7, <3>8, <3>9 DEF Fills
    <3>11. Sound(g, With(l, p, Block(size, line, content)), fr)
      BY <3>10, FilledIs
    <3>12. QED
      BY <2>4, <3>1, <3>2, <3>4, <3>6, <3>11
  <2>5. QED
    BY <2>3, <2>4
<1>4. QED
  BY <1>2, <1>3

\* A block is moved: it is released, another is given out, which may be the same, and what the
\* program may still count on is copied.
Moves(h, l, fr, p, size, line, e, m, g, n) ==
  /\ Sound(h, l, fr) /\ fr \subseteq Nat /\ p \in DOMAIN l /\ size \in 0 .. Modulus - 1
  /\ e = Released(h, p, l[p].size) /\ m \in Malloc(e, size, line) /\ m.ptr # Null
  /\ n = Min({l[p].size, size}) /\ g = Copied(m.h, p, m.ptr, n)
LEMMA MovedIs ==
  ASSUME NEW h, NEW l, NEW fr, NEW p, NEW size, NEW line, NEW e, NEW m, NEW g, NEW n,
         Moves(h, l, fr, p, size, line, e, m, g, n)
  PROVE  Sound(g, With(Without(l, p), m.ptr, Block(size, line, Kept(l[p].content, n, size))), fr \cup {p})
<1> DEFINE k == Without(l, p)
           old == l[p].size
           kept == Kept(l[p].content, n, size)
           ones == {i \in 1 .. n : m.h.mem[p + i - 1] = Cell("byte", 1)}
           last == IF ones = {} THEN n ELSE Min(ones)
<1>0. /\ Sound(h, l, fr) /\ fr \subseteq Nat /\ p \in DOMAIN l /\ size \in 0 .. Modulus - 1 /\ size \in Nat
      /\ e = Released(h, p, old) /\ m \in Malloc(e, size, line) /\ m.ptr # Null
      /\ n = Min({old, size}) /\ g = Copied(m.h, p, m.ptr, n)
      /\ MemSize \in Nat
  BY CallsTyped, MemoryFits DEF Moves
<1>1. /\ p \in Nat /\ old \in Nat /\ p - 2 \in Nat /\ p + old + 1 <= MemSize
      /\ Span(p, l[p])[1] = p - 2 /\ Span(p, l[p])[2] = old + 3 /\ Whole(h, p, l[p])
  BY <1>0, SpanIs DEF Sound
<1>2. n \in Nat /\ n <= old /\ n <= size
  BY <1>0, <1>1, MaxMin
<1>3. /\ Sound(e, k, fr \cup {p}) /\ Span(p, l[p]) \in e.frees
      /\ \A a \in 0 .. MemSize - 1 : a \notin {p - 2, p - 1} => e.mem[a] = h.mem[a]
  <2>1. Releases(h, l, fr, p, e)
    BY <1>0 DEF Releases
  <2>2. /\ Sound(e, Without(l, p), fr \cup {p}) /\ Span(p, l[p]) \in e.frees
        /\ \A a \in 0 .. MemSize - 1 : a \notin {p - 2, p - 1} => e.mem[a] = h.mem[a]
    <3>1. Sound(e, Without(l, p), fr \cup {p}) /\ Span(p, l[p]) \in e.frees /\ MarkedFree(e, h, p)
      BY <2>1, ReleasedIs
    <3>2. QED
      BY <3>1 DEF MarkedFree
  <2>3. QED
    BY <2>2
<1>4. fr \cup {p} \subseteq Nat
  BY <1>0, <1>1
<1>5. /\ m.ptr \in Nat /\ Sound(m.h, With(k, m.ptr, Block(size, line, Blank(size))), fr \cup {p})
      /\ \A a \in 0 .. MemSize - 1 : a \notin {m.ptr - 2, m.ptr - 1, m.ptr + size} => m.h.mem[a] = e.mem[a]
      /\ \A f \in e.frees : f[1] = m.ptr - Meta \/ Apart(<<m.ptr - Meta, size + Meta + Pad>>, f)
  <2>1. PICK d : d = fr \cup {p}
    OBVIOUS
  <2>2. Sound(e, k, d) /\ d \subseteq Nat /\ size \in 0 .. Modulus - 1 /\ m \in Malloc(e, size, line)
    BY <1>0, <1>3, <1>4, <2>1
  <2>3. Given(e, k, d, size, line, m)
    BY <2>2, MallocIs
  <2>4. QED
    BY <1>0, <2>1, <2>3 DEF Given
<1> HIDE DEF k
<1>6. PICK to : to = m.ptr
  OBVIOUS
\* what is copied from is as it was
<1>7. ASSUME NEW i \in 1 .. n PROVE m.h.mem[p + i - 1] = h.mem[p + i - 1]
  <2>1. to = p \/ (to - 2) + (size + 3) <= p - 2 \/ (p - 2) + (old + 3) <= to - 2
    <3>1. Span(p, l[p])[1] = to - Meta \/ Apart(<<to - Meta, size + Meta + Pad>>, Span(p, l[p]))
      BY <1>3, <1>5, <1>6
    <3>2. Span(p, l[p])[1] = to - 2 \/ (to - 2) + (size + 3) <= p - 2 \/ (p - 2) + (old + 3) <= to - 2
      BY <1>0, <1>1, <1>5, <1>6, <3>1 DEF Apart, Meta, Pad
    <3>3. QED
      BY <1>1, <1>5, <1>6, <3>2
  <2>2. /\ p + i - 1 \in 0 .. MemSize - 1 /\ p + i - 1 \notin {p - 2, p - 1}
        /\ p + i - 1 \notin {to - 2, to - 1, to + size}
    BY <1>0, <1>1, <1>2, <1>5, <1>6, <2>1
  <2>3. m.h.mem[p + i - 1] = e.mem[p + i - 1]
    BY <1>5, <1>6, <2>2
  <2>4. e.mem[p + i - 1] = h.mem[p + i - 1]
    BY <1>3, <2>2
  <2>5. QED
    BY <2>3, <2>4
<1>8. last \in 0 .. n /\ \A i \in ones : last <= i
  <2>0. ones \subseteq Nat /\ ones \subseteq 1 .. n
    BY <1>2
  <2> HIDE DEF ones
  <2>1. CASE ones = {}
    BY <1>2, <2>1
  <2>2. CASE ones # {}
    <3>1. ones \subseteq Nat /\ ones \subseteq 1 .. n
      BY <2>0
    <3>2. Min(ones) \in ones /\ \A y \in ones : Min(ones) <= y
      BY <2>2, <3>1, MinIs
    <3>3. last = Min(ones)
      BY <2>2
    <3> HIDE DEF last
    <3>4. last \in 1 .. n
      BY <3>1, <3>2, <3>3
    <3>5. QED
      BY <1>2, <3>2, <3>3, <3>4
  <2>3. QED
    BY <2>1, <2>2
<1>9. g = [m.h EXCEPT !.mem = [a \in DOMAIN @ |-> IF a \in to .. (to + last - 1) THEN @[p + a - to] ELSE @[a]]]
  BY <1>0, <1>6, Zenon DEF Copied
<1>10. /\ DOMAIN m.h = Fields /\ DOMAIN m.h.mem = 0 .. MemSize - 1
       /\ \A a \in 0 .. MemSize - 1 : m.h.mem[a].kind \in {"byte", "sz", "line", "ff"}
  BY <1>5 DEF Sound, Shaped
<1>11. /\ DOMAIN g = Fields /\ \A x \in Fields \ {"mem"} : g[x] = m.h[x]
       /\ g.mem = [a \in 0 .. MemSize - 1 |-> IF a \in to .. (to + last - 1) THEN m.h.mem[p + a - to] ELSE m.h.mem[a]]
  <2> HIDE DEF last
  <2>1. QED
    BY <1>9, <1>10 DEF Fields
<1>12. to \in Nat /\ to + size + 1 <= MemSize
  <2>1. PICK j : j = With(k, to, Block(size, line, Blank(size)))
    OBVIOUS
  <2>2. to \in DOMAIN j /\ j[to].size = size
    BY <2>1 DEF With, Block
  <2>3. Shaped(m.h) /\ Laid(m.h, j)
    BY <1>5, <1>6, <2>1 DEF Sound
  <2>4. QED
    BY <2>2, <2>3, SpanIs
<1>13. ASSUME NEW i \in 1 .. size, kept[i] # Undefined
       PROVE  i <= n /\ l[p].content[i] = kept[i] /\ l[p].content[i] # Undefined
              /\ \A j \in 1 .. (i - 1) : l[p].content[j] \notin {1, Undefined}
  BY <1>13 DEF Kept
<1>14. ASSUME NEW i \in 1 .. size, kept[i] # Undefined
       PROVE  i <= last /\ m.h.mem[p + i - 1] = ByteOf(kept[i])
  <2>1. \A j \in 1 .. i : j \in 1 .. n /\ j \in 1 .. old /\ l[p].content[j] # Undefined
    <3>1. ASSUME NEW j \in 1 .. i PROVE j \in 1 .. n /\ j \in 1 .. old /\ l[p].content[j] # Undefined
      <4>1. i <= n /\ l[p].content[i] # Undefined /\ \A x \in 1 .. (i - 1) : l[p].content[x] # Undefined
        BY <1>13, <1>14
      <4>2. j = i \/ j \in 1 .. (i - 1)
        OBVIOUS
      <4>3. QED
        BY <1>1, <1>2, <4>1, <4>2
    <3>2. QED
      BY <3>1
  <2>2. \A j \in 1 .. i : m.h.mem[p + j - 1] = ByteOf(l[p].content[j])
    BY <1>1, <1>7, <2>1 DEF Whole
  <2>3. ASSUME NEW j \in ones, j < i PROVE FALSE
    <3>1. j \in 1 .. (i - 1) /\ j \in 1 .. i
      BY <2>3
    <3>2. ByteOf(l[p].content[j]) = Cell("byte", 1)
      BY <2>2, <3>1
    <3>3. l[p].content[j] = 1
      BY <3>2 DEF ByteOf, Cell, FF
    <3>4. QED
      BY <1>13, <1>14, <3>1, <3>3
  <2>4. i <= last
    <3>0. ones \subseteq Nat /\ i <= n /\ i \in Nat
      BY <1>2, <1>13, <1>14
    <3>3. (ones = {} => last = n) /\ (ones # {} => last = Min(ones))
      OBVIOUS
    <3> HIDE DEF ones, last
    <3>1. CASE ones = {}
      BY <3>0, <3>1, <3>3
    <3>2. CASE ones # {}
      <4>1. ones \subseteq Nat /\ last = Min(ones)
        BY <3>0, <3>2, <3>3
      <4>2. last \in ones
        BY <3>2, <4>1, MinIs
      <4>3. QED
        BY <2>3, <3>0, <4>1, <4>2
    <3>4. QED
      BY <3>1, <3>2
  <2>5. i \in 1 .. i /\ l[p].content[i] = kept[i]
    BY <1>13, <1>14
  <2>6. QED
    BY <2>2, <2>4, <2>5
<1>15. PICK content : content = kept
  OBVIOUS
<1>16. DOMAIN content = 1 .. size
  BY <1>15 DEF Kept
<1> HIDE DEF kept
<1> HIDE DEF last, ones
<1>17. PICK c \in Nat : c = last
  BY <1>2, <1>8
<1>18. c <= n /\ c <= size
  BY <1>0, <1>2, <1>8, <1>17
<1>19. \A a \in 0 .. MemSize - 1 : /\ a < to \/ a >= to + size => g.mem[a] = m.h.mem[a]
                                   /\ g.mem[a].kind \in {"byte", "sz", "line", "ff"}
  <2>1. ASSUME NEW a \in 0 .. MemSize - 1
        PROVE  /\ a < to \/ a >= to + size => g.mem[a] = m.h.mem[a]
               /\ g.mem[a].kind \in {"byte", "sz", "line", "ff"}
    <3>1. CASE a \in to .. (to + c - 1)
      <4>1. p + a - to \in 0 .. MemSize - 1 /\ ~ (a < to \/ a >= to + size)
        BY <1>0, <1>1, <1>2, <1>12, <1>18, <3>1
      <4>2. g.mem[a] = m.h.mem[p + a - to]
        BY <1>11, <1>17, <3>1
      <4>3. QED
        BY <1>10, <4>1, <4>2
    <3>2. CASE a \notin to .. (to + c - 1)
      BY <1>10, <1>11, <1>17, <3>2
    <3>3. QED
      BY <3>1, <3>2
  <2>2. QED
    BY <2>1
<1>20. ASSUME NEW i \in 1 .. size, content[i] # Undefined PROVE g.mem[to + i - 1] = ByteOf(content[i])
  <2>1. i <= c /\ m.h.mem[p + i - 1] = ByteOf(content[i])
    BY <1>14, <1>15, <1>17, <1>20
  <2>2. /\ to + i - 1 \in 0 .. MemSize - 1 /\ to + i - 1 \in to .. (to + c - 1)
        /\ p + (to + i - 1) - to = p + i - 1
    BY <1>0, <1>1, <1>12, <1>18, <2>1
  <2>3. QED
    BY <1>11, <1>17, <2>1, <2>2
<1>21. DOMAIN g.mem = 0 .. MemSize - 1
  BY <1>11
<1>22. PICK d : d = fr \cup {p}
  OBVIOUS
<1>23. Fills(m.h, k, d, to, size, line, content, g)
  <2>1. Sound(m.h, With(k, to, Block(size, line, Blank(size))), d)
    BY <1>5, <1>6, <1>22
  <2>2. /\ size \in Nat /\ DOMAIN content = 1 .. size /\ DOMAIN g = Fields
        /\ \A x \in Fields \ {"mem"} : g[x] = m.h[x]
    BY <1>0, <1>11, <1>16
  <2>3. QED
    BY <1>19, <1>20, <1>21, <2>1, <2>2 DEF Fills
<1>24. Sound(g, With(k, to, Block(size, line, content)), d)
  BY <1>23, FilledIs
<1>25. QED
  BY <1>6, <1>15, <1>22, <1>24 DEF k, kept

-----------------------------------------------------------------------------
(* The invariant holds at first and is kept by every call and write.       *)

\* Nothing is given out at first.
LEMMA InvInit == Init => IInv
<1> SUFFICES ASSUME Init PROVE IInv
  OBVIOUS
<1>1. PICK h : h = heap
  OBVIOUS
<1>2. h = InitialHeap /\ live = <<>> /\ freed = {} /\ verdict = [why |-> "none", ptr |-> Null]
  BY <1>1 DEF Init
<1>3. /\ DOMAIN h = Fields /\ h.mem = [a \in 0 .. (MemSize - 1) |-> Cell("byte", Undefined)]
      /\ h.allocs = {} /\ h.base = {} /\ h.frees = {} /\ h.low = 0 /\ h.high = MemSize
      /\ h.nactive = 0 /\ h.heap_min = Modulus - 1 /\ h.heap_max = 0
  BY <1>2 DEF InitialHeap, Fields
<1>4. DOMAIN live = {}
  BY <1>2
<1>5. Shaped(h)
  BY <1>3, MemoryFits, CallsTyped DEF Shaped, Cell
<1>6. Laid(h, live)
  BY <1>3, <1>4 DEF Laid
<1>7. Erased(h, live, freed) /\ Bounded(h, live)
  BY <1>2, <1>3, <1>4 DEF Erased, Bounded
<1>8. Counted(h, live)
  BY <1>3, <1>4, FS_EmptySet DEF Counted
<1>9. Sound(h, live, freed)
  BY <1>4, <1>5, <1>6, <1>7, <1>8 DEF Sound
<1>10. QED
  BY <1>1, <1>2, <1>9 DEF IInv, Whys

\* What the program gets is a block it did not have, or nothing.
LEMMA GotIs ==
  ASSUME NEW l, NEW m, NEW b
  PROVE  Got(l, m, b) = IF m.ptr = Null THEN l ELSE With(l, m.ptr, b)
BY DEF Got

\* The program calls m61_malloc.
LEMMA MallocStep ==
  ASSUME IInv, CallMalloc
  PROVE  IInv'
<1>1. PICK c \in Mallocs : \E m \in Malloc(heap, c[1], c[2]) :
        heap' = m.h /\ live' = Got(live, m, Block(c[1], c[2], Blank(c[1])))
  BY DEF CallMalloc
<1>2. PICK m \in Malloc(heap, c[1], c[2]) :
        heap' = m.h /\ live' = Got(live, m, Block(c[1], c[2], Blank(c[1])))
  BY <1>1
<1>3. freed' = freed /\ verdict' = verdict
  BY DEF CallMalloc
<1>4. PICK n \in 0 .. Modulus - 1 : n = c[1]
  BY CallsTyped
<1>5. Sound(heap, live, freed) /\ freed \subseteq Nat /\ m \in Malloc(heap, n, c[2])
  BY <1>4 DEF IInv
<1>6. Given(heap, live, freed, n, c[2], m)
  BY <1>5, MallocIs
<1>7. Sound(heap', live', freed')
  BY <1>2, <1>3, <1>4, <1>6, GotIs DEF Given
<1>8. QED
  BY <1>3, <1>7 DEF IInv

\* The program calls m61_calloc.
LEMMA CallocStep ==
  ASSUME IInv, CallCalloc
  PROVE  IInv'
<1>1. PICK c \in Callocs : \E m \in Calloc(heap, c[1], c[2], c[3]) :
        heap' = m.h /\ live' = Got(live, m, Block(c[1] * c[2], c[3], [i \in 1 .. (c[1] * c[2]) |-> 0]))
  BY DEF CallCalloc
<1>2. PICK m \in Calloc(heap, c[1], c[2], c[3]) :
        heap' = m.h /\ live' = Got(live, m, Block(c[1] * c[2], c[3], [i \in 1 .. (c[1] * c[2]) |-> 0]))
  BY <1>1
<1>3. freed' = freed /\ verdict' = verdict
  BY DEF CallCalloc
<1>4. c[1] \in 0 .. Modulus - 1 /\ c[2] \in 0 .. Modulus - 1
  BY CallsTyped
<1>5. PICK n \in 0 .. Modulus - 1, sz \in 0 .. Modulus - 1 : n = c[1] /\ sz = c[2]
  BY <1>4
<1>6. Sound(heap, live, freed) /\ freed \subseteq Nat /\ m \in Calloc(heap, n, sz, c[3])
  BY <1>5 DEF IInv
<1>7. /\ m.ptr = Null => Sound(m.h, live, freed)
      /\ m.ptr # Null => Sound(m.h, With(live, m.ptr, Block(n * sz, c[3], [i \in 1 .. n * sz |-> 0])), freed)
  BY <1>6, CallocIs, Zenon
<1>8. Sound(heap', live', freed')
  BY <1>2, <1>3, <1>5, <1>7, GotIs
<1>9. QED
  BY <1>3, <1>8 DEF IInv

\* What m61_free did: it complained, or released a block whose padding was whole.
LEMMA FreeDoes ==
  ASSUME IInv, NEW p \in Nat, NEW f \in Free(heap, p)
  PROVE  /\ f.why \in Whys
         /\ f.why = "none" => /\ p \in DOMAIN live /\ live[p].past = FF
                              /\ Releases(heap, live, freed, p, f.h)
                              /\ Sound(f.h, Without(live, p), freed \cup {p})
         /\ f.why # "none" => /\ p \in DOMAIN live => live[p].past # FF /\ f.why = "wild_write"
                              /\ p \in freed \ DOMAIN live => f.why = "double_free"
<1>1. Sound(heap, live, freed) /\ freed \subseteq Nat
  BY DEF IInv
<1>2. Judged(heap, live, freed, p, f)
  BY <1>1, FreeIs
<1>3. ASSUME f.why = "none" PROVE Releases(heap, live, freed, p, f.h)
  BY <1>1, <1>2, <1>3 DEF Releases, Judged
<1>4. ASSUME f.why = "none" PROVE Sound(f.h, Without(live, p), freed \cup {p})
  <2>1. PICK g : g = f.h
    OBVIOUS
  <2>2. Releases(heap, live, freed, p, g)
    BY <1>3, <1>4, <2>1
  <2>3. Sound(g, Without(live, p), freed \cup {p})
    BY <2>2, ReleasedIs
  <2>4. QED
    BY <2>1, <2>3
<1>5. QED
  BY <1>2, <1>3, <1>4 DEF Whys, Judged

\* The program calls m61_free.
LEMMA FreeStep ==
  ASSUME IInv, CallFree
  PROVE  IInv'
<1>1. PICK p \in 1 .. (MemSize + 1) : \E f \in Free(heap, p) :
        IF f.why # "none" THEN Ends(f.why, p)
        ELSE heap' = f.h /\ live' = Without(live, p) /\ freed' = freed \cup {p} /\ UNCHANGED verdict
  BY DEF CallFree
<1>2. PICK f \in Free(heap, p) :
        IF f.why # "none" THEN Ends(f.why, p)
        ELSE heap' = f.h /\ live' = Without(live, p) /\ freed' = freed \cup {p} /\ UNCHANGED verdict
  BY <1>1
<1>3. p \in Nat
  BY MemoryFits
<1>4. f.why \in Whys /\ (f.why = "none" => Sound(f.h, Without(live, p), freed \cup {p}))
  BY <1>3, FreeDoes
<1>5. CASE f.why # "none"
  <2>1. heap' = heap /\ live' = live /\ freed' = freed /\ verdict' = [why |-> f.why, ptr |-> p]
    BY <1>2, <1>5 DEF Ends
  <2>2. verdict'.why \in Whys
    BY <1>4, <2>1
  <2>3. QED
    BY <2>1, <2>2 DEF IInv
<1>6. CASE f.why = "none"
  BY <1>2, <1>3, <1>4, <1>6 DEF IInv
<1>7. QED
  BY <1>5, <1>6

\* The program calls m61_realloc.
LEMMA ReallocStep ==
  ASSUME IInv, CallRealloc
  PROVE  IInv'
<1>1. PICK p \in heap.allocs \cup freed, c \in Reallocs :
        IF p \notin heap.allocs THEN Ends("realloc", p)
        ELSE \E f \in Free(heap, p) :
          IF f.why # "none" THEN Ends(f.why, p)
          ELSE /\ freed' = freed \cup {p}
               /\ UNCHANGED verdict
               /\ IF c[1] = 0 THEN heap' = f.h /\ live' = Without(live, p)
                  ELSE \E m \in Malloc(f.h, c[1], c[2]) :
                         /\ heap' = IF m.ptr = Null THEN m.h
                                    ELSE Copied(m.h, p, m.ptr, Min({live[p].size, c[1]}))
                         /\ live' = Got(Without(live, p), m,
                                        Block(c[1], c[2], Kept(live[p].content, Min({live[p].size, c[1]}), c[1])))
  BY Zenon DEF CallRealloc
<1>2. Sound(heap, live, freed) /\ freed \subseteq Nat /\ heap.allocs = DOMAIN live
  BY DEF IInv, Sound, Laid
<1>3. ASSUME NEW why \in Whys, Ends(why, p) PROVE IInv'
  <2>1. heap' = heap /\ live' = live /\ freed' = freed /\ verdict' = [why |-> why, ptr |-> p]
    BY <1>3 DEF Ends
  <2>2. verdict'.why \in Whys
    BY <2>1
  <2>3. QED
    BY <2>1, <2>2 DEF IInv
<1>4. CASE p \notin heap.allocs
  <2>1. Ends("realloc", p) /\ "realloc" \in Whys
    BY <1>1, <1>4 DEF Whys
  <2>2. QED
    BY <1>3, <2>1
<1>5. CASE p \in heap.allocs
  <2>1. p \in DOMAIN live /\ p \in Nat
    BY <1>2, <1>5 DEF Sound, Laid
  <2>2. PICK f \in Free(heap, p) :
          IF f.why # "none" THEN Ends(f.why, p)
          ELSE /\ freed' = freed \cup {p}
               /\ UNCHANGED verdict
               /\ IF c[1] = 0 THEN heap' = f.h /\ live' = Without(live, p)
                  ELSE \E m \in Malloc(f.h, c[1], c[2]) :
                         /\ heap' = IF m.ptr = Null THEN m.h
                                    ELSE Copied(m.h, p, m.ptr, Min({live[p].size, c[1]}))
                         /\ live' = Got(Without(live, p), m,
                                        Block(c[1], c[2], Kept(live[p].content, Min({live[p].size, c[1]}), c[1])))
    BY <1>1, <1>5
  <2>3. /\ f.why \in Whys
        /\ f.why = "none" => /\ Releases(heap, live, freed, p, f.h)
                             /\ Sound(f.h, Without(live, p), freed \cup {p})
    BY <2>1, FreeDoes
  <2>4. CASE f.why # "none"
    BY <1>3, <2>2, <2>3, <2>4
  <2>5. CASE f.why = "none"
    <3>1. freed' = freed \cup {p} /\ verdict' = verdict /\ freed' \subseteq Nat
      BY <1>2, <2>1, <2>2, <2>5
    <3>2. CASE c[1] = 0
      BY <2>2, <2>3, <2>5, <3>1, <3>2 DEF IInv
    <3>3. CASE c[1] # 0
      <4>1. PICK m \in Malloc(f.h, c[1], c[2]) :
              /\ heap' = IF m.ptr = Null THEN m.h
                         ELSE Copied(m.h, p, m.ptr, Min({live[p].size, c[1]}))
              /\ live' = Got(Without(live, p), m,
                             Block(c[1], c[2], Kept(live[p].content, Min({live[p].size, c[1]}), c[1])))
        BY <2>2, <2>5, <3>3
      <4>2. PICK sz \in 0 .. Modulus - 1 : sz = c[1]
        BY CallsTyped
      <4>3. PICK n, e, line : n = Min({live[p].size, sz}) /\ e = f.h /\ line = c[2]
        OBVIOUS
      <4>4. /\ heap' = IF m.ptr = Null THEN m.h ELSE Copied(m.h, p, m.ptr, n)
            /\ live' = IF m.ptr = Null THEN Without(live, p)
                       ELSE With(Without(live, p), m.ptr, Block(sz, line, Kept(live[p].content, n, sz)))
        BY <4>1, <4>2, <4>3, GotIs
      <4>5. m \in Malloc(e, sz, line)
        BY <4>2, <4>3
      <4>6. CASE m.ptr = Null
        <5>1. PICK k, d : k = Without(live, p) /\ d = freed \cup {p}
          OBVIOUS
        <5>2. Sound(e, k, d) /\ d \subseteq Nat
          BY <1>2, <2>1, <2>3, <2>5, <4>3, <5>1
        <5>3. Given(e, k, d, sz, line, m)
          BY <4>5, <5>2, MallocIs
        <5>4. Sound(heap', live', freed')
          BY <3>1, <4>4, <4>6, <5>1, <5>3 DEF Given
        <5>5. QED
          BY <3>1, <5>4 DEF IInv
      <4>7. CASE m.ptr # Null
        <5>1. PICK g : g = Copied(m.h, p, m.ptr, n)
          OBVIOUS
        <5>2. Moves(heap, live, freed, p, sz, line, e, m, g, n)
          BY <1>2, <2>1, <2>3, <2>5, <4>3, <4>5, <4>7, <5>1 DEF Moves, Releases
        <5>3. Sound(g, With(Without(live, p), m.ptr, Block(sz, line, Kept(live[p].content, n, sz))), freed \cup {p})
          BY <5>2, MovedIs
        <5>4. Sound(heap', live', freed')
          BY <3>1, <4>4, <4>7, <5>1, <5>3
        <5>5. QED
          BY <3>1, <5>4 DEF IInv
      <4>8. QED
        BY <4>6, <4>7
    <3>4. QED
      BY <3>2, <3>3
  <2>6. QED
    BY <2>4, <2>5
<1>6. QED
  BY <1>4, <1>5

\* Where the program writes: a cell of a block, or the one after it.
LEMMA BlockIs ==
  ASSUME IInv, NEW p \in DOMAIN live
  PROVE  /\ p \in Nat /\ Known(live[p]) /\ live[p].size \in Nat /\ p + live[p].size + 1 <= MemSize
         /\ Whole(heap, p, live[p]) /\ DOMAIN heap = Fields /\ DOMAIN heap.mem = 0 .. MemSize - 1
         /\ \A a \in 0 .. MemSize - 1 : heap.mem[a].kind \in {"byte", "sz", "line", "ff"}
<1>1. Sound(heap, live, freed)
  BY DEF IInv
<1>2. Shaped(heap) /\ Laid(heap, live)
  BY <1>1 DEF Sound
<1>3. p \in Nat /\ live[p].size \in Nat /\ p + live[p].size + 1 <= MemSize
  BY <1>2, SpanIs
<1>4. Known(live[p]) /\ Whole(heap, p, live[p])
  BY <1>1, <1>2 DEF Laid, Sound
<1>5. QED
  BY <1>2, <1>3, <1>4 DEF Shaped

\* The program writes to a block, or past its end.
LEMMA WriteStep ==
  ASSUME IInv, Write \/ WriteTooFar
  PROVE  IInv'
<1>0. freed' = freed /\ verdict' = verdict /\ Sound(heap, live, freed)
  BY DEF Write, WriteTooFar, IInv
<1>1. PICK p \in DOMAIN live, v \in Values, i \in Nat :
        /\ i \in 1 .. live[p].size + 1
        /\ heap' = [heap EXCEPT !.mem[p + i - 1] = ByteOf(v)]
        /\ \/ i \in 1 .. live[p].size /\ live' = [live EXCEPT ![p].content[i] = v]
           \/ i = live[p].size + 1 /\ live' = [live EXCEPT ![p].past = ByteOf(v)]
  <2>1. CASE Write
    <3>1. PICK p \in DOMAIN live, v \in Values : \E i \in 1 .. live[p].size :
            heap' = [heap EXCEPT !.mem[p + i - 1] = ByteOf(v)] /\ live' = [live EXCEPT ![p].content[i] = v]
      BY <2>1 DEF Write
    <3>2. PICK i \in 1 .. live[p].size :
            heap' = [heap EXCEPT !.mem[p + i - 1] = ByteOf(v)] /\ live' = [live EXCEPT ![p].content[i] = v]
      BY <3>1
    <3>3. i \in Nat /\ i \in 1 .. live[p].size + 1
      BY BlockIs
    <3>4. QED
      BY <3>2, <3>3
  <2>2. CASE WriteTooFar
    <3>1. PICK p \in DOMAIN live, v \in Values :
            /\ heap' = [heap EXCEPT !.mem[p + live[p].size] = ByteOf(v)]
            /\ live' = [live EXCEPT ![p].past = ByteOf(v)]
      BY <2>2 DEF WriteTooFar
    <3>2. PICK i : i = live[p].size + 1
      OBVIOUS
    <3>3. i \in Nat /\ i \in 1 .. live[p].size + 1 /\ p + i - 1 = p + live[p].size
      BY <3>2, BlockIs
    <3>4. QED
      BY <3>1, <3>2, <3>3
  <2>3. QED
    BY <2>1, <2>2
<1>2. /\ p \in Nat /\ Known(live[p]) /\ live[p].size \in Nat /\ p + live[p].size + 1 <= MemSize
      /\ Whole(heap, p, live[p]) /\ DOMAIN heap = Fields /\ DOMAIN heap.mem = 0 .. MemSize - 1
      /\ \A a \in 0 .. MemSize - 1 : heap.mem[a].kind \in {"byte", "sz", "line", "ff"}
  BY BlockIs
<1>3. PICK at : at = p + i - 1
  OBVIOUS
<1>4. at \in 0 .. MemSize - 1 /\ p <= at /\ at <= p + live[p].size
  <2>1. i \in Nat /\ i >= 1 /\ i <= live[p].size + 1
    BY <1>1, <1>2
  <2>2. p \in Nat /\ live[p].size \in Nat /\ p + live[p].size + 1 <= MemSize /\ MemSize \in Nat
    BY <1>2, MemoryFits
  <2>3. QED
    BY <1>3, <2>1, <2>2
<1>5. /\ DOMAIN heap' = Fields /\ \A x \in Fields \ {"mem"} : heap'[x] = heap[x]
      /\ heap'.mem = [heap.mem EXCEPT ![at] = ByteOf(v)]
  BY <1>1, <1>2, <1>3 DEF Fields
<1>6. /\ DOMAIN heap'.mem = 0 .. MemSize - 1 /\ heap'.mem[at] = ByteOf(v)
      /\ \A a \in 0 .. MemSize - 1 : a # at => heap'.mem[a] = heap.mem[a]
  BY <1>2, <1>4, <1>5
<1>7. ByteOf(v).kind \in {"byte", "ff"}
  BY DEF ByteOf, Cell, FF
<1>8. \A a \in 0 .. MemSize - 1 : /\ a < p \/ a > p + live[p].size => heap'.mem[a] = heap.mem[a]
                                  /\ heap'.mem[a].kind \in {"byte", "sz", "line", "ff"}
  <2>1. \A a \in 0 .. MemSize - 1 : a < p \/ a > p + live[p].size => a # at
    BY <1>2, <1>4
  <2>2. QED
    BY <1>2, <1>6, <1>7, <2>1
<1>9. /\ DOMAIN live' = DOMAIN live /\ \A q \in DOMAIN live : q # p => live'[q] = live[q]
      /\ \/ i \in 1 .. live[p].size /\ live'[p] = [live[p] EXCEPT !.content = [@ EXCEPT ![i] = v]]
         \/ i = live[p].size + 1 /\ live'[p] = [live[p] EXCEPT !.past = ByteOf(v)]
  BY <1>1
<1>10. /\ Known(live'[p]) /\ live'[p].size = live[p].size /\ live'[p].line = live[p].line
       /\ \/ /\ i \in 1 .. live[p].size /\ live'[p].past = live[p].past
             /\ live'[p].content = [live[p].content EXCEPT ![i] = v]
          \/ i = live[p].size + 1 /\ live'[p].past = ByteOf(v) /\ live'[p].content = live[p].content
  BY <1>2, <1>9 DEF Known
<1>11. \A j \in 1 .. live[p].size + 1 : p + j - 1 \in 0 .. MemSize - 1 /\ (j # i => p + j - 1 # at)
  <2>1. SUFFICES ASSUME NEW j \in 1 .. live[p].size + 1
                 PROVE  p + j - 1 \in 0 .. MemSize - 1 /\ (j # i => p + j - 1 # at)
    OBVIOUS
  <2>2. p \in Nat /\ live[p].size \in Nat /\ p + live[p].size + 1 <= MemSize /\ MemSize \in Nat
    BY <1>2, MemoryFits
  <2>3. QED
    BY <1>3, <2>2
<1>12. \A j \in 1 .. live[p].size + 1 : heap'.mem[p + j - 1] = IF j = i THEN ByteOf(v) ELSE heap.mem[p + j - 1]
  BY <1>3, <1>6, <1>11
<1>13. \A j \in 1 .. live[p].size : live'[p].content[j] # Undefined =>
         heap'.mem[p + j - 1] = ByteOf(live'[p].content[j])
  <2>1. SUFFICES ASSUME NEW j \in 1 .. live[p].size, live'[p].content[j] # Undefined
                 PROVE  heap'.mem[p + j - 1] = ByteOf(live'[p].content[j])
    OBVIOUS
  <2>2. j \in 1 .. live[p].size + 1 /\ DOMAIN live[p].content = 1 .. live[p].size
    BY <1>2 DEF Known
  <2>3. live[p].content[j] # Undefined => heap.mem[p + j - 1] = ByteOf(live[p].content[j])
    BY <1>2 DEF Whole
  <2>4. CASE j = i
    <3>1. i \in 1 .. live[p].size /\ i # live[p].size + 1
      BY <1>2, <2>4
    <3>2. live'[p].content[i] = v
      BY <1>10, <2>2, <2>4, <3>1
    <3>3. QED
      BY <1>12, <2>2, <2>4, <3>2
  <2>5. CASE j # i
    <3>1. live'[p].content[j] = live[p].content[j]
      BY <1>10, <2>2, <2>5
    <3>2. QED
      BY <1>12, <2>1, <2>2, <2>3, <2>5, <3>1
  <2>6. QED
    BY <2>4, <2>5
<1>14. heap'.mem[p + live[p].size] = live'[p].past
  <2>1. p + (live[p].size + 1) - 1 = p + live[p].size /\ live[p].size + 1 \in 1 .. live[p].size + 1
    BY <1>2
  <2>2. heap'.mem[p + live[p].size] = IF live[p].size + 1 = i THEN ByteOf(v) ELSE heap.mem[p + live[p].size]
    BY <1>12, <2>1
  <2>3. heap.mem[p + live[p].size] = live[p].past
    BY <1>2 DEF Whole
  <2>4. i \in 1 .. live[p].size => i # live[p].size + 1
    BY <1>2
  <2>5. QED
    BY <1>10, <2>2, <2>3, <2>4
<1>15. PICK g, k : g = heap' /\ k = live'
  OBVIOUS
<1>16. Written(heap, live, p, g, k)
  BY <1>5, <1>6, <1>8, <1>9, <1>10, <1>13, <1>14, <1>15 DEF Written
<1>17. Sound(g, k, freed)
  BY <1>0, <1>16, WrittenIs
<1>18. QED
  BY <1>0, <1>15, <1>17 DEF IInv

\* Every step keeps the invariant.
LEMMA InvNext == IInv /\ [Next]_vars => IInv'
<1> SUFFICES ASSUME IInv, [Next]_vars PROVE IInv'
  OBVIOUS
<1>1. CASE CallMalloc
  BY <1>1, MallocStep
<1>2. CASE CallCalloc
  BY <1>2, CallocStep
<1>3. CASE CallFree
  BY <1>3, FreeStep
<1>4. CASE CallRealloc
  BY <1>4, ReallocStep
<1>5. CASE Write \/ WriteTooFar
  BY <1>5, WriteStep
<1>6. CASE UNCHANGED vars
  BY <1>6 DEF vars, IInv
<1>7. QED
  BY <1>1, <1>2, <1>3, <1>4, <1>5, <1>6 DEF Next

\* Nothing the allocator rests on is ever lost.
THEOREM HeapIsSound == Spec => []IInv
BY InvInit, InvNext, PTL DEF Spec

-----------------------------------------------------------------------------
(* The results.                                                            *)

\* What the process ends over, and what it may free.
LEMMA FreesAre ==
  ASSUME IInv, Next
  PROVE  /\ verdict' # verdict =>
              /\ verdict'.ptr \in DOMAIN live => live[verdict'.ptr].past # FF /\ verdict'.why = "wild_write"
              /\ (verdict'.ptr \in freed \ DOMAIN live /\ verdict'.why # "realloc") => verdict'.why = "double_free"
         /\ \A p \in (freed' \ freed) \cap DOMAIN live : live[p].past = FF
<1>1. ASSUME NEW p \in Nat, NEW f \in Free(heap, p), f.why # "none", Ends(f.why, p)
      PROVE  /\ verdict' = [why |-> f.why, ptr |-> p] /\ freed' = freed
             /\ p \in DOMAIN live => live[p].past # FF /\ f.why = "wild_write"
             /\ p \in freed \ DOMAIN live => f.why = "double_free"
  BY <1>1, FreeDoes DEF Ends
<1>2. ASSUME NEW p \in Nat, NEW f \in Free(heap, p), f.why = "none",
             freed' = freed \cup {p}, verdict' = verdict
      PROVE  \A q \in (freed' \ freed) \cap DOMAIN live : live[q].past = FF
  <2>1. live[p].past = FF
    BY <1>2, FreeDoes
  <2>2. QED
    BY <1>2, <2>1
<1>3. CASE CallMalloc \/ CallCalloc \/ Write \/ WriteTooFar
  <2>1. freed' = freed /\ verdict' = verdict
    BY <1>3 DEF CallMalloc, CallCalloc, Write, WriteTooFar
  <2>2. QED
    BY <2>1
<1>4. CASE CallFree
  <2>1. PICK p \in 1 .. (MemSize + 1) : \E f \in Free(heap, p) :
          IF f.why # "none" THEN Ends(f.why, p)
          ELSE heap' = f.h /\ live' = Without(live, p) /\ freed' = freed \cup {p} /\ UNCHANGED verdict
    BY <1>4 DEF CallFree
  <2>2. PICK f \in Free(heap, p) :
          IF f.why # "none" THEN Ends(f.why, p)
          ELSE heap' = f.h /\ live' = Without(live, p) /\ freed' = freed \cup {p} /\ UNCHANGED verdict
    BY <2>1
  <2>3. p \in Nat
    BY MemoryFits
  <2>4. CASE f.why # "none"
    BY <1>1, <2>2, <2>3, <2>4
  <2>5. CASE f.why = "none"
    BY <1>2, <2>2, <2>3, <2>5
  <2>6. QED
    BY <2>4, <2>5
<1>5. CASE CallRealloc
  <2>1. PICK p \in heap.allocs \cup freed :
          \/ p \notin heap.allocs /\ Ends("realloc", p)
          \/ \E f \in Free(heap, p) : \/ f.why # "none" /\ Ends(f.why, p)
                                      \/ f.why = "none" /\ freed' = freed \cup {p} /\ verdict' = verdict
    <3>1. PICK p \in heap.allocs \cup freed, c \in Reallocs :
            IF p \notin heap.allocs THEN Ends("realloc", p)
            ELSE \E f \in Free(heap, p) :
              IF f.why # "none" THEN Ends(f.why, p)
              ELSE /\ freed' = freed \cup {p}
                   /\ UNCHANGED verdict
                   /\ IF c[1] = 0 THEN heap' = f.h /\ live' = Without(live, p)
                      ELSE \E m \in Malloc(f.h, c[1], c[2]) :
                             /\ heap' = IF m.ptr = Null THEN m.h
                                        ELSE Copied(m.h, p, m.ptr, Min({live[p].size, c[1]}))
                             /\ live' = Got(Without(live, p), m,
                                            Block(c[1], c[2], Kept(live[p].content, Min({live[p].size, c[1]}), c[1])))
      BY <1>5, Zenon DEF CallRealloc
    <3>2. QED
      BY <3>1
  <2>2. p \in Nat /\ heap.allocs = DOMAIN live
    BY DEF IInv, Sound, Laid
  <2>3. CASE p \notin heap.allocs /\ Ends("realloc", p)
    <3>1. verdict' = [why |-> "realloc", ptr |-> p] /\ freed' = freed
      BY <2>3 DEF Ends
    <3>2. QED
      BY <2>2, <2>3, <3>1
  <2>4. CASE \E f \in Free(heap, p) : \/ f.why # "none" /\ Ends(f.why, p)
                                      \/ f.why = "none" /\ freed' = freed \cup {p} /\ verdict' = verdict
    <3>1. PICK f \in Free(heap, p) : \/ f.why # "none" /\ Ends(f.why, p)
                                     \/ f.why = "none" /\ freed' = freed \cup {p} /\ verdict' = verdict
      BY <2>4
    <3>2. CASE f.why # "none"
      BY <1>1, <2>2, <3>1, <3>2
    <3>3. CASE f.why = "none"
      BY <1>2, <2>2, <3>1, <3>3
    <3>4. QED
      BY <3>2, <3>3
  <2>5. QED
    BY <2>1, <2>3, <2>4
<1>6. QED
  BY <1>3, <1>4, <1>5 DEF Next

\* The invariant says more than HeapKept.
LEMMA HeapFollows == IInv => HeapKept
<1> SUFFICES ASSUME IInv PROVE HeapKept
  OBVIOUS
<1>1. Sound(heap, live, freed) /\ Shaped(heap) /\ Laid(heap, live)
  BY DEF IInv, Sound
<1>2. TypeOK
  BY <1>1 DEF IInv, Shaped, Laid, TypeOK, Whys
<1>3. ASSUME NEW p \in DOMAIN live, NEW q \in DOMAIN live, q > p
      PROVE  q - Meta >= p + live[p].size + Pad
  <2>1. /\ p \in Nat /\ q \in Nat /\ live[p].size \in Nat /\ live[q].size \in Nat
        /\ Span(p, live[p])[1] = p - 2 /\ Span(p, live[p])[2] = live[p].size + 3
        /\ Span(q, live[q])[1] = q - 2 /\ Span(q, live[q])[2] = live[q].size + 3
    BY <1>1, SpanIs
  <2>2. p # q
    BY <1>3, <2>1
  <2>3. Apart(Span(p, live[p]), Span(q, live[q]))
    BY <1>1, <2>2 DEF Laid
  <2>4. (p - 2) + (live[p].size + 3) <= q - 2 \/ (q - 2) + (live[q].size + 3) <= p - 2
    BY <2>1, <2>3 DEF Apart
  <2>5. QED
    BY <1>3, <2>1, <2>4 DEF Meta, Pad
<1>4. \A p \in DOMAIN live : Whole(heap, p, live[p])
  BY <1>1 DEF Sound
<1>5. QED
  BY <1>2, <1>3, <1>4, Zenon DEF HeapKept, Whole

\* It says what the leak report shows.
LEMMA LeaksFollow == IInv => LeaksListed
<1> SUFFICES ASSUME IInv PROVE LeaksListed
  OBVIOUS
<1>1. /\ Sound(heap, live, freed) /\ heap.allocs = DOMAIN live
      /\ \A p \in DOMAIN live : Whole(heap, p, live[p])
  BY DEF IInv, Sound, Laid
<1>2. \A p \in DOMAIN live : heap.mem[p - 2].v = live[p].size /\ heap.mem[p - 1].v = live[p].line
  <2>1. \A kind, v : Cell(kind, v).v = v
    BY DEF Cell
  <2>2. \A p \in DOMAIN live : /\ heap.mem[p - 2] = Cell("sz", live[p].size)
                               /\ heap.mem[p - 1] = Cell("line", live[p].line)
    BY <1>1 DEF Whole
  <2>3. QED
    BY <2>1, <2>2
<1>3. LeakReport = {<<p, live[p].size, live[p].line>> : p \in DOMAIN live}
  BY <1>1, <1>2 DEF LeakReport
<1>4. QED
  BY <1>1, <1>3 DEF LeaksListed, Sound, Counted, Bounded

\* For every size of memory, calls and writes: blocks never overlap, have the size that was asked
\* for and the contents the program may count on, and after it what the program wrote there, or else the padding
\* (m61_malloc, m61_calloc, m61_realloc, m61_free, base_malloc, base_free).
THEOREM HeapIsKept == Spec => []HeapKept
BY HeapIsSound, HeapFollows, PTL

\* The leak report is of the blocks the program has, with their sizes and lines, their number is
\* the statistics', and all of them are within the bounds of the heap (m61_print_leak_report).
THEOREM LeaksAreListed == Spec => []LeaksListed
BY HeapIsSound, LeaksFollow, PTL

\* The process ends over no block that has 0xFF after it, a block that has something else there
\* is never freed, and a second free is called one (m61_free, check_padding).
THEOREM FreesAreJudged == Spec => FreesJudged
<1> DEFINE Judges ==
      /\ verdict' # verdict =>
              LET p == verdict'.ptr IN
              /\ p \in DOMAIN live => live[p].past # FF /\ verdict'.why = "wild_write"
              /\ (p \in freed \ DOMAIN live /\ verdict'.why # "realloc") => verdict'.why = "double_free"
      /\ \A p \in (freed' \ freed) \cap DOMAIN live : live[p].past = FF
<1>1. IInv /\ [Next]_vars => [Judges]_vars
  BY FreesAre
<1>2. FreesJudged <=> [][Judges]_vars
  BY DEF FreesJudged
<1> HIDE DEF Judges
<1>3. QED
  BY <1>1, <1>2, HeapIsSound, PTL DEF Spec
-----------------------------------------------------------------------------
(* Sums.  A fold is a recursive function over the subsets of the set; that *)
(* there is one, and only one, is shown for a least set without.           *)

First(s) == CHOOSE x \in s : TRUE
Partial(f, S, g) == g = [s \in SUBSET S |-> IF s = {} THEN 0 ELSE g[s \ {First(s)}] + f[First(s)]]

\* A set of finite sets has one of which no proper subset is in it.
LEMMA Smallest ==
  ASSUME NEW A, A # {}, \A s \in A : IsFiniteSet(s)
  PROVE  \E s \in A : \A t \in A : t \subseteq s => t = s
<1>1. PICK R : R = OpToRel(<, Nat)
  OBVIOUS
<1>2. IsWellFoundedOn(R, Nat)
  BY <1>1, NatLessThanWellFounded
<1>3. PICK N : N = {Cardinality(s) : s \in A}
  OBVIOUS
<1>4. N \subseteq Nat /\ N # {}
  BY <1>3, FS_CardinalityType
<1>5. PICK n \in N : \A k \in N : ~ (<<k, n>> \in R)
  BY <1>2, <1>4, WFMin
<1>6. PICK s \in A : n = Cardinality(s)
  BY <1>3
<1>7. ASSUME NEW t \in A, t \subseteq s, t # s PROVE FALSE
  <2>1. Cardinality(t) < Cardinality(s)
    <3>1. IsFiniteSet(s) /\ IsFiniteSet(t)
      OBVIOUS
    <3>2. Cardinality(t) <= Cardinality(s) /\ Cardinality(t) # Cardinality(s)
      BY <1>7, <3>1, FS_Subset
    <3>3. QED
      BY <3>1, <3>2, FS_CardinalityType
  <2>2. Cardinality(t) \in N /\ Cardinality(t) \in Nat /\ n \in Nat
    BY <1>3, <1>4
  <2>3. <<Cardinality(t), n>> \in R
    BY <1>1, <1>6, <2>1, <2>2 DEF OpToRel
  <2>4. QED
    BY <1>5, <2>2, <2>3
<1>8. QED
  BY <1>6, <1>7

LEMMA FirstIs ==
  ASSUME NEW s, s # {}
  PROVE  First(s) \in s
BY DEF First

\* Partial sums over a set are those over each of its subsets.
LEMMA PartialBelow ==
  ASSUME NEW f, NEW S, NEW g, Partial(f, S, g), NEW T, T \subseteq S
  PROVE  Partial(f, T, [s \in SUBSET T |-> g[s]])
<1>1. PICK h : h = [s \in SUBSET T |-> g[s]]
  OBVIOUS
<1>2. ASSUME NEW s \in SUBSET T
      PROVE  h[s] = IF s = {} THEN 0 ELSE h[s \ {First(s)}] + f[First(s)]
  <2>1. h[s] = g[s] /\ h[s \ {First(s)}] = g[s \ {First(s)}]
    BY <1>1
  <2>2. s \in SUBSET S
    OBVIOUS
  <2>3. g[s] = IF s = {} THEN 0 ELSE g[s \ {First(s)}] + f[First(s)]
    BY <2>2 DEF Partial
  <2>4. QED
    BY <2>1, <2>3
<1>3. h = [s \in SUBSET T |-> IF s = {} THEN 0 ELSE h[s \ {First(s)}] + f[First(s)]]
  BY <1>1, <1>2
<1>4. QED
  BY <1>1, <1>3 DEF Partial

\* Partial sums are unique.
LEMMA PartialOnce ==
  ASSUME NEW f, NEW S, IsFiniteSet(S), NEW g, NEW h, Partial(f, S, g), Partial(f, S, h)
  PROVE  g = h
<1>1. PICK A : A = {s \in SUBSET S : g[s] # h[s]}
  OBVIOUS
<1>2. CASE A = {}
  <2>1. \A s \in SUBSET S : g[s] = h[s]
    BY <1>1, <1>2
  <2>2. DOMAIN g = SUBSET S /\ DOMAIN h = SUBSET S /\ g = [s \in DOMAIN g |-> g[s]] /\ h = [s \in DOMAIN h |-> h[s]]
    BY DEF Partial
  <2>3. QED
    BY <2>1, <2>2
<1>3. CASE A # {}
  <2>1. \A s \in A : IsFiniteSet(s)
    BY <1>1, FS_Subset
  <2>2. PICK s \in A : \A t \in A : t \subseteq s => t = s
    BY <1>3, <2>1, Smallest
  <2>3. s \in SUBSET S /\ g[s] # h[s]
    BY <1>1
  <2>4. /\ g[s] = IF s = {} THEN 0 ELSE g[s \ {First(s)}] + f[First(s)]
        /\ h[s] = IF s = {} THEN 0 ELSE h[s \ {First(s)}] + f[First(s)]
    BY <2>3 DEF Partial
  <2>5. s # {} /\ s \ {First(s)} \subseteq s /\ s \ {First(s)} # s
    BY <2>3, <2>4, FirstIs
  <2>6. s \ {First(s)} \in SUBSET S /\ s \ {First(s)} \notin A
    BY <2>2, <2>3, <2>5
  <2>7. QED
    BY <1>1, <2>3, <2>4, <2>6
<1>4. QED
  BY <1>2, <1>3

\* A sum is one of the partial sums, if there are any.
LEMMA SumOverIs ==
  ASSUME NEW f, NEW S, IsFiniteSet(S), NEW g, Partial(f, S, g), NEW T, T \subseteq S
  PROVE  SumOver(f, T) = g[T]
<1>1. PICK h : h = [s \in SUBSET T |-> g[s]]
  OBVIOUS
<1>2. Partial(f, T, h)
  BY <1>1, PartialBelow
<1>3. PICK k : k = (CHOOSE q : Partial(f, T, q))
  OBVIOUS
<1>4. Partial(f, T, k)
  BY <1>2, <1>3
<1>5. k = h
  BY <1>2, <1>4, PartialOnce, FS_Subset
<1>6. SumOver(f, T) = (CHOOSE q : Partial(f, T, q))[T]
  BY Zenon DEF SumOver, FoldSet, MapThenFoldSet, Partial, First
<1>7. QED
  BY <1>1, <1>3, <1>5, <1>6

\* Every finite set has them.
LEMMA PartialExist ==
  ASSUME NEW f, NEW S, IsFiniteSet(S)
  PROVE  \E g : Partial(f, S, g)
<1>1. PICK A : A = {s \in SUBSET S : ~ \E g : Partial(f, s, g)}
  OBVIOUS
<1>2. CASE A = {}
  BY <1>1, <1>2
<1>3. CASE A # {}
  <2>1. \A s \in A : IsFiniteSet(s)
    BY <1>1, FS_Subset
  <2>2. PICK s \in A : \A t \in A : t \subseteq s => t = s
    BY <1>3, <2>1, Smallest
  <2>3. s \in SUBSET S /\ IsFiniteSet(s)
    BY <1>1, <2>1
  <2>4. ASSUME NEW t \in SUBSET s, t # s
        PROVE  SumOver(f, t) = IF t = {} THEN 0 ELSE SumOver(f, t \ {First(t)}) + f[First(t)]
    <3>1. t \in SUBSET S /\ t \notin A /\ IsFiniteSet(t)
      BY <2>2, <2>3, <2>4, FS_Subset
    <3>2. PICK g : Partial(f, t, g)
      BY <1>1, <3>1
    <3>3. SumOver(f, t) = g[t] /\ SumOver(f, t \ {First(t)}) = g[t \ {First(t)}]
      <4>1. t \subseteq t /\ t \ {First(t)} \subseteq t
        OBVIOUS
      <4>2. QED
        BY <3>1, <3>2, <4>1, SumOverIs
    <3>4. g[t] = IF t = {} THEN 0 ELSE g[t \ {First(t)}] + f[First(t)]
      BY <3>2 DEF Partial
    <3>5. QED
      BY <3>3, <3>4
  <2>5. PICK h : h = [t \in SUBSET s |-> IF t = {} THEN 0 ELSE SumOver(f, t \ {First(t)}) + f[First(t)]]
    OBVIOUS
  <2>6. ASSUME NEW t \in SUBSET s, t # {} PROVE h[t \ {First(t)}] = SumOver(f, t \ {First(t)})
    <3>1. PICK u : u = t \ {First(t)}
      OBVIOUS
    <3>2. u \in SUBSET s /\ u # s
      BY <2>6, <3>1, FirstIs
    <3>3. h[u] = SumOver(f, u)
      BY <2>4, <2>5, <3>2
    <3>4. QED
      BY <3>1, <3>3
  <2>7. h = [t \in SUBSET s |-> IF t = {} THEN 0 ELSE h[t \ {First(t)}] + f[First(t)]]
    BY <2>5, <2>6
  <2>8. Partial(f, s, h)
    BY <2>7 DEF Partial
  <2>9. QED
    BY <1>1, <2>8
<1>4. QED
  BY <1>2, <1>3

\* So a sum over a set is that over the rest of it and one more.
LEMMA SumFirst ==
  ASSUME NEW f, NEW S, IsFiniteSet(S)
  PROVE  SumOver(f, S) = IF S = {} THEN 0 ELSE SumOver(f, S \ {First(S)}) + f[First(S)]
<1>1. PICK g : Partial(f, S, g)
  BY PartialExist
<1>2. S \subseteq S /\ S \ {First(S)} \subseteq S
  OBVIOUS
<1>3. SumOver(f, S) = g[S] /\ SumOver(f, S \ {First(S)}) = g[S \ {First(S)}]
  BY <1>1, <1>2, SumOverIs
<1>4. g[S] = IF S = {} THEN 0 ELSE g[S \ {First(S)}] + f[First(S)]
  BY <1>1 DEF Partial
<1>5. QED
  BY <1>3, <1>4

\* Sums of numbers are numbers.
LEMMA SumType ==
  ASSUME NEW f, NEW S, IsFiniteSet(S), \A x \in S : f[x] \in Nat
  PROVE  SumOver(f, S) \in Nat
<1>1. PICK A : A = {s \in SUBSET S : SumOver(f, s) \notin Nat}
  OBVIOUS
<1>2. CASE A = {}
  BY <1>1, <1>2
<1>3. CASE A # {}
  <2>1. \A s \in A : IsFiniteSet(s)
    BY <1>1, FS_Subset
  <2>2. PICK s \in A : \A t \in A : t \subseteq s => t = s
    BY <1>3, <2>1, Smallest
  <2>3. s \in SUBSET S /\ SumOver(f, s) \notin Nat
    BY <1>1
  <2>4. SumOver(f, s) = IF s = {} THEN 0 ELSE SumOver(f, s \ {First(s)}) + f[First(s)]
    BY <2>1, SumFirst
  <2>5. s # {}
    BY <2>3, <2>4
  <2>6. First(s) \in s /\ f[First(s)] \in Nat
    BY <2>3, <2>5, FirstIs
  <2>7. SumOver(f, s \ {First(s)}) \in Nat
    BY <1>1, <2>2, <2>3, <2>6
  <2>8. QED
    BY <2>3, <2>4, <2>5, <2>6, <2>7
<1>4. QED
  BY <1>2, <1>3

\* Which one does not matter.
LEMMA SumRemove ==
  ASSUME NEW f, NEW S, IsFiniteSet(S), \A x \in S : f[x] \in Nat, NEW x \in S
  PROVE  SumOver(f, S) = SumOver(f, S \ {x}) + f[x]
<1>1. PICK A : A = {s \in SUBSET S : \E y \in s : SumOver(f, s) # SumOver(f, s \ {y}) + f[y]}
  OBVIOUS
<1>2. CASE A = {}
  BY <1>1, <1>2
<1>3. CASE A # {}
  <2>1. \A s \in A : IsFiniteSet(s)
    BY <1>1, FS_Subset
  <2>2. PICK s \in A : \A t \in A : t \subseteq s => t = s
    BY <1>3, <2>1, Smallest
  <2>3. PICK y \in s : SumOver(f, s) # SumOver(f, s \ {y}) + f[y]
    BY <1>1
  <2>4. PICK z : z = First(s)
    OBVIOUS
  <2>5. s \in SUBSET S /\ z \in s /\ SumOver(f, s) = SumOver(f, s \ {z}) + f[z] /\ y # z
    BY <1>1, <2>1, <2>3, <2>4, SumFirst, FirstIs
  <2>6. PICK t, u, v : t = s \ {z} /\ u = s \ {y} /\ v = (s \ {z}) \ {y}
    OBVIOUS
  <2>7. t \in SUBSET S /\ u \in SUBSET S /\ t \notin A /\ u \notin A
    BY <2>2, <2>3, <2>5, <2>6
  <2>8. y \in t /\ z \in u /\ t \ {y} = v /\ u \ {z} = v
    BY <2>3, <2>5, <2>6
  <2>9. SumOver(f, t) = SumOver(f, v) + f[y] /\ SumOver(f, u) = SumOver(f, v) + f[z]
    BY <1>1, <2>7, <2>8
  <2>10. SumOver(f, v) \in Nat
    <3>1. IsFiniteSet(v) /\ v \subseteq S
      BY <2>6, <2>7, FS_Subset
    <3>2. QED
      BY <3>1, SumType
  <2>11. f[y] \in Nat /\ f[z] \in Nat
    BY <2>3, <2>5
  <2>12. SumOver(f, s) = SumOver(f, t) + f[z] /\ SumOver(f, s) # SumOver(f, u) + f[y]
    BY <2>3, <2>5, <2>6
  <2>13. QED
    BY <2>9, <2>10, <2>11, <2>12
<1>4. QED
  BY <1>2, <1>3

\* A sum is of what is in the set only.
LEMMA SumSame ==
  ASSUME NEW f, NEW g, NEW S, IsFiniteSet(S), \A x \in S : f[x] = g[x]
  PROVE  SumOver(f, S) = SumOver(g, S)
<1>1. PICK A : A = {s \in SUBSET S : SumOver(f, s) # SumOver(g, s)}
  OBVIOUS
<1>2. CASE A = {}
  BY <1>1, <1>2
<1>3. CASE A # {}
  <2>1. \A s \in A : IsFiniteSet(s)
    BY <1>1, FS_Subset
  <2>2. PICK s \in A : \A t \in A : t \subseteq s => t = s
    BY <1>3, <2>1, Smallest
  <2>3. s \in SUBSET S /\ SumOver(f, s) # SumOver(g, s)
    BY <1>1
  <2>4. /\ SumOver(f, s) = IF s = {} THEN 0 ELSE SumOver(f, s \ {First(s)}) + f[First(s)]
        /\ SumOver(g, s) = IF s = {} THEN 0 ELSE SumOver(g, s \ {First(s)}) + g[First(s)]
    BY <2>1, SumFirst
  <2>5. s # {}
    BY <2>3, <2>4
  <2>6. First(s) \in s
    BY <2>5, FirstIs
  <2>7. SumOver(f, s \ {First(s)}) = SumOver(g, s \ {First(s)}) /\ f[First(s)] = g[First(s)]
    BY <1>1, <2>2, <2>3, <2>6
  <2>8. QED
    BY <2>3, <2>4, <2>5, <2>7
<1>4. QED
  BY <1>2, <1>3

-----------------------------------------------------------------------------
(* The totals.                                                             *)

\* Sizes of blocks add up when one comes or goes.
LEMMA SizesAdd ==
  ASSUME NEW l, IsFiniteSet(DOMAIN l), \A q \in DOMAIN l : l[q].size \in Nat,
         NEW p, p \notin DOMAIN l, NEW b, b.size \in Nat
  PROVE  SumOver(Sizes(With(l, p, b)), DOMAIN With(l, p, b)) = SumOver(Sizes(l), DOMAIN l) + b.size
<1>1. PICK k, D, f, g : k = With(l, p, b) /\ D = DOMAIN l \cup {p} /\ f = Sizes(k) /\ g = Sizes(l)
  OBVIOUS
<1>2. DOMAIN k = D /\ k[p] = b /\ \A q \in DOMAIN l : k[q] = l[q]
  BY <1>1 DEF With
<1>3. f[p] = b.size /\ (\A q \in DOMAIN l : f[q] = g[q]) /\ \A q \in D : f[q] \in Nat
  BY <1>1, <1>2 DEF Sizes
<1>4. IsFiniteSet(D) /\ p \in D /\ D \ {p} = DOMAIN l
  BY <1>1, FS_AddElement
<1>5. SumOver(f, D) = SumOver(f, DOMAIN l) + f[p]
  BY <1>3, <1>4, SumRemove
<1>6. SumOver(f, DOMAIN l) = SumOver(g, DOMAIN l)
  BY <1>3, SumSame
<1>7. QED
  BY <1>1, <1>2, <1>3, <1>5, <1>6

LEMMA SizesRemove ==
  ASSUME NEW l, IsFiniteSet(DOMAIN l), \A q \in DOMAIN l : l[q].size \in Nat, NEW p \in DOMAIN l
  PROVE  SumOver(Sizes(Without(l, p)), DOMAIN Without(l, p)) = SumOver(Sizes(l), DOMAIN l) - l[p].size
<1>1. PICK k, f, g : k = Without(l, p) /\ f = Sizes(k) /\ g = Sizes(l)
  OBVIOUS
<1>2. DOMAIN k = DOMAIN l \ {p} /\ \A q \in DOMAIN l \ {p} : k[q] = l[q]
  BY <1>1 DEF Without
<1>3. (\A q \in DOMAIN l \ {p} : f[q] = g[q]) /\ (\A q \in DOMAIN l : g[q] \in Nat) /\ g[p] = l[p].size
  BY <1>1, <1>2 DEF Sizes
<1>4. SumOver(g, DOMAIN l) = SumOver(g, DOMAIN l \ {p}) + g[p]
  BY <1>3, SumRemove
<1>5. IsFiniteSet(DOMAIN l \ {p})
  BY FS_RemoveElement
<1>6. SumOver(f, DOMAIN l \ {p}) = SumOver(g, DOMAIN l \ {p})
  BY <1>3, <1>5, SumSame
<1>7. SumOver(g, DOMAIN l \ {p}) \in Nat
  BY <1>3, <1>5, SumType
<1>8. QED
  BY <1>1, <1>2, <1>3, <1>4, <1>6, <1>7

\* Nothing but the sizes matters.
LEMMA SizesSame ==
  ASSUME NEW l, NEW k, DOMAIN k = DOMAIN l, \A q \in DOMAIN l : k[q].size = l[q].size
  PROVE  SumOver(Sizes(k), DOMAIN k) = SumOver(Sizes(l), DOMAIN l)
<1>1. Sizes(k) = Sizes(l)
  BY DEF Sizes
<1>2. QED
  BY <1>1

\* The statistics and the samples are those of the blocks and of the calls.
Hit == [size : Nat, count : Nat]
OfLine(h, field) == [l \in Lines |-> h.hits[l][field]]
Sampled(h) ==
  /\ h.hits \in [Lines -> Hit] /\ h.total \in Hit
  /\ \A field \in {"size", "count"} : h.total[field] = SumOver(OfLine(h, field), Lines) % Modulus
Summed(h, l) == Sampled(h) /\ h.active_size = SumOver(Sizes(l), DOMAIN l)

\* A sample is added to the line it is of and to the total.
LEMMA SampledAdd ==
  ASSUME NEW h, DOMAIN h = Fields, Sampled(h), NEW line \in Lines, NEW n \in Nat, NEW a \in Add(h, line, n)
  PROVE  Sampled(a) /\ a.active_size = h.active_size
<1>1. CASE a = h
  BY <1>1
<1>2. CASE a # h
  <2>1. a = [h EXCEPT !.total = PlusHit(@, n), !.hits[line] = PlusHit(@, n)]
    BY <1>2 DEF Add
  <2>2. /\ a.total = PlusHit(h.total, n) /\ a.active_size = h.active_size
        /\ a.hits = [h.hits EXCEPT ![line] = PlusHit(@, n)]
    BY <2>1 DEF Fields
  <2>3. /\ h.hits \in [Lines -> Hit] /\ h.total \in Hit
        /\ \A field \in {"size", "count"} : h.total[field] = SumOver(OfLine(h, field), Lines) % Modulus
    BY DEF Sampled
  <2>4. ASSUME NEW v \in Hit
        PROVE  /\ PlusHit(v, n) \in Hit
               /\ PlusHit(v, n).size = (v.size + n) % Modulus /\ PlusHit(v, n).count = (v.count + 1) % Modulus
    <3>1. v.size + n \in Nat /\ v.count + 1 \in Nat
      BY DEF Hit
    <3>2. PICK x, y : x = (v.size + n) % Modulus /\ y = (v.count + 1) % Modulus
      OBVIOUS
    <3>3. x \in Nat /\ y \in Nat
      BY <3>1, <3>2, CallsTyped
    <3>4. PlusHit(v, n) = [size |-> x, count |-> y]
      BY <3>2 DEF PlusHit
    <3>5. QED
      BY <3>2, <3>3, <3>4 DEF Hit
  <2>5. /\ a.hits \in [Lines -> Hit] /\ a.total \in Hit /\ a.hits[line] = PlusHit(h.hits[line], n)
        /\ \A l \in Lines \ {line} : a.hits[l] = h.hits[l]
    BY <2>2, <2>3, <2>4
  <2>6. ASSUME NEW field \in {"size", "count"} PROVE a.total[field] = SumOver(OfLine(a, field), Lines) % Modulus
    <3>1. PICK f, g, d : f = OfLine(h, field) /\ g = OfLine(a, field) /\ d = (IF field = "size" THEN n ELSE 1)
      OBVIOUS
    <3>2. /\ d \in Nat /\ a.total[field] = (h.total[field] + d) % Modulus
          /\ a.hits[line][field] = (h.hits[line][field] + d) % Modulus
      BY <2>2, <2>3, <2>4, <2>5, <3>1
    <3>3. /\ \A l \in Lines : f[l] \in Nat /\ g[l] \in Nat
          /\ \A l \in Lines \ {line} : g[l] = f[l]
          /\ g[line] = (f[line] + d) % Modulus
      BY <2>3, <2>5, <3>1, <3>2 DEF OfLine, Hit
    <3>4. PICK R : R = Lines \ {line}
      OBVIOUS
    <3>5. IsFiniteSet(Lines) /\ IsFiniteSet(R)
      BY <3>4, LinesAreFinite, FS_RemoveElement
    <3>6. SumOver(f, Lines) = SumOver(f, R) + f[line] /\ SumOver(g, Lines) = SumOver(g, R) + g[line]
      BY <3>3, <3>4, <3>5, SumRemove
    <3>7. SumOver(g, R) = SumOver(f, R) /\ SumOver(f, R) \in Nat
      <4>1. \A l \in R : g[l] = f[l] /\ f[l] \in Nat
        BY <3>3, <3>4
      <4>2. QED
        BY <3>5, <4>1, SumSame, SumType
    <3>8. h.total[field] = SumOver(f, Lines) % Modulus
      BY <2>3, <3>1
    <3>9. f[line] \in Nat
      BY <3>3
    <3>10. PICK rest, part : rest = SumOver(f, R) /\ part = f[line]
      OBVIOUS
    <3>11. /\ a.total[field] = (((rest + part) % Modulus) + d) % Modulus
           /\ SumOver(g, Lines) = rest + ((part + d) % Modulus)
      BY <3>2, <3>3, <3>6, <3>7, <3>8, <3>10
    <3>12. (((rest + part) % Modulus) + d) % Modulus = (rest + ((part + d) % Modulus)) % Modulus
      <4>1. rest \in Nat /\ part \in Nat /\ d \in Nat
        BY <3>2, <3>7, <3>9, <3>10
      <4>2. QED
        BY <4>1, BothGrow
    <3>13. a.total[field] = SumOver(g, Lines) % Modulus
      BY <3>11, <3>12, Zenon
    <3>14. QED
      BY <3>1, <3>13, Zenon
  <2>7. QED
    BY <2>2, <2>5, <2>6 DEF Sampled
<1>3. QED
  BY <1>1, <1>2

SameSums(g, h) ==
  DOMAIN g = DOMAIN h /\ g.hits = h.hits /\ g.total = h.total /\ g.active_size = h.active_size

\* Totals are of nothing else in the heap.
LEMMA SameIsSampled ==
  ASSUME NEW g, NEW h, SameSums(g, h), Sampled(h)
  PROVE  Sampled(g) /\ g.active_size = h.active_size
<1>1. g.hits = h.hits /\ g.total = h.total /\ g.active_size = h.active_size
  BY DEF SameSums
<1>2. \A field : OfLine(g, field) = OfLine(h, field)
  BY <1>1 DEF OfLine
<1>3. QED
  BY <1>1, <1>2 DEF Sampled

\* The base allocator and calls that fail leave them alone.
LEMMA BaseSums ==
  ASSUME NEW h, DOMAIN h = Fields, NEW n, NEW b \in BaseMalloc(h, n)
  PROVE  SameSums(b.h, h)
<1> DEFINE Old(f) == [h |-> [h EXCEPT !.frees = @ \ {f}, !.base = @ \cup {<<f[1], n>>}], at |-> f[1], ok |-> TRUE]
           Low == [h |-> [h EXCEPT !.low = @ + n, !.base = @ \cup {<<h.low, n>>}], at |-> h.low, ok |-> TRUE]
           High == [h |-> [h EXCEPT !.high = @ - n, !.base = @ \cup {<<h.high - n, n>>}],
                    at |-> h.high - n, ok |-> TRUE]
           None == [h |-> h, at |-> 0, ok |-> FALSE]
<1>1. BaseMalloc(h, n) = {Old(f) : f \in {g \in h.frees : g[2] >= n}}
                           \cup (IF h.low + n > h.high THEN {None} ELSE {Low, High})
  BY Zenon DEF BaseMalloc
<1>2. /\ \A f : SameSums(Old(f).h, h)
      /\ SameSums(Low.h, h) /\ SameSums(High.h, h) /\ SameSums(None.h, h)
  BY DEF SameSums, Fields
<1> HIDE DEF Old, Low, High, None
<1>3. QED
  BY <1>1, <1>2

LEMMA FailedSums ==
  ASSUME NEW h, DOMAIN h = Fields, NEW n
  PROVE  SameSums(Failed(h, n), h)
BY DEF Failed, SameSums, Fields

\* m61_malloc: the size of the new block, if there is one, is added.
LEMMA MallocSums ==
  ASSUME NEW h, NEW l, NEW fr, Sound(h, l, fr), fr \subseteq Nat, Summed(h, l),
         NEW n \in 0 .. Modulus - 1, NEW line \in Lines, NEW m \in Malloc(h, n, line), NEW b, b.size = n
  PROVE  /\ m.ptr = Null => Summed(m.h, l)
         /\ m.ptr # Null => Summed(m.h, With(l, m.ptr, b))
<1> DEFINE total == (n + Meta + Pad) % Modulus
           Result(a, c) == IF c.ok THEN [h |-> Placed(c.h, c.at, n, line), ptr |-> c.at + Meta]
                           ELSE [h |-> Failed(c.h, n), ptr |-> Null]
           None(a) == [h |-> Failed(a, n), ptr |-> Null]
<1>0. n \in Nat /\ DOMAIN h = Fields
  BY CallsTyped DEF Sound, Shaped
<1>1. PICK a \in Add(h, line, n) :
        m \in IF total > n /\ total < MaxMalloc THEN {Result(a, c) : c \in BaseMalloc(a, total)} ELSE {None(a)}
  BY Zenon DEF Malloc
<1>2. Sampled(a) /\ a.active_size = h.active_size
  BY <1>0, SampledAdd DEF Summed
<1>3. DOMAIN a = Fields
  BY <1>0, AddIs DEF SameBlocks
<1>4. ASSUME NEW g, SameSums(g, a), m.h = g PROVE Summed(m.h, l)
  BY <1>2, <1>4, SameIsSampled DEF Summed
<1>5. CASE ~ (total > n /\ total < MaxMalloc)
  <2>1. m.ptr = Null /\ m.h = Failed(a, n)
    BY <1>1, <1>5
  <2>2. QED
    BY <1>3, <1>4, <2>1, FailedSums
<1>6. CASE total > n /\ total < MaxMalloc
  <2>1. PICK c \in BaseMalloc(a, total) : m = Result(a, c)
    BY <1>1, <1>6
  <2>2. SameSums(c.h, a)
    BY <1>3, BaseSums
  <2>3. DOMAIN c.h = Fields
    BY <1>3, <2>2 DEF SameSums
  <2>4. CASE ~c.ok
    <3>1. m.ptr = Null /\ m.h = Failed(c.h, n)
      BY <2>1, <2>4
    <3>2. SameSums(Failed(c.h, n), a)
      BY <2>2, <2>3, FailedSums DEF SameSums
    <3>3. QED
      BY <1>4, <3>1, <3>2
  <2>5. CASE c.ok
    <3>1. m.ptr = c.at + Meta /\ m.h = Placed(c.h, c.at, n, line)
      BY <2>1, <2>5
    <3>2. PICK e : e = c.h
      OBVIOUS
    <3>3. m.h.hits = e.hits /\ m.h.total = e.total /\ m.h.active_size = e.active_size + n
      BY <2>3, <3>1, <3>2 DEF Placed, Fields
    <3>4. PICK g : g = [m.h EXCEPT !.active_size = e.active_size]
      OBVIOUS
    <3>5. DOMAIN m.h = Fields
      BY <2>3, <3>1, <3>2 DEF Placed
    <3>6. SameSums(g, a) /\ g.hits = m.h.hits /\ g.total = m.h.total
      BY <1>3, <2>2, <3>2, <3>3, <3>4, <3>5 DEF SameSums, Fields
    <3>7. Sampled(g)
      BY <1>2, <3>6, SameIsSampled
    <3>8. Sampled(m.h)
      <4>1. \A field : OfLine(g, field) = OfLine(m.h, field)
        BY <3>6 DEF OfLine
      <4>2. QED
        BY <3>6, <3>7, <4>1 DEF Sampled
    <3>9. m.h.active_size = SumOver(Sizes(l), DOMAIN l) + n
      BY <1>2, <2>2, <3>2, <3>3 DEF Summed, SameSums
    <3>10. Given(h, l, fr, n, line, m)
      BY MallocIs
    <3>11. CASE m.ptr = Null
      <4>1. c.at + 2 # 0
        <5>1. Shaped(a) /\ Laid(a, l)
          <6>1. SameBlocks(a, h)
            BY <1>0, AddIs
          <6>2. Sound(a, l, fr)
            BY <6>1, SameIsSound
          <6>3. QED
            BY <6>2 DEF Sound
        <5>2. total = n + Meta + Pad
          BY <1>6, TotalIs
        <5>3. PICK t \in Nat : t = total /\ t >= Meta + Pad
          BY <1>0, <5>2 DEF Meta, Pad
        <5>4. c \in BaseMalloc(a, t)
          BY <5>3
        <5>5. c.at \in Nat
          BY <2>5, <5>1, <5>3, <5>4, BaseMallocIs
        <5>6. QED
          BY <5>5
      <4>2. QED
        BY <3>1, <3>11, <4>1 DEF Meta, Null
    <3>12. CASE m.ptr # Null
      <4>1. m.ptr \notin DOMAIN l
        BY <3>10, <3>12 DEF Given
      <4>2. IsFiniteSet(DOMAIN l) /\ \A q \in DOMAIN l : l[q].size \in Nat
        BY DEF Sound, Counted, Laid, Known
      <4>3. PICK p, k : p = m.ptr /\ k = With(l, p, b)
        OBVIOUS
      <4>4. SumOver(Sizes(k), DOMAIN k) = SumOver(Sizes(l), DOMAIN l) + n
        BY <1>0, <4>1, <4>2, <4>3, SizesAdd
      <4>5. Summed(m.h, k)
        BY <3>8, <3>9, <4>4 DEF Summed
      <4>6. QED
        BY <3>12, <4>3, <4>5
    <3>13. QED
      BY <3>11, <3>12
  <2>6. QED
    BY <2>4, <2>5
<1>7. QED
  BY <1>5, <1>6

\* What is written to memory does not count.
LEMMA WriteSums ==
  ASSUME NEW h, NEW l, NEW mem, DOMAIN h = Fields, Summed(h, l)
  PROVE  Summed([h EXCEPT !.mem = mem], l)
<1>1. PICK g : g = [h EXCEPT !.mem = mem]
  OBVIOUS
<1>2. SameSums(g, h)
  BY <1>1 DEF SameSums, Fields
<1>3. QED
  BY <1>1, <1>2, SameIsSampled DEF Summed

\* m61_free: the size of the block is taken away.
LEMMA ReleaseSums ==
  ASSUME NEW h, NEW l, NEW fr, NEW p, NEW g, Releases(h, l, fr, p, g), Summed(h, l)
  PROVE  Summed(g, Without(l, p))
<1>1. Sound(h, l, fr) /\ p \in DOMAIN l /\ g = Released(h, p, l[p].size)
  BY DEF Releases
<1>2. DOMAIN h = Fields /\ IsFiniteSet(DOMAIN l) /\ \A q \in DOMAIN l : l[q].size \in Nat
  BY <1>1 DEF Sound, Shaped, Counted, Laid, Known
<1>3. /\ DOMAIN g = Fields /\ g.hits = h.hits /\ g.total = h.total
      /\ g.active_size = h.active_size - l[p].size
  BY <1>1, <1>2 DEF Released, BaseFree, Fields
<1>4. Sampled(g)
  <2>1. \A field : OfLine(g, field) = OfLine(h, field)
    BY <1>3 DEF OfLine
  <2>2. QED
    BY <1>3, <2>1 DEF Sampled, Summed
<1>5. PICK k : k = Without(l, p)
  OBVIOUS
<1>6. SumOver(Sizes(k), DOMAIN k) = SumOver(Sizes(l), DOMAIN l) - l[p].size
  BY <1>1, <1>2, <1>5, SizesRemove
<1>7. QED
  BY <1>3, <1>4, <1>5, <1>6 DEF Summed

\* m61_calloc: products that wrap give nothing, so what is added is the size of the block.
LEMMA CallocSums ==
  ASSUME NEW h, NEW l, NEW fr, Sound(h, l, fr), fr \subseteq Nat, Summed(h, l), NEW n \in 0 .. Modulus - 1,
         NEW sz \in 0 .. Modulus - 1, NEW line \in Lines, NEW m \in Calloc(h, n, sz, line), NEW b, b.size = n * sz
  PROVE  /\ m.ptr = Null => Summed(m.h, l)
         /\ m.ptr # Null => Summed(m.h, With(l, m.ptr, b))
<1> DEFINE size == (n * sz) % Modulus
           Zeros(e) == [e EXCEPT !.h.mem = [a \in DOMAIN @ |-> IF a \in e.ptr .. (e.ptr + size - 1)
                                                                THEN Cell("byte", 0) ELSE @[a]]]
<1>0. n \in Nat /\ sz \in Nat /\ size \in 0 .. Modulus - 1 /\ MaxMalloc \in Nat /\ DOMAIN h = Fields
  BY CallsTyped DEF Sound, Shaped
<1>1. m \in IF ~ (sz <= size /\ n <= size) THEN {[h |-> Failed(h, size), ptr |-> Null]}
            ELSE {IF e.ptr = Null THEN e ELSE Zeros(e) : e \in Malloc(h, size, line)}
  BY Zenon DEF Calloc
<1>2. CASE ~ (sz <= size /\ n <= size)
  <2>1. m.ptr = Null /\ m.h = Failed(h, size)
    BY <1>1, <1>2
  <2>2. SameSums(m.h, h)
    BY <1>0, <2>1, FailedSums
  <2>3. QED
    BY <2>1, <2>2, SameIsSampled DEF Summed
<1>3. CASE sz <= size /\ n <= size
  <2>1. PICK e \in Malloc(h, size, line) : m = IF e.ptr = Null THEN e ELSE Zeros(e)
    BY <1>1, <1>3
  <2>2. PICK s \in 0 .. Modulus - 1 : s = size
    BY <1>0
  <2>3. Given(h, l, fr, s, line, e)
    <3>1. e \in Malloc(h, s, line)
      BY <2>2
    <3>2. QED
      BY <2>2, <3>1, MallocIs
  <2>4. CASE e.ptr = Null
    <3>1. e \in Malloc(h, s, line) /\ m = e
      BY <2>1, <2>2, <2>4
    <3>2. PICK c : c.size = s
      <4>1. [size |-> s].size = s
        OBVIOUS
      <4>2. QED
        BY <4>1
    <3>3. Summed(e.h, l)
      BY <2>4, <3>1, <3>2, MallocSums
    <3>4. QED
      BY <2>4, <3>1, <3>3
  <2>5. CASE e.ptr # Null
    <3>1. size = n * sz
      <4>1. s + Meta + Pad < MaxMalloc
        BY <2>3, <2>5 DEF Given
      <4>2. size < MaxMalloc
        BY <1>0, <2>2, <4>1 DEF Meta, Pad
      <4>3. QED
        BY <1>0, <1>3, <4>2, ProductIs
    <3>2. e \in Malloc(h, s, line) /\ b.size = s
      BY <2>2, <3>1
    <3>3. Summed(e.h, With(l, e.ptr, b))
      BY <2>5, <3>2, MallocSums
    <3>4. DOMAIN e.h = Fields /\ e = [h |-> e.h, ptr |-> e.ptr]
      BY <2>3, <2>5 DEF Given, Sound, Shaped
    <3>5. PICK mem : m.h = [e.h EXCEPT !.mem = mem] /\ m.ptr = e.ptr
      BY <2>1, <2>5, <3>4
    <3>6. PICK k, d : k = With(l, e.ptr, b) /\ d = e.h
      OBVIOUS
    <3>9. Summed([d EXCEPT !.mem = mem], k)
      BY <3>3, <3>4, <3>6, WriteSums
    <3>7. Summed(m.h, k)
      BY <3>5, <3>6, <3>9
    <3>8. QED
      BY <2>5, <3>5, <3>6, <3>7
  <2>6. QED
    BY <2>4, <2>5
<1>4. QED
  BY <1>2, <1>3

-----------------------------------------------------------------------------
(* The totals are right at first and after every call and write.           *)

SumInv == Summed(heap, live)

LEMMA SumInit == Init => SumInv
<1> SUFFICES ASSUME Init PROVE SumInv
  OBVIOUS
<1>1. PICK h, l, f : h = heap /\ l = live /\ f = [x \in Lines |-> 0]
  OBVIOUS
<1>2. /\ h.hits = [x \in Lines |-> NoHits] /\ h.total = NoHits /\ h.active_size = 0 /\ DOMAIN l = {}
  BY <1>1 DEF Init, InitialHeap
<1>3. \A field \in {"size", "count"} : OfLine(h, field) = f /\ NoHits[field] = 0 /\ NoHits \in Hit
  BY <1>1, <1>2 DEF OfLine, NoHits, Hit
<1>4. SumOver(f, Lines) = 0
  <2>1. PICK A : A = {s \in SUBSET Lines : SumOver(f, s) # 0}
    OBVIOUS
  <2>2. CASE A = {}
    BY <2>1, <2>2
  <2>3. CASE A # {}
    <3>1. \A s \in A : IsFiniteSet(s)
      BY <2>1, LinesAreFinite, FS_Subset
    <3>2. PICK s \in A : \A t \in A : t \subseteq s => t = s
      BY <2>3, <3>1, Smallest
    <3>3. SumOver(f, s) = IF s = {} THEN 0 ELSE SumOver(f, s \ {First(s)}) + f[First(s)]
      BY <3>1, SumFirst
    <3>4. s \in SUBSET Lines /\ s # {} /\ First(s) \in s
      BY <2>1, <3>3, FirstIs
    <3>5. SumOver(f, s \ {First(s)}) = 0 /\ f[First(s)] = 0
      BY <1>1, <2>1, <3>2, <3>4
    <3>6. QED
      BY <2>1, <3>3, <3>4, <3>5
  <2>4. QED
    BY <2>2, <2>3
<1>5. Sampled(h)
  <2>1. 0 % Modulus = 0
    BY CallsTyped
  <2>2. QED
    BY <1>2, <1>3, <1>4, <2>1 DEF Sampled
<1>6. SumOver(Sizes(l), DOMAIN l) = 0
  BY <1>2, SumFirst, FS_EmptySet
<1>7. QED
  BY <1>1, <1>2, <1>5, <1>6 DEF SumInv, Summed

\* What is written into blocks leaves their sizes.
LEMMA SumWrites ==
  ASSUME IInv, SumInv, Write \/ WriteTooFar
  PROVE  SumInv'
<1>1. PICK h, l : h = heap /\ l = live
  OBVIOUS
<1>2. DOMAIN h = Fields /\ \A q \in DOMAIN l : DOMAIN l[q] = {"size", "line", "content", "past"}
  BY <1>1 DEF IInv, Sound, Shaped, Laid, Known
<1>3. PICK mem : heap' = [h EXCEPT !.mem = mem]
  BY <1>1 DEF Write, WriteTooFar
<1>4. PICK p, b : p \in DOMAIN l /\ live' = [l EXCEPT ![p] = b] /\ b.size = l[p].size
  <2>1. CASE Write
    <3>1. PICK p, c : p \in DOMAIN l /\ live' = [l EXCEPT ![p].content = c]
      BY <1>1, <2>1 DEF Write
    <3>2. PICK b : b = [l[p] EXCEPT !.content = c]
      OBVIOUS
    <3>3. live' = [l EXCEPT ![p] = b] /\ b.size = l[p].size
      BY <1>2, <3>1, <3>2
    <3>4. QED
      BY <3>1, <3>3
  <2>2. CASE WriteTooFar
    <3>1. PICK p \in DOMAIN l, v \in Values : live' = [l EXCEPT ![p].past = ByteOf(v)]
      BY <1>1, <2>2 DEF WriteTooFar
    <3>2. PICK b : b = [l[p] EXCEPT !.past = ByteOf(v)]
      OBVIOUS
    <3>3. live' = [l EXCEPT ![p] = b] /\ b.size = l[p].size
      BY <1>2, <3>1, <3>2
    <3>4. QED
      BY <3>3
  <2>3. QED
    BY <2>1, <2>2
<1>5. PICK k, g : k = live' /\ g = heap'
  OBVIOUS
<1>6. DOMAIN k = DOMAIN l /\ \A q \in DOMAIN l : k[q].size = l[q].size
  BY <1>4, <1>5
<1>7. SumOver(Sizes(k), DOMAIN k) = SumOver(Sizes(l), DOMAIN l)
  BY <1>6, SizesSame
<1>8. Summed(g, l)
  BY <1>1, <1>2, <1>3, <1>5, WriteSums DEF SumInv
<1>9. Summed(g, k)
  BY <1>7, <1>8 DEF Summed
<1>10. QED
  BY <1>5, <1>9 DEF SumInv

\* Lines and sizes of the calls.
LEMMA CallsAre ==
  /\ \A c \in Mallocs \cup Reallocs : c[1] \in 0 .. Modulus - 1 /\ c[2] \in Lines
  /\ \A c \in Callocs : c[1] \in 0 .. Modulus - 1 /\ c[2] \in 0 .. Modulus - 1 /\ c[3] \in Lines
<1>1. \A c \in Mallocs \cup Reallocs : c[1] \in 0 .. Modulus - 1
  BY CallsTyped
<1>2. \A c \in Callocs : c[1] \in 0 .. Modulus - 1 /\ c[2] \in 0 .. Modulus - 1
  BY CallsTyped
<1>3. QED
  BY <1>1, <1>2 DEF Lines

\* The program calls m61_malloc or m61_calloc.
LEMMA SumGives ==
  ASSUME IInv, SumInv, CallMalloc \/ CallCalloc
  PROVE  SumInv'
<1>1. PICK h, l, fr : h = heap /\ l = live /\ fr = freed
  OBVIOUS
<1>2. Sound(h, l, fr) /\ fr \subseteq Nat /\ Summed(h, l)
  BY <1>1 DEF IInv, SumInv
<1>3. PICK m, b : heap' = m.h /\ live' = Got(l, m, b)
                  /\ (m.ptr = Null => Summed(m.h, l)) /\ (m.ptr # Null => Summed(m.h, With(l, m.ptr, b)))
  <2>1. CASE CallMalloc
    <3>1. PICK c \in Mallocs : \E m \in Malloc(h, c[1], c[2]) :
            heap' = m.h /\ live' = Got(l, m, Block(c[1], c[2], Blank(c[1])))
      BY <1>1, <2>1 DEF CallMalloc
    <3>2. PICK m \in Malloc(h, c[1], c[2]) :
            heap' = m.h /\ live' = Got(l, m, Block(c[1], c[2], Blank(c[1])))
      BY <3>1
    <3>3. PICK n, line, b : /\ n \in 0 .. Modulus - 1 /\ line \in Lines /\ n = c[1] /\ line = c[2]
                               /\ b = Block(n, line, Blank(n))
      BY CallsAre
    <3>4. b.size = n /\ m \in Malloc(h, n, line)
      BY <3>2, <3>3 DEF Block
    <3>5. (m.ptr = Null => Summed(m.h, l)) /\ (m.ptr # Null => Summed(m.h, With(l, m.ptr, b)))
      BY <1>2, <3>3, <3>4, MallocSums
    <3>6. QED
      BY <3>2, <3>3, <3>5
  <2>2. CASE CallCalloc
    <3>1. PICK c \in Callocs : \E m \in Calloc(h, c[1], c[2], c[3]) :
            heap' = m.h /\ live' = Got(l, m, Block(c[1] * c[2], c[3], [i \in 1 .. (c[1] * c[2]) |-> 0]))
      BY <1>1, <2>2 DEF CallCalloc
    <3>2. PICK m \in Calloc(h, c[1], c[2], c[3]) :
            heap' = m.h /\ live' = Got(l, m, Block(c[1] * c[2], c[3], [i \in 1 .. (c[1] * c[2]) |-> 0]))
      BY <3>1
    <3>3. PICK n, sz, line, b :
            /\ n \in 0 .. Modulus - 1 /\ sz \in 0 .. Modulus - 1 /\ line \in Lines
            /\ n = c[1] /\ sz = c[2] /\ line = c[3] /\ b = Block(n * sz, line, [i \in 1 .. (n * sz) |-> 0])
      BY CallsAre
    <3>4. b.size = n * sz /\ m \in Calloc(h, n, sz, line)
      BY <3>2, <3>3 DEF Block
    <3>7. n \in 0 .. Modulus - 1 /\ sz \in 0 .. Modulus - 1 /\ line \in Lines
      BY <3>3
    <3>5. (m.ptr = Null => Summed(m.h, l)) /\ (m.ptr # Null => Summed(m.h, With(l, m.ptr, b)))
      BY <1>2, <3>4, <3>7, CallocSums, Zenon
    <3>6. QED
      BY <3>2, <3>3, <3>5
  <2>3. QED
    BY <2>1, <2>2
<1>4. live' = IF m.ptr = Null THEN l ELSE With(l, m.ptr, b)
  BY <1>3, GotIs
<1>5. QED
  BY <1>3, <1>4 DEF SumInv

\* The program calls m61_free.
LEMMA SumFrees ==
  ASSUME IInv, SumInv, CallFree
  PROVE  SumInv'
<1>1. PICK p \in 1 .. (MemSize + 1) : \E f \in Free(heap, p) :
        IF f.why # "none" THEN Ends(f.why, p)
        ELSE heap' = f.h /\ live' = Without(live, p) /\ freed' = freed \cup {p} /\ UNCHANGED verdict
  BY DEF CallFree
<1>2. PICK f \in Free(heap, p) :
        IF f.why # "none" THEN Ends(f.why, p)
        ELSE heap' = f.h /\ live' = Without(live, p) /\ freed' = freed \cup {p} /\ UNCHANGED verdict
  BY <1>1
<1>3. p \in Nat
  BY MemoryFits
<1>4. CASE f.why # "none"
  BY <1>2, <1>4 DEF Ends, SumInv
<1>5. CASE f.why = "none"
  <2>1. Releases(heap, live, freed, p, f.h)
    BY <1>3, <1>5, FreeDoes
  <2>2. PICK h, l, fr, g : h = heap /\ l = live /\ fr = freed /\ g = f.h
    OBVIOUS
  <2>3. Releases(h, l, fr, p, g) /\ Summed(h, l)
    BY <2>1, <2>2 DEF SumInv
  <2>4. Summed(g, Without(l, p))
    BY <2>3, ReleaseSums
  <2>5. QED
    BY <1>2, <1>5, <2>2, <2>4 DEF SumInv
<1>6. QED
  BY <1>4, <1>5

\* The program calls m61_realloc.
LEMMA SumReallocs ==
  ASSUME IInv, SumInv, CallRealloc
  PROVE  SumInv'
<1>1. PICK p \in heap.allocs \cup freed, c \in Reallocs :
        IF p \notin heap.allocs THEN Ends("realloc", p)
        ELSE \E f \in Free(heap, p) :
          IF f.why # "none" THEN Ends(f.why, p)
          ELSE /\ freed' = freed \cup {p}
               /\ UNCHANGED verdict
               /\ IF c[1] = 0 THEN heap' = f.h /\ live' = Without(live, p)
                  ELSE \E m \in Malloc(f.h, c[1], c[2]) :
                         /\ heap' = IF m.ptr = Null THEN m.h
                                    ELSE Copied(m.h, p, m.ptr, Min({live[p].size, c[1]}))
                         /\ live' = Got(Without(live, p), m,
                                        Block(c[1], c[2], Kept(live[p].content, Min({live[p].size, c[1]}), c[1])))
  BY Zenon DEF CallRealloc
<1>2. ASSUME NEW why, Ends(why, p) PROVE SumInv'
  BY <1>2 DEF Ends, SumInv
<1>3. CASE p \notin heap.allocs
  BY <1>1, <1>2, <1>3
<1>4. CASE p \in heap.allocs
  <2>1. p \in DOMAIN live /\ p \in Nat /\ freed \subseteq Nat
    BY <1>4 DEF IInv, Sound, Laid
  <2>2. PICK f \in Free(heap, p) :
          IF f.why # "none" THEN Ends(f.why, p)
          ELSE /\ freed' = freed \cup {p}
               /\ UNCHANGED verdict
               /\ IF c[1] = 0 THEN heap' = f.h /\ live' = Without(live, p)
                  ELSE \E m \in Malloc(f.h, c[1], c[2]) :
                         /\ heap' = IF m.ptr = Null THEN m.h
                                    ELSE Copied(m.h, p, m.ptr, Min({live[p].size, c[1]}))
                         /\ live' = Got(Without(live, p), m,
                                        Block(c[1], c[2], Kept(live[p].content, Min({live[p].size, c[1]}), c[1])))
    BY <1>1, <1>4
  <2>3. CASE f.why # "none"
    BY <1>2, <2>2, <2>3
  <2>4. CASE f.why = "none"
    <3>1. PICK l, e, k, fr : l = live /\ e = f.h /\ k = Without(l, p) /\ fr = freed \cup {p}
      OBVIOUS
    <3>2. Sound(e, k, fr) /\ fr \subseteq Nat
      BY <2>1, <2>4, <3>1, FreeDoes
    <3>3. Summed(e, k)
      <4>1. PICK h, d : h = heap /\ d = freed
        OBVIOUS
      <4>2. Releases(h, l, d, p, e) /\ Summed(h, l)
        BY <2>1, <2>4, <3>1, <4>1, FreeDoes DEF SumInv
      <4>3. QED
        BY <3>1, <4>2, ReleaseSums
    <3>4. CASE c[1] = 0
      BY <2>2, <2>4, <3>1, <3>3, <3>4 DEF SumInv
    <3>5. CASE c[1] # 0
      <4>1. PICK m, n, b :
              /\ m \in Malloc(e, c[1], c[2])
              /\ heap' = IF m.ptr = Null THEN m.h ELSE Copied(m.h, p, m.ptr, n)
              /\ live' = Got(k, m, b) /\ b.size = c[1]
        <5>1. PICK m \in Malloc(e, c[1], c[2]) :
                /\ heap' = IF m.ptr = Null THEN m.h ELSE Copied(m.h, p, m.ptr, Min({l[p].size, c[1]}))
                /\ live' = Got(k, m, Block(c[1], c[2], Kept(l[p].content, Min({l[p].size, c[1]}), c[1])))
          BY <2>2, <2>4, <3>1, <3>5
        <5>2. \A content : Block(c[1], c[2], content).size = c[1]
          BY DEF Block
        <5>3. QED
          BY <5>1, <5>2
      <4>2. PICK sz \in 0 .. Modulus - 1, line \in Lines : sz = c[1] /\ line = c[2]
        BY CallsAre
      <4>3. m \in Malloc(e, sz, line) /\ b.size = sz
        BY <4>1, <4>2
      <4>4. /\ m.ptr = Null => Summed(m.h, k)
            /\ m.ptr # Null => Summed(m.h, With(k, m.ptr, b))
        BY <3>2, <3>3, <4>3, MallocSums
      <4>5. CASE m.ptr = Null
        BY <4>1, <4>4, <4>5, GotIs DEF SumInv
      <4>6. CASE m.ptr # Null
        <5>1. Given(e, k, fr, sz, line, m)
          BY <3>2, <4>3, MallocIs
        <5>2. DOMAIN m.h = Fields
          BY <4>6, <5>1 DEF Given, Sound, Shaped
        <5>3. PICK mem : heap' = [m.h EXCEPT !.mem = mem]
          BY <4>1, <4>6 DEF Copied
        <5>4. PICK g, j : g = m.h /\ j = With(k, m.ptr, b)
          OBVIOUS
        <5>5. Summed([g EXCEPT !.mem = mem], j)
          BY <4>4, <4>6, <5>2, <5>4, WriteSums
        <5>6. live' = j
          BY <4>1, <4>6, <5>4, GotIs
        <5>7. QED
          BY <5>3, <5>4, <5>5, <5>6 DEF SumInv
      <4>7. QED
        BY <4>5, <4>6
    <3>6. QED
      BY <3>4, <3>5
  <2>5. QED
    BY <2>3, <2>4
<1>5. QED
  BY <1>3, <1>4

\* Every step keeps the totals.
LEMMA SumNext == IInv /\ SumInv /\ [Next]_vars => SumInv'
<1> SUFFICES ASSUME IInv, SumInv, [Next]_vars PROVE SumInv'
  OBVIOUS
<1>1. CASE CallMalloc \/ CallCalloc
  BY <1>1, SumGives
<1>2. CASE CallFree
  BY <1>2, SumFrees
<1>3. CASE CallRealloc
  BY <1>3, SumReallocs
<1>4. CASE Write \/ WriteTooFar
  BY <1>4, SumWrites
<1>5. CASE UNCHANGED vars
  BY <1>5 DEF vars, SumInv
<1>6. QED
  BY <1>1, <1>2, <1>3, <1>4, <1>5 DEF Next

LEMMA SumsHold == Spec => []SumInv
<1>1. IInv /\ SumInv /\ [Next]_vars => SumInv'
  BY SumNext
<1>2. QED
  BY <1>1, SumInit, HeapIsSound, PTL DEF Spec

\* A line with a fifth of the total is printed: nothing before it in the report is below that.
\* Of the others no more than REPORT_SIZE are: those up to the last of them that is printed.
LEMMA ReportFollows ==
  ASSUME SumInv, NEW field \in {"size", "count"}
  PROVE  ReportHas(field)
<1>1. PICK val, found, total : /\ val = [l \in Lines |-> heap.hits[l][field]]
                               /\ found = {l \in Lines : heap.hits[l].count > 0} /\ total = heap.total[field]
  OBVIOUS
<1>2. heap.hits \in [Lines -> Hit] /\ heap.total \in Hit /\ total = SumOver(val, Lines) % Modulus
  BY <1>1 DEF SumInv, Summed, Sampled, OfLine
<1>3. total \in Nat /\ found \subseteq Lines /\ \A l \in Lines : val[l] \in Nat
  BY <1>1, <1>2 DEF Hit
<1>4. ASSUME NEW list \in SetToSeqs(found), Decreasing(list, val), NEW l \in found, 5 * val[l] >= total
      PROVE  l \in PrintList(list, val, total)
  <2>1. PICK n : n = Cardinality(found)
    OBVIOUS
  <2>2. list \in [1 .. n -> found] /\ \A i, j \in 1 .. n : i # j => list[i] # list[j]
    BY <2>1 DEF SetToSeqs
  <2>3. IsFiniteSet(found) /\ n \in Nat
    BY <1>3, <2>1, LinesAreFinite, FS_Subset, FS_CardinalityType
  <2>4. PICK i \in 1 .. n : list[i] = l
    <3>1. list \in Injection(1 .. n, found)
      BY <2>2 DEF Injection, IsInjective
    <3>2. IsFiniteSet(1 .. n) /\ Cardinality(1 .. n) = n
      BY <2>3, FS_Interval
    <3>3. list \in Surjection(1 .. n, found)
      BY <2>1, <2>3, <3>1, <3>2, FS_Injection
    <3>4. QED
      BY <3>3 DEF Surjection
  <2>5. \A j \in 1 .. i : ~ (5 * val[list[j]] < total)
    <3>1. SUFFICES ASSUME NEW j \in 1 .. i PROVE ~ (5 * val[list[j]] < total)
      OBVIOUS
    <3>2. j \in 1 .. n /\ j \in Nat /\ i \in Nat
      BY <2>3
    <3>3. val[list[j]] >= val[list[i]]
      BY <1>4, <2>2, <3>2, <1>3 DEF Decreasing
    <3>4. val[list[j]] \in Nat /\ val[list[i]] \in Nat
      BY <1>3, <2>2, <3>2
    <3>5. QED
      BY <1>3, <1>4, <2>4, <3>3, <3>4
  <2>6. Below(list, val, total, i) = 0
    <3>1. {j \in 1 .. i : 5 * val[list[j]] < total} = {}
      BY <2>5
    <3>2. QED
      BY <3>1, FS_EmptySet DEF Below
  <2>7. i \in DOMAIN list /\ Below(list, val, total, i) <= ReportSize
    BY <2>2, <2>6, ReportSizeIsNat
  <2>8. QED
    BY <2>4, <2>7 DEF PrintList
<1>5. ASSUME NEW list \in SetToSeqs(found)
      PROVE  Cardinality({l \in PrintList(list, val, total) : 5 * val[l] < total}) <= ReportSize
  <2>1. PICK n : n = Cardinality(found) /\ n \in Nat
    BY <1>3, LinesAreFinite, FS_Subset, FS_CardinalityType
  <2>2. list \in [1 .. n -> found] /\ DOMAIN list = 1 .. n
    BY <2>1 DEF SetToSeqs
  <2>3. PICK I, S : /\ I = {i \in 1 .. n : Below(list, val, total, i) <= ReportSize /\ 5 * val[list[i]] < total}
                    /\ S = {l \in PrintList(list, val, total) : 5 * val[l] < total}
    OBVIOUS
  <2>4. CASE I = {}
    <3>1. S = {}
      BY <2>2, <2>3, <2>4 DEF PrintList
    <3>2. Cardinality(S) = 0
      BY <3>1, FS_EmptySet, Zenon
    <3>3. Cardinality(S) <= ReportSize
      BY <3>2, ReportSizeIsNat
    <3>4. QED
      BY <2>3, <3>3, Zenon
  <2>5. CASE I # {}
    <3>1. PICK m \in I : \A i \in I : i <= m
      <4>1. IsFiniteSet(1 .. n) /\ I \subseteq Nat
        BY <2>1, <2>3, FS_Interval
      <4>2. PICK T : T = {n - i : i \in I}
        OBVIOUS
      <4>3. T \subseteq Nat /\ T # {}
        <5>1. \A i \in I : n - i \in Nat
          BY <2>1, <2>3
        <5>2. QED
          BY <2>5, <4>2, <5>1
      <4>4. Min(T) \in T /\ \A y \in T : Min(T) <= y
        BY <4>3, MinIs
      <4>5. PICK m \in I : Min(T) = n - m
        BY <4>2, <4>4
      <4>6. \A i \in I : n - m <= n - i
        BY <4>2, <4>4, <4>5
      <4>7. QED
        BY <2>1, <4>1, <4>5, <4>6
    <3>2. PICK J : J = {j \in 1 .. m : 5 * val[list[j]] < total}
      OBVIOUS
    <3>3. Cardinality(J) <= ReportSize
      BY <2>3, <3>1, <3>2 DEF Below
    <3>4. I \subseteq J /\ m \in Nat
      BY <2>1, <2>3, <3>1, <3>2
    <3>5. IsFiniteSet(J) /\ IsFiniteSet(I) /\ Cardinality(I) <= Cardinality(J)
      <4>1. IsFiniteSet(1 .. m)
        BY <3>4, FS_Interval
      <4>2. IsFiniteSet(J)
        BY <3>2, <4>1, FS_Subset
      <4>3. QED
        BY <3>4, <4>2, FS_Subset
    <3>6. PICK f : f = [i \in I |-> list[i]]
      OBVIOUS
    <3>7. f \in Surjection(I, S)
      <4>1. S = {list[i] : i \in I}
        BY <2>2, <2>3 DEF PrintList
      <4>2. f \in [I -> S] /\ \A l \in S : \E i \in I : f[i] = l
        BY <3>6, <4>1
      <4>3. QED
        BY <4>2 DEF Surjection
    <3>8. IsFiniteSet(S) /\ Cardinality(S) <= Cardinality(I)
      BY <3>5, <3>7, FS_Surjection
    <3>9. Cardinality(S) \in Nat /\ Cardinality(I) \in Nat /\ Cardinality(J) \in Nat
      BY <3>5, <3>8, FS_CardinalityType
    <3>10. QED
      BY <2>3, <3>3, <3>5, <3>8, <3>9, ReportSizeIsNat
  <2>6. QED
    BY <2>4, <2>5
<1>6. QED
  <2>1. \A list \in SetToSeqs(found) :
          Decreasing(list, val) => {l \in found : 5 * val[l] >= total} \subseteq PrintList(list, val, total)
    BY <1>4
  <2>2. QED
    BY <1>1, <1>2, <1>5, <2>1 DEF ReportHas

\* The reports are right: the statistics and the leak report are of the blocks the program has,
\* the samples sum up modulo size_t, and every line with a fifth of that sum is printed, with at
\* most REPORT_SIZE others, however equal lines are sorted (m61_print_leak_report, print_report).
THEOREM ReportsAreRight == Spec => []ReportsRight
<1>1. IInv /\ SumInv => ReportsRight
  BY LeaksFollow, ReportFollows DEF ReportsRight, SumInv, Summed
<1>2. QED
  BY <1>1, HeapIsSound, SumsHold, PTL
=============================================================================
