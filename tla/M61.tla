-------------------------------- MODULE M61 --------------------------------
(***************************************************************************)
(* The debugging allocator of m61.cc over the base allocator of            *)
(* basealloc.cc.  Memory is an array of cells: a block is two cells of     *)
(* metadata, a cell for each byte of the payload and one of padding.  The  *)
(* program that uses it calls it as it likes, writes any byte to its       *)
(* blocks, may write one cell too far, and may free what it does not own.  *)
(* NULL is 0; sizes are numbers modulo Modulus, as size_t is modulo 2^64.  *)
(***************************************************************************)
EXTENDS Integers, FiniteSets, Sequences, FiniteSetsExt, SequencesExt

CONSTANTS MemSize,     \* cells the system can give out
          Modulus,     \* of size_t
          MaxMalloc,   \* MAX_MALLOC_SIZE
          ReportSize,  \* REPORT_SIZE
          Mallocs, Callocs, Reallocs,  \* the calls: <<sz, line>>, <<nmemb, sz, line>>, <<sz, line>>
          Values,      \* the bytes the program writes
          MaxCalls     \* bound on what the program does

ASSUME SizesDoNotWrap == MaxMalloc * MaxMalloc <= Modulus
ASSUME MemoryFits == MemSize \in Nat /\ MemSize < Modulus

\* Sizes are size_t's.
ASSUME CallsTyped ==
  /\ Modulus \in Nat /\ Modulus > 3 /\ MaxMalloc \in Nat
  /\ Mallocs \subseteq (0 .. Modulus - 1) \X Nat /\ Reallocs \subseteq (0 .. Modulus - 1) \X Nat
  /\ Callocs \subseteq (0 .. Modulus - 1) \X (0 .. Modulus - 1) \X Nat

\* A program has so many lines that call, and a report so many entries that are small.
Lines == {c[2] : c \in Mallocs \cup Reallocs} \cup {c[3] : c \in Callocs}
ASSUME LinesAreFinite == IsFiniteSet(Lines)
ASSUME ReportSizeIsNat == ReportSize \in Nat

VARIABLES heap,     \* the state of both allocators
          live,     \* ghost: the program's blocks, by address, and what it knows of them
          freed,    \* ghost: the pointers it has freed
          verdict,  \* why the process ended: "none" if it has not, and over which pointer
          calls

vars == <<heap, live, freed, verdict, calls>>

Meta == 2
Pad == 1
Null == 0
FF == [kind |-> "ff", v |-> 0]
Cell(kind, v) == [kind |-> kind, v |-> v]
Undefined == -1
AllOnes == 255                                                 \* magic_padding_byte
ByteOf(v) == IF v = AllOnes THEN FF ELSE Cell("byte", v)
NoHits == [size |-> 0, count |-> 0]

InitialHeap ==
  [mem |-> [a \in 0..(MemSize - 1) |-> Cell("byte", Undefined)],
   allocs |-> {},              \* payload pointers of the active blocks
   base |-> {}, frees |-> {},  \* basealloc's blocks in use, and its free ones: <<address, size>>
   low |-> 0, high |-> MemSize,  \* what the system has left
   nactive |-> 0, active_size |-> 0, ntotal |-> 0, total_size |-> 0, nfail |-> 0, fail_size |-> 0,
   heap_min |-> Modulus - 1, heap_max |-> 0,
   hits |-> [l \in Lines |-> NoHits], total |-> NoHits]

-----------------------------------------------------------------------------
(* base_malloc: a free block that is large enough, at random, or memory of *)
(* the system, which has it at either end.  A reused block is recorded     *)
(* with the size that was asked for.                                       *)
\* mutant: the size of a free block is not looked at
BaseMalloc_AnySize(h, sz) ==
  {[h |-> [h EXCEPT !.frees = @ \ {f}, !.base = @ \cup {<<f[1], sz>>}], at |-> f[1], ok |-> TRUE] : f \in h.frees}
  \cup (IF h.low + sz > h.high THEN {[h |-> h, at |-> 0, ok |-> FALSE]}
        ELSE {[h |-> [h EXCEPT !.low = @ + sz, !.base = @ \cup {<<h.low, sz>>}], at |-> h.low, ok |-> TRUE],
              [h |-> [h EXCEPT !.high = @ - sz, !.base = @ \cup {<<h.high - sz, sz>>}],
               at |-> h.high - sz, ok |-> TRUE]})
BaseMalloc(h, sz) ==
  {[h |-> [h EXCEPT !.frees = @ \ {f}, !.base = @ \cup {<<f[1], sz>>}], at |-> f[1], ok |-> TRUE] :
     f \in {g \in h.frees : g[2] >= sz}}
  \cup (IF h.low + sz > h.high THEN {[h |-> h, at |-> 0, ok |-> FALSE]}
        ELSE {[h |-> [h EXCEPT !.low = @ + sz, !.base = @ \cup {<<h.low, sz>>}], at |-> h.low, ok |-> TRUE],
              [h |-> [h EXCEPT !.high = @ - sz, !.base = @ \cup {<<h.high - sz, sz>>}],
               at |-> h.high - sz, ok |-> TRUE]})
BaseFree(h, at) == LET mine == {b \in h.base : b[1] = at}
                   IN [h EXCEPT !.base = @ \ mine, !.frees = @ \cup mine]

(* heavy_hitters_arena: add takes a sample of the calls; print_list prints *)
(* a sorted list until too many entries are below a fifth of the total     *)
PlusHit(v, sz) == [size |-> (v.size + sz) % Modulus, count |-> (v.count + 1) % Modulus]
Add(h, line, sz) == {h, [h EXCEPT !.total = PlusHit(@, sz), !.hits[line] = PlusHit(@, sz)]}
Decreasing(list, val) == \A i, j \in DOMAIN list : i < j => val[list[i]] >= val[list[j]]
Below(list, val, total, i) == Cardinality({j \in 1..i : 5 * val[list[j]] < total})
\* mutant: every entry counts towards the end of the report
PrintList_CountsAll(list, val, total) == {list[i] : i \in {j \in DOMAIN list : j <= ReportSize}}
PrintList(list, val, total) == {list[i] : i \in {j \in DOMAIN list : Below(list, val, total, j) <= ReportSize}}

(* m61_malloc, after the sample: metadata, padding, statistics *)
Failed(h, sz) == [h EXCEPT !.nfail = @ + 1, !.fail_size = (@ + sz) % Modulus]
Placed(h, at, sz, line) ==
  LET ptr == at + Meta IN
  [h EXCEPT !.mem = [@ EXCEPT ![at] = Cell("sz", sz), ![at + 1] = Cell("line", line), ![ptr + sz] = FF],
            !.allocs = @ \cup {ptr},
            !.nactive = @ + 1, !.ntotal = @ + 1, !.active_size = @ + sz, !.total_size = (@ + sz) % Modulus,
            !.heap_max = Max({@, ptr + sz}), !.heap_min = Min({@, ptr})]
Malloc(h, sz, line) ==
  UNION {LET total == (sz + Meta + Pad) % Modulus IN
         IF total > sz /\ total < MaxMalloc
         THEN {IF b.ok THEN [h |-> Placed(b.h, b.at, sz, line), ptr |-> b.at + Meta]
               ELSE [h |-> Failed(b.h, sz), ptr |-> Null] : b \in BaseMalloc(a, total)}
         ELSE {[h |-> Failed(a, sz), ptr |-> Null]} : a \in Add(h, line, sz)}

(* m61_free of a pointer that is not NULL.  The size of something that was *)
(* never a block is read from whatever is there, and the padding after it  *)
(* is looked at: that may be memory the process does not have.             *)
IsFF(h, from, n) == \A a \in from..(from + n - 1) : h.mem[a] = FF
\* mutant: the padding is looked at one cell early
Free_PadEarly(h, p) ==
  LET allocated == p \in h.allocs
      sz == h.mem[p - Meta].v
      wild == sz > 0 /\ ~IsFF(h, p + sz - 1, Pad) IN
  IF h.heap_min > p \/ h.heap_max < p THEN {[h |-> h, why |-> "not_in_heap"]}
  ELSE IF ~allocated
  THEN IF IsFF(h, p - Meta, Meta) THEN {[h |-> h, why |-> "double_free"]}
       ELSE {[h |-> h, why |-> w] : w \in {"not_allocated", "segfault"}}
  ELSE IF wild THEN {[h |-> h, why |-> "wild_write"]}
  ELSE {[h |-> BaseFree([h EXCEPT !.nactive = @ - 1, !.active_size = @ - sz,
                                  !.mem = [@ EXCEPT ![p - 2] = FF, ![p - 1] = FF],
                                  !.allocs = @ \ {p}], p - Meta), why |-> "none"]}
Free(h, p) ==
  LET allocated == p \in h.allocs
      sz == h.mem[p - Meta].v
      wild == ~IsFF(h, p + sz, Pad) IN
  IF h.heap_min > p \/ h.heap_max < p THEN {[h |-> h, why |-> "not_in_heap"]}
  ELSE IF ~allocated
  THEN IF IsFF(h, p - Meta, Meta) THEN {[h |-> h, why |-> "double_free"]}
       ELSE {[h |-> h, why |-> w] : w \in {"not_allocated", "segfault"}}
  ELSE IF wild THEN {[h |-> h, why |-> "wild_write"]}
  ELSE {[h |-> BaseFree([h EXCEPT !.nactive = @ - 1, !.active_size = @ - sz,
                                  !.mem = [@ EXCEPT ![p - 2] = FF, ![p - 1] = FF],
                                  !.allocs = @ \ {p}], p - Meta), why |-> "none"]}

(* m61_calloc: products of which a factor is larger fail *)
\* mutant: the product may wrap around
Calloc_Wraps(h, n, sz, line) ==
  LET size == (n * sz) % Modulus IN
  {IF m.ptr = Null THEN m
   ELSE [m EXCEPT !.h.mem = [a \in DOMAIN @ |-> IF a \in m.ptr..(m.ptr + size - 1) THEN Cell("byte", 0) ELSE @[a]]]
   : m \in Malloc(h, size, line)}
Calloc(h, n, sz, line) ==
  LET size == (n * sz) % Modulus IN
  IF ~(sz <= size /\ n <= size) THEN {[h |-> Failed(h, size), ptr |-> Null]}
  ELSE {IF m.ptr = Null THEN m
        ELSE [m EXCEPT !.h.mem = [a \in DOMAIN @ |-> IF a \in m.ptr..(m.ptr + size - 1) THEN Cell("byte", 0) ELSE @[a]]]
        : m \in Malloc(h, size, line)}

(* the copy of m61_realloc, out of the block that is free by now: memccpy  *)
(* stops after a 1                                                         *)
Copied(h, from, to, n) ==
  LET ones == {i \in 1..n : h.mem[from + i - 1] = Cell("byte", 1)}
      last == IF ones = {} THEN n ELSE Min(ones)
  IN [h EXCEPT !.mem = [a \in DOMAIN @ |-> IF a \in to..(to + last - 1) THEN @[from + a - to] ELSE @[a]]]

-----------------------------------------------------------------------------
Init ==
  /\ heap = InitialHeap
  /\ live = <<>>
  /\ freed = {}
  /\ verdict = [why |-> "none", ptr |-> Null]
  /\ calls = 0

Running == verdict.why = "none" /\ calls < MaxCalls /\ calls' = calls + 1
Block(sz, line, content) == [size |-> sz, line |-> line, content |-> content, past |-> FF]
With(l, p, b) == [q \in DOMAIN l \cup {p} |-> IF q = p THEN b ELSE l[q]]
Without(l, p) == [q \in DOMAIN l \ {p} |-> l[q]]
Got(l, m, b) == IF m.ptr = Null THEN l ELSE With(l, m.ptr, b)
Blank(n) == [i \in 1..n |-> Undefined]
Ends(why, p) == verdict' = [why |-> why, ptr |-> p] /\ UNCHANGED <<heap, live, freed>>

CallMalloc ==
  /\ Running
  /\ \E c \in Mallocs : \E m \in Malloc(heap, c[1], c[2]) :
       heap' = m.h /\ live' = Got(live, m, Block(c[1], c[2], Blank(c[1])))
  /\ UNCHANGED <<freed, verdict>>

CallCalloc ==
  /\ Running
  /\ \E c \in Callocs : \E m \in Calloc(heap, c[1], c[2], c[3]) :
       /\ heap' = m.h
       /\ live' = Got(live, m, Block(c[1] * c[2], c[3], [i \in 1..(c[1] * c[2]) |-> 0]))
  /\ UNCHANGED <<freed, verdict>>

(* the program may pass any pointer *)
CallFree ==
  /\ Running
  /\ \E p \in 1..(MemSize + 1) : \E f \in Free(heap, p) :
       IF f.why # "none" THEN Ends(f.why, p)
       ELSE /\ heap' = f.h
            /\ live' = Without(live, p)
            /\ freed' = freed \cup {p}
            /\ UNCHANGED verdict

(* of NULL it is m61_malloc, which CallMalloc is; the old block is freed   *)
(* before there is a new one, and lost when there is none.  The copy ends  *)
(* with the first byte that is 1, though the comment at m61.cc:370 and     *)
(* test051.cc:3 have the data copied; what the program may count on is     *)
(* what comes before a byte that is or may be 1, and that byte.            *)
Kept(content, n, sz) ==
  [i \in 1..sz |-> IF i <= n /\ \A j \in 1..(i - 1) : content[j] \notin {1, Undefined} THEN content[i] ELSE Undefined]
CallRealloc ==
  /\ Running
  /\ \E p \in heap.allocs \cup freed, c \in Reallocs :
       IF p \notin heap.allocs THEN Ends("realloc", p)
       ELSE \E f \in Free(heap, p) :
         IF f.why # "none" THEN Ends(f.why, p)
         ELSE /\ freed' = freed \cup {p}
              /\ UNCHANGED verdict
              /\ IF c[1] = 0 THEN heap' = f.h /\ live' = Without(live, p)
                 ELSE LET old == live[p].size
                          n == Min({old, c[1]}) IN
                      \E m \in Malloc(f.h, c[1], c[2]) :
                        /\ heap' = IF m.ptr = Null THEN m.h ELSE Copied(m.h, p, m.ptr, n)
                        /\ live' = Got(Without(live, p), m, Block(c[1], c[2], Kept(live[p].content, n, c[1])))

Write ==
  /\ Running
  /\ \E p \in DOMAIN live, v \in Values : \E i \in 1..live[p].size :
       /\ heap' = [heap EXCEPT !.mem[p + i - 1] = ByteOf(v)]
       /\ live' = [live EXCEPT ![p].content[i] = v]
  /\ UNCHANGED <<freed, verdict>>
WriteTooFar ==
  /\ Running
  /\ \E p \in DOMAIN live, v \in Values :
       /\ heap' = [heap EXCEPT !.mem[p + live[p].size] = ByteOf(v)]
       /\ live' = [live EXCEPT ![p].past = ByteOf(v)]
  /\ UNCHANGED <<freed, verdict>>

Next == CallMalloc \/ CallCalloc \/ CallFree \/ CallRealloc \/ Write \/ WriteTooFar
Spec == Init /\ [][Next]_vars

-----------------------------------------------------------------------------
TypeOK ==
  /\ heap.allocs = DOMAIN live /\ heap.low <= heap.high
  /\ \A a \in DOMAIN heap.mem : heap.mem[a].kind \in {"byte", "sz", "line", "ff"}
  /\ verdict.why \in {"none", "not_in_heap", "double_free", "not_allocated", "wild_write", "segfault", "realloc"}

(* The heap keeps what is put in it: blocks do not overlap, whichever are  *)
(* reused and whatever sizes wrap; a block has the size the call asked     *)
(* for, its contents are what the program wrote, what calloc cleared and   *)
(* what realloc copied, which ends with the first byte that is 1           *)
(* (m61.cc:372), and after it is its padding or what the program wrote     *)
(* there (m61_malloc, m61_calloc, m61_realloc, base_malloc).               *)
HeapKept ==
  /\ TypeOK
  /\ \A p \in DOMAIN live : LET b == live[p] IN
       /\ heap.mem[p - 2] = Cell("sz", b.size) /\ heap.mem[p - 1] = Cell("line", b.line)
       /\ \A i \in 1..b.size : b.content[i] # Undefined => heap.mem[p + i - 1] = ByteOf(b.content[i])
       /\ heap.mem[p + b.size] = b.past
       /\ \A q \in DOMAIN live : q > p => q - Meta >= p + b.size + Pad

(* The reports are right: the statistics and the leak report are of the    *)
(* blocks the program has, all of them in the heap's bounds; the sampled   *)
(* calls, refused ones as well, add up as a size_t does; a line that has a *)
(* fifth of the total, as it came out, is printed however equal lines are  *)
(* sorted, and no more than REPORT_SIZE lines that have less               *)
(* (m61_print_leak_report, heavy_hitters_arena).                           *)
SumOver(f, S) == FoldSet(LAMBDA x, acc : acc + f[x], 0, S)
Sizes(l) == [p \in DOMAIN l |-> l[p].size]
LeakReport == {<<p, heap.mem[p - 2].v, heap.mem[p - 1].v>> : p \in heap.allocs}
ReportHas(field) ==
  LET val == [l \in Lines |-> heap.hits[l][field]]
      found == {l \in Lines : heap.hits[l].count > 0}
      total == heap.total[field] IN
  /\ total = SumOver(val, Lines) % Modulus
  /\ \A list \in SetToSeqs(found) :
       Decreasing(list, val) =>
         /\ {l \in found : 5 * val[l] >= total} \subseteq PrintList(list, val, total)
         /\ Cardinality({l \in PrintList(list, val, total) : 5 * val[l] < total}) <= ReportSize
LeaksListed ==
  /\ heap.nactive = Cardinality(DOMAIN live)
  /\ \A p \in DOMAIN live : heap.heap_min <= p /\ p + live[p].size <= heap.heap_max
  /\ LeakReport = {<<p, live[p].size, live[p].line>> : p \in DOMAIN live}
ReportsRight ==
  /\ LeaksListed
  /\ heap.active_size = SumOver(Sizes(live), DOMAIN live)
  /\ ReportHas("size") /\ ReportHas("count")

(* Frees are judged rightly: the process ends over a pointer only if it is *)
(* no block of the program or one with something else than 0xFF after it;  *)
(* a block with something else after it is never freed, and only 0xFF,     *)
(* which is what the padding is, may be written there without notice; a    *)
(* pointer freed before that is no block again is reported as freed twice  *)
(* (m61_free, check_padding).                                              *)
FreesJudged ==
  [][/\ verdict' # verdict =>
          LET p == verdict'.ptr IN
          /\ p \in DOMAIN live => live[p].past # FF /\ verdict'.why = "wild_write"
          /\ (p \in freed \ DOMAIN live /\ verdict'.why # "realloc") => verdict'.why = "double_free"
     /\ \A p \in (freed' \ freed) \cap DOMAIN live : live[p].past = FF]_vars
=============================================================================
