----------------------------- MODULE HashTables -----------------------------
(***************************************************************************)
(* The containers of the column store that everything else is built from:  *)
(* the growing vectors of include/vector.h, the pool allocator of           *)
(* pool_alloc.c, the robin hood table and the chained table that the joins  *)
(* use (join_hashtable.c), and the robin hood table of names that holds a   *)
(* database's tables, a table's columns and a client's variables            *)
(* (string_hashtable.c).                                                    *)
(*                                                                          *)
(* A hash function is an argument: a function from keys to naturals, so     *)
(* that a run can make any keys collide.  The probe sequence `++seed %       *)
(* capacity` is modelled for hashes far from the wrap of the unsigned seed. *)
(* Slots are counted from 0, as in the code; addresses are chunk numbers.   *)
(***************************************************************************)
EXTENDS Integers, Sequences, FiniteSets
LOCAL INSTANCE SequencesExt

CONSTANT BlockSize      \* chunks in the blocks a pool adds when it is empty
ASSUME BlockSizePositive == BlockSize \in Nat \ {0}

(* --- Vectors ------------------------------------------------------------ *)
NewVec(capacity) == [data |-> <<>>, capacity |-> capacity]

ToVec(data) == [data |-> data, capacity |-> Len(data)]

(* The comparison is between size_t values, so that capacity 0 is "full"    *)
(* only at the largest size, and the vector never grows.                    *)
Push(vec, x, growth) ==
  [data |-> Append(vec.data, x),
   capacity |-> IF vec.capacity > 0 /\ Len(vec.data) >= vec.capacity - 1
                THEN vec.capacity * growth ELSE vec.capacity]

PushAll(vec, xs, growth) == FoldLeft(LAMBDA v, x : Push(v, x, growth), vec, xs)

AppendVec(dest, source) ==
  LET size == Len(dest.data) + Len(source.data)
  IN [data |-> dest.data \o source.data,
      capacity |-> IF size > dest.capacity THEN size * 2 ELSE dest.capacity]

(* Every element lies inside the memory the vector has.                     *)
Fits(vec) == Len(vec.data) <= vec.capacity

(* --- The pool allocator -------------------------------------------------- *)
(* `free` is the list alloc_ptr heads, `made` counts the chunks of all      *)
(* blocks.  A new block is a list of its chunks in address order.           *)
NewBlock(made, size) == [i \in 1..size |-> made + i]

NewPool(size) == [free |-> NewBlock(0, size), made |-> size]

Stocked(pool) ==
  IF pool.free = <<>>
  THEN [free |-> NewBlock(pool.made, BlockSize), made |-> pool.made + BlockSize]
  ELSE pool

MallocChunk(pool) == [Stocked(pool) EXCEPT !.free = Tail(@)]

FirstChunk(pool) == Head(Stocked(pool).free)

FreeChunk(pool, chunk) == [pool EXCEPT !.free = <<chunk>> \o @]

(* --- Robin hood probing, shared by the two open tables -------------------- *)
Hole == [psl |-> -1, key |-> 0, value |-> 0]

Holes(capacity) == [i \in 0..(capacity - 1) |-> Hole]

Capacity(table) == Cardinality(DOMAIN table.slots)

NextSlot(slots, at) == (at + 1) % Cardinality(DOMAIN slots)

(* Entry e looks for a place from slot `at` on: the entry that is further   *)
(* from its home keeps the slot and the other one goes on.  With `unique`   *)
(* an entry of the same key is overwritten instead (put_strh).              *)
RECURSIVE Settle(_, _, _, _)
Settle(slots, e, at, unique) ==
  LET here == slots[at]
      Further(x) == [x EXCEPT !.psl = @ + 1]
  IN IF here.psl = -1 \/ (unique /\ here.key = e.key)
     THEN [slots EXCEPT ![at] = e]
     ELSE IF e.psl > here.psl
     THEN Settle([slots EXCEPT ![at] = e], Further(here), NextSlot(slots, at), unique)
     ELSE Settle(slots, Further(e), NextSlot(slots, at), unique)

(* The entries from a slot to the first hole: what a search reads.          *)
RECURSIVE Probed(_, _)
Probed(slots, at) ==
  IF slots[at].psl = -1 THEN <<>> ELSE <<slots[at]>> \o Probed(slots, NextSlot(slots, at))

(* The entries in slot order: what growing and FOR_STRH read.               *)
InOrder(slots) ==
  SelectSeq([i \in 1..Cardinality(DOMAIN slots) |-> slots[i - 1]], LAMBDA e : e.psl # -1)

(* --- The table of the hash join ------------------------------------------ *)
(* RH_MAX_LOAD_FACTOR is 0.2.                                               *)
JhAllocate(capacity) == [slots |-> Holes(5 * capacity), target |-> capacity, size |-> 0]

RECURSIVE JhPut(_, _, _, _)
JhReallocate(table, hash, capacity) ==
  FoldLeft(LAMBDA t, e : JhPut(t, hash, e.key, e.value), JhAllocate(capacity), InOrder(table.slots))

(* The table grows once its old size exceeds the target, by 2 / 0.2.        *)
JhPut(table, hash, key, value) ==
  LET e == [psl |-> 0, key |-> key, value |-> value]
      put == [table EXCEPT !.slots = Settle(@, e, hash[key] % Capacity(table), FALSE),
                           !.size = @ + 1]
  IN IF table.size > table.target THEN JhReallocate(put, hash, 2 * Capacity(put)) ELSE put

ValuesFor(entries, key) ==
  LET found == SelectSeq(entries, LAMBDA e : e.key = key) IN [i \in DOMAIN found |-> found[i].value]

(* jh_fast_get empties the vector it is given and pushes every value.       *)
JhFastGet(table, hash, key, out) ==
  PushAll([out EXCEPT !.data = <<>>],
          ValuesFor(Probed(table.slots, hash[key] % Capacity(table)), key), 2)

JhGet(table, hash, key) == JhFastGet(table, hash, key, NewVec(2))

(* mutant: nothing moves back                                               *)
RECURSIVE Swept_NoShift(_, _, _, _)
Swept_NoShift(table, key, prev, at) ==
  IF table.slots[at].psl = -1 THEN table
  ELSE Swept_NoShift(IF table.slots[at].key = key
                     THEN [table EXCEPT !.slots[at] = Hole, !.size = @ - 1] ELSE table,
                     key, at, NextSlot(table.slots, at))

(* One pass over the run of entries: an entry of the key becomes a hole, an *)
(* entry away from its home moves one slot back if that slot is a hole.     *)
RECURSIVE Swept(_, _, _, _)
Swept(table, key, prev, at) ==
  LET cleared == IF table.slots[at].key = key
                 THEN [table EXCEPT !.slots[at] = Hole, !.size = @ - 1] ELSE table
      here == cleared.slots[at]
      back == prev >= 0 /\ here.psl > 0
      moved == IF back /\ cleared.slots[prev].psl = -1
               THEN [cleared EXCEPT !.slots[prev] = [here EXCEPT !.psl = @ - 1], !.slots[at] = Hole]
               ELSE cleared
  IN IF table.slots[at].psl = -1 THEN table
     ELSE Swept(moved, key, at, NextSlot(table.slots, at))

JhErase(table, hash, key) == Swept(table, key, -1, hash[key] % Capacity(table))

(* --- The chained table of the grace hash join ------------------------------ *)
Scaled(capacity, scale) == IF scale THEN 5 * capacity ELSE capacity

CjhAllocate(capacity, scale) ==
  [chains |-> [i \in 0..(Scaled(capacity, scale) - 1) |-> <<>>], target |-> capacity,
   size |-> 0, pool |-> NewPool(Scaled(capacity, scale))]

Buckets(table) == Cardinality(DOMAIN table.chains)

(* The entries keep their chunks and are hung, chain after chain, behind    *)
(* whatever their new bucket holds.  CH_MAX_LOAD_FACTOR is 0.9.             *)
CjhReallocate(table, hash, capacity) ==
  LET all == FlattenSeq([i \in 1..Buckets(table) |-> table.chains[i - 1]])
  IN [table EXCEPT
        !.chains = [b \in 0..(capacity - 1) |->
                      SelectSeq(all, LAMBDA e : hash[e.key] % capacity = b)],
        !.target = (10 * capacity) \div 9 + 1]

CjhPut(table, hash, key, value) ==
  LET e == [key |-> key, value |-> value, chunk |-> FirstChunk(table.pool)]
      put == [table EXCEPT !.pool = MallocChunk(@),
                           !.chains[hash[key] % Buckets(table)] = Append(@, e),
                           !.size = @ + 1]
  IN IF table.size > table.target THEN CjhReallocate(put, hash, 2 * Buckets(put)) ELSE put

CjhGet(table, hash, key) ==
  PushAll(NewVec(2), ValuesFor(table.chains[hash[key] % Buckets(table)], key), 2)

CjhErase(table, hash, key) ==
  LET b == hash[key] % Buckets(table)
      gone == SelectSeq(table.chains[b], LAMBDA e : e.key = key)
  IN [table EXCEPT
        !.chains[b] = SelectSeq(@, LAMBDA e : e.key # key),
        !.size = @ - Len(gone),
        !.pool = FoldLeft(LAMBDA p, e : FreeChunk(p, e.chunk), @, gone)]

(* --- The table of names ----------------------------------------------------- *)
(* STRH_MAX_LOAD_FACTOR is 0.5.                                             *)
AllocStrh(capacity) == [slots |-> Holes(2 * capacity), target |-> capacity, size |-> 0]

RECURSIVE PutStrh(_, _, _, _)
ReallocStrh(table, hash, capacity) ==
  FoldLeft(LAMBDA t, e : PutStrh(t, hash, e.key, e.value), AllocStrh(capacity), InOrder(table.slots))

PutStrh(table, hash, key, value) ==
  LET e == [psl |-> 0, key |-> key, value |-> value]
      home == hash[key] % Capacity(table)
      slots == Settle(table.slots, e, home, TRUE)
      replaced == Len(InOrder(slots)) = Len(InOrder(table.slots))
  IN IF replaced THEN [table EXCEPT !.slots = slots]
     ELSE LET put == [table EXCEPT !.slots = slots, !.size = @ + 1]
          IN IF put.size > table.target THEN ReallocStrh(put, hash, 2 * Capacity(put)) ELSE put

(* The value of the first entry of that name, 0 (NULL) if there is none.    *)
GetStrh(table, hash, key) ==
  LET found == ValuesFor(Probed(table.slots, hash[key] % Capacity(table)), key)
  IN IF found = <<>> THEN 0 ELSE found[1]
=============================================================================
