# A verification project for the systems code of this repository

The repository keeps one student's coursework. Most of its 977 files are LaTeX,
PDF, notebooks and data. What follows is about the part that is a *program*: a
column-store database in C (`src/CS165/cs165-project copy`), the C++ systems
programs of `src/CS61/psets` (the breakout61 game, the WeensyOS kernel, the io61
cached I/O library, the m61 debugging allocator and the sh61 shell), and the two
algorithmic programs of `src/CS124`. TLA+ modules model them from the source, TLC
checks them on small instances, and TLAPS proves for all instances the safety of
ten of them (thread pool, parallel scans, batch executor, catalog and session,
protocol, breakout61, WeensyOS, io61, m61, sh61) and four refinements (the pool, the
catalog, the kernel and io61 implement their abstract specifications).

`PROJECT.json` lists every component, run, mutant, mapped definition, hazard and
theorem in machine-readable form; this file explains them.

## 1. Inventory

### Column store (`src/CS165/cs165-project copy/src`)

| part | state it keeps | operations | hard behaviour |
|---|---|---|---|
| thread pool (`thread_pool.c`) | work list, `working_cnt`, `thread_cnt`, `stop`, a mutex, two condition variables | `new`, `add`, `wait`, `delete`, the worker loop | lost wakeups, a wait that returns early, use after free at deletion |
| parallel scan (`multiselect.c`) | per selection: a lock, intermediate vectors, `remaining`; a shared reference count | split a column in chunks, scan them in the pool, merge | merge order, last reference frees, locks destroyed while held |
| batch executor (`batch.c`) | links from operators to the variables they read, depths | collect operators, sort by depth, run stage by stage | a link before its inputs, the heuristic that groups selects |
| parser (`parse.c`, `parse_utils.c`) | none | a line becomes an operator, or is refused | bounds that may be absent, arguments of the wrong shape |
| catalog and variables (`db_manager.c`, `db_types.c`, `client_context.c`, `variable.c`) | database, tables, columns, the client's variables, the files on disk | create, load, insert, query, batch, shutdown, startup | crash during shutdown, column order after restart, names reused, statements that fail half way |
| operators (`db_internals.c`, `join_hashtable.c`, `string_hashtable.c`, `pool_alloc.c`, `vector.h`) | none beyond a call; the tables | select, fetch, join, aggregate, arithmetic | collisions, displacement and growth, empty inputs, boundaries |
| indexes (`btree.c`, `index.c`) | tree nodes, sorted copies | load, find, cluster | keys at a node's bounds |
| protocol (`server.c`, `client.c`, `message.c`) | a socket per client, partial messages, half-read files | split a message, transfer a CSV, shut down | lengths at a multiple of the chunk, chunks that end inside a number, who waits for whom |

The server is one thread that serves one connection after the other. It receives
a query (protocol), parses it (parser), executes it on the database and the
client's variables (catalog), for which it calls the operators, and in a batch
the executor; the executor puts select tasks (parallel scans) in the thread pool,
waits, and goes to the next stage. The server thread is the only client of the
pool.

### CS61 programs (`src/CS61/psets`)

| part | state it keeps | operations | hard behaviour |
|---|---|---|---|
| breakout61 (`pset6`) | cells (type, strength, ball), balls (position, direction, `stopped`), warp queues, paddle | one thread per ball, per warp, one for the paddle | nested locks, condition variables, unlocked paddle, destination cells |
| WeensyOS (`pset3`) | page reference counts, page tables, process table | kalloc, kfree, fork, exit, page_alloc, schedule, faults | isolation, running out of memory half way through a fork |
| io61 (`pset4`) | one cache slot: `tag`, `end_tag`, `pos_tag` | read, write, flush, seek | partial reads and writes, seeks inside the cache |
| m61 (`pset1`) | active regions, metadata and padding in the heap, statistics, heavy hitters | malloc, free, calloc, realloc, reports | sizes that wrap, memory reused at once, checks that read what a program may have overwritten |
| sh61 (`pset5`) | the parsed line, processes, pipes, the foreground group, variables | lists, `&&`/`||`, pipelines, redirections, `cd`, assignments, background | who holds which pipe end, skipped pipelines, SIGINT between two steps |

### CS124 programs (`src/CS124/progset1 copy`, `progset2 copy`)

| part | state it keeps | operations | hard behaviour |
|---|---|---|---|
| `strassen.cpp` | matrices, views, one scratch matrix | multiply with a cutoff, padding | the scratch memory every depth shares, padding |
| `graphs.cpp` | a union-find, a queue of edges, a quadtree | Kruskal, Euclidean spanning tree | pairs that are missed, edges cut by the limit |

## 2. What makes each part correct

- **Thread pool**: a wait returns only when every task that was added has been
  performed, and it does return; a task runs once; a deleted pool is not touched.
- **Parallel scan**: whatever the interleaving of its tasks, a selection holds
  every qualifying row once; what the tasks share is freed, by the last of them.
- **Batch executor**: an operator runs after its inputs, once, and has the result
  it would have on its own.
- **Catalog**: what a server starts with is what the last completed shutdown
  saved; rows stay together; a refused statement changes nothing (two do, section
  6); a client's selections and fetched values stay what they say.
- **Operators and indexes**: the answer is the one the definition of a selection,
  a join, a search gives, whatever collides and wherever the bounds fall.
- **Protocol**: each query gets its whole reply, a file is loaded as it is
  whatever the chunks, nobody waits for ever, and the server ends when it is asked.
- **breakout61**: the board's pointers and the balls' positions agree; a ball in a
  tunnel is in one place and comes out; no wakeup is lost; bricks wear correctly.
- **WeensyOS**: programs see isolated processes, however the kernel builds them
  and wherever it runs out of memory.
- **io61**: calls through the cache are calls on a plain file pointer.
- **m61**: blocks do not overlap and keep what is put in them; the reports are of
  the blocks the program has; the checks accuse nobody wrongly.
- **sh61**: the commands of a list run as the line reads; the prompt comes back,
  with no pipe, zombie or lost terminal left behind (section 6 has what fails).
- **Strassen, spanning trees**: the product; a spanning tree, minimal for Kruskal.

## 3. Modules

| module | what it is |
|---|---|
| `WorkBarrier` | abstract: tasks submitted, performed in any order, a wait passes only when nothing is pending |
| `ThreadPool` | `thread_pool.c`, one action per critical section; implements `WorkBarrier` |
| `ThreadPoolProofs` | TLAPS proofs about `ThreadPool` |
| `Multiselect` | `multiselect.c`, composed with `ThreadPool` (`Pool == INSTANCE ThreadPool`) |
| `MultiselectProofs` | TLAPS proofs about `Multiselect`, over `INSTANCE ThreadPoolProofs` |
| `Batch` | `batch.c`, composed with `WorkBarrier` (`Pool == INSTANCE WorkBarrier`) |
| `QueryProofs` | TLAPS proofs about `Batch` and about `Session` with `Catalog` |
| `Parser` | `parse.c`, `parse_utils.c`: which operator a line becomes |
| `DurableStore` | abstract: a store whose content survives a completed save and nothing else |
| `Catalog` | `db_manager.c`, `db_types.c`: the database, its files, shutdown and startup; implements `DurableStore` |
| `Session` | `execute_operator` and the queries over a client's variables; extends `Catalog` and `Parser` |
| `Protocol` | `client.c`, `server.c`, `message.c`: clients and the server over streams |
| `ProtocolProofs` | TLAPS proofs about `Protocol` |
| `HashTables` | vectors, the pool allocator and the three hash tables |
| `Operators` | `db_internals.c` as pure operators, over `HashTables` |
| `BTree` | `btree.c`, `index.c`: loading, searching, clustering |
| `Breakout` | `board.cc`, `board.hh`, `breakout61.cc`: all threads, all locks |
| `BreakoutProofs` | TLAPS proofs about `Breakout` |
| `Processes` | abstract: what `u-lib.hh` promises programs |
| `Kernel` | the WeensyOS kernel; implements `Processes` |
| `KernelProofs` | TLAPS proofs about `Kernel` |
| `File` | abstract: a file pointer |
| `IO61` | `io61.cc` over a file or a pipe; implements `File` |
| `M61` | `m61.cc` over `basealloc.cc` |
| `M61Proofs` | TLAPS proofs about `M61` |
| `Sh61` | `sh61.cc` over the processes and pipes of the system |
| `UnixProofs` | TLAPS proofs about `IO61` and `Sh61` |
| `Strassen`, `SpanningTree` | `strassen.cpp`, `graphs.cpp` |
| `MCThreadPool`, `MCMultiselect`, `MCBatch`, `MCSession`, `MCProtocol`, `MCBreakout`, `MCKernel`, `MCIO61`, `MCM61`, `MCSh61`, `MCAlgorithms` | TLC instances |

The modules of the column store stack: `Batch` uses the barrier that `ThreadPool`
is proved to implement, and treats a select as one task, which is what
`Multiselect` shows its chunks amount to. `Session` takes a batch as its operators
one by one, which is what `Batch` compares its stages with, and a hash table of
names as a set in a given slot order, which is what `HashTables` is checked for.

Mutant operators (`Name_What`, above the definition they alter) are slips a
programmer could make; `PROJECT.json` says which property each one breaks.

### ThreadPool

Every field of `struct tpool` is read and written with `work_mutex` held, so a
critical section is one action; the task body runs outside the mutex and is an
action of its own. `wpc` says where each worker is and `mpc` where the client
thread is; a condition variable is the set of threads whose pc is its sleep
state; a broadcast moves them all to the state in which they retake the mutex;
a signal moves the single waiter. `queue` is the linked list. Spurious wakeups
are actions. `done` and `destroyed` are history variables. There is one client,
the server thread, and `delete` is its last call.

### Multiselect

The pool's variables are those of `ThreadPool`; a worker that runs a task takes
the steps of `thread_execute_multiselect_chunk` (`step`): the scan, the decrement
of `remaining` and merge under the selection's lock, `free_arc`, the return. With
`block_within_select` the scan is one step under the lock. The server submits the
tasks one at a time, so workers run while it does. `Blocking` is
`decide_tuning_params`: few processors for the number of selections. A filter is
the set of rows it matches; the selectivity estimate is random in the code, so it
is a choice here, for columns of at least `SampledFrom` rows (1,310,720 in the
code). Chunk sizes are computed as in the code, with smaller constants.

### Batch

`variables` is the dependency graph, built one operator at a time, sorted once;
`i`, `stage`, `select_par`, `start` are the locals of the two `execute_breadth_*`
functions, and each branch of their loop body is an action. `grouped` says which
of the two runs. `Sorted` is what the insertion sort of `sort_dep_graph` leaves:
`Place` counts the links that end before a link or in its place, which is where
a stable sort puts it.
`addr` is where malloc put the columns, which the sort compares. A variable's
`value` is "right" when it is what `NO_HEURISTIC`, the one-by-one execution,
gives. Handles are created once in a batch: `create_variable` frees the variable
of that name, which the graph may still point to, and what then happens is
undefined.

### Parser, Catalog and Session

A line reaches `Parser` cut into its handle, verb and arguments, and comes out as
an operator, as nothing (a comment) or as an error: each `Parse...` operator has
the conditions of one `parse_...` function. Which characters separate tokens is
left out.

The server is one thread, so a statement is one action. It checks its arguments
in the code's order and then changes `db`, or leaves it and sets `status`.
Shutdown is not one step: it opens (and truncates) the catalog, removes and
writes one column file after another (`todo`), and the catalog has its text only
when it is closed; the process may end between any two of these. The hash tables
of names matter through one thing only, the order in which shutdown and startup
walk them: `SlotOrder` lists the names by slot, and `InSlotOrder` lists a set of
names by rank in it. In `DurableStore` the content is
the database by table and column name, so an order that changed is not a
difference (it is a divergence, section 6).

`Session` has the variables of the client, a pool of name -> variable. A
variable's `ok` is FALSE when the code reads it from freed memory or past an end;
then its data may be anything, and no property asks it to be right. The ghost
`src` remembers the column, its generation and length, and the filter; it is
never read by an action. Queued statements of a batch are kept in `graph` and
executed at `batch_execute` in order. A failing assertion ends the server
(`Abort`), and where the code reads or writes what is not there the server may end
or go on: `NullRead` (the column of a variable that has none), `Overruns` (a column
without capacity, `bare`), `FreedDb` (what goes through `current_db` after a
`create_db` with too long a name has freed it, `Dangling`). A name is `TooLong` or
it fits its field; one of exactly 64 characters counts as one that fits. `Room` is how many values the allocation of a column without
capacity has room for. Which row values occur is bounded by the queries; `MaxRows`
bounds a column.

### Protocol

A stream carries units, one per call of `send`, because both sides ask in a
`recv` for exactly what one `send` sent, and a Unix stream socket neither loses nor
reorders them. `hdr` is `recv_message`, which survives from one message to the
next and has no value when a connection begins. A load carries its file and the
rows the file has. `load` is the static state of `partial_load`: the number being
read when a chunk ended, its sign, the column it belongs to. A client may die at any
moment (`Die`), and what is then read is not initialised: the server may crash. A
statement is `fatal` when `Session` has an abort for it, and the server may end over
it; a file is `alien` when it names a column that the database has not, and its
first chunk fails an assertion. The header line of a file fits its first chunk and
is followed by at least one character, which is what `HeaderFits` and `ScriptsTyped`
ask for: `partial_load` would read past the chunk otherwise.
Query results are a length; file contents are characters, because where a chunk
ends inside a number is what `LoadedWhole` is about. `Prints` says what a client
has printed: every byte of the replies before a command and some of that one's,
in order, and nothing else.

### HashTables, Operators, BTree

Pure operators. A hash function is an argument, so that any keys collide. The
robin hood tables have their displacement (`Settle`), the one pass of an erase
(`Swept`) and growth; the chained table has its chunks from the pool allocator. An `int` wraps
at `IntMax`; a size_t comparison of ints is modulo `UnsignedModulus`. What an
overflowing B-tree node leaves in its bounds is the argument `junk`.

### Breakout

A lock is not a variable: who holds it follows from the pcs (`BallMutexFree`,
`RowsFree`, `WarpMutexFree`). `move()` is one action per outcome, except that a
collision is two (the notification is visible to the sleeping thread before
`stopped` is reset) and that entering a tunnel is two (`accept_ball` blocks on
the warp mutex with the rows held). The std::scoped_lock on three rows backs off
until it has all three and is one step. The paddle thread's stores are not
locked: they are single actions in any order. `compute_direction` reads the
board cell by cell while balls move; its result may be any column. The paddle is
8 wide, or as wide as the board. The counters `nrunning` and `ncollisions` and
the signal handlers are only for printing and are left out. `stopped` has no
initialiser; `StoppedAtStart` says what it may hold (both values before C++20,
FALSE since). The single-threaded mode (`-1`) is not modelled.

### Processes and Kernel

The kernel runs with interrupts off, so a handler runs from beginning to end; its
loops over pages are taken one `kalloc` at a time because every `kalloc` may fail
(`kernel.at` says where it stands). The pages below `PROC_START_ADDR` are
represented by `Low`, with the console as the one a program may touch; the
program's by `User`. `Walks` says which page-table pages lie on the way to a
page. A frame's contents are a small value: cleared, image, or stored by the
program. `page_alloc` is called with the addresses `u-lib.hh` allows. The memory
viewer, the log, the keyboard and the contents of the console are left out. What
is undefined is a choice that includes stopping: `kfree` of the unmapped page in
a failed fork, and a fork without a free slot.

In `Processes` a process has a `space`, a `result` register and is live or not.
The mapping takes a process as live when it is runnable; its space is what the
entries of its table lead to. A half-built child is not live, so a fork is many
steps of `Kernel` and one of `Processes`.

### File and IO61

`tag`, `end`, `pos` and `cbuf` are the fields of `io61_file`; `disk` and `offset`
are the system's. `call` is the call in progress, one action per turn of its
loop. `read` may fail and, on a pipe, stop short; a `write` that does not write
everything fails the assertion in `io61_flush` and ends the program. What close(2)
answers, after the flush, is what `io61_close` answers. In `File` a
call that fails may have moved the pointer, because the code's do (below).

### M61

Memory is an array of cells: two of metadata before a block (its size and its
line), a cell for each byte of the payload, one of padding behind it.
`base_malloc` takes any free block that is large enough or new memory, which may
run out. Sizes, counts and their sums are computed modulo `Modulus`; a call is
sampled before its size is checked. The program that calls m61 writes any byte to
its blocks, 0xFF included, which is what the padding is made of; it may write one
cell behind one, and may free or reallocate any address; the ghosts `live` and
`freed` are what it knows: `content` is what the program may count on, `past` what
it wrote behind the block. The metadata is in the
memory, so a check reads what is there, not what was meant. `verdict` is why the
process ended.

### Sh61

`Grouped` is the recursive descent of `parse_line` (a command up to an operator,
a pipeline up to something other than `|`, a conditional up to another operator)
as a fold: an item joins the last group while that is open, and begins another
when it is not. It is checked by what the lists then do. `sh` holds the position of each shell process
in its list (a background list is run by a forked shell), `kid` each command,
`ends` the pipe ends each process has open. Fork, the closing of the shell's
ends, the change of the foreground group and the wait are separate actions,
because children run between them and SIGINT may come. Programs are external:
they read, write and exit as `Programs` says. A process has its `group`, and `fg` is
the terminal's. `setpgid` fails for a child that has called execvp (`execed`) and for
a group without processes, and `claim_foreground` for a group that is not there
(`IsThere`); nobody looks. A program that reads the terminal from another group may
be stopped (SIGTTIN), and so may the shell when it has moved. The system may refuse a
fork or a pipe; `MaxMishaps` bounds these and the SIGINTs. `run_list`, which reaps,
is an action of its own, `RunList`. The shell starts in the foreground, with a
terminal.

### Strassen and SpanningTree

A matrix is its cells in address order and a view a square of it, so aliasing in
the scratch matrix is in the model; an access outside a vector is `threw`.
`SpanningTree` has Kruskal over a sorted queue, the quadtree, the
well-separated pairs and the edge taken per pair; coordinates are integers and
distances squared, as in the code.

## 4. Runs

| run | instance | what it shows |
|---|---|---|
| `pool` | 3 workers, 3 tasks | the inductive invariant `PoolInv`, which is also proved; tasks are performed, waits and deletions return; the pool implements the barrier |
| `multiselect` | 4 workers, 1 or 2 selections, 5 rows in chunks of 2 with a remainder | selections complete, in order when merged, no use after free or after the lock's destruction, no leak |
| `batch` | every batch of 4 operators on 2 columns, four longer ones by hand, both heuristics, both memory orders | inputs first, each link once, right results, the batch ends |
| `catalog` | 31 queries and a file over one table of two columns, 6 statements or crashes, 2 disks to start with, columns of up to 3 rows | a server starts with what the last complete shutdown saved; rows stay together; an error changes nothing but in two known statements; selections stay right |
| `protocol` | 2 clients, 8 pairs of scripts, with statements and files that end the server, chunks of 2 bytes, file reads of 3, one death | replies and files arrive whole, everyone is served, the server ends only for the reasons listed |
| `algorithms` | tables: 3 keys, 4 hash functions, 5 calls; columns of up to 3 values; joins of up to 3 rows each; indexes of up to 10 rows with fanouts of 2; matrices up to 4 x 4; graphs of up to 4 nodes; up to 4 points | tables, operators, joins, indexes, products and spanning trees agree with their definitions |
| `breakout` | 2 x 5 cells, 2 balls, 2 warp threads, a sticky cell | board and balls consistent, tunnels deliver, no lost wakeup |
| `breakout_paddle` | 2 x 5 cells, 2 balls, bricks, trash, a sticky cell, paddle | bricks, diagonal motion, move()'s assertion |
| `kernel` | 2 process slots, 17 frames, 5 virtual pages, 4 tables each | frames have one owner, failures and exits give pages back, everyone runs, isolated processes |
| `io61` | blocks of 2 bytes, files of up to 5, calls of 1 and 3 bytes, 3 seek targets | the tags agree with the descriptor; a plain file pointer; calls return |
| `m61` | 11 cells, sizes modulo 64, bytes 1, 2 and 255, any 4 calls or writes | blocks keep their contents, reports are right, the checks accuse nobody wrongly |
| `sh61` | 14 scripts of one to three lines, at most 8 processes, pipes that hold one unit, one SIGINT or refused fork or pipe at any moment | commands run as the line reads, the prompt is clean, lines end |

Why the bounds suffice. Three workers are the least with one that runs, one that
sleeps and one that finishes last; three tasks let one be queued while two run.
Five rows in chunks of two give two full chunks and a remainder; four workers and
one selection make it private, two selections make it blocking. Four operators
reach depth three with two links in one stage; the longer batches alternate
columns and interleave depths. Six statements are what it takes to select, insert,
fetch, reuse a handle, shut down and start again; one of the disks has a table
already, and one client follows another. Chunks of two bytes put a boundary
inside a number, after a comma and at the end of a row, and replies of one to
five bytes end below, at and above a multiple. With four hash functions the keys
collide all, in pairs, at the last slot and never; five calls make each table
grow and shrink. Ten rows at fanout two are leaves, one inner level, two, and the
count at which a node overflows. Products are linear in each factor, so factors
with a single one are enough; 4 x 4 is the least with two depths of recursion.
Two balls are what every two-party interaction of the board needs; a board of two
columns keeps them meeting. 17 frames hold two processes complete and one page
more, so a fork fails at every page and every table, and slots and frames are
used again. A block of two bytes is empty, half full or full; calls of three
bytes always cross a boundary. 11 cells of heap hold two blocks and a rest, so
blocks are reused, allocations fail and neighbours touch; the sizes of m61's
calls include one that wraps, two whose product does, and two whose sum does when
both are sampled. Pipes of one unit make a
writer wait for its reader; the scripts have each operator, an unknown command,
an unknown variable, files that cannot be opened, an assignment in each place where
it matters and a syntax that leaves a command empty.

`CHECK_DEADLOCK FALSE` is used where the system may stop: `kernel` (it panics or
idles with no process), `io61` (the file is closed), `catalog`, `m61` and
`algorithms` (the bound on statements or calls is reached, or the program ended),
`protocol` (every client is done, or the server exited), `sh61` (the shell ended, or
it or what it waits for is stopped).

### Fairness

- `ThreadPool`: weak fairness of each worker and of the client once it is inside a
  call: the operating system schedules every thread, and `func` returns. Nothing
  obliges the client to call.
- `Batch`: weak fairness of the server thread and of each task in the pool, which
  is what `TasksPerformed` and `CallsReturn` give.
- `Breakout`: strong fairness of each ball and warp thread: a thread that keeps
  asking for a mutex that keeps being released gets it in the end (glibc's mutexes
  do not promise more than that a waiter is woken; a starved ball is not a state
  the code guards against). The paddle has none.
- `Kernel`: weak fairness of the timer (programmed at boot, HZ times a second) and
  of the handlers. Programs owe no step.
- `IO61`: weak fairness of the loop of the call in progress: the system answers.
- `Protocol`: weak fairness of the server and of each client: they are processes
  that the system schedules, and a client goes on to its next command. No client
  owes a death.
- `Sh61`: weak fairness of each process; programs read what there is, write and
  exit. No user owes a SIGINT, nor one that continues what SIGTTIN has stopped.

## 5. What is proved

Each theorem is about every value of the constants that the named assumption of
its module allows; the assumptions are what the code or its build gives (sizes are
positive, a board's layout is consistent, a batch creates a handle once) and TLC
evaluates them in every run. An invariant that is to be proved was first checked
by TLC in its strengthened, inductive form.

**Thread pool** (`ThreadPoolProofs`, under `PoolAssumption`): any finite set of
workers, any set of tasks.

- `PoolSafety`: `Spec => []PoolInv`. `PoolInv` is the type invariant, the exact
  counters, one holder per task, freed work not run, freed pool not touched, and
  `ShutdownInv`, which ties `stop` and the client's pc to what was destroyed: the
  others are not inductive without it, since `delete` frees the list and leaves
  `work_first` pointing at it, and only `stop` keeps workers away.
- `CountersAlwaysExact` and `PoolNoUseAfterFree`, parts of it.
- `PoolImplementsBarrier`: `Spec => Barrier!BarrierSpec`. A wait returns only when
  `work_first` is null and `working_cnt` is 0 (or, when deleting, `thread_cnt`);
  by `CountersExact` no worker then holds a task, so nothing is pending.

**Parallel scans** (`MultiselectProofs`, under `ScanAssumption` and
`WorkersAssumption`): any column, any cut, any number of selections and workers.

- `ScanUsesPool`: every step of a scan is a step of the pool or leaves it alone, so
  the pool's invariant holds under it. The pool's proofs are not repeated:
  `Shared == INSTANCE ThreadPoolProofs WITH Tasks <- ScanTasks`.
- `ScansAreRight` (`ScansAgree`): when the stage is over a selection holds the
  qualifying rows, in order if it was private, and each once if the chunks came in
  as they finished. `DataInv` says of a selection under way that it holds what the
  reported chunks hold: while the scans are private, every reported chunk is in
  its place of `intermediates` and the merge has not happened until the last one
  reports; under the lock, the selection has the rows of the reported chunks, each
  once. It needs the counting of `ScanInv`, for the one that merges must be the
  last.
- `SharedStaysAlive` and `StageFreesShared` (`SharedAlive`, `NothingLeaks`): no task
  uses the chunks, the results or a lock after they are freed, and they are freed
  when the stage is over. The invariant `ScanInv` counts: a selection's `remaining`
  and the reference count are the tasks not submitted yet, in the queue, or held
  by a worker that has not come to its decrement. They are counted in the pool's
  state, so it needs that a task has one holder, which is the pool's theorem.

**Batch executor** (`QueryProofs`, under `BatchAssumption`): any batch, either
heuristic, columns at any addresses.

- `LinksInOrder` (`StagesInOrder`): no operator is handed to the pool twice, none
  before those that compute its inputs have been executed. `BatchInv` adds that the
  graph has every operator once, that an input has a smaller depth, and that after
  `sort_dep_graph` depths ascend; then the loop's `i`, `stage` and `start` say
  exactly which operators were handed over, and that all of a lower depth are
  finished. That the sort leaves a permutation in order is a lemma about ranks
  (`Ranking`): `Place` is a rank in a total order, hence a bijection.
- `ResultsKept`: at the end of a batch, unless the estimator kept a selection as its
  complement, every operator has been executed and its result is the one it has on
  its own. `ResultsKeptUninverted` states `BatchSame` without that condition where
  `Estimates` has no TRUE, as in the run; with TRUE it is false (section 6).

**Catalog, variables and statements** (`QueryProofs`, under `CatalogAssumption`,
`StatementsAssumption`, `FilesAssumption`, `DisksAssumption` and `Parser`'s
`NumeralIsInt`): any statements, names in any slots, any bounds, files and disks, and
a process that may end between any two steps. The assumptions: names hash to
slots; a statement that creates names something that has a slot; a transferred file
is a table with distinct column names; a disk holds what a server may have left on
it. `SessionInv` is the invariant of all four:

- `StoreInv`: a table's `order` lists its columns once and there are at most `count`
  of them; the catalog names each table once; a server that is down holds nothing;
  and while it saves (`SaveRight`) the catalog is empty and every column that is not
  in `todo` any more is in its file as it is in memory. Without the last the end
  of a save says nothing of the files.
- `PoolRight`: a variable whose data is good was made from a column of a generation
  that is not later than this one, and if it is this one the column still exists,
  is at least as long as it was, and the data is what the source says.
- `BatchRight`: the batch holds queries only, so `execute_batch` replaces nothing.

- `SelectionsAreRight` (`SelectionsStayRight`): an insert appends, so what a selection
  saw is a prefix and its positions still stand; a load begins a new generation; a
  handle that is used again replaces its variable; a batch is a fold over its
  links, each of which keeps `PoolRight`.
- `FailedStatements` (`FailedChangesAreKnown`), an action property, statement by
  statement: what reports an error has changed nothing, but for a refused
  `create_db`, which loses the database, and a refused join, which empties its two
  results.
- `RowsStayTogether` (`RowsTogether`), an action property, where `WholeFiles` always
  holds: a file that is transferred names all columns of the table. The code does
  not check it and a file that names some of them leaves the table ragged
  (section 6), so the property without the hypothesis is false; the files of
  `MCSession` meet it.
- `StoreIsDurable` (`ImplementsStore`): a statement changes the content, the removal
  and writing of one file after another is a stutter of a store that has nothing
  saved, the step that closes the catalog saves everything, and a startup brings
  back what it was. It needs that the catalog written in slot order names each
  column once (`InOrder`: the rank in a set of names is a bijection), so that what
  `startup_db` reads by it (`NextIs`, `Started`) is what was written (`Saved`).

**Protocol** (`ProtocolProofs`, under `ChunkSizePositive`, `HeaderFits`,
`ScriptsTyped`, and for files `LoadsAsWritten`): any clients, scripts and sizes, and deaths at any moment.

- `StreamsInStep`: `Spec => []ProtocolInv`. The invariant places every unit under way
  to the server: the stream and what the client has still to send are consecutive
  units of its commands, the first is the one at which the server's loop stands
  (a header where it reads a header, an even unit of a transfer where it reads a
  chunk), the last ends a message. When nothing is under way it says what
  `recv_message` still holds. A client that waits has printed so many whole pieces
  of its reply, and the stream and `replies` hold the rest.
- `RepliesArriveWhole` (`RepliesWhole`): before its next command a client has printed
  every byte of every reply once, in order, and nothing else. Rests on what
  `split_message` makes of a text of any length (`ReplySplit`: pieces adjoin, are
  never empty, and only one that reaches the end is marked as the last).
- `FilesLoadWhole` (`LoadedWhole`): the rows a load has put into the columns are the
  rows of its file, wherever chunks cut the text, inside a number as well.
  `LoadsAsWritten` says that a script's file is the text of its rows and that the
  text of one value, which has no separator, reads as that value; what a file of
  any length reads as follows from it. `LoadInv` adds to the streams' invariant
  which piece comes next and that the static state of `partial_load` is what reading
  all the text before it leaves, so that a chunk goes on where the last one ended.
- `ServerEndsAsKnown` (`EndsAsKnown`): the server fails only over the client it
  serves, which died, waits for a statement that `Session` lets abort, sent a file
  that is empty or names an unknown column, or closed with a transfer or nothing as
  the last thing it sent; and it exits only when asked to. In particular it never
  reads a header where a payload is.

**breakout61** (`BreakoutProofs`, under `BoardAssumption`): any board, any number of
balls and tunnels.

- `BallsKept` (`BoardInv`), `BricksStayWhole` (`BricksWhole`) and `RunningIsDiagonal`
  (`MovesDiagonally`). The inductive `IInv` adds which cells never change, that two
  balls holding their rows are three rows apart (the mutexes, which the model
  derives from the pcs), the stages of a ball in a tunnel, and that colliders run.
- `NoWakeupLost` (`WakeupComing`) where `StoppedAtStart` is FALSE only, which is
  what `std::atomic<bool>` does since C++20.
- `AssertionHoldsWithoutTunnels` (`MoveAssertion`) where there are no tunnels; with
  tunnels it is false (section 6).

**WeensyOS** (`KernelProofs`, under `KernelAssumption`): any number of processes,
pages, frames and tables.

- `MemorySafe` (`KernelInv`): frames have one owner and exact counts, memories are
  isolated, the kernel is mapped in every table. `IInv` adds what a call that is half
  way has built (`BuiltSoFar`): the pages before `kernel.page` are mapped, the
  pending frame is nobody's.
- `CallsReturnPages` (`PagesReturned`), an action property.
- `KernelImplementsProcesses` (`ImplementsProcesses`): a fork or a `page_alloc`, page
  by page and failing anywhere, is one step of `Processes`, or -1 and no change.

**io61** (`UnixProofs`, under `IOAssumption`): any block size, file and calls.

- `TagsAgree` (`CacheAtOffset`): the two checks of `io61.cc` that are commented out.
- `CacheImplementsFile` (`ImplementsFile`). The invariant adds that the call in
  progress fits the mode, and that what a read has gathered are the bytes before
  the pointer, so that its last step returns what `File` would.

**m61** (`M61Proofs`, under `CallsTyped`, `MemoryFits` and `SizesDoNotWrap`): any
memory, any sizes a `size_t` holds, any program that writes no further than one cell
behind its blocks.

- `HeapIsKept` (`HeapKept`). The inductive invariant says where blocks are: the
  program's and those on `basealloc`'s free list lie apart in memory that the system
  gave out (a reused block is recorded with the smaller size, and what it loses is
  nobody's), and a free block begins with the bytes m61 marks it with. It is stated
  of a heap, the blocks in it and the pointers freed (`Sound`), not of the state,
  because `m61_realloc` goes through heaps in which no step ends: it copies from the
  block after releasing it, and what it copies is whole because the new block is
  either the same one or lies apart from it. What a block must hold after a realloc
  is what the code copies, up to the first byte that is 1, and that is less than a
  program expects (section 6); behind a block is the padding, or what the program
  wrote there.
- Sizes: `TotalIs` and `ProductIs` say that a total that comes out larger than its
  summand has not wrapped, and that a product has not when both factors are at most
  what came out and that is below `MAX_MALLOC_SIZE`, whose square is below 2^64.
- `FreesAreJudged` (`FreesJudged`), an action property: a block with something other
  than 0xFF behind it is never freed. Whoever writes 0xFF there is not found out, and
  the property says so.
- `ReportsAreRight` (`ReportsRight`), and `LeaksAreListed`, its part about the leak
  report and the bounds of the heap: the statistics count and add up the blocks the
  program has; the samples add up modulo `Modulus`, and the heavy hitter report
  prints every line that has a fifth or more of that total, and at most `ReportSize`
  that have less. Since requests that are refused are sampled too, a total may have
  wrapped and the report then be of no use (section 6).
  The totals are folds over finite sets; `SumInv` carries them from step to step
  (a sum without, and with, one more block), by lemmas about such folds that are
  proved from the library's facts on finite sets.

**sh61** (`UnixProofs`, under `ShellAssumption` and `ProgramsAssumption`): any lines,
any programs (found or not, reading and writing any amount, ending either way), any
capacity of a pipe, any number of processes and of SIGINTs. The assumptions say what
tokens and programs are, and that each command a line parses to names one of the
programs, which may be one that is not found.

- `ListsRunRight` (`ListsRunAsTheyRead`): a pipeline of a list runs if and only if those
  before it that ran ended as its operator wants, and not before they ended. A
  pipeline that is skipped takes over the status before it, so the property, which
  speaks of pipelines that ran, is not inductive: `Read` adds that a skipped one has
  the status that the operator does not want, and that the pipeline it has this from
  ran. `CodeRight` says what `parse_line` makes of any line (no list or pipeline is
  empty, and a list of two or more is one of `&&` or of `||`); it is the invariant of
  the fold `Grouped`. That this fold is what its equation says
  (`GroupedIs`) is proved without induction, from a least set of places on which two
  such folds could differ.
- `PromptsAreClean` (`PromptIsClean`): when `run_list` returns no child of the shell is
  dead and not reaped (`NothingIsDead`, an action property: `Dead` has all of them).
  At the prompt the shell has no pipe and, unless it moved into a pipeline's group,
  the terminal: `EndsRight` and `KidEnds` give the pipe ends that a shell may hold at
  each step of its loop, and a command at all, and `FgRight` says that the terminal
  is away from a shell that has not moved only between the claim for a pipeline and
  the end of the wait, or when it has ended. That claims may fail does not matter for
  the shell's own group, which is there as long as the shell. That no last command
  of a pipeline is left at the prompt is a second invariant, `KidsRight`: such a
  command that is there is the one its shell waits for or is about to (`LastRight`),
  and a shell that has made a command before the last has a pipe for it
  (`WriteRight`). A command that writes to a pipe may be left (section 6).
  `OneShell` and `OneKid` do the part all steps share: a step of one process leaves
  what is known of the others.

### Model-checked only

- All liveness, which the prover cannot do: deliveries, waits that return, wakeups,
  `EveryoneServed`, `LinesEnd`, the tunnels, the scheduler.
- `HashTables`, `Operators`, `BTree`, `Strassen` and `SpanningTree` (`TablesRight`,
  `AnswersRight`, `ProgramsRight`): recursive algorithms on data, written with
  `RECURSIVE` operators and compared with their definitions over bounded inputs.
- `NoWakeupLost`, `MoveAssertion` and `RowsTogether` are proved under the hypotheses
  named above.

## 6. Where the code disagrees with what it says

Met while modelling. The runs keep clear of these, or allow them, as said.

Column store, batches and scans:

- `batch.c:427`: a batch that ends with selects on two columns executes the last
  one with the run before it and fails `execute_multiselect`'s assertion
  (`batch.c:374`). `MCBatch` has no batch of that shape; `Session` has those of
  selects only (`AloneAtEnd`). A select on a fetched variable fails an assertion in a
  batch (`batch.c:195`) and is answered outside of one.
- `batch.c:239`: a select whose estimate says so is kept inverted, and fetch and
  reselect of the same batch do not look (`Estimates = {FALSE}` in the runs; only
  columns of 1,310,720 rows or more are estimated, and `Session`'s are shorter).
  `fetch_inverse` itself swaps the arguments of `set_arr_int` and writes behind
  the result (`Operators` has it, `stray`), and `reselect_inverse` aborts on a hit.

Column store, catalog:

- `db_manager.c:638-660`: the catalog is truncated first and filled last, so a
  crash in between loses the database although the column files may be there;
  `DurableStore` promises no more (`Nothing` while a save is running). An empty
  catalog is then read at index -1 (`db_manager.c:554`).
- `db_manager.c:614`: after a restart the columns have the order of hash slots,
  and insert gives its values out by it. `DurableStore` compares by name.
- `db_manager.c:573`: a table without columns, or with fewer than it was created
  for, does not come back as it was: the server does not start, or the number of
  columns it may have is the number it had.
- `db_manager.c:97-101`: `create_db` deletes the database before `ENSURE_NAME_FITS`
  refuses the new name, whose length `parse.c:142` does not check: the statement
  reports an error, the database is lost and `current_db` points to freed memory
  (`DbLost` in `FailedChangesAreKnown`). A join empties both results before it checks
  its inputs (`ResultsEmptied`). A name of exactly 64 characters passes the check and
  its terminating zero is written behind its field.
- `db_manager.c:601-607`: the file of an empty column gives it the capacity 0, from
  which `push_vec` does not grow (`vector.h:125`): after a restart inserts write
  behind its memory (`Overruns`).
- `db_manager.c:84`: reselect and combine read the length of a fetched variable's
  column, which the results of combine and of a batch do not have (`NullRead`).
- `db_manager.c:248-448`: a query whose handle is one of its inputs frees the
  variable before it is read; a fetched variable keeps the column it came from when
  `create_db` has deleted it.
- `parse.c:236`: `time` with two arguments is accepted and `since_var` not written
  (`SinceVars`).
- `server.c:120`: the shutdown flag is set before `execute_operator` refuses the
  statement in a batch: the server then exits without saving.
- `db_manager.c:736`: a file without a final newline loses its last value; loading
  some of a table's columns leaves it ragged (no file of `MCSession` does).

Column store, protocol:

- `message.c:32`: the last chunk is the one that does not fill; a reply of a
  multiple of 4095 bytes has none, and the client waits for ever
  (`EveryoneServed` excepts those replies, two scripts of the run have one).
- `server.c:66`: what ends a connection is the status of the message before. After
  a transfer, or at the first message, that status is stale or uninitialised and the
  server goes on with no message; an empty file does the same (`EndsAsKnown` names
  these). A client that dies in a query or a transfer takes the server with it.
- `db_manager.c:719`: one client's file that names an unknown column, or one
  statement that fails an assertion, ends the server for all of them; these too are
  reasons in `EndsAsKnown`.

Column store, operators and indexes:

- `db_internals.c`: a hash join with one empty input divides by zero
  (`DividesByZero`); an absent upper bound leaves INT_MAX out.
- `join_hashtable.c:137`: erasing a key with several values leaves holes that hide
  others (`gaps`). `string_hashtable.c`'s erase compares pointers and never erases.
  Nothing calls either.
- `btree.c`: a node overflows when a level's count is one more than a multiple of
  the fanout plus one (`Overflows`); keys below the first are read at index -1; a
  leaf's `next` is never set, so `find_last` stops at its leaf; the bounds of inner
  nodes are compared as size_t and wrong for negative keys. `index.c:12` sorts by a
  difference that may overflow.

breakout61:

- `breakout61.cc:107`: a warp thread reveals a ball "once that position is
  available" (`breakout61.cc:73`) without looking whether it is; the ball it
  overwrites fails move()'s assertion (`board.cc:50`). `Breakout` has the failure
  (`aborted`), and run `breakout` reaches it: what it checks holds up to there.
  `MoveAssertion` itself is checked on a board without tunnels.
- `board.cc:71`: "stay put until next collision" (`board.cc:107`), but the
  notification precedes the reset of `stopped` and is given without the mutex, so
  the released ball may sleep on. `WakeupComing` is about the other wakeups.

WeensyOS:

- `kernel.cc:474`: "Any memory previously located at `addr` should be freed"
  (`u-lib.hh:94`), and `page_alloc` does not; the page stays counted and nobody's.
- `kernel.cc:442`: a failed fork frees from the page it failed at, which is not
  mapped: `kfree((void*) -1)` reads outside `physpages`. `Abandon` has both
  outcomes, so "-1 on failure" (`u-lib.hh:106`) is only promised if the kernel
  survives.
- `kernel.cc:412`: exit frees the pages of a program and none of its page tables;
  they stay counted (`kernel.hh:57`). `Exit` does the same: memory runs out.
- `kernel.cc:425`: the search for a slot goes on past the process table.

io61:

- `io61.cc:111`: a read that fails half way returns -1 and loses what it copied
  ("Returns -1 if an error occurred before any characters were read"). `File`'s
  `Fail` lets the pointer move.
- `io61.cc:227`: a seek back into a block that is being written loses the bytes
  behind it at the next flush, and with a full block `io61_write` never ends; a
  seek outside the block of a file being written moves, and returns -1 because
  `io61_fill` cannot read. `IO61`'s user makes only the second kind.
- `io61.cc:243`: a seek past the end of a file that is read leaves `pos` past
  `end`, and `data_size()` wraps. `IO61`'s user does not.

m61:

- `m61.cc:372`: realloc copies with `memccpy(new_ptr, ptr, 1, ...)`, which ends with the
  first byte equal to 1, though "copy data from old heap block to new heap block"
  (`m61.cc:370`) and "make sure data is copied over for realloc" (`test051.cc:3`, whose
  text has no such byte). `HeapKept` expects what is copied, not what is promised:
  with the whole block in its place it is false.
- `m61.cc:170`: "used to detect wild writes" (`m61.cc:153`), but a write of 0xFF behind
  a block cannot be told from the padding; `FreesJudged` excepts it.
- `m61.cc:187`: a request is counted for the heavy hitters before it is refused, and
  `m61.cc:60` adds sizes as a size_t: two requests of nearly 2^64 bytes make the
  total wrap, and percentages and the choice of lines are of that total.
- `m61.cc:354`: realloc frees the block before it allocates: when that fails the
  block is lost. `calloc(n, 0)` counts as a failure.
- `m61.cc:253`: the check of a freed pointer reads its bytes whatever they are: a
  pointer into a block or behind one may be reported as a double free when
  padding lies where the metadata would. `FreesJudged` asks only for what is safe
  to ask: no block of the program is accused, and a second free is called one.

sh61:

- `sh61.cc:507`: in `a && b || c` the third pipeline runs whatever the first two
  did; `ListsRunAsTheyRead` is about lists of one operator.
- `sh61.cc:314`: a command that is not found returns from the child's `run`, and the
  child exits with 0: `nosuch && echo x` prints x.
- `sh61.cc:441`: a writer keeps the read end of its own pipe, gets no SIGPIPE, and
  stays behind when its reader has ended (`Abandoned` in `LinesEnd`).
- `sh61.cc:434`: a SIGINT between the fork and the change of the foreground group
  ends the shell. If the child has called execvp first, `setpgid` fails and it stays
  in the shell's group; on Linux `tcsetpgrp` (`helpers.cc:167`) then takes the number
  of a group that is not there, and a program that reads the terminal is stopped
  by SIGTTIN, with the shell waiting for it for ever (`HeldUp` in `LinesEnd`).
- `sh61.cc:438`: an assignment in a pipeline puts the shell itself in the pipeline's
  group, and nothing puts it back: it gives the terminal to the group it started
  with, and is stopped, or ends, when it reads its next line. `PromptOK` promises the
  terminal to a shell that has not moved.
- `sh61.cc:294`, `sh61.cc:379`: a fork that is refused counts as a command that
  succeeded; a pipe that is refused fails an assertion and ends the shell.
- `sh61.cc:232`: of several redirections of one kind only the last file is opened.
  `cd` alone reads an argument it does not have (`sh61.cc:290`; no script has it).
- A variable is never overwritten, and an undefined one ends the shell; variables
  are replaced when the line is parsed, not when it runs, and what a background
  list assigns is lost with its process.

CS124:

- `strassen.cpp:71`: `in_bounds` multiplies the width by the other coordinate: any
  dimension that needs padding throws (`ProductRight` expects it).
- `graphs.cpp`: a limit that leaves the graph disconnected, or points a unit or
  more apart, make Kruskal read an empty queue (`ended`); equal points are split
  for ever (no input has any).

## 7. Plan

What was planned is built: every component of section 1, and the proofs of section 5.
Each safety invariant and action property that the runs check is proved but those of
the pure algorithms (`TablesRight`, `AnswersRight`, `ProgramsRight`), which need
induction over data.

## 8. Not modelled

The boot code, drivers and user programs of WeensyOS (`k-hardware.cc`, `lib.cc`,
`x86-64.h`, `p-*.cc`) are handout code below and above the kernel; `Kernel` uses
what they promise. The client programs of io61 are loops over its calls, whose
order is an input of `IO61`. Within modelled parts: the characters of a query and
of a word, timing and logging, what printing looks like, the timing loops and
random draws of the CS124 programs, `btree_insert` (empty in the code), and
breakout61's `-1` mode. Everything else in the repository is notes, problem sets,
notebooks and data.
