------------------------------ MODULE Session ------------------------------
(***************************************************************************)
(* execute_operator and the query statements of db_manager.c over the      *)
(* variables of a client (client_context.c, variable.c): one client after  *)
(* another connects, issues queries that read columns and variables into   *)
(* new variables, and disconnects.                                         *)
(*                                                                         *)
(* A variable has a type and data (positions count from 0).  ok is FALSE   *)
(* when the data was read from freed memory or behind the end of a column: *)
(* then it may be anything.  col tells whether a fetched variable points   *)
(* to the column it is of; only db_fetch sets it.  The ghost src says what a selection or a      *)
(* fetch was made from: the column, its generation and length, the filter  *)
(* or the positions.  A failing assertion ends the server.                 *)
(***************************************************************************)
EXTENDS Catalog, Parser

CONSTANTS Queries,        \* the queries clients issue
          Files,          \* the files clients transfer: [tbl, header, rows]
          Disks,          \* what the server may find on disk: [catalog, files]
          MaxStatements   \* bound on the statements and crashes of a run

(* Tables and columns have names that hash to a slot, a table a number of  *)
(* columns.  The files of a transfer are tables: a name for every column,  *)
(* a number for every name in every row.  What the server may find on disk *)
(* is what a server may have left there.                                   *)
Distinct(s) == \A j, k \in DOMAIN s : s[j] = s[k] => j = k
Data == {s \in Seq(Int) : Len(s) <= MaxRows}
ASSUME StatementsAssumption ==
  \A q \in Queries : LET o == Parse(q) IN
    /\ o.type = "create_tbl" => o.name \in Names \cup TooLong /\ o.count \in Nat
    /\ o.type = "create_col" => o.name \in Names \cup TooLong
    /\ o.type = "insert" => o.values \in Seq(Int)
ASSUME FilesAssumption ==
  \A f \in Files :
    /\ f.header \in Seq(Names) /\ f.header # <<>> /\ Distinct(f.header)
    /\ f.rows \in Seq([DOMAIN f.header -> Int]) /\ Len(f.rows) <= MaxRows
ASSUME DisksAssumption ==
  \A disk \in Disks :
    /\ disk.catalog.kind \in {"missing", "empty", "text"}
    /\ disk.catalog.kind = "text" =>
         /\ disk.catalog.tables \in Seq([name : Names, columns : Seq(Names)])
         /\ Distinct([k \in DOMAIN disk.catalog.tables |-> disk.catalog.tables[k].name])
         /\ \A k \in DOMAIN disk.catalog.tables : Distinct(disk.catalog.tables[k].columns)
    /\ disk.files = [id \in DOMAIN disk.files |-> disk.files[id]]
    /\ \A id \in DOMAIN disk.files : disk.files[id] \in Data

VARIABLES client,     \* "none" or "connected"
          leaving,    \* handle_client's shutdown flag
          pool,       \* variable_pool: name -> variable
          graph,      \* the active batch: <<>>, or << the queued operators >>
          generation, \* ghost: how often this client's columns were replaced
          issued      \* ghost: the number of statements and crashes

sessionVars == <<client, leaving, pool, graph, generation, issued>>
allVars == <<dbVars, status, sessionVars>>

NoSrc == [kind |-> "none"]
Var(type, data, src) == [type |-> type, ok |-> TRUE, col |-> FALSE, data |-> data, src |-> src]
Spoilt(type) == [type |-> type, ok |-> FALSE, col |-> FALSE, data |-> <<>>, src |-> NoSrc]

(* get_variable_force_type; and fetched values or else a column *)
HasVar(p, id, type) == Len(id) = 1 /\ id[1] \in DOMAIN p /\ p[id[1]].type = type
HasValues(p, id) == HasVar(p, id, "fetch") \/ ColumnExists(id)
ValuesOf(p, id) == IF HasVar(p, id, "fetch") THEN p[id[1]].data ELSE ColumnData(id)
IsGood(p, id) == Len(id) = 1 => p[id[1]].ok

(* reselect and combine read how long the column of a fetched variable is, *)
(* though neither needs it: from a null pointer when the variable has none *)
Pointless(p, id) == HasVar(p, id, "fetch") /\ ~p[id[1]].col
NullRead(p, o) ==
  \/ o.type = "reselect" /\ HasVar(p, o.sel, "select") /\ Pointless(p, o.data)
  \/ o.type = "combine" /\ (Pointless(p, o.first) \/ (HasValues(p, o.first) /\ Pointless(p, o.second)))

(* create_variable: the variable of that name is deleted first *)
\* mutant: a selection of that name is kept and the new positions are added to it
Stored_Adds(p, name, var) ==
  [n \in DOMAIN p \cup {name} |->
     IF n # name THEN p[n]
     ELSE IF n \in DOMAIN p /\ var.type = "select" /\ p[n].type = "select"
     THEN [var EXCEPT !.data = p[n].data \o @] ELSE var]
Stored(p, name, var) == [n \in DOMAIN p \cup {name} |-> IF n = name THEN var ELSE p[n]]

(* select_range: the positions whose value is in the half-open range *)
InRange(x, low, high) == (low = <<>> \/ low[1] <= x) /\ (high = <<>> \/ x < high[1])
Positions(data, low, high) ==
  SelectSeq([i \in DOMAIN data |-> i - 1], LAMBDA p : InRange(data[p + 1], low, high))

IntMax == 2147483647
SumOf(data) == FoldLeft(LAMBDA x, y : x + y, 0, data)
Aggregated(fun, data) ==
  CASE fun = "avg" -> <<SumOf(data), Len(data)>>
    [] fun = "sum" -> <<SumOf(data)>>
    [] fun = "min" -> IF data = <<>> THEN <<IntMax>> ELSE <<Min(ToSet(data))>>
    [] fun = "max" -> IF data = <<>> THEN <<-IntMax>> ELSE <<Max(ToSet(data))>>

(* the names an operator reads its inputs by, and whether they are there *)
Inputs(o) ==
  CASE o.type = "select" -> {o.col}
    [] o.type = "reselect" -> {o.sel, o.data}
    [] o.type = "fetch" -> {o.col, o.sel}
    [] o.type = "aggregate" -> {o.data}
    [] o.type = "combine" -> {o.first, o.second}
Available(p, o) ==
  CASE o.type = "select" -> ColumnExists(o.col)
    [] o.type = "reselect" -> HasVar(p, o.sel, "select") /\ HasValues(p, o.data)
    [] o.type = "fetch" -> ColumnExists(o.col) /\ HasVar(p, o.sel, "select")
    [] o.type = "aggregate" -> HasValues(p, o.data)
    [] o.type = "combine" -> HasValues(p, o.first) /\ HasValues(p, o.second)

(* the assertions of reselect, add and sub on sizes *)
SizesMatch(p, o) ==
  CASE o.type = "reselect" -> Len(p[o.sel[1]].data) = Len(ValuesOf(p, o.data))
    [] o.type = "combine" -> Len(ValuesOf(p, o.first)) = Len(ValuesOf(p, o.second))
    [] OTHER -> TRUE

(* what the operators compute from good inputs *)
Computed(p, o) ==
  CASE o.type = "select" ->
         LET data == ValuesOf(p, o.col)
         IN Var("select", Positions(data, o.low, o.high),
                IF ColumnExists(o.col)
                THEN [kind |-> "select", col |-> o.col, gen |-> generation, size |-> Len(data),
                      low |-> o.low, high |-> o.high]
                ELSE NoSrc)
    [] o.type = "reselect" ->
         LET among == Positions(ValuesOf(p, o.data), o.low, o.high)
         IN Var("select", [i \in DOMAIN among |-> p[o.sel[1]].data[among[i] + 1]], NoSrc)
    [] o.type = "fetch" ->
         LET data == ValuesOf(p, o.col)
             at == p[o.sel[1]].data
         IN IF \E i \in DOMAIN at : at[i] + 1 \notin DOMAIN data THEN Spoilt("fetch")
            ELSE Var("fetch", [i \in DOMAIN at |-> data[at[i] + 1]],
                     IF ColumnExists(o.col)
                     THEN [kind |-> "fetch", col |-> o.col, gen |-> generation, at |-> at] ELSE NoSrc)
    [] o.type = "aggregate" -> Var("aggregate", Aggregated(o.fun, ValuesOf(p, o.data)), NoSrc)
    [] o.type = "combine" ->
         LET x == ValuesOf(p, o.first)
             y == ValuesOf(p, o.second)
         IN Var("fetch", [i \in DOMAIN x |-> IF o.fun = "add" THEN x[i] + y[i] ELSE x[i] - y[i]], NoSrc)
TypeOf(o) == CASE o.type \in {"select", "reselect"} -> "select"
               [] o.type \in {"fetch", "combine"} -> "fetch"
               [] o.type = "aggregate" -> "aggregate"

-----------------------------------------------------------------------------
Reply(s) == status' = s /\ issued' = issued + 1
SameDb == UNCHANGED dbVars
SameSession == UNCHANGED <<client, leaving, pool, graph, generation>>

Reset ==
  /\ client' = "none"
  /\ leaving' = FALSE
  /\ pool' = <<>>
  /\ graph' = <<>>
  /\ generation' = 0
Abort == Killed /\ Reset /\ issued' = issued + 1

SessionInit ==
  /\ server = "down"
  /\ db = NoDb
  /\ \E disk \in Disks : catalog = disk.catalog /\ files = disk.files
  /\ todo = {}
  /\ status = "ok"
  /\ client = "none"
  /\ leaving = FALSE
  /\ pool = <<>>
  /\ graph = <<>>
  /\ generation = 0
  /\ issued = 0

(* parse errors, comments, and what a batch refuses: the shutdown flag is  *)
(* set all the same                                                        *)
QueryTypes == {"select", "reselect", "fetch", "aggregate", "combine"}
Malformed(o) ==
  /\ o.type \in {"bad", "none"}
  /\ Reply(IF o.type = "bad" THEN "failed" ELSE "ok")
  /\ SameDb /\ SameSession
RefusedInBatch(o) ==
  /\ o.type \notin QueryTypes \cup {"bad", "none", "batch_execute"}
  /\ graph # <<>>
  /\ Reply("failed")
  /\ leaving' = (leaving \/ o.type = "shutdown")
  /\ SameDb /\ UNCHANGED <<client, pool, graph, generation>>

(* push_batch: a name that is no variable must be a column, and the result *)
(* replaces a variable at once.  Clients do not use a name twice in a      *)
(* batch: the queued operators would be left with a freed variable.        *)
Reused(o) == \E q \in ToSet(graph[1]) : o.handle = q.handle \/ o.handle \in Inputs(q)
Push(o) ==
  /\ o.type \in QueryTypes /\ graph # <<>>
  /\ IF o.handle = <<>> THEN Reply("ok") /\ SameDb /\ SameSession
     ELSE IF \E id \in Inputs(o) : ~(Len(id) = 1 /\ id[1] \in DOMAIN pool) /\ ~ColumnExists(id) THEN Abort
     ELSE /\ ~Reused(o) /\ o.handle \notin Inputs(o)
          /\ graph' = <<Append(graph[1], o)>>
          /\ pool' = Stored(pool, o.handle[1], Var(TypeOf(o), <<>>, NoSrc))
          /\ Reply("ok")
          /\ SameDb /\ UNCHANGED <<client, leaving, generation>>

BatchQuery(o) ==
  /\ o.type = "batch_queries" /\ graph = <<>>
  /\ graph' = << <<>> >>
  /\ Reply("ok")
  /\ SameDb /\ UNCHANGED <<client, leaving, pool, generation>>

(* What a batch computes is what its operators compute one by one (module  *)
(* Batch).  The links assert the types and the sizes of their inputs; the  *)
(* select that is made with others is made of a column.                    *)
BatchAvailable(p, o) ==
  IF o.type = "fetch" /\ HasVar(p, o.col, "fetch") THEN HasVar(p, o.sel, "select")
  ELSE Available(p, o)
AfterLink(r, o) ==
  IF ~r.ok \/ ~BatchAvailable(r.pool, o) THEN [r EXCEPT !.ok = FALSE]
  ELSE IF \E id \in Inputs(o) : ~IsGood(r.pool, id)
  THEN [r EXCEPT !.pool = Stored(@, o.handle[1], Spoilt(TypeOf(o)))]
  ELSE IF ~SizesMatch(r.pool, o) THEN [r EXCEPT !.ok = FALSE]
  ELSE [r EXCEPT !.pool = Stored(@, o.handle[1], Computed(r.pool, o))]
(* With nothing but selects, of several columns, the last element of the   *)
(* graph is executed with those before it: an assertion fails if it is the *)
(* only one of its column.  Which column comes last is a matter of where   *)
(* the elements lie in memory.                                             *)
AloneAtEnd(ops) ==
  IF /\ \A i \in DOMAIN ops : ops[i].type = "select"
     /\ \E i, j \in DOMAIN ops : ops[i].col # ops[j].col
  THEN {\A i \in DOMAIN ops \ {last} : ops[i].col # ops[last].col : last \in DOMAIN ops}
  ELSE {FALSE}
ExecuteBatch(o) ==
  /\ o.type = "batch_execute"
  /\ IF graph = <<>> THEN Reply("failed") /\ SameDb /\ SameSession
     ELSE LET r == FoldLeft(AfterLink, [ok |-> TRUE, pool |-> pool], graph[1]) IN
          \E alone \in AloneAtEnd(graph[1]) :
            IF r.ok /\ ~alone THEN /\ pool' = r.pool
                                   /\ graph' = <<>>
                                   /\ Reply("ok")
                                   /\ SameDb /\ UNCHANGED <<client, leaving, generation>>
            ELSE Abort

(* a query outside a batch: db_select, db_reselect, db_fetch, db_aggregate *)
(* and db_combine.  Its handle may be one of its inputs: that variable is  *)
(* freed before it is read.  Without a handle only combine stores, under "" *)
(* (a compiler may leave out the reading that NullRead is about).          *)
Query(o) ==
  /\ o.type \in QueryTypes /\ graph = <<>>
  /\ \/ NullRead(pool, o) /\ Abort
     \/ IF ~Available(pool, o) THEN Reply("failed") /\ SameDb /\ SameSession
        ELSE IF o.handle = <<>> /\ o.type # "combine" THEN Reply("ok") /\ SameDb /\ SameSession
        ELSE LET name == IF o.handle = <<>> THEN "" ELSE o.handle[1]
                 good == <<name>> \notin Inputs(o) /\ \A id \in Inputs(o) : IsGood(pool, id)
                 var == IF good THEN Computed(pool, o) ELSE Spoilt(TypeOf(o)) IN
             IF good /\ ~SizesMatch(pool, o) THEN Abort
             ELSE /\ pool' = Stored(pool, name, [var EXCEPT !.col = (o.type = "fetch")])
                  /\ Reply("ok")
                  /\ SameDb /\ UNCHANGED <<client, leaving, graph, generation>>

(* db_join replaces both results before it looks at its inputs.  The pairs *)
(* are those of nested_loop_join, the smaller side outside.                *)
JoinPairs(fs, ss) ==
  LET outer == IF Len(ss[1].data) > Len(ss[2].data) THEN 2 ELSE 1
      inner == 3 - outer
      all == FoldLeft(LAMBDA acc, i : acc \o
               SelectSeq([j \in DOMAIN ss[inner].data |-> <<i, j>>],
                         LAMBDA ij : fs[outer].data[ij[1]] = fs[inner].data[ij[2]]),
               <<>>, [i \in DOMAIN ss[outer].data |-> i])
  IN [side \in {1, 2} |-> [k \in DOMAIN all |->
        ss[side].data[IF side = outer THEN all[k][1] ELSE all[k][2]]]]
Join(o) ==
  /\ o.type = "join" /\ graph = <<>>
  /\ IF Len(o.handle) # 2 THEN Reply("failed") /\ SameDb /\ SameSession
     ELSE LET empty == Var("select", <<>>, NoSrc)
              p == Stored(Stored(pool, o.handle[1], empty), o.handle[2], empty)
              fs == [k \in {1, 2} |-> p[o.fetches[k][1]]]
              ss == [k \in {1, 2} |-> p[o.sels[k][1]]] IN
          IF \E k \in {1, 2} : ~HasVar(p, o.fetches[k], "fetch") \/ ~HasVar(p, o.sels[k], "select")
          THEN pool' = p /\ Reply("failed") /\ SameDb /\ UNCHANGED <<client, leaving, graph, generation>>
          ELSE LET good == /\ o.handle[1] # o.handle[2]
                           /\ \A k \in {1, 2} : /\ fs[k].ok /\ ss[k].ok
                                                 /\ Len(fs[k].data) >= Len(ss[k].data)
                   var(k) == IF good THEN Var("select", JoinPairs(fs, ss)[k], NoSrc) ELSE Spoilt("select")
               IN /\ pool' = Stored(Stored(p, o.handle[1], var(1)), o.handle[2], var(2))
                  /\ Reply("ok")
                  /\ SameDb /\ UNCHANGED <<client, leaving, graph, generation>>

PrintVariables(o) ==
  /\ o.type = "print" /\ graph = <<>>
  /\ Reply(IF \A i \in DOMAIN o.params : Len(o.params[i]) = 1 /\ o.params[i][1] \in DOMAIN pool
           THEN "ok" ELSE "failed")
  /\ SameDb /\ SameSession
Info(o) == o.type = "info" /\ graph = <<>> /\ Reply("ok") /\ SameDb /\ SameSession

(* since_var is not written when there are two arguments: no name, one     *)
(* that nobody has, or that of some variable.                              *)
SinceVars(o) == IF Len(o.since) < 2 THEN {o.since}
                ELSE {<<>>, << <<>> >>} \cup {<< <<n>> >> : n \in DOMAIN pool}
Time(o) ==
  /\ o.type = "time" /\ graph = <<>>
  /\ \E since \in SinceVars(o) :
       IF o.handle # <<>> /\ \E i \in DOMAIN since : ~HasVar(pool, since[i], "time")
       THEN Reply("failed") /\ SameDb /\ SameSession
       ELSE /\ pool' = IF o.handle = <<>> THEN pool
                        ELSE Stored(pool, o.handle[1],
                                    IF \E i \in DOMAIN since : since[i] = o.handle
                                    THEN Spoilt("time") ELSE Var("time", <<>>, NoSrc))
            /\ Reply("ok")
            /\ SameDb /\ UNCHANGED <<client, leaving, graph, generation>>

(* The statements of Catalog; a load that arrives as a query aborts.  What *)
(* goes through the database that is not there any more may find nothing   *)
(* or end the server; the other statements find that it has another name.  *)
Create(o) ==
  /\ graph = <<>>
  /\ \/ o.type = "create_db" /\ CreateDb(o)
     \/ o.type = "create_tbl" /\ CreateTable(o)
     \/ o.type = "create_col" /\ CreateColumn(o)
     \/ o.type = "create_idx" /\ CreateIndex(o)
  /\ generation' = IF o.type = "create_db" THEN generation + 1 ELSE generation
  /\ issued' = issued + 1
  /\ UNCHANGED <<client, leaving, pool, graph>>
InsertRow(o) ==
  /\ o.type = "insert" /\ graph = <<>>
  /\ TableExists(o.tbl) => \A c \in ColumnNames(o.tbl[2]) : Len(db.tables[o.tbl[2]].data[c]) < MaxRows
  /\ \/ Insert(o) /\ issued' = issued + 1 /\ SameSession
     \/ Overruns(o) /\ Abort
FreedDb(o) == o.type \in {"create_db", "info", "shutdown"} /\ graph = <<>> /\ db = Dangling /\ Abort
LoadQuery(o) == o.type = "load" /\ graph = <<>> /\ Abort
Shutdown(o) ==
  /\ o.type = "shutdown" /\ graph = <<>>
  /\ BeginSave(o)
  /\ leaving' = TRUE
  /\ issued' = issued + 1
  /\ UNCHANGED <<client, pool, graph, generation>>

(* A file of rows comes in without a statement; a column that does not     *)
(* exist fails an assertion.  Its generation is new.                       *)
Transfer ==
  /\ server = "up" /\ client = "connected" /\ issued < MaxStatements
  /\ \E f \in Files :
       IF \A i \in DOMAIN f.header : ColumnExists(<<f.tbl[1], f.tbl[2], f.header[i]>>)
       THEN /\ Load(f.tbl[2], f.header, f.rows)
            /\ generation' = generation + 1
            /\ issued' = issued + 1
            /\ UNCHANGED <<client, leaving, pool, graph>>
       ELSE Abort

Statement ==
  /\ server = "up" /\ client = "connected" /\ issued < MaxStatements
  /\ \E q \in Queries :
       LET o == Parse(q) IN
       \/ Malformed(o) \/ RefusedInBatch(o) \/ Push(o) \/ BatchQuery(o) \/ ExecuteBatch(o)
       \/ Query(o) \/ Join(o) \/ PrintVariables(o) \/ Info(o) \/ Time(o)
       \/ Create(o) \/ InsertRow(o) \/ FreedDb(o) \/ LoadQuery(o) \/ Shutdown(o)

Saving == (RemoveFile \/ WriteFile \/ EndSave) /\ UNCHANGED sessionVars

Connect ==
  /\ server = "up" /\ client = "none"
  /\ client' = "connected"
  /\ SameDb /\ UNCHANGED <<status, leaving, pool, graph, generation, issued>>

(* delete_client_context; the server exits when the flag is set *)
Disconnect ==
  /\ server = "up" /\ client = "connected"
  /\ IF leaving THEN Killed ELSE SameDb /\ UNCHANGED status
  /\ Reset
  /\ UNCHANGED issued
Crash == server # "down" /\ issued < MaxStatements /\ Killed /\ Reset /\ issued' = issued + 1
Start == Startup /\ UNCHANGED sessionVars

SessionNext == Statement \/ Transfer \/ Saving \/ Connect \/ Disconnect \/ Crash \/ Start
SessionSpec == SessionInit /\ [][SessionNext]_allVars

-----------------------------------------------------------------------------
(* The variables and the database are what their names say.                *)
SessionOK ==
  /\ server \in {"down", "up", "saving"} /\ client \in {"none", "connected"}
  /\ \A n \in DOMAIN pool : pool[n].type \in {"select", "fetch", "aggregate", "time"}
  /\ \A t \in TableNames : /\ ToSet(db.tables[t].order) = ColumnNames(t)
                            /\ Len(db.tables[t].order) <= db.tables[t].count
                            /\ \A c \in ColumnNames(t) : Len(db.tables[t].data[c]) <= MaxRows

(* Selections stay right: positions and fetched values stay what they say  *)
(* of their column until it is loaded again, whatever was inserted since   *)
(* and whatever names were reused (db_select, db_fetch, create_variable).  *)
StillThere(src) == src.gen = generation /\ ColumnExists(src.col)
SelectionsStayRight ==
  /\ SessionOK
  /\ \A n \in DOMAIN pool : LET v == pool[n] IN
       (v.ok /\ v.src # NoSrc /\ StillThere(v.src)) =>
         IF v.src.kind = "select"
         THEN v.data = Positions(SubSeq(ColumnData(v.src.col), 1, v.src.size), v.src.low, v.src.high)
         ELSE v.data = [i \in DOMAIN v.src.at |-> ColumnData(v.src.col)[v.src.at[i] + 1]]

(* Rows stay together: a statement that leaves a table its columns leaves  *)
(* them equally long if they were (db_insert's count, a file's header).    *)
Aligned(tables, t) == \A c, d \in DOMAIN tables[t].data : Len(tables[t].data[c]) = Len(tables[t].data[d])
RowsTogether ==
  [][\A t \in TableNames \cap DOMAIN db'.tables :
       (DOMAIN db'.tables[t].data = ColumnNames(t) /\ Aligned(db.tables, t)) => Aligned(db'.tables, t)]_db

(* Two statements change something before they check: create_db deletes    *)
(* the database and then refuses a long name, with current_db left as it   *)
(* was, and join empties its two results and then looks at its inputs.     *)
(* Whatever else reports an error (the ERROR returns) has changed nothing, *)
(* neither the database nor the files nor a variable nor the batch, and    *)
(* these two have changed nothing else.                                    *)
DbLost(o) == o.type = "create_db" /\ o.name \in TooLong /\ db # NoDb /\ db' = Dangling /\ UNCHANGED pool
ResultsEmptied(o) ==
  /\ o.type = "join" /\ Len(o.handle) = 2 /\ UNCHANGED db
  /\ pool' = Stored(Stored(pool, o.handle[1], Var("select", <<>>, NoSrc)), o.handle[2], Var("select", <<>>, NoSrc))
FailedChangesAreKnown ==
  [][(issued' # issued /\ status' = "failed") =>
       /\ UNCHANGED <<catalog, files, graph>>
       /\ \/ UNCHANGED <<db, pool>>
          \/ \E q \in Queries : DbLost(Parse(q)) \/ ResultsEmptied(Parse(q))]_allVars
=============================================================================
