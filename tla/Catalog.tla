------------------------------ MODULE Catalog ------------------------------
(***************************************************************************)
(* db_manager.c, db_types.c and client_context.c: the database of the      *)
(* server, the statements that change it, and its way to disk and back.    *)
(*                                                                         *)
(* The server is one thread that serves one client at a time, so a         *)
(* statement is one step; shutdown, which writes file after file and may   *)
(* be interrupted by the end of the process, is one step per file          *)
(* operation.  The tables of names are hash tables that shutdown walks in  *)
(* slot order: SlotOrder lists the names by slot (HashTables has the       *)
(* tables themselves).                                                     *)
(***************************************************************************)
EXTENDS Integers, Sequences, FiniteSets, SequencesExt, FiniteSetsExt

CONSTANTS SlotOrder,   \* every table and column name, by the slot it hashes to
          TooLong,     \* names of more than MAX_SIZE_NAME characters
          Room,        \* how many values the smallest block of memory has room for
          MaxRows      \* bound on the length of a column

Names == ToSet(SlotOrder)
ASSUME CatalogAssumption ==
  /\ MaxRows \in Nat /\ SlotOrder \in Seq(Names) /\ Names \cap TooLong = {}
  /\ \A j, k \in DOMAIN SlotOrder : SlotOrder[j] = SlotOrder[k] => j = k

NoDb == [name |-> "", tables |-> <<>>]
Dangling == [name |-> "(freed)", tables |-> <<>>]   \* current_db points to memory that was freed
Missing == [kind |-> "missing"]   \* no catalog file
Empty == [kind |-> "empty"]       \* a catalog file without a byte

VARIABLES server,   \* "down", "up" or "saving"
          db,       \* current_db
          catalog,  \* the catalog file
          files,    \* the column files: <<db, table, column>> -> values
          todo,     \* the columns shutdown has still to write
          status    \* how the last statement ended: "ok", "failed", or "killed" with the server

dbVars == <<db, catalog, files, todo, server>>

TableNames == DOMAIN db.tables
ColumnNames(t) == DOMAIN db.tables[t].data
Slot(name) == CHOOSE i \in DOMAIN SlotOrder : SlotOrder[i] = name
InSlotOrder(names) ==
  [i \in 1..Cardinality(names) |->
     CHOOSE n \in names : Cardinality({m \in names : Slot(m) <= Slot(n)}) = i]

(* lookup_db, lookup_tbl_id, lookup_col_id: a name is looked up by its parts *)
DbExists(name) == db # NoDb /\ db.name = name
TableExists(id) == Len(id) = 2 /\ DbExists(id[1]) /\ id[2] \in TableNames
ColumnExists(id) == Len(id) = 3 /\ TableExists(<<id[1], id[2]>>) /\ id[3] \in ColumnNames(id[2])
ColumnData(id) == db.tables[id[2]].data[id[3]]

(* A statement checks its arguments and then changes the database, or      *)
(* reports an error.                                                       *)
Change(accepted, new) ==
  /\ status' = IF accepted THEN "ok" ELSE "failed"
  /\ db' = IF accepted THEN new ELSE db
  /\ UNCHANGED <<catalog, files, todo, server>>

WithTable(t, table) == [db EXCEPT !.tables = [u \in TableNames \cup {t} |->
                                                IF u = t THEN table ELSE db.tables[u]]]

(* The database there is goes first, then the new name may be refused. *)
CreateDb(o) ==
  /\ status' = IF o.name \in TooLong THEN "failed" ELSE "ok"
  /\ db' = IF o.name \notin TooLong THEN [name |-> o.name, tables |-> <<>>]
           ELSE IF db = NoDb THEN NoDb ELSE Dangling
  /\ UNCHANGED <<catalog, files, todo, server>>

(* bare: the columns whose vector has no capacity *)
NewTable(count) == [count |-> count, order |-> <<>>, data |-> <<>>, bare |-> {}]
\* mutant: the table is put before the name is looked up
CreateTable_First(o) ==
  /\ status' = IF o.name \notin TooLong /\ DbExists(o.db) /\ o.name \notin TableNames
               THEN "ok" ELSE "failed"
  /\ db' = IF o.name \notin TooLong /\ DbExists(o.db) THEN WithTable(o.name, NewTable(o.count)) ELSE db
  /\ UNCHANGED <<catalog, files, todo, server>>
CreateTable(o) ==
  Change(o.name \notin TooLong /\ DbExists(o.db) /\ o.name \notin TableNames,
         WithTable(o.name, NewTable(o.count)))

WithColumn(table, c) ==
  [table EXCEPT !.order = Append(@, c),
                !.data = [d \in DOMAIN table.data \cup {c} |-> IF d = c THEN <<>> ELSE table.data[d]]]
CreateColumn(o) ==
  Change(/\ o.name \notin TooLong
         /\ TableExists(o.tbl)
         /\ o.name \notin ColumnNames(o.tbl[2])
         /\ Cardinality(ColumnNames(o.tbl[2])) # db.tables[o.tbl[2]].count,
         WithTable(o.tbl[2], WithColumn(db.tables[o.tbl[2]], o.name)))

(* create(idx, ...) looks the column up; making the index is commented out *)
CreateIndex(o) == Change(ColumnExists(o.col), db)

(* The i-th value goes to the i-th ordered column.  push_vec_int does not  *)
(* grow a vector without capacity and writes behind it.                    *)
Inserted(table, values) ==
  [table EXCEPT !.data = [c \in DOMAIN table.data |->
     LET mine == {i \in DOMAIN values : table.order[i] = c}
     IN IF mine = {} THEN table.data[c] ELSE Append(table.data[c], values[CHOOSE i \in mine : TRUE])]]
\* mutant: fewer values than columns are taken
Insert_Short(o) ==
  Change(TableExists(o.tbl) /\ Len(o.values) <= Cardinality(ColumnNames(o.tbl[2])),
         WithTable(o.tbl[2], Inserted(db.tables[o.tbl[2]], o.values)))
Taken(o) == TableExists(o.tbl) /\ Len(o.values) = Cardinality(ColumnNames(o.tbl[2]))
Insert(o) == Change(Taken(o), WithTable(o.tbl[2], Inserted(db.tables[o.tbl[2]], o.values)))
Overruns(o) == Taken(o) /\ \E c \in db.tables[o.tbl[2]].bare : Len(db.tables[o.tbl[2]].data[c]) >= Room

(* A transferred file names columns in its header and replaces what they   *)
(* hold; Protocol has the reading of the file itself.                          *)
Loaded(table, header, rows) ==
  [table EXCEPT !.bare = @ \ ToSet(header),
                !.data = [c \in DOMAIN table.data |->
     LET mine == {i \in DOMAIN header : header[i] = c}
     IN IF mine = {} THEN table.data[c]
        ELSE [r \in DOMAIN rows |-> rows[r][CHOOSE i \in mine : TRUE]]]]
Load(t, header, rows) ==
  /\ status' = "ok"
  /\ db' = WithTable(t, Loaded(db.tables[t], header, rows))
  /\ UNCHANGED <<catalog, files, todo, server>>

-----------------------------------------------------------------------------
(* shutdown truncates the catalog, writes one file per column, and writes  *)
(* the catalog when it closes the file                                     *)
CatalogText == IF db = NoDb THEN Empty
               ELSE IF db = Dangling THEN [kind |-> "text", name |-> "?", tables |-> <<>>]
               ELSE [kind |-> "text", name |-> db.name,
                     tables |-> [i \in DOMAIN InSlotOrder(TableNames) |->
                       LET t == InSlotOrder(TableNames)[i]
                       IN [name |-> t, columns |-> InSlotOrder(ColumnNames(t))]]]
Unwritten == UNION {{<<db.name, t, c>> : c \in ColumnNames(t)} : t \in TableNames}
\* mutant: the catalog is written before the columns it names
BeginSave_TextFirst(o) ==
  /\ server' = "saving"
  /\ catalog' = CatalogText
  /\ todo' = Unwritten
  /\ status' = "ok"
  /\ UNCHANGED <<db, files>>
BeginSave(o) ==
  /\ server' = "saving"
  /\ catalog' = Empty
  /\ todo' = Unwritten
  /\ status' = "ok"
  /\ UNCHANGED <<db, files>>

Rank(id) == <<Slot(id[2]), Slot(id[3])>>
NextColumn == CHOOSE id \in todo : \A other \in todo :
                LET r == Rank(id)
                    q == Rank(other)
                IN r[1] < q[1] \/ (r[1] = q[1] /\ r[2] <= q[2])

RemoveFile ==
  /\ server = "saving" /\ todo # {} /\ NextColumn \in DOMAIN files
  /\ files' = [id \in DOMAIN files \ {NextColumn} |-> files[id]]
  /\ UNCHANGED <<server, db, catalog, todo, status>>
WriteFile ==
  /\ server = "saving" /\ todo # {} /\ NextColumn \notin DOMAIN files
  /\ files' = [id \in DOMAIN files \cup {NextColumn} |->
                 IF id = NextColumn THEN ColumnData(id) ELSE files[id]]
  /\ todo' = todo \ {NextColumn}
  /\ UNCHANGED <<server, db, catalog, status>>
EndSave ==
  /\ server = "saving" /\ todo = {}
  /\ server' = "up"
  /\ catalog' = CatalogText
  /\ UNCHANGED <<db, files, todo, status>>

(* What startup_db makes of one table of the catalog: the columns are in   *)
(* the order the text has them, and there are as many as may ever be.  A   *)
(* column is given half as much room again as its file has values, so that *)
(* the file of an empty one leaves it no capacity.                         *)
Restored(text, i) ==
  LET table == text.tables[i]
      id(c) == <<text.name, table.name, c>> IN
  [count |-> Len(table.columns),
   order |-> table.columns,
   data |-> [c \in ToSet(table.columns) |->
               IF id(c) \in DOMAIN files THEN files[id(c)] ELSE <<>>],
   bare |-> {c \in ToSet(table.columns) : id(c) \in DOMAIN files /\ files[id(c)] = <<>>}]

(* An empty catalog is parsed from memory nothing was written to: it ends  *)
(* at once or names a database nobody created.  A table without columns    *)
(* is one token where two are expected, and the server does not start.     *)
Startup ==
  /\ server = "down"
  /\ server' = "up"
  /\ CASE catalog.kind = "missing" -> db' = NoDb
       [] catalog.kind = "empty" -> db' \in {NoDb, [name |-> "?", tables |-> <<>>]}
       [] catalog.kind = "text" ->
            /\ \A i \in DOMAIN catalog.tables : catalog.tables[i].columns # <<>>
            /\ db' = [name |-> catalog.name,
                      tables |-> [t \in {catalog.tables[i].name : i \in DOMAIN catalog.tables} |->
                        Restored(catalog, CHOOSE i \in DOMAIN catalog.tables : catalog.tables[i].name = t)]]
  /\ status' = "ok"
  /\ UNCHANGED <<catalog, files, todo>>

(* the process ends: memory is gone, the files stay as they are *)
Killed ==
  /\ server' = "down"
  /\ db' = NoDb
  /\ todo' = {}
  /\ status' = "killed"
  /\ UNCHANGED <<catalog, files>>

-----------------------------------------------------------------------------
(* what a database holds, and what the files hold for the next startup *)
Contents(d) == [t \in DOMAIN d.tables |-> d.tables[t].data]
OnDisk == IF catalog.kind # "text" THEN <<>>
          ELSE [t \in {catalog.tables[i].name : i \in DOMAIN catalog.tables} |->
            LET i == CHOOSE j \in DOMAIN catalog.tables : catalog.tables[j].name = t
            IN [c \in ToSet(catalog.tables[i].columns) |->
                  IF <<catalog.name, t, c>> \in DOMAIN files THEN files[<<catalog.name, t, c>>] ELSE <<>>]]

(* Refinement: whatever the statements, and wherever the process ends, a   *)
(* server starts with what the last completed shutdown saved, or with      *)
(* nothing after one that did not end.                                     *)
Store == INSTANCE DurableStore WITH Nothing <- <<>>, running <- server # "down",
                                    content <- Contents(db), saved <- OnDisk
ImplementsStore == Store!StoreSpec
=============================================================================
