------------------------------- MODULE Parser -------------------------------
(***************************************************************************)
(* parse.c and parse_utils.c: from a line of the client to an operator.    *)
(* A query is what is left once blanks and quotes are trimmed and the line *)
(* is cut at its separators:                                               *)
(*                                                                         *)
(*   handle   what stands before `=`, cut at commas, <<>> without one      *)
(*   verb     the word before `(`, or "--" for a comment                   *)
(*   closed   whether the arguments stand between parentheses              *)
(*   args     the arguments, each cut at its dots: <<"x">> is the name x   *)
(*            or a number, <<"d", "t", "a">> the column d.t.a              *)
(*                                                                         *)
(* Names fit their fields, or they are refused with the other errors.  The *)
(* names of a new database and a new table are copied unchecked (lines 121 *)
(* and 142), and Catalog refuses them; those of a join fit.                *)
(***************************************************************************)
EXTENDS Integers, Sequences, TLC

CONSTANT Numeral  \* the strings strtol accepts, and the number each stands for

ASSUME NumeralIsInt == \A s \in DOMAIN Numeral : Numeral[s] \in Int

Bad == [type |-> "bad"]      \* NULL with a failed status
NoOp == [type |-> "none"]    \* NULL with an ok status

(* parse_int, and a bound that is an int or `null` *)
IsInt(token) == Len(token) = 1 /\ token[1] \in DOMAIN Numeral
IntOf(token) == Numeral[token[1]]
IsBound(token) == IsInt(token) \/ token = <<"null">>
Bound(token) == IF IsInt(token) THEN <<IntOf(token)>> ELSE <<>>

Op(q, type, fields) == [type |-> type, handle |-> q.handle] @@ fields

ParseSelect(q) ==
  LET a == q.args IN
  CASE Len(a) = 3 /\ IsBound(a[2]) /\ IsBound(a[3]) ->
         Op(q, "select", [col |-> a[1], low |-> Bound(a[2]), high |-> Bound(a[3])])
    [] Len(a) = 4 /\ IsBound(a[3]) /\ IsBound(a[4]) ->
         Op(q, "reselect", [sel |-> a[1], data |-> a[2], low |-> Bound(a[3]), high |-> Bound(a[4])])
    [] OTHER -> Bad

ParseCreate(q) ==
  LET a == q.args
      n == Len(a) IN
  CASE n = 0 -> Bad
    [] a[1] = <<"db">> /\ n = 2 -> Op(q, "create_db", [name |-> a[2][1]])
    [] a[1] = <<"tbl">> /\ n = 4 /\ IsInt(a[4]) ->
         Op(q, "create_tbl", [name |-> a[2][1], db |-> a[3][1], count |-> IntOf(a[4])])
    [] a[1] = <<"col">> /\ n = 3 -> Op(q, "create_col", [name |-> a[2][1], tbl |-> a[3]])
    [] /\ a[1] = <<"idx">> /\ n = 4
       /\ a[3][1] \in {"btree", "sorted"} /\ a[4][1] \in {"clustered", "unclustered"} ->
         Op(q, "create_idx", [col |-> a[2]])
    [] OTHER -> Bad

ParseInsert(q) ==
  LET values == Tail(q.args) IN
  IF Len(q.args) < 2 \/ \E i \in DOMAIN values : ~IsInt(values[i]) THEN Bad
  ELSE Op(q, "insert", [tbl |-> q.args[1], values |-> [i \in DOMAIN values |-> IntOf(values[i])]])

ParseJoin(q) ==
  LET a == q.args IN
  IF Len(a) # 5 THEN Bad
  ELSE IF a[5][1] \notin {"hash", "nested-loop", "grace-hash"} THEN Bad
  ELSE Op(q, "join", [fetches |-> <<a[1], a[3]>>, sels |-> <<a[2], a[4]>>])

(* Two arguments are taken, and neither is copied. *)
ParseTime(q) == IF Len(q.args) > 2 THEN Bad ELSE Op(q, "time", [since |-> q.args])

(* the verbs that take a fixed number of arguments and nothing else *)
ParseFetch(q) == IF Len(q.args) # 2 THEN Bad ELSE Op(q, "fetch", [col |-> q.args[1], sel |-> q.args[2]])
ParseAggregate(q) ==
  IF Len(q.args) # 1 THEN Bad ELSE Op(q, "aggregate", [fun |-> q.verb, data |-> q.args[1]])
ParseCombine(q) ==
  IF Len(q.args) # 2 THEN Bad
  ELSE Op(q, "combine", [fun |-> q.verb, first |-> q.args[1], second |-> q.args[2]])

Parse(q) ==
  CASE q.verb = "--" -> NoOp
    [] q.verb \in {"shutdown", "info", "batch_queries", "batch_execute"} -> Op(q, q.verb, <<>>)
    [] q.verb \notin {"shutdown", "info", "batch_queries", "batch_execute", "--"} /\ ~q.closed -> Bad
    [] q.closed /\ q.verb = "create" -> ParseCreate(q)
    [] q.closed /\ q.verb = "load" -> IF Len(q.args) = 1 THEN Op(q, "load", <<>>) ELSE Bad
    [] q.closed /\ q.verb = "select" -> ParseSelect(q)
    [] q.closed /\ q.verb = "fetch" -> ParseFetch(q)
    [] q.closed /\ q.verb = "print" -> Op(q, "print", [params |-> q.args])
    [] q.closed /\ q.verb = "time" -> ParseTime(q)
    [] q.closed /\ q.verb = "join" -> ParseJoin(q)
    [] q.closed /\ q.verb \in {"avg", "min", "max", "sum"} -> ParseAggregate(q)
    [] q.closed /\ q.verb \in {"add", "sub"} -> ParseCombine(q)
    [] q.closed /\ q.verb = "relational_insert" -> ParseInsert(q)
    [] OTHER -> Bad
=============================================================================
