------------------------------- MODULE MCBatch -------------------------------
EXTENDS Batch, TLC

Op(t, ins, o) == [type |-> t, in |-> ins, out |-> o]

(* Selects on two columns given alternately, then what depends on them;    *)
(* "o" is a selection from before the batch, the last print has no handle. *)
Alternating ==
  <<Op("select", <<"c1">>, "a"), Op("select", <<"c2">>, "b"), Op("select", <<"c1">>, "c"),
    Op("fetch", <<"c2", "a">>, "f"), Op("fetch", <<"c1", "b">>, "g"),
    Op("combine", <<"f", "g">>, "h"), Op("fetch", <<"c1", "o">>, "k"),
    Op("aggregate", <<"k">>, "NoVar")>>
(* Depths out of order: a late select, an early reselect. *)
Deep ==
  <<Op("select", <<"c1">>, "a"), Op("fetch", <<"c1", "a">>, "f"), Op("reselect", <<"f", "a">>, "r"),
    Op("aggregate", <<"f">>, "m"), Op("select", <<"c2">>, "b"), Op("fetch", <<"c2", "r">>, "g"),
    Op("combine", <<"c1", "f">>, "h")>>
(* Nothing but selects on one column. *)
OneColumn == <<Op("select", <<"c1">>, "a"), Op("select", <<"c1">>, "b"), Op("select", <<"c1">>, "c")>>
Single == <<Op("select", <<"c2">>, "a")>>

(* Every batch of N operators, the k-th creating the k-th name.            *)
Name == <<"v1", "v2", "v3", "v4">>
Made(P, types) == {P[k].out : k \in {m \in DOMAIN P : P[m].type \in types}}
NextOp(P) ==
  LET o == Name[Len(P) + 1]
      sels == Made(P, {"select", "reselect"})
      fetched == Made(P, {"fetch", "combine"})
  IN  {Op("select", <<c>>, o) : c \in Columns}
      \cup {Op("fetch", <<c, x>>, o) : c \in Columns, x \in sels}
      \cup {Op("reselect", <<f, x>>, o) : f \in fetched, x \in sels}
      \cup {Op("combine", <<f, g>>, o) : f \in fetched, g \in fetched \cup {"c1"}}
      \cup {Op("aggregate", <<f>>, o) : f \in fetched \cup {"c2"}}
AllOf[n \in 0 .. 4] ==
  IF n = 0 THEN {<<>>} ELSE UNION {{Append(P, x) : x \in NextOp(P)} : P \in AllOf[n - 1]}
(* The finding about two columns at the end of the graph left aside.       *)
MixedEnd(P) == /\ \A k \in DOMAIN P : P[k].type = "select"
               /\ \E k \in DOMAIN P : P[k].in # P[1].in
Safe == {P \in AllOf[4] : ~MixedEnd(P)} \cup {Alternating, Deep, OneColumn, Single}
=============================================================================
