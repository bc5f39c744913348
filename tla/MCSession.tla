----------------------------- MODULE MCSession -----------------------------
EXTENDS Session

MCSlotOrder == <<"b", "t", "a">>
MCTooLong == {"long"}
MCNumeral == ("1" :> 1) @@ ("2" :> 2)

Q(h, v, a) == [handle |-> h, verb |-> v, closed |-> TRUE, args |-> a]
ColA == <<"d", "t", "a">>
ColB == <<"d", "t", "b">>
Tbl == <<"d", "t">>
N1 == <<"1">>
N2 == <<"2">>
Null == <<"null">>
X == <<"x">>
Y == <<"y">>

MCQueries ==
  {Q(<<>>, "create", <<<<"db">>, <<"d">>>>),
   Q(<<>>, "create", <<<<"db">>, <<"long">>>>),
   Q(<<>>, "create", <<<<"tbl">>, <<"long">>, <<"d">>, N2>>),
   Q(<<>>, "create", <<<<"tbl">>, <<"t">>, <<"d">>, N2>>),
   Q(<<>>, "create", <<<<"col">>, <<"a">>, Tbl>>),
   Q(<<>>, "create", <<<<"col">>, <<"b">>, Tbl>>),
   Q(<<>>, "relational_insert", <<Tbl, N1>>),
   Q(<<>>, "relational_insert", <<Tbl, N2, N1>>),
   Q(<<>>, "relational_insert", <<Tbl, N1, N2>>),
   Q(X, "select", <<ColA, N1, N2>>), Q(<<"m">>, "select", <<ColB, N2, Null>>),
   Q(Y, "fetch", <<ColB, X>>), Q(X, "fetch", <<ColA, X>>),
   Q(Y, "select", <<X, Y, N2, Null>>),
   Q(X, "add", <<Y, ColA>>), Q(Y, "max", <<Y>>), Q(<<"m">>, "avg", <<ColA>>),
   Q(<<>>, "select", <<ColA, N1, N2>>), Q(X, "join", <<Y, X, Y, X, <<"hash">>>>),
   Q(<<"x", "z">>, "join", <<Y, X, Y, X, <<"hash">>>>),
   Q(<<>>, "create", <<<<"idx">>, ColA, <<"btree">>, <<"clustered">>>>),
   Q(<<>>, "print", <<X, Y>>), Q(<<>>, "info", <<>>), Q(Y, "time", <<X>>), Q(X, "time", <<X, Y>>),
   Q(<<>>, "load", <<<<"f">>>>), Q(<<>>, "select", <<ColA, X>>), Q(<<>>, "--", <<>>),
   Q(<<>>, "batch_queries", <<>>), Q(<<>>, "batch_execute", <<>>),
   Q(<<>>, "shutdown", <<>>)}
MCDisks ==
  {[catalog |-> Missing, files |-> <<>>],
   [catalog |-> [kind |-> "text", name |-> "d", tables |-> <<[name |-> "t", columns |-> <<"b", "a">>]>>],
    files |-> (ColA :> <<1, 2>>) @@ (ColB :> <<2, 2>>)]}
MCFiles == {[tbl |-> Tbl, header |-> <<"b", "a">>, rows |-> <<<<1, 2>>, <<2, 1>>>>]}
=============================================================================
