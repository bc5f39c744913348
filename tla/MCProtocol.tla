----------------------------- MODULE MCProtocol -----------------------------
EXTENDS Protocol, TLC

MCText == (0 :> <<"0">>) @@ (1 :> <<"1">>) @@ (12 :> <<"1", "2">>) @@ (-2 :> <<"-", "2">>) @@ (3 :> <<" ", "3">>)
MCDigit == ("0" :> 0) @@ ("1" :> 1) @@ ("2" :> 2) @@ ("3" :> 3)

Query(n) == [kind |-> "query", reply |-> n, fatal |-> FALSE]
Fatal(n) == [kind |-> "query", reply |-> n, fatal |-> TRUE]
Shutdown == [kind |-> "shutdown", reply |-> 1, fatal |-> FALSE]
LoadOf(r) == [kind |-> "load", file |-> FileOf(r), rows |-> r]
AlienLoad == [kind |-> "load", file |-> <<"alien", "nl", "1">>, rows |-> <<>>]
Rows == <<<<12, -2>>, <<3, 0>>>>

MCScripts ==
  {[c1 |-> a, c2 |-> b] : <<a, b>> \in
    {<<<<LoadOf(Rows), Query(3)>>, <<Query(5), Shutdown>>>>,
     <<<<Query(1), LoadOf(<<<<-2, 1>>>>), LoadOf(Rows), Query(1)>>, <<Shutdown>>>>,
     <<<<Query(3), LoadOf(Rows)>>, <<Query(1)>>>>,
     <<<<[kind |-> "emptyload"], Query(1)>>, <<Query(3)>>>>,
     <<<<Query(3), [kind |-> "badload"]>>, <<>>>>,
     <<<<Query(4), Query(1)>>, <<Query(2)>>>>,
     <<<<Query(1), Fatal(3), Query(1)>>, <<Query(3), LoadOf(Rows)>>>>,
     <<<<LoadOf(Rows), AlienLoad, Query(1)>>, <<Fatal(1), Shutdown>>>>}}
=============================================================================
