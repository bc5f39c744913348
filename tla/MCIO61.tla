-------------------------------- MODULE MCIO61 --------------------------------
(* Blocks of two bytes, three in a file: calls that fill none or one of them and touch up to three. *)
EXTENDS IO61

Files == {<<>>, <<1, 2, 2, 1, 1>>}
Calls == {1, 3}
Places == {0, 3, 4}
=============================================================================
