------------------------------- MODULE MCM61 -------------------------------
EXTENDS M61

MCMallocs == {<<0, 10>>, <<2, 10>>, <<62, 11>>}
MCCallocs == {<<1, 2, 20>>, <<2, 0, 20>>, <<13, 5, 20>>, <<7, 11, 20>>}
MCReallocs == {<<0, 30>>, <<1, 30>>, <<3, 30>>}
=============================================================================
