------------------------------ MODULE MCPaging ------------------------------
EXTENDS Paging

CONSTANTS p1, p2, b1, b2, v1

MCProcs == {p1, p2}
MCOne   == {p1}
MCBlks  == {b1, b2}
MCVals  == {v1}
=============================================================================
