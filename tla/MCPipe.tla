------------------------------- MODULE MCPipe -------------------------------
(* Three processes, a pipe of two bytes, counters that wrap at four. *)
EXTENDS Pipe, TLC

CONSTANTS p1, p2, p3, b1, b2

MCProcs == {p1, p2, p3}
MCBytes == {b1, b2}
Symmetry == Permutations(MCProcs) \cup Permutations(MCBytes)
=============================================================================
