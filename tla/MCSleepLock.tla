---------------------------- MODULE MCSleepLock ----------------------------
(* Two processes on two harts contend for one sleep lock. *)
EXTENDS SleepLock, TLC

CONSTANTS c1, c2, l1, l2

MCHarts == {c1, c2}
MCLocks == {l1}
MCTwoLocks == {l1, l2}
Symmetry == Permutations(MCHarts)
=============================================================================
