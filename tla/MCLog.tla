------------------------------- MODULE MCLog -------------------------------
(***************************************************************************)
(* The log with two processes that write three blocks, and crashes; and    *)
(* with three processes that write one value, and no crash, so that one    *)
(* sleeps in begin_op() while two calls are outstanding.                   *)
(***************************************************************************)
EXTENDS Log

CONSTANTS p1, p2, p3, b1, b2, b3, v1, v2

MCProcs == {p1, p2, p3}
MCBlocks == {b1, b2, b3}
MCVals == {v1, v2}

VARIABLE part

mcvars == <<vars, part>>

MCInit == Init /\ part \in {"crashes", "waiters"} /\ (part = "waiters" => disk = [b \in Blocks |-> v1])

\* Bounds: only the steps nothing is assumed of are left out, those that begin a call,
\* modify or read a block, or crash.
MCNext ==
    /\ Next /\ UNCHANGED part
    /\ part = "crashes" => pc'[p3] = "idle"
    /\ part = "waiters" => /\ boot = "up" => boot' = "up"
                           /\ cache'[b3] = None
                           /\ \A b \in Blocks : cache'[b] # v2

MCSpec == MCInit /\ [][MCNext]_mcvars /\ Fairness
=============================================================================
