------------------------------- MODULE MCProc -------------------------------
(***************************************************************************)
(* A process table of three slots, init included, in either of the two     *)
(* protocols: mp2's, with wait_lock, and that of MP0 and mp1, without.  A   *)
(* behaviour is in one of them for good.                                   *)
(***************************************************************************)
EXTENDS ParentLocks

CONSTANT FamilyPid  \* bound: the last pid in the protocol without wait_lock

VARIABLE part       \* the protocol of this behaviour

mcVars == <<vars, familyVars, part>>

MCInit == FamilyInit /\ part \in {"wait_lock", "parent_locks"}

MCNext ==
    /\ \/ part = "wait_lock" /\ Next /\ UNCHANGED familyVars
       \/ part = "parent_locks" /\ FamilyNext /\ nextpid' <= FamilyPid + 1
    /\ UNCHANGED part

\* The fairness is stated of the protocol with wait_lock.
MCSpec == MCInit /\ [][MCNext]_mcVars /\ (part = "wait_lock" => Fairness)

\* With wait_lock, nobody sleeps or leaves wait() because of what is no longer
\* so, and nobody dies of a kill() that was meant for another process.  (Without
\* it init may sleep although it has inherited a zombie, and a free slot may keep
\* the pid, and the mark of a kill(), of a fork() that failed: MP0's proc.c:111.)
WaitLockSound == part = "wait_lock" => WaitsForSomething /\ OnlyTheCondemned

\* With wait_lock, every zombie that init is to reap is reaped.
Reaped == part = "wait_lock" => OrphansReaped

\* To look for a ring of processes that spin: the protocol without wait_lock,
\* no kill(), and a fourth slot.
HangInit == FamilyInit /\ part = "parent_locks"
HangNext == FamilyNext /\ killed' = killed /\ condemned' = condemned /\ UNCHANGED part
HangSpec == HangInit /\ [][HangNext]_mcVars
=============================================================================
