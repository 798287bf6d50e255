----------------------------- MODULE ProcProofs -----------------------------
(***************************************************************************)
(* Proofs about the process table, in the protocol of mp2 (Proc) and in    *)
(* that of MP0 and mp1 (ParentLocks), for every number of slots.           *)
(*                                                                         *)
(* The argument about wait_lock: whoever scans the table for children, or  *)
(* hands them over, or is about to sleep, holds it (Locks), and nobody     *)
(* changes a parent or becomes a zombie without it; so what the loop has   *)
(* seen below idx[p] is still so (Exits, Waits).  freeproc() only meets    *)
(* zombies whose p->lock is free, and the dying thread keeps that lock     *)
(* until it has left its stack (Threads, Locks).                           *)
(*                                                                         *)
(* The argument without it: a process is a zombie and wakes its parent     *)
(* under the lock of the parent it had when exit() looked, which is still  *)
(* its parent or has been replaced by init (FamilyExits); a parent scans   *)
(* under its own lock, so the two exclude each other (FamilyLocks).        *)
(***************************************************************************)
EXTENDS MCProc, FiniteSetTheorems, TLAPS

-----------------------------------------------------------------------------
(* The protocol of mp2: the inductive invariant.                           *)

Kernel  == {"allocproc", "fork_parent", "fork_runnable", "reparent",
            "exit_zombie", "wait", "sleep"}
Forking == {"fork_parent", "fork_runnable"}
Alive   == {"SLEEPING", "RUNNABLE", "RUNNING"}

\* Where the thread of a process in each state is, and the locks it holds there.
Threads ==
    \A p \in Slots :
        /\ pc[p] \in Kernel => state[p] = "RUNNING"
        /\ pc[p] = "user" => state[p] \in {"RUNNABLE", "RUNNING"}
        /\ pc[p] = "wait_lock" => state[p] \in Alive
        /\ pc[p] = "sleep_sched" => state[p] = "SLEEPING"
        /\ pc[p] = "exit_sched" => state[p] = "ZOMBIE"
        /\ pc[p] = "none" => state[p] \in {"UNUSED", "USED", "ZOMBIE"}
        /\ pc[p] \in Kernel \cup {"user", "wait_lock", "sleep_sched", "exit_sched", "none"}

Locks ==
    \A p \in Slots :
        /\ wait_lock = p <=> pc[p] \in {"reparent", "exit_zombie", "wait", "sleep"}
        /\ p \in plocked <=> pc[p] \in {"exit_sched", "sleep_sched"}

\* A slot that fork() fills has one process that fills it, and that one as its parent as
\* soon as it has any; a free slot has no parent.
Forks ==
    /\ \A p \in Slots : pc[p] \in Forking =>
          /\ idx[p] \in Slots /\ state[idx[p]] = "USED"
          /\ parent[idx[p]] = IF pc[p] = "fork_parent" THEN Null ELSE p
          /\ \A q \in Slots : pc[q] \in Forking /\ idx[q] = idx[p] => q = p
    /\ \A s \in Slots : state[s] = "UNUSED" => parent[s] = Null

\* Every loop over the table starts at the first slot.
Loops ==
    \A p \in Slots :
        pc[p] \notin {"allocproc", "fork_parent", "fork_runnable", "reparent", "wait"}
            => idx[p] = 1

\* exit() has no child left below the slot that reparent() has reached, and has woken the
\* parent when it becomes a zombie.  init does not exit.
Exits ==
    /\ state[initproc] \in Alive
    /\ \A p \in Slots : pc[p] \in {"reparent", "exit_zombie"} => p # initproc
    /\ \A p, s \in Slots : pc[p] = "reparent" /\ s < idx[p] => parent[s] # p
    /\ \A p \in Slots : pc[p] = "exit_zombie" =>
          state[parent[p]] # "SLEEPING" /\ \A s \in Slots : parent[s] # p

\* What wait() has seen below the slot it has reached is still so when it sleeps, and as
\* long as it does.
HasChild(p) == \E s \in Slots : parent[s] = p
NoZombie(p) == \A s \in Slots : parent[s] = p => state[s] # "ZOMBIE"
Waits ==
    \A p \in Slots :
        /\ pc[p] = "wait" => \A s \in Slots : s < idx[p] /\ parent[s] = p =>
                                 havekids[p] /\ state[s] # "ZOMBIE"
        /\ pc[p] = "wait" /\ havekids[p] => HasChild(p)
        /\ pc[p] = "sleep" \/ state[p] = "SLEEPING" => HasChild(p) /\ NoZombie(p)

\* Every fork() under way has a pid left; processes have different pids, free slots none.
Asking == {q \in Slots : pc[q] = "allocproc"}
Pids ==
    /\ nextpid + Cardinality(Asking) <= MaxPid + 1
    /\ \A s \in Slots : pid[s] < nextpid /\ (state[s] = "UNUSED" <=> pid[s] = 0)
    /\ \A s, t \in Slots : pid[s] = pid[t] /\ pid[s] # 0 => s = t

\* Without kill(0) a free slot is never marked as killed.
Marks ==
    /\ \A s \in Slots : state[s] = "UNUSED" => ~killed[s]
    /\ OnlyTheCondemned

ProcInv ==
    /\ TypeOK /\ Threads /\ Locks /\ Loops /\ Forks /\ Exits /\ FamilyTree /\ Waits /\ Pids
    /\ ~KillZero => Marks

LEMMA SlotFacts ==
    /\ initproc \in Slots /\ Null \notin Slots
    /\ IsFiniteSet(Slots)
<1>1. IsFiniteSet(1 .. NPROC)
    BY FS_Interval, ProcAssumption
<1>2. QED
    BY <1>1, ProcAssumption DEF Slots, initproc, Null

LEMMA AskingFinite ==
    /\ IsFiniteSet(Asking)
    /\ Cardinality(Asking) \in Nat
    /\ \A q \in Asking : Cardinality(Asking \ {q}) = Cardinality(Asking) - 1
                         /\ Cardinality(Asking) >= 1
<1>1. IsFiniteSet(Asking)
    BY SlotFacts, FS_Subset DEF Asking
<1>2. Cardinality(Asking) \in Nat
    BY <1>1, FS_CardinalityType
<1>3. ASSUME NEW q \in Asking
      PROVE  Cardinality(Asking \ {q}) = Cardinality(Asking) - 1 /\ Cardinality(Asking) >= 1
  <2>1. Cardinality(Asking \ {q}) = Cardinality(Asking) - 1 /\ IsFiniteSet(Asking \ {q})
      BY <1>1, FS_RemoveElement
  <2>2. Cardinality(Asking \ {q}) \in Nat
      BY <2>1, FS_CardinalityType
  <2>3. QED
      BY <1>2, <2>1, <2>2
<1>4. QED
    BY <1>1, <1>2, <1>3

\* The index of a loop over the table stays in the table, or one behind it.
LEMMA IdxTyped ==
    ASSUME TypeOK, NEW p \in Slots
    PROVE  /\ [idx EXCEPT ![p] = 1] \in [Slots -> 1 .. NPROC + 1]
           /\ idx[p] \in Slots => [idx EXCEPT ![p] = idx[p] + 1] \in [Slots -> 1 .. NPROC + 1]
<1>1. idx \in [Slots -> 1 .. NPROC + 1]
    BY DEF TypeOK
<1>2. 1 \in 1 .. NPROC + 1
    BY ProcAssumption
<1>3. idx[p] \in Slots => idx[p] + 1 \in 1 .. NPROC + 1
    BY ProcAssumption DEF Slots
<1>4. QED
    BY <1>1, <1>2, <1>3

LEMMA TypesKept ==
    ASSUME ProcInv, [Next]_vars
    PROVE  TypeOK'
<1> USE DEF At, Goto, NextSlot, FirstSlot, wakeup, freeproc, Call, wait_return, procVars
<1>0. TypeOK /\ initproc \in Slots /\ Null \notin Slots
    BY SlotFacts DEF ProcInv
<1>a. ASSUME NEW q \in Slots, pc[q] = "allocproc" PROVE nextpid + 1 <= MaxPid + 1
  <2>1. nextpid + Cardinality(Asking) <= MaxPid + 1 /\ nextpid \in Nat
      BY <1>0 DEF ProcInv, Pids, TypeOK
  <2>2. Cardinality(Asking) \in Nat /\ Cardinality(Asking) >= 1
      BY AskingFinite, <1>a DEF Asking
  <2>3. QED
      BY <2>1, <2>2, ProcAssumption
<1>1. CASE UNCHANGED vars
    BY <1>1, <1>0 DEF vars, TypeOK
<1>2. ASSUME NEW p \in Slots, scheduler(p) PROVE TypeOK'
    BY <1>2, <1>0, ProcAssumption DEF scheduler, TypeOK, Slots, States, Places,
       Null, Targets
<1>3. ASSUME NEW p \in Slots, allocproc_skip(p) PROVE TypeOK'
  <2>1. idx[p] \in Slots /\ idx' = [idx EXCEPT ![p] = idx[p] + 1]
      BY <1>3 DEF allocproc_skip
  <2>2. idx' \in [Slots -> 1 .. NPROC + 1]
      BY <1>0, <2>1, IdxTyped
  <2>3. QED
      BY <1>3, <1>0, <2>2 DEF allocproc_skip, TypeOK
<1>4. ASSUME NEW p \in Slots, allocproc_full(p) PROVE TypeOK'
    BY <1>4, <1>0, ProcAssumption DEF allocproc_full, TypeOK, Slots, States,
       Places, Null, Targets
<1>5. ASSUME NEW p \in Slots, allocproc(p) PROVE TypeOK'
  <2>1. PICK np \in Slots : np = idx[p]
      BY <1>5 DEF allocproc
  <2>2. /\ pid' = [pid EXCEPT ![np] = nextpid] /\ nextpid' = nextpid + 1
        /\ state' = [state EXCEPT ![np] = "USED"] /\ pc' = [pc EXCEPT ![p] = "fork_parent"]
        /\ UNCHANGED <<parent, killed, wait_lock, plocked, idx, havekids, condemned>>
      BY <1>5, <2>1 DEF allocproc
  <2>3. nextpid \in 0 .. MaxPid /\ nextpid' \in 2 .. MaxPid + 1
    <3>1. pc[p] = "allocproc" /\ nextpid \in 2 .. MaxPid + 1
        BY <1>5, <1>0 DEF allocproc, TypeOK
    <3>2. QED
        BY <1>a, <2>2, <3>1, ProcAssumption
  <2>4. state' \in [Slots -> States] /\ pc' \in [Slots -> Places] /\ pid' \in [Slots -> 0 .. MaxPid]
      BY <1>0, <2>2, <2>3 DEF TypeOK, States, Places
  <2>5. QED
      BY <1>0, <2>2, <2>3, <2>4 DEF TypeOK
<1>6. ASSUME NEW p \in Slots, fork_fails(p) PROVE TypeOK'
  <2>1. PICK np \in Slots : np = idx[p]
      BY <1>6 DEF fork_fails
  <2>2. /\ state' = [state EXCEPT ![np] = "UNUSED"]
        /\ pid' = [pid EXCEPT ![np] = 0]
        /\ parent' = [parent EXCEPT ![np] = Null]
        /\ killed' = [killed EXCEPT ![np] = FALSE]
        /\ condemned' = condemned \ {pid[np]}
      BY <2>1, <1>6 DEF fork_fails
  <2>3. state' \in [Slots -> States] /\ pid' \in [Slots -> 0 .. MaxPid]
      BY <1>0, <2>2, ProcAssumption DEF TypeOK, States
  <2>4. /\ parent' \in [Slots -> Slots \cup {Null}] /\ killed' \in [Slots -> BOOLEAN]
        /\ condemned' \subseteq 0 .. MaxPid
      BY <1>0, <2>2 DEF TypeOK
  <2>5. idx' \in [Slots -> 1 .. NPROC + 1] /\ pc' \in [Slots -> Places]
      BY <1>6, <1>0, ProcAssumption DEF fork_fails, TypeOK, Places
  <2>6. /\ nextpid' \in 2 .. MaxPid + 1 /\ wait_lock' \in Slots \cup {Null}
        /\ plocked' \subseteq Slots /\ havekids' \in [Slots -> BOOLEAN]
      BY <1>6, <1>0, <1>a, ProcAssumption DEF fork_fails, TypeOK
  <2>7. QED
      BY <2>3, <2>4, <2>5, <2>6 DEF TypeOK
<1>7. ASSUME NEW p \in Slots, fork_parent(p) PROVE TypeOK'
    BY <1>7, <1>0, ProcAssumption DEF fork_parent, TypeOK, Slots, States, Places,
       Null, Targets
<1>8. ASSUME NEW p \in Slots, fork_runnable(p) PROVE TypeOK'
  <2>1. PICK np \in Slots \cup {NPROC + 1} : np = idx[p]
      BY <1>0, ProcAssumption DEF TypeOK, Slots
  <2>2. /\ state' = [state EXCEPT ![np] = "RUNNABLE"]
        /\ pc' = [pc EXCEPT ![p] = "user", ![np] = "user"]
        /\ idx' = [idx EXCEPT ![p] = 1]
        /\ UNCHANGED <<pid, parent, killed, nextpid, wait_lock, plocked, havekids, condemned>>
      BY <2>1, <1>8 DEF fork_runnable
  <2>3. state' \in [Slots -> States] /\ pc' \in [Slots -> Places]
      BY <1>0, <2>2 DEF TypeOK, States, Places
  <2>4. idx' \in [Slots -> 1 .. NPROC + 1]
      BY <1>0, <2>2, ProcAssumption DEF TypeOK
  <2>5. QED
      BY <1>0, <2>2, <2>3, <2>4 DEF TypeOK
<1>9. ASSUME NEW p \in Slots, reparent(p) PROVE TypeOK'
  <2>1. /\ state' = state \/ state' = wakeup(initproc)
        /\ parent' = parent \/ parent' = [parent EXCEPT ![idx[p]] = initproc]
        /\ idx[p] \in Slots /\ idx' = [idx EXCEPT ![p] = idx[p] + 1]
        /\ UNCHANGED <<pid, killed, nextpid, wait_lock, plocked, pc, havekids, condemned>>
      BY <1>9, <1>0 DEF reparent, TypeOK
  <2>2. state' \in [Slots -> States]
      BY <1>0, <2>1 DEF TypeOK, States
  <2>3. parent' \in [Slots -> Slots \cup {Null}]
      BY <1>0, <2>1 DEF TypeOK
  <2>4. idx' \in [Slots -> 1 .. NPROC + 1]
      BY <1>0, <2>1, IdxTyped
  <2>5. QED
      BY <1>0, <2>1, <2>2, <2>3, <2>4 DEF TypeOK
<1>10. ASSUME NEW p \in Slots, exit_wakeup(p) PROVE TypeOK'
  <2>1. state' \in [Slots -> States]
      BY <1>10, <1>0 DEF exit_wakeup, TypeOK, States
  <2>2. idx' \in [Slots -> 1 .. NPROC + 1] /\ pc' \in [Slots -> Places]
      BY <1>10, <1>0, ProcAssumption DEF exit_wakeup, TypeOK, Places
  <2>3. QED
      BY <1>10, <1>0, <2>1, <2>2 DEF exit_wakeup, TypeOK
<1>11. ASSUME NEW p \in Slots, exit_zombie(p) PROVE TypeOK'
    BY <1>11, <1>0, ProcAssumption DEF exit_zombie, TypeOK, Slots, States, Places,
       Null, Targets
<1>12. ASSUME NEW p \in Slots, exit_sched(p) PROVE TypeOK'
    BY <1>12, <1>0, ProcAssumption DEF exit_sched, TypeOK, Slots, States, Places,
       Null, Targets
<1>13. ASSUME NEW p \in Slots, wait_acquire(p) PROVE TypeOK'
    BY <1>13, <1>0, ProcAssumption DEF wait_acquire, TypeOK, Slots, States,
       Places, Null, Targets
<1>14. ASSUME NEW p \in Slots, wait_skip(p) PROVE TypeOK'
  <2>1. idx[p] \in Slots /\ idx' = [idx EXCEPT ![p] = idx[p] + 1]
      BY <1>14 DEF wait_skip
  <2>2. idx' \in [Slots -> 1 .. NPROC + 1]
      BY <1>0, <2>1, IdxTyped
  <2>3. QED
      BY <1>14, <1>0, <2>2 DEF wait_skip, TypeOK
<1>15. ASSUME NEW p \in Slots, wait_child(p) PROVE TypeOK'
  <2>1. idx' \in [Slots -> 1 .. NPROC + 1]
    <3>1. idx[p] \in Slots /\ idx' = [idx EXCEPT ![p] = idx[p] + 1]
        BY <1>15 DEF wait_child
    <3>2. QED
        BY <1>0, <3>1, IdxTyped
  <2>2. QED
      BY <1>15, <1>0, <2>1 DEF wait_child, TypeOK
<1>16. ASSUME NEW p \in Slots, wait_reap(p) PROVE TypeOK'
  <2>1. PICK np \in Slots : np = idx[p]
      BY <1>16 DEF wait_reap
  <2>2. /\ state' = [state EXCEPT ![np] = "UNUSED"]
        /\ pid' = [pid EXCEPT ![np] = 0]
        /\ parent' = [parent EXCEPT ![np] = Null]
        /\ killed' = [killed EXCEPT ![np] = FALSE]
        /\ condemned' = condemned \ {pid[np]}
      BY <2>1, <1>16 DEF wait_reap
  <2>3. state' \in [Slots -> States] /\ pid' \in [Slots -> 0 .. MaxPid]
      BY <1>0, <2>2, ProcAssumption DEF TypeOK, States
  <2>4. /\ parent' \in [Slots -> Slots \cup {Null}] /\ killed' \in [Slots -> BOOLEAN]
        /\ condemned' \subseteq 0 .. MaxPid
      BY <1>0, <2>2 DEF TypeOK
  <2>5. idx' \in [Slots -> 1 .. NPROC + 1] /\ pc' \in [Slots -> Places]
      BY <1>16, <1>0, ProcAssumption DEF wait_reap, TypeOK, Places
  <2>6. /\ nextpid' \in 2 .. MaxPid + 1 /\ wait_lock' \in Slots \cup {Null}
        /\ plocked' \subseteq Slots /\ havekids' \in [Slots -> BOOLEAN]
      BY <1>16, <1>0, <1>a, ProcAssumption DEF wait_reap, TypeOK
  <2>7. QED
      BY <2>3, <2>4, <2>5, <2>6 DEF TypeOK
<1>17. ASSUME NEW p \in Slots, wait_copyout_fails(p) PROVE TypeOK'
  <2>1. idx' = [idx EXCEPT ![p] = 1]
      BY <1>17 DEF wait_copyout_fails
  <2>2. idx' \in [Slots -> 1 .. NPROC + 1]
      BY <1>0, <2>1, IdxTyped
  <2>3. pc' \in [Slots -> Places]
      BY <1>17, <1>0 DEF wait_copyout_fails, TypeOK, Places
  <2>4. QED
      BY <1>17, <1>0, <2>2, <2>3 DEF wait_copyout_fails, TypeOK
<1>18. ASSUME NEW p \in Slots, wait_nobody(p) PROVE TypeOK'
  <2>1. idx' = [idx EXCEPT ![p] = 1]
      BY <1>18 DEF wait_nobody
  <2>2. idx' \in [Slots -> 1 .. NPROC + 1]
      BY <1>0, <2>1, IdxTyped
  <2>3. pc' \in [Slots -> Places]
      BY <1>18, <1>0 DEF wait_nobody, TypeOK, Places
  <2>4. QED
      BY <1>18, <1>0, <2>2, <2>3 DEF wait_nobody, TypeOK
<1>19. ASSUME NEW p \in Slots, wait_sleep(p) PROVE TypeOK'
  <2>1. idx' = [idx EXCEPT ![p] = 1]
      BY <1>19 DEF wait_sleep
  <2>2. idx' \in [Slots -> 1 .. NPROC + 1]
      BY <1>0, <2>1, IdxTyped
  <2>3. pc' \in [Slots -> Places]
      BY <1>19, <1>0 DEF wait_sleep, TypeOK, Places
  <2>4. QED
      BY <1>19, <1>0, <2>2, <2>3 DEF wait_sleep, TypeOK
<1>20. ASSUME NEW p \in Slots, sleep(p) PROVE TypeOK'
    BY <1>20, <1>0, ProcAssumption DEF sleep, TypeOK, Slots, States, Places, Null,
       Targets
<1>21. ASSUME NEW p \in Slots, sleep_sched(p) PROVE TypeOK'
    BY <1>21, <1>0, ProcAssumption DEF sleep_sched, TypeOK, Slots, States, Places,
       Null, Targets
<1>22. ASSUME NEW p \in Slots, fork(p) PROVE TypeOK'
    BY <1>22, <1>0, ProcAssumption DEF fork, TypeOK, Slots, States, Places, Null,
       Targets
<1>23. ASSUME NEW p \in Slots, exit(p) PROVE TypeOK'
    BY <1>23, <1>0, ProcAssumption DEF exit, TypeOK, Slots, States, Places, Null,
       Targets
<1>24. ASSUME NEW p \in Slots, wait(p) PROVE TypeOK'
    BY <1>24, <1>0, ProcAssumption DEF wait, TypeOK, Slots, States, Places, Null,
       Targets
<1>25. ASSUME NEW p \in Slots, NEW target \in Targets, kill(p, target) PROVE TypeOK'
  <2>1. /\ killed' \in [Slots -> BOOLEAN] /\ state' \in [Slots -> States]
        /\ UNCHANGED <<pid, parent, nextpid, wait_lock, plocked, pc, idx, havekids>>
      BY <1>25, <1>0 DEF kill, TypeOK, States
  <2>2. condemned' \subseteq 0 .. MaxPid
    <3>1. target \in 0 .. MaxPid /\ condemned' = condemned \cup {target}
        BY <1>25, <1>0 DEF kill, TypeOK
    <3>2. QED
        BY <1>0, <3>1 DEF TypeOK
  <2>3. QED
      BY <1>0, <2>1, <2>2 DEF TypeOK
<1>26. QED
    BY <1>1, <1>2, <1>3, <1>4, <1>5, <1>6, <1>7, <1>8, <1>9, <1>10,
       <1>11, <1>12, <1>13, <1>14, <1>15, <1>16, <1>17, <1>18, <1>19, <1>20,
       <1>21, <1>22, <1>23, <1>24, <1>25 DEF Next, InKernel

LEMMA ThreadsKept ==
    ASSUME ProcInv, [Next]_vars
    PROVE  Threads' /\ Locks'
<1> USE DEF At, Goto, NextSlot, FirstSlot, wakeup, freeproc, Call, wait_return, procVars
<1>0. /\ Threads /\ Locks /\ TypeOK /\ initproc \in Slots /\ Null \notin Slots
      /\ \A q \in Slots : pc[q] \in Forking => idx[q] \in Slots /\ state[idx[q]] = "USED"
      /\ \A q \in Slots : pc[q] = "reparent" => parent[q] \in Slots
    BY SlotFacts DEF ProcInv, FamilyTree, Forks, Exits, TypeOK, Threads, Kernel
<1>1. CASE UNCHANGED vars
    BY <1>1, <1>0 DEF vars, Threads, Locks
<1>2. ASSUME NEW p \in Slots, scheduler(p) PROVE Threads' /\ Locks'
    BY <1>2, <1>0 DEF scheduler, TypeOK, Threads, Locks, Kernel, Forking, Alive
<1>3. ASSUME NEW p \in Slots, allocproc_skip(p) PROVE Threads' /\ Locks'
    BY <1>3, <1>0 DEF allocproc_skip, TypeOK, Threads, Locks, Kernel, Forking, Alive
<1>4. ASSUME NEW p \in Slots, allocproc_full(p) PROVE Threads' /\ Locks'
    BY <1>4, <1>0 DEF allocproc_full, TypeOK, Threads, Locks, Kernel, Forking, Alive
<1>5. ASSUME NEW p \in Slots, allocproc(p) PROVE Threads' /\ Locks'
    BY <1>5, <1>0 DEF allocproc, TypeOK, Threads, Locks, Kernel, Forking, Alive
<1>6. ASSUME NEW p \in Slots, fork_fails(p) PROVE Threads' /\ Locks'
    BY <1>6, <1>0 DEF fork_fails, TypeOK, Threads, Locks, Kernel, Forking, Alive
<1>7. ASSUME NEW p \in Slots, fork_parent(p) PROVE Threads' /\ Locks'
    BY <1>7, <1>0 DEF fork_parent, TypeOK, Threads, Locks, Kernel, Forking, Alive
<1>8. ASSUME NEW p \in Slots, fork_runnable(p) PROVE Threads' /\ Locks'
    BY <1>8, <1>0 DEF fork_runnable, TypeOK, Threads, Locks, Kernel, Forking, Alive
<1>9. ASSUME NEW p \in Slots, reparent(p) PROVE Threads' /\ Locks'
    BY <1>9, <1>0 DEF reparent, TypeOK, Threads, Locks, Kernel, Forking, Alive
<1>10. ASSUME NEW p \in Slots, exit_wakeup(p) PROVE Threads' /\ Locks'
    BY <1>10, <1>0 DEF exit_wakeup, TypeOK, Threads, Locks, Kernel, Forking, Alive
<1>11. ASSUME NEW p \in Slots, exit_zombie(p) PROVE Threads' /\ Locks'
    BY <1>11, <1>0 DEF exit_zombie, TypeOK, Threads, Locks, Kernel, Forking, Alive
<1>12. ASSUME NEW p \in Slots, exit_sched(p) PROVE Threads' /\ Locks'
    BY <1>12, <1>0 DEF exit_sched, TypeOK, Threads, Locks, Kernel, Forking, Alive
<1>13. ASSUME NEW p \in Slots, wait_acquire(p) PROVE Threads' /\ Locks'
    BY <1>13, <1>0 DEF wait_acquire, TypeOK, Threads, Locks, Kernel, Forking, Alive
<1>14. ASSUME NEW p \in Slots, wait_skip(p) PROVE Threads' /\ Locks'
    BY <1>14, <1>0 DEF wait_skip, TypeOK, Threads, Locks, Kernel, Forking, Alive
<1>15. ASSUME NEW p \in Slots, wait_child(p) PROVE Threads' /\ Locks'
    BY <1>15, <1>0 DEF wait_child, TypeOK, Threads, Locks, Kernel, Forking, Alive
<1>16. ASSUME NEW p \in Slots, wait_reap(p) PROVE Threads' /\ Locks'
    BY <1>16, <1>0 DEF wait_reap, TypeOK, Threads, Locks, Kernel, Forking, Alive
<1>17. ASSUME NEW p \in Slots, wait_copyout_fails(p) PROVE Threads' /\ Locks'
    BY <1>17, <1>0 DEF wait_copyout_fails, TypeOK, Threads, Locks, Kernel,
       Forking, Alive
<1>18. ASSUME NEW p \in Slots, wait_nobody(p) PROVE Threads' /\ Locks'
    BY <1>18, <1>0 DEF wait_nobody, TypeOK, Threads, Locks, Kernel, Forking, Alive
<1>19. ASSUME NEW p \in Slots, wait_sleep(p) PROVE Threads' /\ Locks'
    BY <1>19, <1>0 DEF wait_sleep, TypeOK, Threads, Locks, Kernel, Forking, Alive
<1>20. ASSUME NEW p \in Slots, sleep(p) PROVE Threads' /\ Locks'
    BY <1>20, <1>0 DEF sleep, TypeOK, Threads, Locks, Kernel, Forking, Alive
<1>21. ASSUME NEW p \in Slots, sleep_sched(p) PROVE Threads' /\ Locks'
    BY <1>21, <1>0 DEF sleep_sched, TypeOK, Threads, Locks, Kernel, Forking, Alive
<1>22. ASSUME NEW p \in Slots, fork(p) PROVE Threads' /\ Locks'
    BY <1>22, <1>0 DEF fork, TypeOK, Threads, Locks, Kernel, Forking, Alive
<1>23. ASSUME NEW p \in Slots, exit(p) PROVE Threads' /\ Locks'
    BY <1>23, <1>0 DEF exit, TypeOK, Threads, Locks, Kernel, Forking, Alive
<1>24. ASSUME NEW p \in Slots, wait(p) PROVE Threads' /\ Locks'
    BY <1>24, <1>0 DEF wait, TypeOK, Threads, Locks, Kernel, Forking, Alive
<1>25. ASSUME NEW p \in Slots, NEW target \in Targets, kill(p, target) PROVE Threads' /\ Locks'
    BY <1>25, <1>0 DEF kill, TypeOK, Threads, Locks, Kernel, Forking, Alive
<1>26. QED
    BY <1>1, <1>2, <1>3, <1>4, <1>5, <1>6, <1>7, <1>8, <1>9, <1>10,
       <1>11, <1>12, <1>13, <1>14, <1>15, <1>16, <1>17, <1>18, <1>19, <1>20,
       <1>21, <1>22, <1>23, <1>24, <1>25 DEF Next, InKernel

LEMMA LoopsKept ==
    ASSUME ProcInv, [Next]_vars
    PROVE  Loops'
<1> USE DEF At, Goto, NextSlot, FirstSlot, wakeup, freeproc, Call, wait_return, procVars
<1>0. /\ TypeOK /\ Threads /\ Locks /\ Loops /\ Forks /\ Exits /\ FamilyTree
      /\ initproc \in Slots /\ Null \notin Slots
    BY SlotFacts DEF ProcInv
<1>1. CASE UNCHANGED vars
    BY <1>1, <1>0 DEF vars, Loops
<1>2. ASSUME NEW p \in Slots, scheduler(p) PROVE Loops'
    BY <1>2, <1>0 DEF scheduler, TypeOK, Threads, Locks, Kernel, Forking, Alive,
       Loops, Forks
<1>3. ASSUME NEW p \in Slots, allocproc_skip(p) PROVE Loops'
    BY <1>3, <1>0 DEF allocproc_skip, TypeOK, Threads, Locks, Kernel, Forking,
       Alive, Loops, Forks
<1>4. ASSUME NEW p \in Slots, allocproc_full(p) PROVE Loops'
    BY <1>4, <1>0 DEF allocproc_full, TypeOK, Threads, Locks, Kernel, Forking,
       Alive, Loops, Forks
<1>5. ASSUME NEW p \in Slots, allocproc(p) PROVE Loops'
    BY <1>5, <1>0 DEF allocproc, TypeOK, Threads, Locks, Kernel, Forking, Alive,
       Loops, Forks
<1>6. ASSUME NEW p \in Slots, fork_fails(p) PROVE Loops'
    BY <1>6, <1>0 DEF fork_fails, TypeOK, Threads, Locks, Kernel, Forking, Alive,
       Loops, Forks
<1>7. ASSUME NEW p \in Slots, fork_parent(p) PROVE Loops'
    BY <1>7, <1>0 DEF fork_parent, TypeOK, Threads, Locks, Kernel, Forking, Alive,
       Loops, Forks
<1>8. ASSUME NEW p \in Slots, fork_runnable(p) PROVE Loops'
    BY <1>8, <1>0 DEF fork_runnable, TypeOK, Threads, Locks, Kernel, Forking,
       Alive, Loops, Forks
<1>9. ASSUME NEW p \in Slots, reparent(p) PROVE Loops'
    BY <1>9, <1>0 DEF reparent, TypeOK, Threads, Locks, Kernel, Forking, Alive,
       Loops, Forks
<1>10. ASSUME NEW p \in Slots, exit_wakeup(p) PROVE Loops'
    BY <1>10, <1>0 DEF exit_wakeup, TypeOK, Threads, Locks, Kernel, Forking,
       Alive, Loops, Forks
<1>11. ASSUME NEW p \in Slots, exit_zombie(p) PROVE Loops'
    BY <1>11, <1>0 DEF exit_zombie, TypeOK, Threads, Locks, Kernel, Forking,
       Alive, Loops, Forks
<1>12. ASSUME NEW p \in Slots, exit_sched(p) PROVE Loops'
    BY <1>12, <1>0 DEF exit_sched, TypeOK, Threads, Locks, Kernel, Forking, Alive,
       Loops, Forks
<1>13. ASSUME NEW p \in Slots, wait_acquire(p) PROVE Loops'
    BY <1>13, <1>0 DEF wait_acquire, TypeOK, Threads, Locks, Kernel, Forking,
       Alive, Loops, Forks
<1>14. ASSUME NEW p \in Slots, wait_skip(p) PROVE Loops'
    BY <1>14, <1>0 DEF wait_skip, TypeOK, Threads, Locks, Kernel, Forking, Alive,
       Loops, Forks
<1>15. ASSUME NEW p \in Slots, wait_child(p) PROVE Loops'
    BY <1>15, <1>0 DEF wait_child, TypeOK, Threads, Locks, Kernel, Forking, Alive,
       Loops, Forks
<1>16. ASSUME NEW p \in Slots, wait_reap(p) PROVE Loops'
    BY <1>16, <1>0 DEF wait_reap, TypeOK, Threads, Locks, Kernel, Forking, Alive,
       Loops, Forks
<1>17. ASSUME NEW p \in Slots, wait_copyout_fails(p) PROVE Loops'
    BY <1>17, <1>0 DEF wait_copyout_fails, TypeOK, Threads, Locks, Kernel,
       Forking, Alive, Loops, Forks
<1>18. ASSUME NEW p \in Slots, wait_nobody(p) PROVE Loops'
    BY <1>18, <1>0 DEF wait_nobody, TypeOK, Threads, Locks, Kernel, Forking,
       Alive, Loops, Forks
<1>19. ASSUME NEW p \in Slots, wait_sleep(p) PROVE Loops'
    BY <1>19, <1>0 DEF wait_sleep, TypeOK, Threads, Locks, Kernel, Forking, Alive,
       Loops, Forks
<1>20. ASSUME NEW p \in Slots, sleep(p) PROVE Loops'
    BY <1>20, <1>0 DEF sleep, TypeOK, Threads, Locks, Kernel, Forking, Alive,
       Loops, Forks
<1>21. ASSUME NEW p \in Slots, sleep_sched(p) PROVE Loops'
    BY <1>21, <1>0 DEF sleep_sched, TypeOK, Threads, Locks, Kernel, Forking,
       Alive, Loops, Forks
<1>22. ASSUME NEW p \in Slots, fork(p) PROVE Loops'
    BY <1>22, <1>0 DEF fork, TypeOK, Threads, Locks, Kernel, Forking, Alive,
       Loops, Forks
<1>23. ASSUME NEW p \in Slots, exit(p) PROVE Loops'
    BY <1>23, <1>0 DEF exit, TypeOK, Threads, Locks, Kernel, Forking, Alive,
       Loops, Forks
<1>24. ASSUME NEW p \in Slots, wait(p) PROVE Loops'
    BY <1>24, <1>0 DEF wait, TypeOK, Threads, Locks, Kernel, Forking, Alive,
       Loops, Forks
<1>25. ASSUME NEW p \in Slots, NEW target \in Targets, kill(p, target) PROVE Loops'
    BY <1>25, <1>0 DEF kill, TypeOK, Threads, Locks, Kernel, Forking, Alive,
       Loops, Forks
<1>26. QED
    BY <1>1, <1>2, <1>3, <1>4, <1>5, <1>6, <1>7, <1>8, <1>9, <1>10,
       <1>11, <1>12, <1>13, <1>14, <1>15, <1>16, <1>17, <1>18, <1>19, <1>20,
       <1>21, <1>22, <1>23, <1>24, <1>25 DEF Next, InKernel

LEMMA ForksKept ==
    ASSUME ProcInv, [Next]_vars
    PROVE  Forks'
<1> USE DEF At, Goto, NextSlot, FirstSlot, wakeup, freeproc, Call, wait_return, procVars
<1>0. /\ TypeOK /\ Threads /\ Locks /\ Loops /\ Forks /\ Exits /\ FamilyTree
      /\ initproc \in Slots /\ Null \notin Slots
    BY SlotFacts DEF ProcInv
<1>1. CASE UNCHANGED vars
    BY <1>1, <1>0 DEF vars, Forks
<1>2. ASSUME NEW p \in Slots, scheduler(p) PROVE Forks'
    BY <1>2, <1>0 DEF scheduler, TypeOK, Threads, Locks, Kernel, Forking, Alive,
       Forks
<1>3. ASSUME NEW p \in Slots, allocproc_skip(p) PROVE Forks'
    BY <1>3, <1>0 DEF allocproc_skip, TypeOK, Threads, Locks, Kernel, Forking,
       Alive, Forks
<1>4. ASSUME NEW p \in Slots, allocproc_full(p) PROVE Forks'
    BY <1>4, <1>0 DEF allocproc_full, TypeOK, Threads, Locks, Kernel, Forking,
       Alive, Forks
<1>5. ASSUME NEW p \in Slots, allocproc(p) PROVE Forks'
    BY <1>5, <1>0 DEF allocproc, TypeOK, Threads, Locks, Kernel, Forking, Alive,
       Forks
<1>6. ASSUME NEW p \in Slots, fork_fails(p) PROVE Forks'
    BY <1>6, <1>0 DEF fork_fails, TypeOK, Threads, Locks, Kernel, Forking, Alive,
       Forks
<1>7. ASSUME NEW p \in Slots, fork_parent(p) PROVE Forks'
    BY <1>7, <1>0 DEF fork_parent, TypeOK, Threads, Locks, Kernel, Forking, Alive,
       Forks
<1>8. ASSUME NEW p \in Slots, fork_runnable(p) PROVE Forks'
    BY <1>8, <1>0 DEF fork_runnable, TypeOK, Threads, Locks, Kernel, Forking,
       Alive, Forks
<1>9. ASSUME NEW p \in Slots, reparent(p) PROVE Forks'
    BY <1>9, <1>0 DEF reparent, TypeOK, Threads, Locks, Kernel, Forking, Alive,
       Forks
<1>10. ASSUME NEW p \in Slots, exit_wakeup(p) PROVE Forks'
    BY <1>10, <1>0 DEF exit_wakeup, TypeOK, Threads, Locks, Kernel, Forking,
       Alive, Forks
<1>11. ASSUME NEW p \in Slots, exit_zombie(p) PROVE Forks'
    BY <1>11, <1>0 DEF exit_zombie, TypeOK, Threads, Locks, Kernel, Forking,
       Alive, Forks
<1>12. ASSUME NEW p \in Slots, exit_sched(p) PROVE Forks'
    BY <1>12, <1>0 DEF exit_sched, TypeOK, Threads, Locks, Kernel, Forking, Alive,
       Forks
<1>13. ASSUME NEW p \in Slots, wait_acquire(p) PROVE Forks'
    BY <1>13, <1>0 DEF wait_acquire, TypeOK, Threads, Locks, Kernel, Forking,
       Alive, Forks
<1>14. ASSUME NEW p \in Slots, wait_skip(p) PROVE Forks'
    BY <1>14, <1>0 DEF wait_skip, TypeOK, Threads, Locks, Kernel, Forking, Alive,
       Forks
<1>15. ASSUME NEW p \in Slots, wait_child(p) PROVE Forks'
    BY <1>15, <1>0 DEF wait_child, TypeOK, Threads, Locks, Kernel, Forking, Alive,
       Forks
<1>16. ASSUME NEW p \in Slots, wait_reap(p) PROVE Forks'
    BY <1>16, <1>0 DEF wait_reap, TypeOK, Threads, Locks, Kernel, Forking, Alive,
       Forks
<1>17. ASSUME NEW p \in Slots, wait_copyout_fails(p) PROVE Forks'
    BY <1>17, <1>0 DEF wait_copyout_fails, TypeOK, Threads, Locks, Kernel,
       Forking, Alive, Forks
<1>18. ASSUME NEW p \in Slots, wait_nobody(p) PROVE Forks'
    BY <1>18, <1>0 DEF wait_nobody, TypeOK, Threads, Locks, Kernel, Forking,
       Alive, Forks
<1>19. ASSUME NEW p \in Slots, wait_sleep(p) PROVE Forks'
    BY <1>19, <1>0 DEF wait_sleep, TypeOK, Threads, Locks, Kernel, Forking, Alive,
       Forks
<1>20. ASSUME NEW p \in Slots, sleep(p) PROVE Forks'
    BY <1>20, <1>0 DEF sleep, TypeOK, Threads, Locks, Kernel, Forking, Alive, Forks
<1>21. ASSUME NEW p \in Slots, sleep_sched(p) PROVE Forks'
    BY <1>21, <1>0 DEF sleep_sched, TypeOK, Threads, Locks, Kernel, Forking,
       Alive, Forks
<1>22. ASSUME NEW p \in Slots, fork(p) PROVE Forks'
    BY <1>22, <1>0 DEF fork, TypeOK, Threads, Locks, Kernel, Forking, Alive, Forks
<1>23. ASSUME NEW p \in Slots, exit(p) PROVE Forks'
    BY <1>23, <1>0 DEF exit, TypeOK, Threads, Locks, Kernel, Forking, Alive, Forks
<1>24. ASSUME NEW p \in Slots, wait(p) PROVE Forks'
    BY <1>24, <1>0 DEF wait, TypeOK, Threads, Locks, Kernel, Forking, Alive, Forks
<1>25. ASSUME NEW p \in Slots, NEW target \in Targets, kill(p, target) PROVE Forks'
    BY <1>25, <1>0 DEF kill, TypeOK, Threads, Locks, Kernel, Forking, Alive, Forks
<1>26. QED
    BY <1>1, <1>2, <1>3, <1>4, <1>5, <1>6, <1>7, <1>8, <1>9, <1>10,
       <1>11, <1>12, <1>13, <1>14, <1>15, <1>16, <1>17, <1>18, <1>19, <1>20,
       <1>21, <1>22, <1>23, <1>24, <1>25 DEF Next, InKernel

LEMMA FamilyKept ==
    ASSUME ProcInv, [Next]_vars
    PROVE  FamilyTree'
<1> USE DEF At, Goto, NextSlot, FirstSlot, wakeup, freeproc, Call, wait_return, procVars
<1>0. /\ TypeOK /\ Threads /\ Locks /\ Loops /\ Forks /\ Exits /\ FamilyTree
      /\ initproc \in Slots /\ Null \notin Slots
    BY SlotFacts DEF ProcInv
<1>1. CASE UNCHANGED vars
    BY <1>1, <1>0 DEF vars, FamilyTree
<1>2. ASSUME NEW p \in Slots, scheduler(p) PROVE FamilyTree'
    BY <1>2, <1>0 DEF scheduler, TypeOK, Threads, Locks, Kernel, Forking, Alive,
       Forks, Exits, FamilyTree
<1>3. ASSUME NEW p \in Slots, allocproc_skip(p) PROVE FamilyTree'
    BY <1>3, <1>0 DEF allocproc_skip, TypeOK, Threads, Locks, Kernel, Forking,
       Alive, Forks, Exits, FamilyTree
<1>4. ASSUME NEW p \in Slots, allocproc_full(p) PROVE FamilyTree'
    BY <1>4, <1>0 DEF allocproc_full, TypeOK, Threads, Locks, Kernel, Forking,
       Alive, Forks, Exits, FamilyTree
<1>5. ASSUME NEW p \in Slots, allocproc(p) PROVE FamilyTree'
    BY <1>5, <1>0 DEF allocproc, TypeOK, Threads, Locks, Kernel, Forking, Alive,
       Forks, Exits, FamilyTree
<1>6. ASSUME NEW p \in Slots, fork_fails(p) PROVE FamilyTree'
    BY <1>6, <1>0 DEF fork_fails, TypeOK, Threads, Locks, Kernel, Forking, Alive,
       Forks, Exits, FamilyTree
<1>7. ASSUME NEW p \in Slots, fork_parent(p) PROVE FamilyTree'
    BY <1>7, <1>0 DEF fork_parent, TypeOK, Threads, Locks, Kernel, Forking, Alive,
       Forks, Exits, FamilyTree
<1>8. ASSUME NEW p \in Slots, fork_runnable(p) PROVE FamilyTree'
    BY <1>8, <1>0 DEF fork_runnable, TypeOK, Threads, Locks, Kernel, Forking,
       Alive, Forks, Exits, FamilyTree
<1>9. ASSUME NEW p \in Slots, reparent(p) PROVE FamilyTree'
    BY <1>9, <1>0 DEF reparent, TypeOK, Threads, Locks, Kernel, Forking, Alive,
       Forks, Exits, FamilyTree
<1>10. ASSUME NEW p \in Slots, exit_wakeup(p) PROVE FamilyTree'
    BY <1>10, <1>0 DEF exit_wakeup, TypeOK, Threads, Locks, Kernel, Forking,
       Alive, Forks, Exits, FamilyTree
<1>11. ASSUME NEW p \in Slots, exit_zombie(p) PROVE FamilyTree'
    BY <1>11, <1>0 DEF exit_zombie, TypeOK, Threads, Locks, Kernel, Forking,
       Alive, Forks, Exits, FamilyTree
<1>12. ASSUME NEW p \in Slots, exit_sched(p) PROVE FamilyTree'
    BY <1>12, <1>0 DEF exit_sched, TypeOK, Threads, Locks, Kernel, Forking, Alive,
       Forks, Exits, FamilyTree
<1>13. ASSUME NEW p \in Slots, wait_acquire(p) PROVE FamilyTree'
    BY <1>13, <1>0 DEF wait_acquire, TypeOK, Threads, Locks, Kernel, Forking,
       Alive, Forks, Exits, FamilyTree
<1>14. ASSUME NEW p \in Slots, wait_skip(p) PROVE FamilyTree'
    BY <1>14, <1>0 DEF wait_skip, TypeOK, Threads, Locks, Kernel, Forking, Alive,
       Forks, Exits, FamilyTree
<1>15. ASSUME NEW p \in Slots, wait_child(p) PROVE FamilyTree'
    BY <1>15, <1>0 DEF wait_child, TypeOK, Threads, Locks, Kernel, Forking, Alive,
       Forks, Exits, FamilyTree
<1>16. ASSUME NEW p \in Slots, wait_reap(p) PROVE FamilyTree'
    BY <1>16, <1>0 DEF wait_reap, TypeOK, Threads, Locks, Kernel, Forking, Alive,
       Forks, Exits, FamilyTree
<1>17. ASSUME NEW p \in Slots, wait_copyout_fails(p) PROVE FamilyTree'
    BY <1>17, <1>0 DEF wait_copyout_fails, TypeOK, Threads, Locks, Kernel,
       Forking, Alive, Forks, Exits, FamilyTree
<1>18. ASSUME NEW p \in Slots, wait_nobody(p) PROVE FamilyTree'
    BY <1>18, <1>0 DEF wait_nobody, TypeOK, Threads, Locks, Kernel, Forking,
       Alive, Forks, Exits, FamilyTree
<1>19. ASSUME NEW p \in Slots, wait_sleep(p) PROVE FamilyTree'
    BY <1>19, <1>0 DEF wait_sleep, TypeOK, Threads, Locks, Kernel, Forking, Alive,
       Forks, Exits, FamilyTree
<1>20. ASSUME NEW p \in Slots, sleep(p) PROVE FamilyTree'
    BY <1>20, <1>0 DEF sleep, TypeOK, Threads, Locks, Kernel, Forking, Alive,
       Forks, Exits, FamilyTree
<1>21. ASSUME NEW p \in Slots, sleep_sched(p) PROVE FamilyTree'
    BY <1>21, <1>0 DEF sleep_sched, TypeOK, Threads, Locks, Kernel, Forking,
       Alive, Forks, Exits, FamilyTree
<1>22. ASSUME NEW p \in Slots, fork(p) PROVE FamilyTree'
    BY <1>22, <1>0 DEF fork, TypeOK, Threads, Locks, Kernel, Forking, Alive,
       Forks, Exits, FamilyTree
<1>23. ASSUME NEW p \in Slots, exit(p) PROVE FamilyTree'
    BY <1>23, <1>0 DEF exit, TypeOK, Threads, Locks, Kernel, Forking, Alive,
       Forks, Exits, FamilyTree
<1>24. ASSUME NEW p \in Slots, wait(p) PROVE FamilyTree'
    BY <1>24, <1>0 DEF wait, TypeOK, Threads, Locks, Kernel, Forking, Alive,
       Forks, Exits, FamilyTree
<1>25. ASSUME NEW p \in Slots, NEW target \in Targets, kill(p, target) PROVE FamilyTree'
    BY <1>25, <1>0 DEF kill, TypeOK, Threads, Locks, Kernel, Forking, Alive,
       Forks, Exits, FamilyTree
<1>26. QED
    BY <1>1, <1>2, <1>3, <1>4, <1>5, <1>6, <1>7, <1>8, <1>9, <1>10,
       <1>11, <1>12, <1>13, <1>14, <1>15, <1>16, <1>17, <1>18, <1>19, <1>20,
       <1>21, <1>22, <1>23, <1>24, <1>25 DEF Next, InKernel

LEMMA ExitsKept ==
    ASSUME ProcInv, [Next]_vars
    PROVE  Exits'
<1> USE DEF At, Goto, NextSlot, FirstSlot, wakeup, freeproc, Call, wait_return, procVars
<1>0. /\ TypeOK /\ Threads /\ Locks /\ Loops /\ Forks /\ Exits /\ FamilyTree
      /\ initproc \in Slots /\ Null \notin Slots
    BY SlotFacts DEF ProcInv
<1>1. CASE UNCHANGED vars
    BY <1>1, <1>0 DEF vars, Exits
<1>2. ASSUME NEW p \in Slots, scheduler(p) PROVE Exits'
    BY <1>2, <1>0 DEF scheduler, TypeOK, Threads, Locks, Kernel, Forking, Alive,
       Loops, Forks, Exits, FamilyTree, Slots
<1>3. ASSUME NEW p \in Slots, allocproc_skip(p) PROVE Exits'
    BY <1>3, <1>0 DEF allocproc_skip, TypeOK, Threads, Locks, Kernel, Forking,
       Alive, Loops, Forks, Exits, FamilyTree, Slots
<1>4. ASSUME NEW p \in Slots, allocproc_full(p) PROVE Exits'
    BY <1>4, <1>0 DEF allocproc_full, TypeOK, Threads, Locks, Kernel, Forking,
       Alive, Loops, Forks, Exits, FamilyTree, Slots
<1>5. ASSUME NEW p \in Slots, allocproc(p) PROVE Exits'
    BY <1>5, <1>0 DEF allocproc, TypeOK, Threads, Locks, Kernel, Forking, Alive,
       Loops, Forks, Exits, FamilyTree, Slots
<1>6. ASSUME NEW p \in Slots, fork_fails(p) PROVE Exits'
    BY <1>6, <1>0 DEF fork_fails, TypeOK, Threads, Locks, Kernel, Forking, Alive,
       Loops, Forks, Exits, FamilyTree, Slots
<1>7. ASSUME NEW p \in Slots, fork_parent(p) PROVE Exits'
    BY <1>7, <1>0 DEF fork_parent, TypeOK, Threads, Locks, Kernel, Forking, Alive,
       Loops, Forks, Exits, FamilyTree, Slots
<1>8. ASSUME NEW p \in Slots, fork_runnable(p) PROVE Exits'
    BY <1>8, <1>0 DEF fork_runnable, TypeOK, Threads, Locks, Kernel, Forking,
       Alive, Loops, Forks, Exits, FamilyTree, Slots
<1>9. ASSUME NEW p \in Slots, reparent(p) PROVE Exits'
  <2>1. pc' = pc /\ state'[initproc] \in Alive
      BY <1>9, <1>0 DEF reparent, Exits, TypeOK, Alive
  <2>2. /\ p # initproc
        /\ parent[idx[p]] # p => parent' = parent
        /\ parent[idx[p]] = p => parent' = [parent EXCEPT ![idx[p]] = initproc]
        /\ idx[p] \in Slots /\ idx' = [idx EXCEPT ![p] = idx[p] + 1]
      BY <1>9, <1>0 DEF reparent, Exits, TypeOK
  <2>3. \A q \in Slots : pc[q] \in {"reparent", "exit_zombie"} => q = p
      BY <1>9, <1>0 DEF reparent, Locks
  <2>4. pc[p] = "reparent"
      BY <1>9 DEF reparent
  <2>5. ASSUME NEW s \in Slots, s < idx'[p] PROVE parent'[s] # p
    <3>1. idx'[p] = idx[p] + 1 /\ idx[p] \in Nat /\ s \in Nat
        BY <1>0, <2>2 DEF TypeOK, Slots
    <3>2. CASE s = idx[p]
        BY <1>0, <2>2, <3>2 DEF TypeOK
    <3>3. CASE s < idx[p]
      <4>1. parent[s] # p
          BY <1>0, <2>4, <3>3 DEF Exits
      <4>2. QED
          BY <1>0, <2>2, <4>1 DEF TypeOK
    <3>4. QED
        BY <2>5, <3>1, <3>2, <3>3
  <2>6. QED
      BY <1>0, <2>1, <2>2, <2>3, <2>4, <2>5 DEF Exits
<1>10. ASSUME NEW p \in Slots, exit_wakeup(p) PROVE Exits'
  <2>1. state'[initproc] \in Alive /\ p # initproc
      BY <1>10, <1>0 DEF exit_wakeup, Exits, TypeOK, Alive
  <2>2. \A q \in Slots : pc[q] \in {"reparent", "exit_zombie"} => q = p
      BY <1>10, <1>0 DEF exit_wakeup, Locks
  <2>3. parent' = parent /\ pc' = [pc EXCEPT ![p] = "exit_zombie"]
      BY <1>10 DEF exit_wakeup
  <2>4. \A s \in Slots : parent[s] # p
      BY <1>10, <1>0, ProcAssumption DEF exit_wakeup, Exits, TypeOK, Slots
  <2>5. parent[p] \in Slots
      BY <1>10, <1>0, <2>1 DEF exit_wakeup, FamilyTree, TypeOK
  <2>6. state'[parent[p]] # "SLEEPING"
      BY <1>10, <1>0, <2>5 DEF exit_wakeup, TypeOK
  <2>7. QED
      BY <1>0, <2>1, <2>2, <2>3, <2>4, <2>6 DEF Exits, TypeOK
<1>11. ASSUME NEW p \in Slots, exit_zombie(p) PROVE Exits'
    BY <1>11, <1>0 DEF exit_zombie, TypeOK, Threads, Locks, Kernel, Forking,
       Alive, Loops, Forks, Exits, FamilyTree, Slots
<1>12. ASSUME NEW p \in Slots, exit_sched(p) PROVE Exits'
    BY <1>12, <1>0 DEF exit_sched, TypeOK, Threads, Locks, Kernel, Forking, Alive,
       Loops, Forks, Exits, FamilyTree, Slots
<1>13. ASSUME NEW p \in Slots, wait_acquire(p) PROVE Exits'
    BY <1>13, <1>0 DEF wait_acquire, TypeOK, Threads, Locks, Kernel, Forking,
       Alive, Loops, Forks, Exits, FamilyTree, Slots
<1>14. ASSUME NEW p \in Slots, wait_skip(p) PROVE Exits'
    BY <1>14, <1>0 DEF wait_skip, TypeOK, Threads, Locks, Kernel, Forking, Alive,
       Loops, Forks, Exits, FamilyTree, Slots
<1>15. ASSUME NEW p \in Slots, wait_child(p) PROVE Exits'
    BY <1>15, <1>0 DEF wait_child, TypeOK, Threads, Locks, Kernel, Forking, Alive,
       Loops, Forks, Exits, FamilyTree, Slots
<1>16. ASSUME NEW p \in Slots, wait_reap(p) PROVE Exits'
    BY <1>16, <1>0 DEF wait_reap, TypeOK, Threads, Locks, Kernel, Forking, Alive,
       Loops, Forks, Exits, FamilyTree, Slots
<1>17. ASSUME NEW p \in Slots, wait_copyout_fails(p) PROVE Exits'
    BY <1>17, <1>0 DEF wait_copyout_fails, TypeOK, Threads, Locks, Kernel,
       Forking, Alive, Loops, Forks, Exits, FamilyTree, Slots
<1>18. ASSUME NEW p \in Slots, wait_nobody(p) PROVE Exits'
    BY <1>18, <1>0 DEF wait_nobody, TypeOK, Threads, Locks, Kernel, Forking,
       Alive, Loops, Forks, Exits, FamilyTree, Slots
<1>19. ASSUME NEW p \in Slots, wait_sleep(p) PROVE Exits'
    BY <1>19, <1>0 DEF wait_sleep, TypeOK, Threads, Locks, Kernel, Forking, Alive,
       Loops, Forks, Exits, FamilyTree, Slots
<1>20. ASSUME NEW p \in Slots, sleep(p) PROVE Exits'
    BY <1>20, <1>0 DEF sleep, TypeOK, Threads, Locks, Kernel, Forking, Alive,
       Loops, Forks, Exits, FamilyTree, Slots
<1>21. ASSUME NEW p \in Slots, sleep_sched(p) PROVE Exits'
    BY <1>21, <1>0 DEF sleep_sched, TypeOK, Threads, Locks, Kernel, Forking,
       Alive, Loops, Forks, Exits, FamilyTree, Slots
<1>22. ASSUME NEW p \in Slots, fork(p) PROVE Exits'
    BY <1>22, <1>0 DEF fork, TypeOK, Threads, Locks, Kernel, Forking, Alive,
       Loops, Forks, Exits, FamilyTree, Slots
<1>23. ASSUME NEW p \in Slots, exit(p) PROVE Exits'
    BY <1>23, <1>0 DEF exit, TypeOK, Threads, Locks, Kernel, Forking, Alive,
       Loops, Forks, Exits, FamilyTree, Slots
<1>24. ASSUME NEW p \in Slots, wait(p) PROVE Exits'
    BY <1>24, <1>0 DEF wait, TypeOK, Threads, Locks, Kernel, Forking, Alive,
       Loops, Forks, Exits, FamilyTree, Slots
<1>25. ASSUME NEW p \in Slots, NEW target \in Targets, kill(p, target) PROVE Exits'
    BY <1>25, <1>0 DEF kill, TypeOK, Threads, Locks, Kernel, Forking, Alive,
       Loops, Forks, Exits, FamilyTree, Slots
<1>26. QED
    BY <1>1, <1>2, <1>3, <1>4, <1>5, <1>6, <1>7, <1>8, <1>9, <1>10,
       <1>11, <1>12, <1>13, <1>14, <1>15, <1>16, <1>17, <1>18, <1>19, <1>20,
       <1>21, <1>22, <1>23, <1>24, <1>25 DEF Next, InKernel

LEMMA WaitsKept ==
    ASSUME ProcInv, [Next]_vars
    PROVE  Waits'
<1> USE DEF At, Goto, NextSlot, FirstSlot, wakeup, freeproc, Call, wait_return, procVars
<1>0. /\ TypeOK /\ Threads /\ Locks /\ Loops /\ Forks /\ Exits /\ FamilyTree /\ Waits
      /\ initproc \in Slots /\ Null \notin Slots
    BY SlotFacts DEF ProcInv
<1>1. CASE UNCHANGED vars
    BY <1>1, <1>0 DEF vars, Waits, HasChild, NoZombie
<1>2. ASSUME NEW p \in Slots, scheduler(p) PROVE Waits'
    BY <1>2, <1>0 DEF scheduler, TypeOK, Threads, Locks, Kernel, Forking, Alive,
       Loops, Forks, Exits, Waits, HasChild, NoZombie
<1>3. ASSUME NEW p \in Slots, allocproc_skip(p) PROVE Waits'
    BY <1>3, <1>0 DEF allocproc_skip, TypeOK, Threads, Locks, Kernel, Forking,
       Alive, Loops, Forks, Exits, Waits, HasChild, NoZombie
<1>4. ASSUME NEW p \in Slots, allocproc_full(p) PROVE Waits'
    BY <1>4, <1>0 DEF allocproc_full, TypeOK, Threads, Locks, Kernel, Forking,
       Alive, Loops, Forks, Exits, Waits, HasChild, NoZombie
<1>5. ASSUME NEW p \in Slots, allocproc(p) PROVE Waits'
    BY <1>5, <1>0 DEF allocproc, TypeOK, Threads, Locks, Kernel, Forking, Alive,
       Loops, Forks, Exits, Waits, HasChild, NoZombie
<1>6. ASSUME NEW p \in Slots, fork_fails(p) PROVE Waits'
    BY <1>6, <1>0 DEF fork_fails, TypeOK, Threads, Locks, Kernel, Forking, Alive,
       Loops, Forks, Exits, Waits, HasChild, NoZombie
<1>7. ASSUME NEW p \in Slots, fork_parent(p) PROVE Waits'
    BY <1>7, <1>0 DEF fork_parent, TypeOK, Threads, Locks, Kernel, Forking, Alive,
       Loops, Forks, Exits, Waits, HasChild, NoZombie
<1>8. ASSUME NEW p \in Slots, fork_runnable(p) PROVE Waits'
    BY <1>8, <1>0 DEF fork_runnable, TypeOK, Threads, Locks, Kernel, Forking,
       Alive, Loops, Forks, Exits, Waits, HasChild, NoZombie
<1>9. ASSUME NEW p \in Slots, reparent(p) PROVE Waits'
    BY <1>9, <1>0 DEF reparent, TypeOK, Threads, Locks, Kernel, Forking, Alive,
       Loops, Forks, Exits, Waits, HasChild, NoZombie
<1>10. ASSUME NEW p \in Slots, exit_wakeup(p) PROVE Waits'
    BY <1>10, <1>0 DEF exit_wakeup, TypeOK, Threads, Locks, Kernel, Forking,
       Alive, Loops, Forks, Exits, Waits, HasChild, NoZombie
<1>11. ASSUME NEW p \in Slots, exit_zombie(p) PROVE Waits'
    BY <1>11, <1>0 DEF exit_zombie, TypeOK, Threads, Locks, Kernel, Forking,
       Alive, Loops, Forks, Exits, Waits, HasChild, NoZombie
<1>12. ASSUME NEW p \in Slots, exit_sched(p) PROVE Waits'
    BY <1>12, <1>0 DEF exit_sched, TypeOK, Threads, Locks, Kernel, Forking, Alive,
       Loops, Forks, Exits, Waits, HasChild, NoZombie
<1>13. ASSUME NEW p \in Slots, wait_acquire(p) PROVE Waits'
  <2>1. \A q \in Slots : q # p => pc[q] \notin {"wait", "sleep"} /\ pc'[q] \notin {"wait", "sleep"}
      BY <1>13, <1>0 DEF wait_acquire, Locks, TypeOK
  <2>2. parent' = parent /\ state' = state /\ state[p] = "RUNNING"
      BY <1>13 DEF wait_acquire
  <2>3. \A q \in Slots : state'[q] = "SLEEPING" => HasChild(q)' /\ NoZombie(q)'
      BY <1>0, <2>2 DEF Waits, HasChild, NoZombie
  <2>4. p \in Slots /\ p \in Nat /\ idx[p] \in Nat /\ \A s \in Slots : s \in Nat
      BY <1>0 DEF TypeOK, Slots
  <2>5. pc'[p] = "wait" /\ idx'[p] = 1 /\ havekids'[p] = FALSE
      BY <1>13, <1>0 DEF wait_acquire, Loops, TypeOK
  <2>8. pc'[p] = "wait" /\ ~havekids'[p] /\ \A s \in Slots : ~(s < idx'[p])
      BY <2>5 DEF Slots
  <2>9. QED
      BY <1>0, <2>1, <2>2, <2>3, <2>8 DEF Waits, TypeOK
<1>14. ASSUME NEW p \in Slots, wait_skip(p) PROVE Waits'
  <2>1. \A q \in Slots : q # p => pc[q] \notin {"wait", "sleep"} /\ pc'[q] \notin {"wait", "sleep"}
      BY <1>14, <1>0 DEF wait_skip, Locks, TypeOK
  <2>2. parent' = parent /\ state' = state /\ state[p] = "RUNNING"
      BY <1>14 DEF wait_skip
  <2>3. \A q \in Slots : state'[q] = "SLEEPING" => HasChild(q)' /\ NoZombie(q)'
      BY <1>0, <2>2 DEF Waits, HasChild, NoZombie
  <2>4. p \in Slots /\ p \in Nat /\ idx[p] \in Nat /\ \A s \in Slots : s \in Nat
      BY <1>0 DEF TypeOK, Slots
  <2>5. /\ pc[p] = "wait" /\ pc' = pc /\ havekids' = havekids
        /\ idx'[p] = idx[p] + 1 /\ parent[idx[p]] # p
      BY <1>14, <1>0 DEF wait_skip, TypeOK
  <2>6. ASSUME NEW s \in Slots, s < idx'[p], parent[s] = p PROVE s < idx[p]
      BY <2>4, <2>5, <2>6
  <2>8. /\ pc'[p] = "wait"
        /\ havekids'[p] => HasChild(p)'
        /\ \A s \in Slots : s < idx'[p] /\ parent'[s] = p => havekids'[p] /\ state'[s] # "ZOMBIE"
      BY <1>0, <2>2, <2>5, <2>6 DEF Waits, HasChild
  <2>9. QED
      BY <1>0, <2>1, <2>2, <2>3, <2>8 DEF Waits, TypeOK
<1>15. ASSUME NEW p \in Slots, wait_child(p) PROVE Waits'
  <2>1. \A q \in Slots : q # p => pc[q] \notin {"wait", "sleep"} /\ pc'[q] \notin {"wait", "sleep"}
      BY <1>15, <1>0 DEF wait_child, Locks, TypeOK
  <2>2. parent' = parent /\ state' = state /\ state[p] = "RUNNING"
      BY <1>15 DEF wait_child
  <2>3. \A q \in Slots : state'[q] = "SLEEPING" => HasChild(q)' /\ NoZombie(q)'
      BY <1>0, <2>2 DEF Waits, HasChild, NoZombie
  <2>4. p \in Slots /\ p \in Nat /\ idx[p] \in Nat /\ \A s \in Slots : s \in Nat
      BY <1>0 DEF TypeOK, Slots
  <2>5. /\ pc[p] = "wait" /\ pc' = pc /\ havekids'[p] = TRUE /\ idx[p] \in Slots
        /\ idx'[p] = idx[p] + 1 /\ parent[idx[p]] = p /\ state[idx[p]] # "ZOMBIE"
      BY <1>15, <1>0 DEF wait_child, TypeOK
  <2>6. ASSUME NEW s \in Slots, s < idx'[p] PROVE s = idx[p] \/ s < idx[p]
      BY <2>4, <2>5, <2>6
  <2>7. HasChild(p)'
      BY <2>2, <2>5 DEF HasChild
  <2>8. /\ pc'[p] = "wait" /\ HasChild(p)'
        /\ \A s \in Slots : s < idx'[p] /\ parent'[s] = p => havekids'[p] /\ state'[s] # "ZOMBIE"
      BY <1>0, <2>2, <2>5, <2>6, <2>7 DEF Waits
  <2>9. QED
      BY <1>0, <2>1, <2>2, <2>3, <2>8 DEF Waits, TypeOK
<1>16. ASSUME NEW p \in Slots, wait_reap(p) PROVE Waits'
    BY <1>16, <1>0 DEF wait_reap, TypeOK, Threads, Locks, Kernel, Forking, Alive,
       Loops, Forks, Exits, Waits, HasChild, NoZombie
<1>17. ASSUME NEW p \in Slots, wait_copyout_fails(p) PROVE Waits'
    BY <1>17, <1>0 DEF wait_copyout_fails, TypeOK, Threads, Locks, Kernel,
       Forking, Alive, Loops, Forks, Exits, Waits, HasChild, NoZombie
<1>18. ASSUME NEW p \in Slots, wait_nobody(p) PROVE Waits'
    BY <1>18, <1>0 DEF wait_nobody, TypeOK, Threads, Locks, Kernel, Forking,
       Alive, Loops, Forks, Exits, Waits, HasChild, NoZombie
<1>19. ASSUME NEW p \in Slots, wait_sleep(p) PROVE Waits'
  <2>1. \A q \in Slots : q # p => pc[q] \notin {"wait", "sleep"} /\ pc'[q] \notin {"wait", "sleep"}
      BY <1>19, <1>0 DEF wait_sleep, Locks, TypeOK
  <2>2. parent' = parent /\ state' = state /\ state[p] = "RUNNING"
      BY <1>19 DEF wait_sleep
  <2>3. \A q \in Slots : state'[q] = "SLEEPING" => HasChild(q)' /\ NoZombie(q)'
      BY <1>0, <2>2 DEF Waits, HasChild, NoZombie
  <2>4. p \in Slots /\ p \in Nat /\ idx[p] \in Nat /\ \A s \in Slots : s \in Nat
      BY <1>0 DEF TypeOK, Slots
  <2>5. pc[p] = "wait" /\ havekids[p] /\ idx[p] \notin Slots /\ pc'[p] = "sleep"
      BY <1>19, <1>0 DEF wait_sleep, TypeOK
  <2>6. \A s \in Slots : s < idx[p]
      BY <1>0, <2>5, ProcAssumption DEF TypeOK, Slots
  <2>8. pc'[p] = "sleep" /\ HasChild(p)' /\ NoZombie(p)'
      BY <1>0, <2>2, <2>5, <2>6 DEF Waits, HasChild, NoZombie
  <2>9. QED
      BY <1>0, <2>1, <2>2, <2>3, <2>8 DEF Waits, TypeOK
<1>20. ASSUME NEW p \in Slots, sleep(p) PROVE Waits'
    BY <1>20, <1>0 DEF sleep, TypeOK, Threads, Locks, Kernel, Forking, Alive,
       Loops, Forks, Exits, Waits, HasChild, NoZombie
<1>21. ASSUME NEW p \in Slots, sleep_sched(p) PROVE Waits'
    BY <1>21, <1>0 DEF sleep_sched, TypeOK, Threads, Locks, Kernel, Forking,
       Alive, Loops, Forks, Exits, Waits, HasChild, NoZombie
<1>22. ASSUME NEW p \in Slots, fork(p) PROVE Waits'
    BY <1>22, <1>0 DEF fork, TypeOK, Threads, Locks, Kernel, Forking, Alive,
       Loops, Forks, Exits, Waits, HasChild, NoZombie
<1>23. ASSUME NEW p \in Slots, exit(p) PROVE Waits'
    BY <1>23, <1>0 DEF exit, TypeOK, Threads, Locks, Kernel, Forking, Alive,
       Loops, Forks, Exits, Waits, HasChild, NoZombie
<1>24. ASSUME NEW p \in Slots, wait(p) PROVE Waits'
    BY <1>24, <1>0 DEF wait, TypeOK, Threads, Locks, Kernel, Forking, Alive,
       Loops, Forks, Exits, Waits, HasChild, NoZombie
<1>25. ASSUME NEW p \in Slots, NEW target \in Targets, kill(p, target) PROVE Waits'
    BY <1>25, <1>0 DEF kill, TypeOK, Threads, Locks, Kernel, Forking, Alive,
       Loops, Forks, Exits, Waits, HasChild, NoZombie
<1>26. QED
    BY <1>1, <1>2, <1>3, <1>4, <1>5, <1>6, <1>7, <1>8, <1>9, <1>10,
       <1>11, <1>12, <1>13, <1>14, <1>15, <1>16, <1>17, <1>18, <1>19, <1>20,
       <1>21, <1>22, <1>23, <1>24, <1>25 DEF Next, InKernel

LEMMA PidsKept ==
    ASSUME ProcInv, [Next]_vars
    PROVE  Pids'
<1> USE DEF At, Goto, NextSlot, FirstSlot, wakeup, freeproc, Call, wait_return, procVars
<1>0. /\ TypeOK /\ Threads /\ Locks /\ Loops /\ Forks /\ Exits /\ FamilyTree /\ Pids
      /\ initproc \in Slots /\ Null \notin Slots
    BY SlotFacts DEF ProcInv
<1>a. /\ Asking \subseteq Slots /\ IsFiniteSet(Asking) /\ Cardinality(Asking) \in Nat
      /\ \A q \in Asking : Cardinality(Asking \ {q}) = Cardinality(Asking) - 1
    BY AskingFinite DEF Asking
<1>1. CASE UNCHANGED vars
    BY <1>1, <1>0 DEF vars, Pids, Asking
<1>2. ASSUME NEW p \in Slots, scheduler(p) PROVE Pids'
  <2>1. Asking' = Asking
      BY <1>2, <1>0 DEF scheduler, TypeOK, Asking, Threads, Locks, Kernel,
         Forking, Alive
  <2>2. QED
      BY <1>2, <1>0, <1>a, <2>1 DEF scheduler, Pids, TypeOK
<1>3. ASSUME NEW p \in Slots, allocproc_skip(p) PROVE Pids'
  <2>1. Asking' = Asking
      BY <1>3, <1>0 DEF allocproc_skip, TypeOK, Asking, Threads, Locks, Kernel,
         Forking, Alive
  <2>2. QED
      BY <1>3, <1>0, <1>a, <2>1 DEF allocproc_skip, Pids, TypeOK
<1>4. ASSUME NEW p \in Slots, allocproc_full(p) PROVE Pids'
  <2>1. p \in Asking /\ Asking' = Asking \ {p}
      BY <1>4, <1>0 DEF allocproc_full, TypeOK, Asking
  <2>2. Cardinality(Asking') = Cardinality(Asking) - 1
      BY <1>a, <2>1
  <2>3. /\ nextpid' <= nextpid + 1 /\ nextpid \in Nat /\ nextpid' \in Nat
        /\ nextpid <= nextpid' /\ nextpid >= 2
      BY <1>4, <1>0 DEF allocproc_full, TypeOK
  <2>4. nextpid' + Cardinality(Asking') <= MaxPid + 1
      BY <1>0, <1>a, <2>2, <2>3, ProcAssumption DEF Pids
  <2>5. \A s \in Slots : pid[s] \in Nat /\ pid[s] < nextpid
      BY <1>0 DEF Pids, TypeOK
  <2>7. \A s \in Slots : pid'[s] < nextpid' /\ (state'[s] = "UNUSED" <=> pid'[s] = 0)
      BY <1>4, <1>0, <2>3, <2>5 DEF allocproc_full, Pids, TypeOK
  <2>8. \A s, t \in Slots : pid'[s] = pid'[t] /\ pid'[s] # 0 => s = t
      BY <1>4, <1>0, <2>3, <2>5 DEF allocproc_full, Pids, TypeOK
  <2>9. QED
      BY <2>4, <2>7, <2>8 DEF Pids
<1>5. ASSUME NEW p \in Slots, allocproc(p) PROVE Pids'
  <2>1. p \in Asking /\ Asking' = Asking \ {p}
      BY <1>5, <1>0 DEF allocproc, TypeOK, Asking
  <2>2. Cardinality(Asking') = Cardinality(Asking) - 1
      BY <1>a, <2>1
  <2>3. /\ nextpid' <= nextpid + 1 /\ nextpid \in Nat /\ nextpid' \in Nat
        /\ nextpid <= nextpid' /\ nextpid >= 2
      BY <1>5, <1>0 DEF allocproc, TypeOK
  <2>4. nextpid' + Cardinality(Asking') <= MaxPid + 1
      BY <1>0, <1>a, <2>2, <2>3, ProcAssumption DEF Pids
  <2>5. \A s \in Slots : pid[s] \in Nat /\ pid[s] < nextpid
      BY <1>0 DEF Pids, TypeOK
  <2>7. \A s \in Slots : pid'[s] < nextpid' /\ (state'[s] = "UNUSED" <=> pid'[s] = 0)
      BY <1>5, <1>0, <2>3, <2>5 DEF allocproc, Pids, TypeOK
  <2>8. \A s, t \in Slots : pid'[s] = pid'[t] /\ pid'[s] # 0 => s = t
      BY <1>5, <1>0, <2>3, <2>5 DEF allocproc, Pids, TypeOK
  <2>9. QED
      BY <2>4, <2>7, <2>8 DEF Pids
<1>6. ASSUME NEW p \in Slots, fork_fails(p) PROVE Pids'
  <2>1. p \in Asking /\ Asking' = Asking \ {p}
      BY <1>6, <1>0 DEF fork_fails, TypeOK, Asking
  <2>2. Cardinality(Asking') = Cardinality(Asking) - 1
      BY <1>a, <2>1
  <2>3. /\ nextpid' <= nextpid + 1 /\ nextpid \in Nat /\ nextpid' \in Nat
        /\ nextpid <= nextpid' /\ nextpid >= 2
      BY <1>6, <1>0 DEF fork_fails, TypeOK
  <2>4. nextpid' + Cardinality(Asking') <= MaxPid + 1
      BY <1>0, <1>a, <2>2, <2>3, ProcAssumption DEF Pids
  <2>5. \A s \in Slots : pid[s] \in Nat /\ pid[s] < nextpid
      BY <1>0 DEF Pids, TypeOK
  <2>7. \A s \in Slots : pid'[s] < nextpid' /\ (state'[s] = "UNUSED" <=> pid'[s] = 0)
      BY <1>6, <1>0, <2>3, <2>5 DEF fork_fails, Pids, TypeOK
  <2>8. \A s, t \in Slots : pid'[s] = pid'[t] /\ pid'[s] # 0 => s = t
      BY <1>6, <1>0, <2>3, <2>5 DEF fork_fails, Pids, TypeOK
  <2>9. QED
      BY <2>4, <2>7, <2>8 DEF Pids
<1>7. ASSUME NEW p \in Slots, fork_parent(p) PROVE Pids'
  <2>1. Asking' = Asking
      BY <1>7, <1>0 DEF fork_parent, TypeOK, Asking, Threads, Locks, Kernel,
         Forking, Alive
  <2>2. QED
      BY <1>7, <1>0, <1>a, <2>1 DEF fork_parent, Pids, TypeOK
<1>8. ASSUME NEW p \in Slots, fork_runnable(p) PROVE Pids'
  <2>1. PICK np \in Slots : np = idx[p]
      BY <1>8, <1>0 DEF fork_runnable, Forks, Forking
  <2>2. np # p /\ pc[np] = "none" /\ pc[p] = "fork_runnable" /\ state[np] = "USED"
      BY <1>8, <1>0, <2>1 DEF fork_runnable, Forks, Forking, Threads, Kernel,
         TypeOK, Alive
  <2>3. /\ pc' = [pc EXCEPT ![p] = "user", ![np] = "user"]
        /\ state' = [state EXCEPT ![np] = "RUNNABLE"] /\ pid' = pid /\ nextpid' = nextpid
      BY <1>8, <2>1 DEF fork_runnable
  <2>4. \A q \in Slots : pc'[q] = "allocproc" <=> pc[q] = "allocproc"
      BY <1>0, <2>2, <2>3 DEF TypeOK
  <2>5. Asking' = Asking
      BY <2>4 DEF Asking
  <2>6. \A s \in Slots : state'[s] = "UNUSED" <=> state[s] = "UNUSED"
      BY <1>0, <2>2, <2>3 DEF TypeOK
  <2>7. QED
      BY <1>0, <2>3, <2>5, <2>6 DEF Pids
<1>9. ASSUME NEW p \in Slots, reparent(p) PROVE Pids'
  <2>1. Asking' = Asking
      BY <1>9, <1>0 DEF reparent, TypeOK, Asking, Threads, Locks, Kernel, Forking,
         Alive
  <2>2. QED
      BY <1>9, <1>0, <1>a, <2>1 DEF reparent, Pids, TypeOK
<1>10. ASSUME NEW p \in Slots, exit_wakeup(p) PROVE Pids'
  <2>1. Asking' = Asking
      BY <1>10, <1>0 DEF exit_wakeup, TypeOK, Asking, Threads, Locks, Kernel,
         Forking, Alive
  <2>2. QED
      BY <1>10, <1>0, <1>a, <2>1 DEF exit_wakeup, Pids, TypeOK
<1>11. ASSUME NEW p \in Slots, exit_zombie(p) PROVE Pids'
  <2>1. Asking' = Asking
      BY <1>11, <1>0 DEF exit_zombie, TypeOK, Asking, Threads, Locks, Kernel,
         Forking, Alive
  <2>2. QED
      BY <1>11, <1>0, <1>a, <2>1 DEF exit_zombie, Pids, TypeOK
<1>12. ASSUME NEW p \in Slots, exit_sched(p) PROVE Pids'
  <2>1. Asking' = Asking
      BY <1>12, <1>0 DEF exit_sched, TypeOK, Asking, Threads, Locks, Kernel,
         Forking, Alive
  <2>2. QED
      BY <1>12, <1>0, <1>a, <2>1 DEF exit_sched, Pids, TypeOK
<1>13. ASSUME NEW p \in Slots, wait_acquire(p) PROVE Pids'
  <2>1. Asking' = Asking
      BY <1>13, <1>0 DEF wait_acquire, TypeOK, Asking, Threads, Locks, Kernel,
         Forking, Alive
  <2>2. QED
      BY <1>13, <1>0, <1>a, <2>1 DEF wait_acquire, Pids, TypeOK
<1>14. ASSUME NEW p \in Slots, wait_skip(p) PROVE Pids'
  <2>1. Asking' = Asking
      BY <1>14, <1>0 DEF wait_skip, TypeOK, Asking, Threads, Locks, Kernel,
         Forking, Alive
  <2>2. QED
      BY <1>14, <1>0, <1>a, <2>1 DEF wait_skip, Pids, TypeOK
<1>15. ASSUME NEW p \in Slots, wait_child(p) PROVE Pids'
  <2>1. Asking' = Asking
      BY <1>15, <1>0 DEF wait_child, TypeOK, Asking, Threads, Locks, Kernel,
         Forking, Alive
  <2>2. QED
      BY <1>15, <1>0, <1>a, <2>1 DEF wait_child, Pids, TypeOK
<1>16. ASSUME NEW p \in Slots, wait_reap(p) PROVE Pids'
  <2>1. Asking' = Asking
      BY <1>16, <1>0 DEF wait_reap, TypeOK, Asking, Threads, Locks, Kernel,
         Forking, Alive
  <2>2. QED
      BY <1>16, <1>0, <1>a, <2>1 DEF wait_reap, Pids, TypeOK
<1>17. ASSUME NEW p \in Slots, wait_copyout_fails(p) PROVE Pids'
  <2>1. Asking' = Asking
      BY <1>17, <1>0 DEF wait_copyout_fails, TypeOK, Asking, Threads, Locks,
         Kernel, Forking, Alive
  <2>2. QED
      BY <1>17, <1>0, <1>a, <2>1 DEF wait_copyout_fails, Pids, TypeOK
<1>18. ASSUME NEW p \in Slots, wait_nobody(p) PROVE Pids'
  <2>1. Asking' = Asking
      BY <1>18, <1>0 DEF wait_nobody, TypeOK, Asking, Threads, Locks, Kernel,
         Forking, Alive
  <2>2. QED
      BY <1>18, <1>0, <1>a, <2>1 DEF wait_nobody, Pids, TypeOK
<1>19. ASSUME NEW p \in Slots, wait_sleep(p) PROVE Pids'
  <2>1. Asking' = Asking
      BY <1>19, <1>0 DEF wait_sleep, TypeOK, Asking, Threads, Locks, Kernel,
         Forking, Alive
  <2>2. QED
      BY <1>19, <1>0, <1>a, <2>1 DEF wait_sleep, Pids, TypeOK
<1>20. ASSUME NEW p \in Slots, sleep(p) PROVE Pids'
  <2>1. Asking' = Asking
      BY <1>20, <1>0 DEF sleep, TypeOK, Asking, Threads, Locks, Kernel, Forking,
         Alive
  <2>2. QED
      BY <1>20, <1>0, <1>a, <2>1 DEF sleep, Pids, TypeOK
<1>21. ASSUME NEW p \in Slots, sleep_sched(p) PROVE Pids'
  <2>1. Asking' = Asking
      BY <1>21, <1>0 DEF sleep_sched, TypeOK, Asking, Threads, Locks, Kernel,
         Forking, Alive
  <2>2. QED
      BY <1>21, <1>0, <1>a, <2>1 DEF sleep_sched, Pids, TypeOK
<1>22. ASSUME NEW p \in Slots, fork(p) PROVE Pids'
  <2>1. p \notin Asking /\ Asking' = Asking \cup {p}
      BY <1>22, <1>0 DEF fork, TypeOK, Asking
  <2>2. Cardinality(Asking') = Cardinality(Asking) + 1
      BY <1>a, <2>1, FS_AddElement
  <2>3. nextpid' = nextpid /\ nextpid + Cardinality(Asking) <= MaxPid
      BY <1>22 DEF fork, Asking
  <2>4. nextpid' + Cardinality(Asking') <= MaxPid + 1
      BY <1>0, <1>a, <2>2, <2>3, ProcAssumption DEF TypeOK
  <2>5. QED
      BY <1>22, <1>0, <2>4 DEF fork, Pids, TypeOK
<1>23. ASSUME NEW p \in Slots, exit(p) PROVE Pids'
  <2>1. Asking' = Asking
      BY <1>23, <1>0 DEF exit, TypeOK, Asking, Threads, Locks, Kernel, Forking,
         Alive
  <2>2. QED
      BY <1>23, <1>0, <1>a, <2>1 DEF exit, Pids, TypeOK
<1>24. ASSUME NEW p \in Slots, wait(p) PROVE Pids'
  <2>1. Asking' = Asking
      BY <1>24, <1>0 DEF wait, TypeOK, Asking, Threads, Locks, Kernel, Forking,
         Alive
  <2>2. QED
      BY <1>24, <1>0, <1>a, <2>1 DEF wait, Pids, TypeOK
<1>25. ASSUME NEW p \in Slots, NEW target \in Targets, kill(p, target) PROVE Pids'
  <2>1. Asking' = Asking
      BY <1>25, <1>0 DEF kill, TypeOK, Asking, Threads, Locks, Kernel, Forking,
         Alive
  <2>2. QED
      BY <1>25, <1>0, <1>a, <2>1 DEF kill, Pids, TypeOK
<1>26. QED
    BY <1>1, <1>2, <1>3, <1>4, <1>5, <1>6, <1>7, <1>8, <1>9, <1>10,
       <1>11, <1>12, <1>13, <1>14, <1>15, <1>16, <1>17, <1>18, <1>19, <1>20,
       <1>21, <1>22, <1>23, <1>24, <1>25 DEF Next, InKernel

LEMMA MarksKept ==
    ASSUME ~KillZero, ProcInv, [Next]_vars
    PROVE  Marks'
<1> USE DEF At, Goto, NextSlot, FirstSlot, wakeup, freeproc, Call, wait_return, procVars
<1>0. /\ TypeOK /\ Threads /\ Locks /\ Loops /\ Forks /\ Exits /\ FamilyTree /\ Pids /\ Marks
      /\ initproc \in Slots /\ Null \notin Slots
    BY SlotFacts DEF ProcInv
<1>1. CASE UNCHANGED vars
    BY <1>1, <1>0 DEF vars, Marks, OnlyTheCondemned
<1>2. ASSUME NEW p \in Slots, scheduler(p) PROVE Marks'
    BY <1>2, <1>0 DEF scheduler, TypeOK, Pids, Marks, OnlyTheCondemned
<1>3. ASSUME NEW p \in Slots, allocproc_skip(p) PROVE Marks'
    BY <1>3, <1>0 DEF allocproc_skip, TypeOK, Pids, Marks, OnlyTheCondemned
<1>4. ASSUME NEW p \in Slots, allocproc_full(p) PROVE Marks'
    BY <1>4, <1>0 DEF allocproc_full, TypeOK, Pids, Marks, OnlyTheCondemned
<1>5. ASSUME NEW p \in Slots, allocproc(p) PROVE Marks'
    BY <1>5, <1>0 DEF allocproc, TypeOK, Pids, Marks, OnlyTheCondemned
<1>6. ASSUME NEW p \in Slots, fork_fails(p) PROVE Marks'
    BY <1>6, <1>0 DEF fork_fails, TypeOK, Pids, Marks, OnlyTheCondemned
<1>7. ASSUME NEW p \in Slots, fork_parent(p) PROVE Marks'
    BY <1>7, <1>0 DEF fork_parent, TypeOK, Pids, Marks, OnlyTheCondemned
<1>8. ASSUME NEW p \in Slots, fork_runnable(p) PROVE Marks'
    BY <1>8, <1>0 DEF fork_runnable, TypeOK, Pids, Marks, OnlyTheCondemned
<1>9. ASSUME NEW p \in Slots, reparent(p) PROVE Marks'
    BY <1>9, <1>0 DEF reparent, TypeOK, Pids, Marks, OnlyTheCondemned
<1>10. ASSUME NEW p \in Slots, exit_wakeup(p) PROVE Marks'
    BY <1>10, <1>0 DEF exit_wakeup, TypeOK, Pids, Marks, OnlyTheCondemned
<1>11. ASSUME NEW p \in Slots, exit_zombie(p) PROVE Marks'
    BY <1>11, <1>0 DEF exit_zombie, TypeOK, Pids, Marks, OnlyTheCondemned
<1>12. ASSUME NEW p \in Slots, exit_sched(p) PROVE Marks'
    BY <1>12, <1>0 DEF exit_sched, TypeOK, Pids, Marks, OnlyTheCondemned
<1>13. ASSUME NEW p \in Slots, wait_acquire(p) PROVE Marks'
    BY <1>13, <1>0 DEF wait_acquire, TypeOK, Pids, Marks, OnlyTheCondemned
<1>14. ASSUME NEW p \in Slots, wait_skip(p) PROVE Marks'
    BY <1>14, <1>0 DEF wait_skip, TypeOK, Pids, Marks, OnlyTheCondemned
<1>15. ASSUME NEW p \in Slots, wait_child(p) PROVE Marks'
    BY <1>15, <1>0 DEF wait_child, TypeOK, Pids, Marks, OnlyTheCondemned
<1>16. ASSUME NEW p \in Slots, wait_reap(p) PROVE Marks'
    BY <1>16, <1>0 DEF wait_reap, TypeOK, Pids, Marks, OnlyTheCondemned
<1>17. ASSUME NEW p \in Slots, wait_copyout_fails(p) PROVE Marks'
    BY <1>17, <1>0 DEF wait_copyout_fails, TypeOK, Pids, Marks, OnlyTheCondemned
<1>18. ASSUME NEW p \in Slots, wait_nobody(p) PROVE Marks'
    BY <1>18, <1>0 DEF wait_nobody, TypeOK, Pids, Marks, OnlyTheCondemned
<1>19. ASSUME NEW p \in Slots, wait_sleep(p) PROVE Marks'
    BY <1>19, <1>0 DEF wait_sleep, TypeOK, Pids, Marks, OnlyTheCondemned
<1>20. ASSUME NEW p \in Slots, sleep(p) PROVE Marks'
    BY <1>20, <1>0 DEF sleep, TypeOK, Pids, Marks, OnlyTheCondemned
<1>21. ASSUME NEW p \in Slots, sleep_sched(p) PROVE Marks'
    BY <1>21, <1>0 DEF sleep_sched, TypeOK, Pids, Marks, OnlyTheCondemned
<1>22. ASSUME NEW p \in Slots, fork(p) PROVE Marks'
    BY <1>22, <1>0 DEF fork, TypeOK, Pids, Marks, OnlyTheCondemned
<1>23. ASSUME NEW p \in Slots, exit(p) PROVE Marks'
    BY <1>23, <1>0 DEF exit, TypeOK, Pids, Marks, OnlyTheCondemned
<1>24. ASSUME NEW p \in Slots, wait(p) PROVE Marks'
    BY <1>24, <1>0 DEF wait, TypeOK, Pids, Marks, OnlyTheCondemned
<1>25. ASSUME NEW p \in Slots, NEW target \in Targets, kill(p, target) PROVE Marks'
    BY <1>25, <1>0 DEF kill, TypeOK, Pids, Marks, OnlyTheCondemned, Targets
<1>26. QED
    BY <1>1, <1>2, <1>3, <1>4, <1>5, <1>6, <1>7, <1>8, <1>9, <1>10,
       <1>11, <1>12, <1>13, <1>14, <1>15, <1>16, <1>17, <1>18, <1>19, <1>20,
       <1>21, <1>22, <1>23, <1>24, <1>25 DEF Next, InKernel

LEMMA InitInv == ASSUME Init PROVE ProcInv
<1> USE DEF Init
<1>0. initproc \in Slots /\ Null \notin Slots /\ initproc = 1
    BY SlotFacts DEF initproc
<1>1. TypeOK
    BY <1>0, ProcAssumption DEF TypeOK, States, Places, Slots, Null
<1>2. Threads /\ Locks
    BY <1>0 DEF Threads, Locks, Kernel, Alive
<1>3. Loops /\ Forks /\ FamilyTree
    BY <1>0 DEF Loops, Forks, Forking, FamilyTree
<1>4. Exits /\ Waits
    BY <1>0 DEF Exits, Waits, Alive
<1>5. Asking = {}
    BY DEF Asking
<1>6. Pids
  <2>1. nextpid + Cardinality(Asking) <= MaxPid + 1
      BY <1>5, FS_EmptySet, ProcAssumption
  <2>2. QED
      BY <1>0, <2>1 DEF Pids, Slots
<1>7. Marks
    BY DEF Marks, OnlyTheCondemned
<1>8. QED
    BY <1>1, <1>2, <1>3, <1>4, <1>6, <1>7 DEF ProcInv

LEMMA InvKept == ASSUME ProcInv, [Next]_vars PROVE ProcInv'
<1>1. CASE KillZero
    BY <1>1, TypesKept, ThreadsKept, LoopsKept, ForksKept, ExitsKept, FamilyKept,
       WaitsKept, PidsKept DEF ProcInv
<1>2. CASE ~KillZero
    BY <1>2, TypesKept, ThreadsKept, LoopsKept, ForksKept, ExitsKept, FamilyKept,
       WaitsKept, PidsKept, MarksKept DEF ProcInv
<1>3. QED
    BY <1>1, <1>2

LEMMA InvSound ==
    ASSUME ProcInv
    PROVE  TableOK /\ StackRetired /\ WaitsForSomething /\ (~KillZero => OnlyTheCondemned)
<1>1. TableOK
    BY DEF ProcInv, TableOK
<1>2. StackRetired
    BY DEF ProcInv, StackRetired, Threads, Kernel, Alive
<1>3. WaitsForSomething
  <2>1. TypeOK /\ Waits
      BY DEF ProcInv
  <2>2. ASSUME NEW p \in Slots, pc[p] = "wait", idx[p] \notin Slots, NEW s \in Slots
        PROVE  s < idx[p]
      BY <2>1, <2>2, ProcAssumption DEF TypeOK, Slots
  <2>3. QED
      BY <2>1, <2>2 DEF WaitsForSomething, Waits, HasChild, NoZombie
<1>4. ~KillZero => OnlyTheCondemned
    BY DEF ProcInv, Marks
<1>5. QED
    BY <1>1, <1>2, <1>3, <1>4

\* The invariant of the protocol of mp2 holds in every state.
THEOREM ProcInvariant == Spec => []ProcInv
<1>1. Init => ProcInv
    BY InitInv
<1>2. ProcInv /\ [Next]_vars => ProcInv'
    BY InvKept
<1>3. QED
    BY <1>1, <1>2, PTL DEF Spec

-----------------------------------------------------------------------------
(* The protocol of MP0 and mp1.                                            *)

Exiting == {"exit_parent", "exit_lock_parent", "exit_lock", "reparent"}
Leaving == {"exit_lock_parent", "exit_lock", "reparent"}

FamilyTypes ==
    /\ owner \in [Slots -> Slots \cup {Null}]
    /\ original_parent \in [Slots -> Slots \cup {Null}]

\* Where the thread of a process in each state is.  wait() sleeps inside its scan.
FamilyThreads ==
    \A p \in Slots :
        /\ pc[p] \in Exiting \cup {"allocproc", "wait_lock"} => state[p] = "RUNNING"
        /\ pc[p] = "user" => state[p] \in {"RUNNABLE", "RUNNING"}
        /\ pc[p] = "wait" => state[p] \in Alive
        /\ pc[p] = "exit_sched" => state[p] = "ZOMBIE"
        /\ pc[p] = "none" => state[p] \in {"UNUSED", "ZOMBIE"}
        /\ pc[p] \in Exiting \cup
               {"allocproc", "wait_lock", "user", "wait", "exit_sched", "none"}

\* Who holds which lock: its own, or that of the parent it had when exit() looked.
FamilyLocks ==
    \A p, s \in Slots :
        owner[s] = p <=>
            \/ p = s /\ (\/ pc[p] \in {"reparent", "exit_sched"}
                         \/ pc[p] = "wait" /\ state[p] = "RUNNING")
            \/ s = original_parent[p] /\ pc[p] \in {"exit_lock", "reparent"}

\* Every loop starts at the first slot, and wait() starts over when it has slept.
FamilyLoops ==
    \A p \in Slots :
        /\ pc[p] \notin {"allocproc", "reparent", "wait"} => idx[p] = 1
        /\ pc[p] # "wait" \/ state[p] # "RUNNING" => ~havekids[p]
        /\ pc[p] = "wait" /\ state[p] # "RUNNING" => idx[p] = 1

\* init lives and has no parent, nobody is its own parent and a free slot has none.
Lineage ==
    /\ state[initproc] \in Alive /\ parent[initproc] = Null
    /\ FamilyTree
    /\ \A s \in Slots : parent[s] # s /\ (state[s] = "UNUSED" => parent[s] = Null)

\* An exiting process has locked its parent unless init is its parent by now, and has no
\* child left below the slot that it has reached.
FamilyExits ==
    \A p \in Slots :
        /\ pc[p] \in Exiting => p # initproc
        /\ pc[p] \in Leaving =>
               /\ original_parent[p] \in Slots \ {p}
               /\ parent[p] \in {initproc, original_parent[p]}
        /\ pc[p] = "reparent" => \A s \in Slots : s < idx[p] => parent[s] # p

\* What the scan of wait() has seen is still so while the process holds its lock, and as
\* long as it sleeps.
FamilyWaits ==
    \A p \in Slots \ {initproc} :
        /\ pc[p] = "wait" => \A s \in Slots : s < idx[p] /\ parent[s] = p =>
                                 havekids[p] /\ state[s] # "ZOMBIE"
        /\ havekids[p] \/ state[p] = "SLEEPING" => HasChild(p)
        /\ state[p] = "SLEEPING" => NoZombie(p)

FamilyInv ==
    /\ TypeOK /\ FamilyTypes /\ FamilyThreads /\ FamilyLocks /\ FamilyLoops
    /\ Lineage /\ FamilyExits /\ FamilyWaits
    /\ nextpid + Cardinality(Asking) <= MaxPid + 1

LEMMA FamilyThreadsKept ==
    ASSUME FamilyInv, [FamilyNext]_<<vars, familyVars>>
    PROVE  FamilyThreads'
<1> USE DEF At, Goto, NextSlot, FirstSlot, wakeup, freeproc, Call, procVars, familyVars, Free, Held, Released
<1>0. /\ TypeOK /\ FamilyTypes /\ FamilyThreads /\ FamilyLocks /\ FamilyLoops
      /\ Lineage /\ FamilyExits /\ FamilyWaits
      /\ initproc \in Slots /\ Null \notin Slots
    BY SlotFacts DEF FamilyInv
<1>1. CASE UNCHANGED <<vars, familyVars>>
    BY <1>1, <1>0 DEF vars, FamilyThreads
<1>2. ASSUME NEW p \in Slots, schedule(p) PROVE FamilyThreads'
    BY <1>2, <1>0 DEF schedule, TypeOK, FamilyTypes, FamilyThreads, Alive,
       Exiting, Leaving, FamilyLocks, Lineage, FamilyTree, FamilyExits
<1>3. ASSUME NEW p \in Slots, fork_begins(p) PROVE FamilyThreads'
    BY <1>3, <1>0 DEF fork_begins, fork, TypeOK, FamilyTypes, FamilyThreads,
       Alive, Exiting, Leaving, FamilyLocks, Lineage, FamilyTree, FamilyExits
<1>4. ASSUME NEW p \in Slots, fork_skip(p) PROVE FamilyThreads'
    BY <1>4, <1>0 DEF fork_skip, allocproc_skip, TypeOK, FamilyTypes,
       FamilyThreads, Alive, Exiting, Leaving, FamilyLocks, Lineage, FamilyTree,
       FamilyExits
<1>5. ASSUME NEW p \in Slots, fork_full(p) PROVE FamilyThreads'
    BY <1>5, <1>0 DEF fork_full, allocproc_full, TypeOK, FamilyTypes,
       FamilyThreads, Alive, Exiting, Leaving, FamilyLocks, Lineage, FamilyTree,
       FamilyExits
<1>6. ASSUME NEW p \in Slots, fork_no_memory(p) PROVE FamilyThreads'
    BY <1>6, <1>0 DEF fork_no_memory, fork_fails, TypeOK, FamilyTypes,
       FamilyThreads, Alive, Exiting, Leaving, FamilyLocks, Lineage, FamilyTree,
       FamilyExits
<1>7. ASSUME NEW p \in Slots, fork_no_trapframe(p) PROVE FamilyThreads'
    BY <1>7, <1>0 DEF fork_no_trapframe, TypeOK, FamilyTypes, FamilyThreads,
       Alive, Exiting, Leaving, FamilyLocks, Lineage, FamilyTree, FamilyExits
<1>8. ASSUME NEW p \in Slots, fork_child(p) PROVE FamilyThreads'
    BY <1>8, <1>0 DEF fork_child, TypeOK, FamilyTypes, FamilyThreads, Alive,
       Exiting, Leaving, FamilyLocks, Lineage, FamilyTree, FamilyExits
<1>9. ASSUME NEW p \in Slots, exit_begins(p) PROVE FamilyThreads'
    BY <1>9, <1>0 DEF exit_begins, TypeOK, FamilyTypes, FamilyThreads, Alive,
       Exiting, Leaving, FamilyLocks, Lineage, FamilyTree, FamilyExits
<1>10. ASSUME NEW p \in Slots, exit_parent(p) PROVE FamilyThreads'
    BY <1>10, <1>0 DEF exit_parent, TypeOK, FamilyTypes, FamilyThreads, Alive,
       Exiting, Leaving, FamilyLocks, Lineage, FamilyTree, FamilyExits
<1>11. ASSUME NEW p \in Slots, exit_lock_parent(p) PROVE FamilyThreads'
    BY <1>11, <1>0 DEF exit_lock_parent, TypeOK, FamilyTypes, FamilyThreads,
       Alive, Exiting, Leaving, FamilyLocks, Lineage, FamilyTree, FamilyExits
<1>12. ASSUME NEW p \in Slots, exit_lock(p) PROVE FamilyThreads'
    BY <1>12, <1>0 DEF exit_lock, TypeOK, FamilyTypes, FamilyThreads, Alive,
       Exiting, Leaving, FamilyLocks, Lineage, FamilyTree, FamilyExits
<1>13. ASSUME NEW p \in Slots, reparent_child(p) PROVE FamilyThreads'
    BY <1>13, <1>0 DEF reparent_child, TypeOK, FamilyTypes, FamilyThreads, Alive,
       Exiting, Leaving, FamilyLocks, Lineage, FamilyTree, FamilyExits
<1>14. ASSUME NEW p \in Slots, exit_ends(p) PROVE FamilyThreads'
    BY <1>14, <1>0 DEF exit_ends, TypeOK, FamilyTypes, FamilyThreads, Alive,
       Exiting, Leaving, FamilyLocks, Lineage, FamilyTree, FamilyExits
<1>15. ASSUME NEW p \in Slots, exit_leaves(p) PROVE FamilyThreads'
    BY <1>15, <1>0 DEF exit_leaves, TypeOK, FamilyTypes, FamilyThreads, Alive,
       Exiting, Leaving, FamilyLocks, Lineage, FamilyTree, FamilyExits
<1>16. ASSUME NEW p \in Slots, wait_begins(p) PROVE FamilyThreads'
    BY <1>16, <1>0 DEF wait_begins, TypeOK, FamilyTypes, FamilyThreads, Alive,
       Exiting, Leaving, FamilyLocks, Lineage, FamilyTree, FamilyExits
<1>17. ASSUME NEW p \in Slots, wait_locks(p) PROVE FamilyThreads'
    BY <1>17, <1>0 DEF wait_locks, TypeOK, FamilyTypes, FamilyThreads, Alive,
       Exiting, Leaving, FamilyLocks, Lineage, FamilyTree, FamilyExits
<1>18. ASSUME NEW p \in Slots, wait_other(p) PROVE FamilyThreads'
    BY <1>18, <1>0 DEF wait_other, wait_skip, TypeOK, FamilyTypes, FamilyThreads,
       Alive, Exiting, Leaving, FamilyLocks, Lineage, FamilyTree, FamilyExits
<1>19. ASSUME NEW p \in Slots, wait_living(p) PROVE FamilyThreads'
    BY <1>19, <1>0 DEF wait_living, wait_child, TypeOK, FamilyTypes,
       FamilyThreads, Alive, Exiting, Leaving, FamilyLocks, Lineage, FamilyTree,
       FamilyExits
<1>20. ASSUME NEW p \in Slots, wait_reaps(p) PROVE FamilyThreads'
    BY <1>20, <1>0 DEF wait_reaps, wait_finds, wait_returns, TypeOK, FamilyTypes,
       FamilyThreads, Alive, Exiting, Leaving, FamilyLocks, Lineage, FamilyTree,
       FamilyExits
<1>21. ASSUME NEW p \in Slots, wait_no_copyout(p) PROVE FamilyThreads'
    BY <1>21, <1>0 DEF wait_no_copyout, wait_finds, wait_returns, TypeOK,
       FamilyTypes, FamilyThreads, Alive, Exiting, Leaving, FamilyLocks, Lineage,
       FamilyTree, FamilyExits
<1>22. ASSUME NEW p \in Slots, wait_alone(p) PROVE FamilyThreads'
    BY <1>22, <1>0 DEF wait_alone, wait_returns, TypeOK, FamilyTypes,
       FamilyThreads, Alive, Exiting, Leaving, FamilyLocks, Lineage, FamilyTree,
       FamilyExits
<1>23. ASSUME NEW p \in Slots, wait_sleeps(p) PROVE FamilyThreads'
    BY <1>23, <1>0 DEF wait_sleeps, TypeOK, FamilyTypes, FamilyThreads, Alive,
       Exiting, Leaving, FamilyLocks, Lineage, FamilyTree, FamilyExits
<1>24. ASSUME NEW p \in Slots, NEW target \in Targets, kills(p, target) PROVE FamilyThreads'
    BY <1>24, <1>0 DEF kills, kill, TypeOK, FamilyTypes, FamilyThreads, Alive,
       Exiting, Leaving, FamilyLocks, Lineage, FamilyTree, FamilyExits
<1>25. QED
    BY <1>1, <1>2, <1>3, <1>4, <1>5, <1>6, <1>7, <1>8, <1>9, <1>10,
       <1>11, <1>12, <1>13, <1>14, <1>15, <1>16, <1>17, <1>18, <1>19, <1>20,
       <1>21, <1>22, <1>23, <1>24 DEF FamilyNext, FamilyStep

LEMMA FamilyLocksKept ==
    ASSUME FamilyInv, [FamilyNext]_<<vars, familyVars>>
    PROVE  FamilyLocks'
<1> USE DEF At, Goto, NextSlot, FirstSlot, wakeup, freeproc, Call, procVars, familyVars, Free, Held, Released
<1>0. /\ TypeOK /\ FamilyTypes /\ FamilyThreads /\ FamilyLocks /\ FamilyLoops
      /\ Lineage /\ FamilyExits /\ FamilyWaits
      /\ initproc \in Slots /\ Null \notin Slots
    BY SlotFacts DEF FamilyInv
<1>1. CASE UNCHANGED <<vars, familyVars>>
    BY <1>1, <1>0 DEF vars, FamilyLocks
<1>2. ASSUME NEW p \in Slots, schedule(p) PROVE FamilyLocks'
    BY <1>2, <1>0 DEF schedule, TypeOK, FamilyTypes, FamilyThreads, Alive,
       Exiting, Leaving, FamilyLocks, Lineage, FamilyTree, FamilyExits
<1>3. ASSUME NEW p \in Slots, fork_begins(p) PROVE FamilyLocks'
    BY <1>3, <1>0 DEF fork_begins, fork, TypeOK, FamilyTypes, FamilyThreads,
       Alive, Exiting, Leaving, FamilyLocks, Lineage, FamilyTree, FamilyExits
<1>4. ASSUME NEW p \in Slots, fork_skip(p) PROVE FamilyLocks'
    BY <1>4, <1>0 DEF fork_skip, allocproc_skip, TypeOK, FamilyTypes,
       FamilyThreads, Alive, Exiting, Leaving, FamilyLocks, Lineage, FamilyTree,
       FamilyExits
<1>5. ASSUME NEW p \in Slots, fork_full(p) PROVE FamilyLocks'
    BY <1>5, <1>0 DEF fork_full, allocproc_full, TypeOK, FamilyTypes,
       FamilyThreads, Alive, Exiting, Leaving, FamilyLocks, Lineage, FamilyTree,
       FamilyExits
<1>6. ASSUME NEW p \in Slots, fork_no_memory(p) PROVE FamilyLocks'
    BY <1>6, <1>0 DEF fork_no_memory, fork_fails, TypeOK, FamilyTypes,
       FamilyThreads, Alive, Exiting, Leaving, FamilyLocks, Lineage, FamilyTree,
       FamilyExits
<1>7. ASSUME NEW p \in Slots, fork_no_trapframe(p) PROVE FamilyLocks'
    BY <1>7, <1>0 DEF fork_no_trapframe, TypeOK, FamilyTypes, FamilyThreads,
       Alive, Exiting, Leaving, FamilyLocks, Lineage, FamilyTree, FamilyExits
<1>8. ASSUME NEW p \in Slots, fork_child(p) PROVE FamilyLocks'
    BY <1>8, <1>0 DEF fork_child, TypeOK, FamilyTypes, FamilyThreads, Alive,
       Exiting, Leaving, FamilyLocks, Lineage, FamilyTree, FamilyExits
<1>9. ASSUME NEW p \in Slots, exit_begins(p) PROVE FamilyLocks'
    BY <1>9, <1>0 DEF exit_begins, TypeOK, FamilyTypes, FamilyThreads, Alive,
       Exiting, Leaving, FamilyLocks, Lineage, FamilyTree, FamilyExits
<1>10. ASSUME NEW p \in Slots, exit_parent(p) PROVE FamilyLocks'
    BY <1>10, <1>0 DEF exit_parent, TypeOK, FamilyTypes, FamilyThreads, Alive,
       Exiting, Leaving, FamilyLocks, Lineage, FamilyTree, FamilyExits
<1>11. ASSUME NEW p \in Slots, exit_lock_parent(p) PROVE FamilyLocks'
    BY <1>11, <1>0 DEF exit_lock_parent, TypeOK, FamilyTypes, FamilyThreads,
       Alive, Exiting, Leaving, FamilyLocks, Lineage, FamilyTree, FamilyExits
<1>12. ASSUME NEW p \in Slots, exit_lock(p) PROVE FamilyLocks'
    BY <1>12, <1>0 DEF exit_lock, TypeOK, FamilyTypes, FamilyThreads, Alive,
       Exiting, Leaving, FamilyLocks, Lineage, FamilyTree, FamilyExits
<1>13. ASSUME NEW p \in Slots, reparent_child(p) PROVE FamilyLocks'
    BY <1>13, <1>0 DEF reparent_child, TypeOK, FamilyTypes, FamilyThreads, Alive,
       Exiting, Leaving, FamilyLocks, Lineage, FamilyTree, FamilyExits
<1>14. ASSUME NEW p \in Slots, exit_ends(p) PROVE FamilyLocks'
    BY <1>14, <1>0 DEF exit_ends, TypeOK, FamilyTypes, FamilyThreads, Alive,
       Exiting, Leaving, FamilyLocks, Lineage, FamilyTree, FamilyExits
<1>15. ASSUME NEW p \in Slots, exit_leaves(p) PROVE FamilyLocks'
    BY <1>15, <1>0 DEF exit_leaves, TypeOK, FamilyTypes, FamilyThreads, Alive,
       Exiting, Leaving, FamilyLocks, Lineage, FamilyTree, FamilyExits
<1>16. ASSUME NEW p \in Slots, wait_begins(p) PROVE FamilyLocks'
    BY <1>16, <1>0 DEF wait_begins, TypeOK, FamilyTypes, FamilyThreads, Alive,
       Exiting, Leaving, FamilyLocks, Lineage, FamilyTree, FamilyExits
<1>17. ASSUME NEW p \in Slots, wait_locks(p) PROVE FamilyLocks'
    BY <1>17, <1>0 DEF wait_locks, TypeOK, FamilyTypes, FamilyThreads, Alive,
       Exiting, Leaving, FamilyLocks, Lineage, FamilyTree, FamilyExits
<1>18. ASSUME NEW p \in Slots, wait_other(p) PROVE FamilyLocks'
    BY <1>18, <1>0 DEF wait_other, wait_skip, TypeOK, FamilyTypes, FamilyThreads,
       Alive, Exiting, Leaving, FamilyLocks, Lineage, FamilyTree, FamilyExits
<1>19. ASSUME NEW p \in Slots, wait_living(p) PROVE FamilyLocks'
    BY <1>19, <1>0 DEF wait_living, wait_child, TypeOK, FamilyTypes,
       FamilyThreads, Alive, Exiting, Leaving, FamilyLocks, Lineage, FamilyTree,
       FamilyExits
<1>20. ASSUME NEW p \in Slots, wait_reaps(p) PROVE FamilyLocks'
    BY <1>20, <1>0 DEF wait_reaps, wait_finds, wait_returns, TypeOK, FamilyTypes,
       FamilyThreads, Alive, Exiting, Leaving, FamilyLocks, Lineage, FamilyTree,
       FamilyExits
<1>21. ASSUME NEW p \in Slots, wait_no_copyout(p) PROVE FamilyLocks'
    BY <1>21, <1>0 DEF wait_no_copyout, wait_finds, wait_returns, TypeOK,
       FamilyTypes, FamilyThreads, Alive, Exiting, Leaving, FamilyLocks, Lineage,
       FamilyTree, FamilyExits
<1>22. ASSUME NEW p \in Slots, wait_alone(p) PROVE FamilyLocks'
    BY <1>22, <1>0 DEF wait_alone, wait_returns, TypeOK, FamilyTypes,
       FamilyThreads, Alive, Exiting, Leaving, FamilyLocks, Lineage, FamilyTree,
       FamilyExits
<1>23. ASSUME NEW p \in Slots, wait_sleeps(p) PROVE FamilyLocks'
    BY <1>23, <1>0 DEF wait_sleeps, TypeOK, FamilyTypes, FamilyThreads, Alive,
       Exiting, Leaving, FamilyLocks, Lineage, FamilyTree, FamilyExits
<1>24. ASSUME NEW p \in Slots, NEW target \in Targets, kills(p, target) PROVE FamilyLocks'
    BY <1>24, <1>0 DEF kills, kill, TypeOK, FamilyTypes, FamilyThreads, Alive,
       Exiting, Leaving, FamilyLocks, Lineage, FamilyTree, FamilyExits
<1>25. QED
    BY <1>1, <1>2, <1>3, <1>4, <1>5, <1>6, <1>7, <1>8, <1>9, <1>10,
       <1>11, <1>12, <1>13, <1>14, <1>15, <1>16, <1>17, <1>18, <1>19, <1>20,
       <1>21, <1>22, <1>23, <1>24 DEF FamilyNext, FamilyStep

LEMMA FamilyLoopsKept ==
    ASSUME FamilyInv, [FamilyNext]_<<vars, familyVars>>
    PROVE  FamilyLoops'
<1> USE DEF At, Goto, NextSlot, FirstSlot, wakeup, freeproc, Call, procVars, familyVars, Free, Held, Released
<1>0. /\ TypeOK /\ FamilyTypes /\ FamilyThreads /\ FamilyLocks /\ FamilyLoops
      /\ Lineage /\ FamilyExits /\ FamilyWaits
      /\ initproc \in Slots /\ Null \notin Slots
    BY SlotFacts DEF FamilyInv
<1>1. CASE UNCHANGED <<vars, familyVars>>
    BY <1>1, <1>0 DEF vars, FamilyLoops
<1>2. ASSUME NEW p \in Slots, schedule(p) PROVE FamilyLoops'
    BY <1>2, <1>0 DEF schedule, TypeOK, FamilyTypes, FamilyThreads, Alive,
       Exiting, Leaving, FamilyLocks, FamilyLoops, Lineage, FamilyTree, FamilyExits
<1>3. ASSUME NEW p \in Slots, fork_begins(p) PROVE FamilyLoops'
    BY <1>3, <1>0 DEF fork_begins, fork, TypeOK, FamilyTypes, FamilyThreads,
       Alive, Exiting, Leaving, FamilyLocks, FamilyLoops, Lineage, FamilyTree,
       FamilyExits
<1>4. ASSUME NEW p \in Slots, fork_skip(p) PROVE FamilyLoops'
    BY <1>4, <1>0 DEF fork_skip, allocproc_skip, TypeOK, FamilyTypes,
       FamilyThreads, Alive, Exiting, Leaving, FamilyLocks, FamilyLoops, Lineage,
       FamilyTree, FamilyExits
<1>5. ASSUME NEW p \in Slots, fork_full(p) PROVE FamilyLoops'
    BY <1>5, <1>0 DEF fork_full, allocproc_full, TypeOK, FamilyTypes,
       FamilyThreads, Alive, Exiting, Leaving, FamilyLocks, FamilyLoops, Lineage,
       FamilyTree, FamilyExits
<1>6. ASSUME NEW p \in Slots, fork_no_memory(p) PROVE FamilyLoops'
    BY <1>6, <1>0 DEF fork_no_memory, fork_fails, TypeOK, FamilyTypes,
       FamilyThreads, Alive, Exiting, Leaving, FamilyLocks, FamilyLoops, Lineage,
       FamilyTree, FamilyExits
<1>7. ASSUME NEW p \in Slots, fork_no_trapframe(p) PROVE FamilyLoops'
    BY <1>7, <1>0 DEF fork_no_trapframe, TypeOK, FamilyTypes, FamilyThreads,
       Alive, Exiting, Leaving, FamilyLocks, FamilyLoops, Lineage, FamilyTree,
       FamilyExits
<1>8. ASSUME NEW p \in Slots, fork_child(p) PROVE FamilyLoops'
    BY <1>8, <1>0 DEF fork_child, TypeOK, FamilyTypes, FamilyThreads, Alive,
       Exiting, Leaving, FamilyLocks, FamilyLoops, Lineage, FamilyTree, FamilyExits
<1>9. ASSUME NEW p \in Slots, exit_begins(p) PROVE FamilyLoops'
    BY <1>9, <1>0 DEF exit_begins, TypeOK, FamilyTypes, FamilyThreads, Alive,
       Exiting, Leaving, FamilyLocks, FamilyLoops, Lineage, FamilyTree, FamilyExits
<1>10. ASSUME NEW p \in Slots, exit_parent(p) PROVE FamilyLoops'
    BY <1>10, <1>0 DEF exit_parent, TypeOK, FamilyTypes, FamilyThreads, Alive,
       Exiting, Leaving, FamilyLocks, FamilyLoops, Lineage, FamilyTree, FamilyExits
<1>11. ASSUME NEW p \in Slots, exit_lock_parent(p) PROVE FamilyLoops'
    BY <1>11, <1>0 DEF exit_lock_parent, TypeOK, FamilyTypes, FamilyThreads,
       Alive, Exiting, Leaving, FamilyLocks, FamilyLoops, Lineage, FamilyTree,
       FamilyExits
<1>12. ASSUME NEW p \in Slots, exit_lock(p) PROVE FamilyLoops'
    BY <1>12, <1>0 DEF exit_lock, TypeOK, FamilyTypes, FamilyThreads, Alive,
       Exiting, Leaving, FamilyLocks, FamilyLoops, Lineage, FamilyTree, FamilyExits
<1>13. ASSUME NEW p \in Slots, reparent_child(p) PROVE FamilyLoops'
    BY <1>13, <1>0 DEF reparent_child, TypeOK, FamilyTypes, FamilyThreads, Alive,
       Exiting, Leaving, FamilyLocks, FamilyLoops, Lineage, FamilyTree, FamilyExits
<1>14. ASSUME NEW p \in Slots, exit_ends(p) PROVE FamilyLoops'
    BY <1>14, <1>0 DEF exit_ends, TypeOK, FamilyTypes, FamilyThreads, Alive,
       Exiting, Leaving, FamilyLocks, FamilyLoops, Lineage, FamilyTree, FamilyExits
<1>15. ASSUME NEW p \in Slots, exit_leaves(p) PROVE FamilyLoops'
    BY <1>15, <1>0 DEF exit_leaves, TypeOK, FamilyTypes, FamilyThreads, Alive,
       Exiting, Leaving, FamilyLocks, FamilyLoops, Lineage, FamilyTree, FamilyExits
<1>16. ASSUME NEW p \in Slots, wait_begins(p) PROVE FamilyLoops'
    BY <1>16, <1>0 DEF wait_begins, TypeOK, FamilyTypes, FamilyThreads, Alive,
       Exiting, Leaving, FamilyLocks, FamilyLoops, Lineage, FamilyTree, FamilyExits
<1>17. ASSUME NEW p \in Slots, wait_locks(p) PROVE FamilyLoops'
    BY <1>17, <1>0 DEF wait_locks, TypeOK, FamilyTypes, FamilyThreads, Alive,
       Exiting, Leaving, FamilyLocks, FamilyLoops, Lineage, FamilyTree, FamilyExits
<1>18. ASSUME NEW p \in Slots, wait_other(p) PROVE FamilyLoops'
    BY <1>18, <1>0 DEF wait_other, wait_skip, TypeOK, FamilyTypes, FamilyThreads,
       Alive, Exiting, Leaving, FamilyLocks, FamilyLoops, Lineage, FamilyTree,
       FamilyExits
<1>19. ASSUME NEW p \in Slots, wait_living(p) PROVE FamilyLoops'
    BY <1>19, <1>0 DEF wait_living, wait_child, TypeOK, FamilyTypes,
       FamilyThreads, Alive, Exiting, Leaving, FamilyLocks, FamilyLoops, Lineage,
       FamilyTree, FamilyExits
<1>20. ASSUME NEW p \in Slots, wait_reaps(p) PROVE FamilyLoops'
    BY <1>20, <1>0 DEF wait_reaps, wait_finds, wait_returns, TypeOK, FamilyTypes,
       FamilyThreads, Alive, Exiting, Leaving, FamilyLocks, FamilyLoops, Lineage,
       FamilyTree, FamilyExits
<1>21. ASSUME NEW p \in Slots, wait_no_copyout(p) PROVE FamilyLoops'
    BY <1>21, <1>0 DEF wait_no_copyout, wait_finds, wait_returns, TypeOK,
       FamilyTypes, FamilyThreads, Alive, Exiting, Leaving, FamilyLocks,
       FamilyLoops, Lineage, FamilyTree, FamilyExits
<1>22. ASSUME NEW p \in Slots, wait_alone(p) PROVE FamilyLoops'
    BY <1>22, <1>0 DEF wait_alone, wait_returns, TypeOK, FamilyTypes,
       FamilyThreads, Alive, Exiting, Leaving, FamilyLocks, FamilyLoops, Lineage,
       FamilyTree, FamilyExits
<1>23. ASSUME NEW p \in Slots, wait_sleeps(p) PROVE FamilyLoops'
    BY <1>23, <1>0 DEF wait_sleeps, TypeOK, FamilyTypes, FamilyThreads, Alive,
       Exiting, Leaving, FamilyLocks, FamilyLoops, Lineage, FamilyTree, FamilyExits
<1>24. ASSUME NEW p \in Slots, NEW target \in Targets, kills(p, target) PROVE FamilyLoops'
    BY <1>24, <1>0 DEF kills, kill, TypeOK, FamilyTypes, FamilyThreads, Alive,
       Exiting, Leaving, FamilyLocks, FamilyLoops, Lineage, FamilyTree, FamilyExits
<1>25. QED
    BY <1>1, <1>2, <1>3, <1>4, <1>5, <1>6, <1>7, <1>8, <1>9, <1>10,
       <1>11, <1>12, <1>13, <1>14, <1>15, <1>16, <1>17, <1>18, <1>19, <1>20,
       <1>21, <1>22, <1>23, <1>24 DEF FamilyNext, FamilyStep

LEMMA LineageKept ==
    ASSUME FamilyInv, [FamilyNext]_<<vars, familyVars>>
    PROVE  Lineage'
<1> USE DEF At, Goto, NextSlot, FirstSlot, wakeup, freeproc, Call, procVars, familyVars, Free, Held, Released
<1>0. /\ TypeOK /\ FamilyTypes /\ FamilyThreads /\ FamilyLocks /\ FamilyLoops
      /\ Lineage /\ FamilyExits /\ FamilyWaits
      /\ initproc \in Slots /\ Null \notin Slots
    BY SlotFacts DEF FamilyInv
<1>1. CASE UNCHANGED <<vars, familyVars>>
    BY <1>1, <1>0 DEF vars, Lineage, FamilyTree
<1>2. ASSUME NEW p \in Slots, schedule(p) PROVE Lineage'
    BY <1>2, <1>0 DEF schedule, TypeOK, FamilyTypes, FamilyThreads, Alive,
       Exiting, Leaving, FamilyLocks, Lineage, FamilyTree, FamilyExits, Slots
<1>3. ASSUME NEW p \in Slots, fork_begins(p) PROVE Lineage'
    BY <1>3, <1>0 DEF fork_begins, fork, TypeOK, FamilyTypes, FamilyThreads,
       Alive, Exiting, Leaving, FamilyLocks, Lineage, FamilyTree, FamilyExits, Slots
<1>4. ASSUME NEW p \in Slots, fork_skip(p) PROVE Lineage'
    BY <1>4, <1>0 DEF fork_skip, allocproc_skip, TypeOK, FamilyTypes,
       FamilyThreads, Alive, Exiting, Leaving, FamilyLocks, Lineage, FamilyTree,
       FamilyExits, Slots
<1>5. ASSUME NEW p \in Slots, fork_full(p) PROVE Lineage'
    BY <1>5, <1>0 DEF fork_full, allocproc_full, TypeOK, FamilyTypes,
       FamilyThreads, Alive, Exiting, Leaving, FamilyLocks, Lineage, FamilyTree,
       FamilyExits, Slots
<1>6. ASSUME NEW p \in Slots, fork_no_memory(p) PROVE Lineage'
    BY <1>6, <1>0 DEF fork_no_memory, fork_fails, TypeOK, FamilyTypes,
       FamilyThreads, Alive, Exiting, Leaving, FamilyLocks, Lineage, FamilyTree,
       FamilyExits, Slots
<1>7. ASSUME NEW p \in Slots, fork_no_trapframe(p) PROVE Lineage'
    BY <1>7, <1>0 DEF fork_no_trapframe, TypeOK, FamilyTypes, FamilyThreads,
       Alive, Exiting, Leaving, FamilyLocks, Lineage, FamilyTree, FamilyExits, Slots
<1>8. ASSUME NEW p \in Slots, fork_child(p) PROVE Lineage'
    BY <1>8, <1>0 DEF fork_child, TypeOK, FamilyTypes, FamilyThreads, Alive,
       Exiting, Leaving, FamilyLocks, Lineage, FamilyTree, FamilyExits, Slots
<1>9. ASSUME NEW p \in Slots, exit_begins(p) PROVE Lineage'
    BY <1>9, <1>0 DEF exit_begins, TypeOK, FamilyTypes, FamilyThreads, Alive,
       Exiting, Leaving, FamilyLocks, Lineage, FamilyTree, FamilyExits, Slots
<1>10. ASSUME NEW p \in Slots, exit_parent(p) PROVE Lineage'
    BY <1>10, <1>0 DEF exit_parent, TypeOK, FamilyTypes, FamilyThreads, Alive,
       Exiting, Leaving, FamilyLocks, Lineage, FamilyTree, FamilyExits, Slots
<1>11. ASSUME NEW p \in Slots, exit_lock_parent(p) PROVE Lineage'
    BY <1>11, <1>0 DEF exit_lock_parent, TypeOK, FamilyTypes, FamilyThreads,
       Alive, Exiting, Leaving, FamilyLocks, Lineage, FamilyTree, FamilyExits, Slots
<1>12. ASSUME NEW p \in Slots, exit_lock(p) PROVE Lineage'
    BY <1>12, <1>0 DEF exit_lock, TypeOK, FamilyTypes, FamilyThreads, Alive,
       Exiting, Leaving, FamilyLocks, Lineage, FamilyTree, FamilyExits, Slots
<1>13. ASSUME NEW p \in Slots, reparent_child(p) PROVE Lineage'
  <2>1. /\ idx[p] \in Slots /\ state' = state
        /\ \/ parent' = parent
           \/ parent[idx[p]] = p /\ parent' = [parent EXCEPT ![idx[p]] = initproc]
      BY <1>13 DEF reparent_child
  <2>2. \A s \in Slots :
            \/ parent'[s] = parent[s]
            \/ parent[s] # Null /\ parent'[s] = initproc /\ s # initproc
    <3>1. PICK c \in Slots : c = idx[p]
        BY <2>1
    <3>2. \/ parent' = parent
          \/ /\ parent[c] = p
             /\ parent' = [parent EXCEPT ![c] = initproc]
        BY <2>1, <3>1
    <3>3. parent[initproc] = Null /\ p # Null
        BY <1>0 DEF Lineage
    <3>4. QED
        BY <1>0, <3>2, <3>3 DEF TypeOK
  <2>3. parent'[initproc] = Null
      BY <1>0, <2>2 DEF Lineage
  <2>4. QED
      BY <1>0, <2>1, <2>2, <2>3 DEF Lineage, FamilyTree, Alive
<1>14. ASSUME NEW p \in Slots, exit_ends(p) PROVE Lineage'
  <2>1. /\ p # initproc /\ original_parent[p] \in Slots \ {p} /\ parent' = parent
        /\ state' = [wakeup(original_parent[p]) EXCEPT ![p] = "ZOMBIE"]
        /\ state[p] = "RUNNING" /\ \A s \in Slots : parent[s] # p
    <3>1. \A s \in Slots : s < idx[p]
        BY <1>14, <1>0, ProcAssumption DEF exit_ends, TypeOK, Slots
    <3>2. QED
        BY <1>14, <1>0, <3>1 DEF exit_ends, FamilyExits, Exiting, Leaving
  <2>2. /\ state'[p] = "ZOMBIE"
        /\ \A s \in Slots \ {p} :
               \/ state'[s] = state[s]
               \/ state[s] = "SLEEPING" /\ state'[s] = "RUNNABLE"
    <3>1. PICK o \in Slots \ {p} : o = original_parent[p]
        BY <2>1
    <3>2. CASE state[o] = "SLEEPING"
      <4>1. state' = [[state EXCEPT ![o] = "RUNNABLE"] EXCEPT ![p] = "ZOMBIE"]
          BY <2>1, <3>1, <3>2
      <4>2. QED
          BY <1>0, <3>2, <4>1 DEF TypeOK
    <3>3. CASE state[o] # "SLEEPING"
      <4>1. state' = [state EXCEPT ![p] = "ZOMBIE"]
          BY <2>1, <3>1, <3>3
      <4>2. QED
          BY <1>0, <4>1 DEF TypeOK
    <3>4. QED
        BY <3>2, <3>3
  <2>3. \A s \in Slots : parent[s] \in Slots \cup {Null}
      BY <1>0 DEF TypeOK
  <2>4. state'[initproc] \in Alive
      BY <1>0, <2>1, <2>2 DEF Lineage, Alive
  <2>5. ASSUME NEW s \in Slots, parent[s] # Null PROVE state'[parent[s]] \in Alive
      BY <1>0, <2>1, <2>2, <2>3, <2>5 DEF Lineage, FamilyTree, Alive
  <2>6. ASSUME NEW s \in Slots \ {initproc}, state'[s] \notin {"UNUSED", "USED"} PROVE parent[s] # Null
      BY <1>0, <2>1, <2>2, <2>6 DEF Lineage, FamilyTree
  <2>7. ASSUME NEW s \in Slots, state'[s] = "UNUSED" PROVE parent[s] = Null
      BY <1>0, <2>1, <2>2, <2>7 DEF Lineage
  <2>8. QED
      BY <1>0, <2>1, <2>4, <2>5, <2>6, <2>7 DEF Lineage, FamilyTree, Alive
<1>15. ASSUME NEW p \in Slots, exit_leaves(p) PROVE Lineage'
    BY <1>15, <1>0 DEF exit_leaves, TypeOK, FamilyTypes, FamilyThreads, Alive,
       Exiting, Leaving, FamilyLocks, Lineage, FamilyTree, FamilyExits, Slots
<1>16. ASSUME NEW p \in Slots, wait_begins(p) PROVE Lineage'
    BY <1>16, <1>0 DEF wait_begins, TypeOK, FamilyTypes, FamilyThreads, Alive,
       Exiting, Leaving, FamilyLocks, Lineage, FamilyTree, FamilyExits, Slots
<1>17. ASSUME NEW p \in Slots, wait_locks(p) PROVE Lineage'
    BY <1>17, <1>0 DEF wait_locks, TypeOK, FamilyTypes, FamilyThreads, Alive,
       Exiting, Leaving, FamilyLocks, Lineage, FamilyTree, FamilyExits, Slots
<1>18. ASSUME NEW p \in Slots, wait_other(p) PROVE Lineage'
    BY <1>18, <1>0 DEF wait_other, wait_skip, TypeOK, FamilyTypes, FamilyThreads,
       Alive, Exiting, Leaving, FamilyLocks, Lineage, FamilyTree, FamilyExits, Slots
<1>19. ASSUME NEW p \in Slots, wait_living(p) PROVE Lineage'
    BY <1>19, <1>0 DEF wait_living, wait_child, TypeOK, FamilyTypes,
       FamilyThreads, Alive, Exiting, Leaving, FamilyLocks, Lineage, FamilyTree,
       FamilyExits, Slots
<1>20. ASSUME NEW p \in Slots, wait_reaps(p) PROVE Lineage'
    BY <1>20, <1>0 DEF wait_reaps, wait_finds, wait_returns, TypeOK, FamilyTypes,
       FamilyThreads, Alive, Exiting, Leaving, FamilyLocks, Lineage, FamilyTree,
       FamilyExits, Slots
<1>21. ASSUME NEW p \in Slots, wait_no_copyout(p) PROVE Lineage'
    BY <1>21, <1>0 DEF wait_no_copyout, wait_finds, wait_returns, TypeOK,
       FamilyTypes, FamilyThreads, Alive, Exiting, Leaving, FamilyLocks, Lineage,
       FamilyTree, FamilyExits, Slots
<1>22. ASSUME NEW p \in Slots, wait_alone(p) PROVE Lineage'
    BY <1>22, <1>0 DEF wait_alone, wait_returns, TypeOK, FamilyTypes,
       FamilyThreads, Alive, Exiting, Leaving, FamilyLocks, Lineage, FamilyTree,
       FamilyExits, Slots
<1>23. ASSUME NEW p \in Slots, wait_sleeps(p) PROVE Lineage'
    BY <1>23, <1>0 DEF wait_sleeps, TypeOK, FamilyTypes, FamilyThreads, Alive,
       Exiting, Leaving, FamilyLocks, Lineage, FamilyTree, FamilyExits, Slots
<1>24. ASSUME NEW p \in Slots, NEW target \in Targets, kills(p, target) PROVE Lineage'
    BY <1>24, <1>0 DEF kills, kill, TypeOK, FamilyTypes, FamilyThreads, Alive,
       Exiting, Leaving, FamilyLocks, Lineage, FamilyTree, FamilyExits, Slots
<1>25. QED
    BY <1>1, <1>2, <1>3, <1>4, <1>5, <1>6, <1>7, <1>8, <1>9, <1>10,
       <1>11, <1>12, <1>13, <1>14, <1>15, <1>16, <1>17, <1>18, <1>19, <1>20,
       <1>21, <1>22, <1>23, <1>24 DEF FamilyNext, FamilyStep

LEMMA FamilyExitsKept ==
    ASSUME FamilyInv, [FamilyNext]_<<vars, familyVars>>
    PROVE  FamilyExits'
<1> USE DEF At, Goto, NextSlot, FirstSlot, wakeup, freeproc, Call, procVars, familyVars, Free, Held, Released
<1>0. /\ TypeOK /\ FamilyTypes /\ FamilyThreads /\ FamilyLocks /\ FamilyLoops
      /\ Lineage /\ FamilyExits /\ FamilyWaits
      /\ initproc \in Slots /\ Null \notin Slots
    BY SlotFacts DEF FamilyInv
<1>1. CASE UNCHANGED <<vars, familyVars>>
    BY <1>1, <1>0 DEF vars, FamilyExits, Leaving, Exiting
<1>2. ASSUME NEW p \in Slots, schedule(p) PROVE FamilyExits'
    BY <1>2, <1>0 DEF schedule, TypeOK, FamilyTypes, FamilyThreads, Alive,
       Exiting, Leaving, FamilyLoops, FamilyLocks, Lineage, FamilyTree, FamilyExits
<1>3. ASSUME NEW p \in Slots, fork_begins(p) PROVE FamilyExits'
    BY <1>3, <1>0 DEF fork_begins, fork, TypeOK, FamilyTypes, FamilyThreads,
       Alive, Exiting, Leaving, FamilyLoops, FamilyLocks, Lineage, FamilyTree,
       FamilyExits
<1>4. ASSUME NEW p \in Slots, fork_skip(p) PROVE FamilyExits'
    BY <1>4, <1>0 DEF fork_skip, allocproc_skip, TypeOK, FamilyTypes,
       FamilyThreads, Alive, Exiting, Leaving, FamilyLoops, FamilyLocks, Lineage,
       FamilyTree, FamilyExits
<1>5. ASSUME NEW p \in Slots, fork_full(p) PROVE FamilyExits'
    BY <1>5, <1>0 DEF fork_full, allocproc_full, TypeOK, FamilyTypes,
       FamilyThreads, Alive, Exiting, Leaving, FamilyLoops, FamilyLocks, Lineage,
       FamilyTree, FamilyExits
<1>6. ASSUME NEW p \in Slots, fork_no_memory(p) PROVE FamilyExits'
    BY <1>6, <1>0 DEF fork_no_memory, fork_fails, TypeOK, FamilyTypes,
       FamilyThreads, Alive, Exiting, Leaving, FamilyLoops, FamilyLocks, Lineage,
       FamilyTree, FamilyExits
<1>7. ASSUME NEW p \in Slots, fork_no_trapframe(p) PROVE FamilyExits'
    BY <1>7, <1>0 DEF fork_no_trapframe, TypeOK, FamilyTypes, FamilyThreads,
       Alive, Exiting, Leaving, FamilyLoops, FamilyLocks, Lineage, FamilyTree,
       FamilyExits
<1>8. ASSUME NEW p \in Slots, fork_child(p) PROVE FamilyExits'
    BY <1>8, <1>0 DEF fork_child, TypeOK, FamilyTypes, FamilyThreads, Alive,
       Exiting, Leaving, FamilyLoops, FamilyLocks, Lineage, FamilyTree, FamilyExits
<1>9. ASSUME NEW p \in Slots, exit_begins(p) PROVE FamilyExits'
    BY <1>9, <1>0 DEF exit_begins, TypeOK, FamilyTypes, FamilyThreads, Alive,
       Exiting, Leaving, FamilyLoops, FamilyLocks, Lineage, FamilyTree, FamilyExits
<1>10. ASSUME NEW p \in Slots, exit_parent(p) PROVE FamilyExits'
    BY <1>10, <1>0 DEF exit_parent, TypeOK, FamilyTypes, FamilyThreads, Alive,
       Exiting, Leaving, FamilyLoops, FamilyLocks, Lineage, FamilyTree, FamilyExits
<1>11. ASSUME NEW p \in Slots, exit_lock_parent(p) PROVE FamilyExits'
    BY <1>11, <1>0 DEF exit_lock_parent, TypeOK, FamilyTypes, FamilyThreads,
       Alive, Exiting, Leaving, FamilyLoops, FamilyLocks, Lineage, FamilyTree,
       FamilyExits
<1>12. ASSUME NEW p \in Slots, exit_lock(p) PROVE FamilyExits'
  <2>1. /\ parent' = parent /\ original_parent' = original_parent
        /\ pc[p] = "exit_lock" /\ pc' = [pc EXCEPT ![p] = "reparent"] /\ idx' = idx /\ idx[p] = 1
      BY <1>12, <1>0 DEF exit_lock, FamilyLoops, TypeOK
  <2>2. \A s \in Slots : ~(s < 1)
      BY DEF Slots
  <2>3. QED
      BY <1>0, <2>1, <2>2 DEF FamilyExits, Exiting, Leaving, TypeOK
<1>13. ASSUME NEW p \in Slots, reparent_child(p) PROVE FamilyExits'
  <2>1. /\ p # initproc /\ pc[p] = "reparent" /\ idx[p] \in Slots
        /\ pc' = pc /\ original_parent' = original_parent
        /\ idx' = [idx EXCEPT ![p] = idx[p] + 1]
        /\ \A s \in Slots : parent'[s] \in {parent[s], initproc}
        /\ parent'[idx[p]] # p
      BY <1>13, <1>0 DEF reparent_child, FamilyExits, Exiting, TypeOK
  <2>2. \A q, s \in Slots : pc[q] = "reparent" /\ s < idx[q] => parent'[s] # q
      BY <1>0, <2>1 DEF FamilyExits, Exiting
  <2>3. \A s \in Slots : s < idx'[p] => s < idx[p] \/ s = idx[p]
      BY <1>0, <2>1 DEF TypeOK, Slots
  <2>4. ASSUME NEW q \in Slots, pc'[q] = "reparent", NEW s \in Slots, s < idx'[q]
        PROVE  parent'[s] # q
    <3>1. CASE q = p
        BY <2>1, <2>2, <2>3, <2>4, <3>1
    <3>2. CASE q # p
        BY <1>0, <2>1, <2>2, <2>4, <3>2 DEF TypeOK
    <3>3. QED
        BY <3>1, <3>2
  <2>5. QED
      BY <1>0, <2>1, <2>4 DEF FamilyExits, Exiting, Leaving
<1>14. ASSUME NEW p \in Slots, exit_ends(p) PROVE FamilyExits'
    BY <1>14, <1>0 DEF exit_ends, TypeOK, FamilyTypes, FamilyThreads, Alive,
       Exiting, Leaving, FamilyLoops, FamilyLocks, Lineage, FamilyTree, FamilyExits
<1>15. ASSUME NEW p \in Slots, exit_leaves(p) PROVE FamilyExits'
    BY <1>15, <1>0 DEF exit_leaves, TypeOK, FamilyTypes, FamilyThreads, Alive,
       Exiting, Leaving, FamilyLoops, FamilyLocks, Lineage, FamilyTree, FamilyExits
<1>16. ASSUME NEW p \in Slots, wait_begins(p) PROVE FamilyExits'
    BY <1>16, <1>0 DEF wait_begins, TypeOK, FamilyTypes, FamilyThreads, Alive,
       Exiting, Leaving, FamilyLoops, FamilyLocks, Lineage, FamilyTree, FamilyExits
<1>17. ASSUME NEW p \in Slots, wait_locks(p) PROVE FamilyExits'
    BY <1>17, <1>0 DEF wait_locks, TypeOK, FamilyTypes, FamilyThreads, Alive,
       Exiting, Leaving, FamilyLoops, FamilyLocks, Lineage, FamilyTree, FamilyExits
<1>18. ASSUME NEW p \in Slots, wait_other(p) PROVE FamilyExits'
    BY <1>18, <1>0 DEF wait_other, wait_skip, TypeOK, FamilyTypes, FamilyThreads,
       Alive, Exiting, Leaving, FamilyLoops, FamilyLocks, Lineage, FamilyTree,
       FamilyExits
<1>19. ASSUME NEW p \in Slots, wait_living(p) PROVE FamilyExits'
    BY <1>19, <1>0 DEF wait_living, wait_child, TypeOK, FamilyTypes,
       FamilyThreads, Alive, Exiting, Leaving, FamilyLoops, FamilyLocks, Lineage,
       FamilyTree, FamilyExits
<1>20. ASSUME NEW p \in Slots, wait_reaps(p) PROVE FamilyExits'
    BY <1>20, <1>0 DEF wait_reaps, wait_finds, wait_returns, TypeOK, FamilyTypes,
       FamilyThreads, Alive, Exiting, Leaving, FamilyLoops, FamilyLocks, Lineage,
       FamilyTree, FamilyExits
<1>21. ASSUME NEW p \in Slots, wait_no_copyout(p) PROVE FamilyExits'
    BY <1>21, <1>0 DEF wait_no_copyout, wait_finds, wait_returns, TypeOK,
       FamilyTypes, FamilyThreads, Alive, Exiting, Leaving, FamilyLoops,
       FamilyLocks, Lineage, FamilyTree, FamilyExits
<1>22. ASSUME NEW p \in Slots, wait_alone(p) PROVE FamilyExits'
    BY <1>22, <1>0 DEF wait_alone, wait_returns, TypeOK, FamilyTypes,
       FamilyThreads, Alive, Exiting, Leaving, FamilyLoops, FamilyLocks, Lineage,
       FamilyTree, FamilyExits
<1>23. ASSUME NEW p \in Slots, wait_sleeps(p) PROVE FamilyExits'
    BY <1>23, <1>0 DEF wait_sleeps, TypeOK, FamilyTypes, FamilyThreads, Alive,
       Exiting, Leaving, FamilyLoops, FamilyLocks, Lineage, FamilyTree, FamilyExits
<1>24. ASSUME NEW p \in Slots, NEW target \in Targets, kills(p, target) PROVE FamilyExits'
    BY <1>24, <1>0 DEF kills, kill, TypeOK, FamilyTypes, FamilyThreads, Alive,
       Exiting, Leaving, FamilyLoops, FamilyLocks, Lineage, FamilyTree, FamilyExits
<1>25. QED
    BY <1>1, <1>2, <1>3, <1>4, <1>5, <1>6, <1>7, <1>8, <1>9, <1>10,
       <1>11, <1>12, <1>13, <1>14, <1>15, <1>16, <1>17, <1>18, <1>19, <1>20,
       <1>21, <1>22, <1>23, <1>24 DEF FamilyNext, FamilyStep

LEMMA FamilyWaitsKept ==
    ASSUME FamilyInv, [FamilyNext]_<<vars, familyVars>>
    PROVE  FamilyWaits'
<1> USE DEF At, Goto, NextSlot, FirstSlot, wakeup, freeproc, Call, procVars, familyVars, Free, Held, Released
<1>0. /\ TypeOK /\ FamilyTypes /\ FamilyThreads /\ FamilyLocks /\ FamilyLoops
      /\ Lineage /\ FamilyExits /\ FamilyWaits
      /\ initproc \in Slots /\ Null \notin Slots
    BY SlotFacts DEF FamilyInv
<1>1. CASE UNCHANGED <<vars, familyVars>>
    BY <1>1, <1>0 DEF vars, FamilyWaits, HasChild, NoZombie
<1>2. ASSUME NEW p \in Slots, schedule(p) PROVE FamilyWaits'
    BY <1>2, <1>0 DEF schedule, TypeOK, FamilyTypes, FamilyThreads, Alive,
       Exiting, Leaving, FamilyLocks, FamilyLoops, Lineage, FamilyTree,
       FamilyExits, FamilyWaits, HasChild, NoZombie
<1>3. ASSUME NEW p \in Slots, fork_begins(p) PROVE FamilyWaits'
    BY <1>3, <1>0 DEF fork_begins, fork, TypeOK, FamilyTypes, FamilyThreads,
       Alive, Exiting, Leaving, FamilyLocks, FamilyLoops, Lineage, FamilyTree,
       FamilyExits, FamilyWaits, HasChild, NoZombie
<1>4. ASSUME NEW p \in Slots, fork_skip(p) PROVE FamilyWaits'
    BY <1>4, <1>0 DEF fork_skip, allocproc_skip, TypeOK, FamilyTypes,
       FamilyThreads, Alive, Exiting, Leaving, FamilyLocks, FamilyLoops, Lineage,
       FamilyTree, FamilyExits, FamilyWaits, HasChild, NoZombie
<1>5. ASSUME NEW p \in Slots, fork_full(p) PROVE FamilyWaits'
    BY <1>5, <1>0 DEF fork_full, allocproc_full, TypeOK, FamilyTypes,
       FamilyThreads, Alive, Exiting, Leaving, FamilyLocks, FamilyLoops, Lineage,
       FamilyTree, FamilyExits, FamilyWaits, HasChild, NoZombie
<1>6. ASSUME NEW p \in Slots, fork_no_memory(p) PROVE FamilyWaits'
    BY <1>6, <1>0 DEF fork_no_memory, fork_fails, TypeOK, FamilyTypes,
       FamilyThreads, Alive, Exiting, Leaving, FamilyLocks, FamilyLoops, Lineage,
       FamilyTree, FamilyExits, FamilyWaits, HasChild, NoZombie
<1>7. ASSUME NEW p \in Slots, fork_no_trapframe(p) PROVE FamilyWaits'
    BY <1>7, <1>0 DEF fork_no_trapframe, TypeOK, FamilyTypes, FamilyThreads,
       Alive, Exiting, Leaving, FamilyLocks, FamilyLoops, Lineage, FamilyTree,
       FamilyExits, FamilyWaits, HasChild, NoZombie
<1>8. ASSUME NEW p \in Slots, fork_child(p) PROVE FamilyWaits'
    BY <1>8, <1>0 DEF fork_child, TypeOK, FamilyTypes, FamilyThreads, Alive,
       Exiting, Leaving, FamilyLocks, FamilyLoops, Lineage, FamilyTree,
       FamilyExits, FamilyWaits, HasChild, NoZombie
<1>9. ASSUME NEW p \in Slots, exit_begins(p) PROVE FamilyWaits'
    BY <1>9, <1>0 DEF exit_begins, TypeOK, FamilyTypes, FamilyThreads, Alive,
       Exiting, Leaving, FamilyLocks, FamilyLoops, Lineage, FamilyTree,
       FamilyExits, FamilyWaits, HasChild, NoZombie
<1>10. ASSUME NEW p \in Slots, exit_parent(p) PROVE FamilyWaits'
    BY <1>10, <1>0 DEF exit_parent, TypeOK, FamilyTypes, FamilyThreads, Alive,
       Exiting, Leaving, FamilyLocks, FamilyLoops, Lineage, FamilyTree,
       FamilyExits, FamilyWaits, HasChild, NoZombie
<1>11. ASSUME NEW p \in Slots, exit_lock_parent(p) PROVE FamilyWaits'
    BY <1>11, <1>0 DEF exit_lock_parent, TypeOK, FamilyTypes, FamilyThreads,
       Alive, Exiting, Leaving, FamilyLocks, FamilyLoops, Lineage, FamilyTree,
       FamilyExits, FamilyWaits, HasChild, NoZombie
<1>12. ASSUME NEW p \in Slots, exit_lock(p) PROVE FamilyWaits'
    BY <1>12, <1>0 DEF exit_lock, TypeOK, FamilyTypes, FamilyThreads, Alive,
       Exiting, Leaving, FamilyLocks, FamilyLoops, Lineage, FamilyTree,
       FamilyExits, FamilyWaits, HasChild, NoZombie
<1>13. ASSUME NEW p \in Slots, reparent_child(p) PROVE FamilyWaits'
    BY <1>13, <1>0 DEF reparent_child, TypeOK, FamilyTypes, FamilyThreads, Alive,
       Exiting, Leaving, FamilyLocks, FamilyLoops, Lineage, FamilyTree,
       FamilyExits, FamilyWaits, HasChild, NoZombie
<1>14. ASSUME NEW p \in Slots, exit_ends(p) PROVE FamilyWaits'
    BY <1>14, <1>0 DEF exit_ends, TypeOK, FamilyTypes, FamilyThreads, Alive,
       Exiting, Leaving, FamilyLocks, FamilyLoops, Lineage, FamilyTree,
       FamilyExits, FamilyWaits, HasChild, NoZombie
<1>15. ASSUME NEW p \in Slots, exit_leaves(p) PROVE FamilyWaits'
    BY <1>15, <1>0 DEF exit_leaves, TypeOK, FamilyTypes, FamilyThreads, Alive,
       Exiting, Leaving, FamilyLocks, FamilyLoops, Lineage, FamilyTree,
       FamilyExits, FamilyWaits, HasChild, NoZombie
<1>16. ASSUME NEW p \in Slots, wait_begins(p) PROVE FamilyWaits'
    BY <1>16, <1>0 DEF wait_begins, TypeOK, FamilyTypes, FamilyThreads, Alive,
       Exiting, Leaving, FamilyLocks, FamilyLoops, Lineage, FamilyTree,
       FamilyExits, FamilyWaits, HasChild, NoZombie
<1>17. ASSUME NEW p \in Slots, wait_locks(p) PROVE FamilyWaits'
  <2>1. /\ parent' = parent /\ state[p] = "RUNNING"
        /\ \A q \in Slots \ {p} : state'[q] = state[q]
      BY <1>17, <1>0 DEF wait_locks, TypeOK
  <2>2. \A q \in Slots \ {p} : pc'[q] = pc[q] /\ idx'[q] = idx[q] /\ havekids'[q] = havekids[q]
      BY <1>17, <1>0 DEF wait_locks, TypeOK
  <2>3. state' = state /\ havekids'[p] = FALSE /\ idx'[p] = 1
      BY <1>17, <1>0 DEF wait_locks, FamilyLoops
  <2>4. \A s \in Slots : ~(s < 1)
      BY DEF Slots
  <2>8. /\ state'[p] # "ZOMBIE"
        /\ p # initproc =>
               /\ pc'[p] = "wait" => \A s \in Slots : s < idx'[p] /\ parent'[s] = p =>
                                        havekids'[p] /\ state'[s] # "ZOMBIE"
               /\ havekids'[p] \/ state'[p] = "SLEEPING" => HasChild(p)'
               /\ state'[p] = "SLEEPING" => NoZombie(p)'
      BY <2>1, <2>3, <2>4
  <2>9. QED
    <3>1. ASSUME NEW q \in Slots \ {initproc, p}
          PROVE  /\ pc'[q] = "wait" => \A s \in Slots : s < idx'[q] /\ parent'[s] = q =>
                                          havekids'[q] /\ state'[s] # "ZOMBIE"
                 /\ havekids'[q] \/ state'[q] = "SLEEPING" => HasChild(q)'
                 /\ state'[q] = "SLEEPING" => NoZombie(q)'
      <4>1. \A s \in Slots : state'[s] = "ZOMBIE" => state[s] = "ZOMBIE"
          BY <2>1, <2>8
      <4>2. QED
          BY <1>0, <2>1, <2>2, <4>1 DEF FamilyWaits, HasChild, NoZombie
    <3>2. QED
        BY <2>8, <3>1 DEF FamilyWaits
<1>18. ASSUME NEW p \in Slots, wait_other(p) PROVE FamilyWaits'
  <2>1. /\ parent' = parent /\ state[p] = "RUNNING"
        /\ \A q \in Slots \ {p} : state'[q] = state[q]
      BY <1>18, <1>0 DEF wait_other, wait_skip, TypeOK
  <2>2. \A q \in Slots \ {p} : pc'[q] = pc[q] /\ idx'[q] = idx[q] /\ havekids'[q] = havekids[q]
      BY <1>18, <1>0 DEF wait_other, wait_skip, TypeOK
  <2>3. /\ state' = state /\ pc[p] = "wait" /\ havekids' = havekids /\ idx[p] \in Slots
        /\ idx'[p] = idx[p] + 1 /\ parent[idx[p]] # p
      BY <1>18, <1>0 DEF wait_other, wait_skip, TypeOK
  <2>4. \A s \in Slots : s < idx[p] + 1 => s < idx[p] \/ s = idx[p]
      BY <2>3 DEF Slots
  <2>8. /\ state'[p] # "ZOMBIE"
        /\ p # initproc =>
               /\ pc'[p] = "wait" => \A s \in Slots : s < idx'[p] /\ parent'[s] = p =>
                                        havekids'[p] /\ state'[s] # "ZOMBIE"
               /\ havekids'[p] \/ state'[p] = "SLEEPING" => HasChild(p)'
               /\ state'[p] = "SLEEPING" => NoZombie(p)'
      BY <1>0, <2>1, <2>3, <2>4 DEF FamilyWaits, HasChild, NoZombie
  <2>9. QED
    <3>1. ASSUME NEW q \in Slots \ {initproc, p}
          PROVE  /\ pc'[q] = "wait" => \A s \in Slots : s < idx'[q] /\ parent'[s] = q =>
                                          havekids'[q] /\ state'[s] # "ZOMBIE"
                 /\ havekids'[q] \/ state'[q] = "SLEEPING" => HasChild(q)'
                 /\ state'[q] = "SLEEPING" => NoZombie(q)'
      <4>1. \A s \in Slots : state'[s] = "ZOMBIE" => state[s] = "ZOMBIE"
          BY <2>1, <2>8
      <4>2. QED
          BY <1>0, <2>1, <2>2, <4>1 DEF FamilyWaits, HasChild, NoZombie
    <3>2. QED
        BY <2>8, <3>1 DEF FamilyWaits
<1>19. ASSUME NEW p \in Slots, wait_living(p) PROVE FamilyWaits'
  <2>1. /\ parent' = parent /\ state[p] = "RUNNING"
        /\ \A q \in Slots \ {p} : state'[q] = state[q]
      BY <1>19, <1>0 DEF wait_living, wait_child, TypeOK
  <2>2. \A q \in Slots \ {p} : pc'[q] = pc[q] /\ idx'[q] = idx[q] /\ havekids'[q] = havekids[q]
      BY <1>19, <1>0 DEF wait_living, wait_child, TypeOK
  <2>3. /\ state' = state /\ pc[p] = "wait" /\ havekids'[p] = TRUE /\ idx[p] \in Slots
        /\ idx'[p] = idx[p] + 1 /\ parent[idx[p]] = p /\ state[idx[p]] # "ZOMBIE"
      BY <1>19, <1>0 DEF wait_living, wait_child, TypeOK
  <2>4. \A s \in Slots : s < idx[p] + 1 => s < idx[p] \/ s = idx[p]
      BY <2>3 DEF Slots
  <2>8. /\ state'[p] # "ZOMBIE"
        /\ p # initproc =>
               /\ pc'[p] = "wait" => \A s \in Slots : s < idx'[p] /\ parent'[s] = p =>
                                        havekids'[p] /\ state'[s] # "ZOMBIE"
               /\ havekids'[p] \/ state'[p] = "SLEEPING" => HasChild(p)'
               /\ state'[p] = "SLEEPING" => NoZombie(p)'
      BY <1>0, <2>1, <2>3, <2>4 DEF FamilyWaits, HasChild, NoZombie
  <2>9. QED
    <3>1. ASSUME NEW q \in Slots \ {initproc, p}
          PROVE  /\ pc'[q] = "wait" => \A s \in Slots : s < idx'[q] /\ parent'[s] = q =>
                                          havekids'[q] /\ state'[s] # "ZOMBIE"
                 /\ havekids'[q] \/ state'[q] = "SLEEPING" => HasChild(q)'
                 /\ state'[q] = "SLEEPING" => NoZombie(q)'
      <4>1. \A s \in Slots : state'[s] = "ZOMBIE" => state[s] = "ZOMBIE"
          BY <2>1, <2>8
      <4>2. QED
          BY <1>0, <2>1, <2>2, <4>1 DEF FamilyWaits, HasChild, NoZombie
    <3>2. QED
        BY <2>8, <3>1 DEF FamilyWaits
<1>20. ASSUME NEW p \in Slots, wait_reaps(p) PROVE FamilyWaits'
    BY <1>20, <1>0 DEF wait_reaps, wait_finds, wait_returns, TypeOK, FamilyTypes,
       FamilyThreads, Alive, Exiting, Leaving, FamilyLocks, FamilyLoops, Lineage,
       FamilyTree, FamilyExits, FamilyWaits, HasChild, NoZombie
<1>21. ASSUME NEW p \in Slots, wait_no_copyout(p) PROVE FamilyWaits'
    BY <1>21, <1>0 DEF wait_no_copyout, wait_finds, wait_returns, TypeOK,
       FamilyTypes, FamilyThreads, Alive, Exiting, Leaving, FamilyLocks,
       FamilyLoops, Lineage, FamilyTree, FamilyExits, FamilyWaits, HasChild,
       NoZombie
<1>22. ASSUME NEW p \in Slots, wait_alone(p) PROVE FamilyWaits'
    BY <1>22, <1>0 DEF wait_alone, wait_returns, TypeOK, FamilyTypes,
       FamilyThreads, Alive, Exiting, Leaving, FamilyLocks, FamilyLoops, Lineage,
       FamilyTree, FamilyExits, FamilyWaits, HasChild, NoZombie
<1>23. ASSUME NEW p \in Slots, wait_sleeps(p) PROVE FamilyWaits'
  <2>1. /\ parent' = parent /\ state[p] = "RUNNING"
        /\ \A q \in Slots \ {p} : state'[q] = state[q]
      BY <1>23, <1>0 DEF wait_sleeps, TypeOK
  <2>2. \A q \in Slots \ {p} : pc'[q] = pc[q] /\ idx'[q] = idx[q] /\ havekids'[q] = havekids[q]
      BY <1>23, <1>0 DEF wait_sleeps, TypeOK
  <2>3. /\ state'[p] = "SLEEPING" /\ pc[p] = "wait" /\ havekids[p] /\ idx[p] \notin Slots
        /\ idx'[p] = 1 /\ havekids'[p] = FALSE
      BY <1>23, <1>0 DEF wait_sleeps, TypeOK
  <2>4. \A s \in Slots : s < idx[p] /\ ~(s < 1)
      BY <1>0, <2>3, ProcAssumption DEF TypeOK, Slots
  <2>5. \A s \in Slots : parent[s] = p => s # p
      BY <1>0 DEF Lineage
  <2>8. /\ state'[p] # "ZOMBIE"
        /\ p # initproc =>
               /\ pc'[p] = "wait" => \A s \in Slots : s < idx'[p] /\ parent'[s] = p =>
                                        havekids'[p] /\ state'[s] # "ZOMBIE"
               /\ havekids'[p] \/ state'[p] = "SLEEPING" => HasChild(p)'
               /\ state'[p] = "SLEEPING" => NoZombie(p)'
      BY <1>0, <2>1, <2>3, <2>4, <2>5 DEF FamilyWaits, HasChild, NoZombie
  <2>9. QED
    <3>1. ASSUME NEW q \in Slots \ {initproc, p}
          PROVE  /\ pc'[q] = "wait" => \A s \in Slots : s < idx'[q] /\ parent'[s] = q =>
                                          havekids'[q] /\ state'[s] # "ZOMBIE"
                 /\ havekids'[q] \/ state'[q] = "SLEEPING" => HasChild(q)'
                 /\ state'[q] = "SLEEPING" => NoZombie(q)'
      <4>1. \A s \in Slots : state'[s] = "ZOMBIE" => state[s] = "ZOMBIE"
          BY <2>1, <2>8
      <4>2. QED
          BY <1>0, <2>1, <2>2, <4>1 DEF FamilyWaits, HasChild, NoZombie
    <3>2. QED
        BY <2>8, <3>1 DEF FamilyWaits
<1>24. ASSUME NEW p \in Slots, NEW target \in Targets, kills(p, target) PROVE FamilyWaits'
    BY <1>24, <1>0 DEF kills, kill, TypeOK, FamilyTypes, FamilyThreads, Alive,
       Exiting, Leaving, FamilyLocks, FamilyLoops, Lineage, FamilyTree,
       FamilyExits, FamilyWaits, HasChild, NoZombie
<1>25. QED
    BY <1>1, <1>2, <1>3, <1>4, <1>5, <1>6, <1>7, <1>8, <1>9, <1>10,
       <1>11, <1>12, <1>13, <1>14, <1>15, <1>16, <1>17, <1>18, <1>19, <1>20,
       <1>21, <1>22, <1>23, <1>24 DEF FamilyNext, FamilyStep

LEMMA FamilyCount ==
    ASSUME FamilyInv, [FamilyNext]_<<vars, familyVars>>
    PROVE  nextpid' \in 2 .. MaxPid + 1 /\ nextpid' + Cardinality(Asking') <= MaxPid + 1
<1> USE DEF At, Goto, NextSlot, FirstSlot, wakeup, freeproc, Call, procVars, familyVars, Free, Held, Released
<1>0. /\ TypeOK /\ FamilyTypes /\ FamilyThreads /\ FamilyLocks /\ Lineage /\ FamilyExits
      /\ initproc \in Slots /\ Null \notin Slots
      /\ nextpid \in Nat /\ nextpid >= 2 /\ nextpid <= MaxPid + 1
      /\ nextpid + Cardinality(Asking) <= MaxPid + 1
    BY SlotFacts, ProcAssumption DEF FamilyInv, TypeOK
<1>a. /\ Asking \subseteq Slots /\ IsFiniteSet(Asking) /\ Cardinality(Asking) \in Nat
      /\ \A q \in Asking : /\ Cardinality(Asking \ {q}) = Cardinality(Asking) - 1
                          /\ Cardinality(Asking) >= 1
    BY AskingFinite DEF Asking
<1>1. CASE UNCHANGED <<vars, familyVars>>
    BY <1>1, <1>0, ProcAssumption DEF vars, Asking
<1>2. ASSUME NEW p \in Slots, schedule(p) PROVE nextpid' \in 2 .. MaxPid + 1 /\ nextpid' + Cardinality(Asking') <= MaxPid + 1
  <2>1. Asking' = Asking /\ nextpid' = nextpid
      BY <1>2, <1>0 DEF schedule, TypeOK, Asking, FamilyThreads, Exiting
  <2>2. QED
      BY <1>0, <2>1, ProcAssumption
<1>3. ASSUME NEW p \in Slots, fork_begins(p) PROVE nextpid' \in 2 .. MaxPid + 1 /\ nextpid' + Cardinality(Asking') <= MaxPid + 1
  <2>1. p \notin Asking /\ Asking' = Asking \cup {p}
      BY <1>3, <1>0 DEF fork_begins, fork, TypeOK, Asking
  <2>2. Cardinality(Asking') = Cardinality(Asking) + 1
      BY <1>a, <2>1, FS_AddElement
  <2>3. nextpid' = nextpid /\ nextpid + Cardinality(Asking) <= MaxPid
      BY <1>3 DEF fork_begins, fork, Asking
  <2>4. QED
      BY <1>0, <1>a, <2>2, <2>3, ProcAssumption
<1>4. ASSUME NEW p \in Slots, fork_skip(p) PROVE nextpid' \in 2 .. MaxPid + 1 /\ nextpid' + Cardinality(Asking') <= MaxPid + 1
  <2>1. Asking' = Asking /\ nextpid' = nextpid
      BY <1>4, <1>0 DEF fork_skip, allocproc_skip, TypeOK, Asking, FamilyThreads,
         Exiting
  <2>2. QED
      BY <1>0, <2>1, ProcAssumption
<1>5. ASSUME NEW p \in Slots, fork_full(p) PROVE nextpid' \in 2 .. MaxPid + 1 /\ nextpid' + Cardinality(Asking') <= MaxPid + 1
  <2>1. p \in Asking /\ Asking' = Asking \ {p}
      BY <1>5, <1>0 DEF fork_full, allocproc_full, TypeOK, Asking, FamilyThreads,
         Exiting
  <2>2. nextpid' = nextpid
      BY <1>5 DEF fork_full, allocproc_full
  <2>3. QED
      BY <1>0, <1>a, <2>1, <2>2, ProcAssumption
<1>6. ASSUME NEW p \in Slots, fork_no_memory(p) PROVE nextpid' \in 2 .. MaxPid + 1 /\ nextpid' + Cardinality(Asking') <= MaxPid + 1
  <2>1. p \in Asking /\ Asking' = Asking \ {p}
      BY <1>6, <1>0 DEF fork_no_memory, fork_fails, TypeOK, Asking, FamilyThreads,
         Exiting
  <2>2. nextpid' = nextpid + 1
      BY <1>6 DEF fork_no_memory, fork_fails
  <2>3. QED
      BY <1>0, <1>a, <2>1, <2>2, ProcAssumption
<1>7. ASSUME NEW p \in Slots, fork_no_trapframe(p) PROVE nextpid' \in 2 .. MaxPid + 1 /\ nextpid' + Cardinality(Asking') <= MaxPid + 1
  <2>1. p \in Asking /\ Asking' = Asking \ {p}
      BY <1>7, <1>0 DEF fork_no_trapframe, TypeOK, Asking, FamilyThreads, Exiting
  <2>2. nextpid' = nextpid + 1
      BY <1>7 DEF fork_no_trapframe
  <2>3. QED
      BY <1>0, <1>a, <2>1, <2>2, ProcAssumption
<1>8. ASSUME NEW p \in Slots, fork_child(p) PROVE nextpid' \in 2 .. MaxPid + 1 /\ nextpid' + Cardinality(Asking') <= MaxPid + 1
  <2>1. p \in Asking /\ Asking' = Asking \ {p}
      BY <1>8, <1>0 DEF fork_child, TypeOK, Asking, FamilyThreads, Exiting
  <2>2. nextpid' = nextpid + 1
      BY <1>8 DEF fork_child
  <2>3. QED
      BY <1>0, <1>a, <2>1, <2>2, ProcAssumption
<1>9. ASSUME NEW p \in Slots, exit_begins(p) PROVE nextpid' \in 2 .. MaxPid + 1 /\ nextpid' + Cardinality(Asking') <= MaxPid + 1
  <2>1. Asking' = Asking /\ nextpid' = nextpid
      BY <1>9, <1>0 DEF exit_begins, TypeOK, Asking, FamilyThreads, Exiting
  <2>2. QED
      BY <1>0, <2>1, ProcAssumption
<1>10. ASSUME NEW p \in Slots, exit_parent(p) PROVE nextpid' \in 2 .. MaxPid + 1 /\ nextpid' + Cardinality(Asking') <= MaxPid + 1
  <2>1. Asking' = Asking /\ nextpid' = nextpid
      BY <1>10, <1>0 DEF exit_parent, TypeOK, Asking, FamilyThreads, Exiting
  <2>2. QED
      BY <1>0, <2>1, ProcAssumption
<1>11. ASSUME NEW p \in Slots, exit_lock_parent(p) PROVE nextpid' \in 2 .. MaxPid + 1 /\ nextpid' + Cardinality(Asking') <= MaxPid + 1
  <2>1. Asking' = Asking /\ nextpid' = nextpid
      BY <1>11, <1>0 DEF exit_lock_parent, TypeOK, Asking, FamilyThreads, Exiting
  <2>2. QED
      BY <1>0, <2>1, ProcAssumption
<1>12. ASSUME NEW p \in Slots, exit_lock(p) PROVE nextpid' \in 2 .. MaxPid + 1 /\ nextpid' + Cardinality(Asking') <= MaxPid + 1
  <2>1. Asking' = Asking /\ nextpid' = nextpid
      BY <1>12, <1>0 DEF exit_lock, TypeOK, Asking, FamilyThreads, Exiting
  <2>2. QED
      BY <1>0, <2>1, ProcAssumption
<1>13. ASSUME NEW p \in Slots, reparent_child(p) PROVE nextpid' \in 2 .. MaxPid + 1 /\ nextpid' + Cardinality(Asking') <= MaxPid + 1
  <2>1. Asking' = Asking /\ nextpid' = nextpid
      BY <1>13, <1>0 DEF reparent_child, TypeOK, Asking, FamilyThreads, Exiting
  <2>2. QED
      BY <1>0, <2>1, ProcAssumption
<1>14. ASSUME NEW p \in Slots, exit_ends(p) PROVE nextpid' \in 2 .. MaxPid + 1 /\ nextpid' + Cardinality(Asking') <= MaxPid + 1
  <2>1. Asking' = Asking /\ nextpid' = nextpid
      BY <1>14, <1>0 DEF exit_ends, TypeOK, Asking, FamilyThreads, Exiting
  <2>2. QED
      BY <1>0, <2>1, ProcAssumption
<1>15. ASSUME NEW p \in Slots, exit_leaves(p) PROVE nextpid' \in 2 .. MaxPid + 1 /\ nextpid' + Cardinality(Asking') <= MaxPid + 1
  <2>1. Asking' = Asking /\ nextpid' = nextpid
      BY <1>15, <1>0 DEF exit_leaves, TypeOK, Asking, FamilyThreads, Exiting
  <2>2. QED
      BY <1>0, <2>1, ProcAssumption
<1>16. ASSUME NEW p \in Slots, wait_begins(p) PROVE nextpid' \in 2 .. MaxPid + 1 /\ nextpid' + Cardinality(Asking') <= MaxPid + 1
  <2>1. Asking' = Asking /\ nextpid' = nextpid
      BY <1>16, <1>0 DEF wait_begins, TypeOK, Asking, FamilyThreads, Exiting
  <2>2. QED
      BY <1>0, <2>1, ProcAssumption
<1>17. ASSUME NEW p \in Slots, wait_locks(p) PROVE nextpid' \in 2 .. MaxPid + 1 /\ nextpid' + Cardinality(Asking') <= MaxPid + 1
  <2>1. Asking' = Asking /\ nextpid' = nextpid
      BY <1>17, <1>0 DEF wait_locks, TypeOK, Asking, FamilyThreads, Exiting
  <2>2. QED
      BY <1>0, <2>1, ProcAssumption
<1>18. ASSUME NEW p \in Slots, wait_other(p) PROVE nextpid' \in 2 .. MaxPid + 1 /\ nextpid' + Cardinality(Asking') <= MaxPid + 1
  <2>1. Asking' = Asking /\ nextpid' = nextpid
      BY <1>18, <1>0 DEF wait_other, wait_skip, TypeOK, Asking, FamilyThreads,
         Exiting
  <2>2. QED
      BY <1>0, <2>1, ProcAssumption
<1>19. ASSUME NEW p \in Slots, wait_living(p) PROVE nextpid' \in 2 .. MaxPid + 1 /\ nextpid' + Cardinality(Asking') <= MaxPid + 1
  <2>1. Asking' = Asking /\ nextpid' = nextpid
      BY <1>19, <1>0 DEF wait_living, wait_child, TypeOK, Asking, FamilyThreads,
         Exiting
  <2>2. QED
      BY <1>0, <2>1, ProcAssumption
<1>20. ASSUME NEW p \in Slots, wait_reaps(p) PROVE nextpid' \in 2 .. MaxPid + 1 /\ nextpid' + Cardinality(Asking') <= MaxPid + 1
  <2>1. Asking' = Asking /\ nextpid' = nextpid
      BY <1>20, <1>0 DEF wait_reaps, wait_finds, wait_returns, TypeOK, Asking,
         FamilyThreads, Exiting
  <2>2. QED
      BY <1>0, <2>1, ProcAssumption
<1>21. ASSUME NEW p \in Slots, wait_no_copyout(p) PROVE nextpid' \in 2 .. MaxPid + 1 /\ nextpid' + Cardinality(Asking') <= MaxPid + 1
  <2>1. Asking' = Asking /\ nextpid' = nextpid
      BY <1>21, <1>0 DEF wait_no_copyout, wait_finds, wait_returns, TypeOK,
         Asking, FamilyThreads, Exiting
  <2>2. QED
      BY <1>0, <2>1, ProcAssumption
<1>22. ASSUME NEW p \in Slots, wait_alone(p) PROVE nextpid' \in 2 .. MaxPid + 1 /\ nextpid' + Cardinality(Asking') <= MaxPid + 1
  <2>1. Asking' = Asking /\ nextpid' = nextpid
      BY <1>22, <1>0 DEF wait_alone, wait_returns, TypeOK, Asking, FamilyThreads,
         Exiting
  <2>2. QED
      BY <1>0, <2>1, ProcAssumption
<1>23. ASSUME NEW p \in Slots, wait_sleeps(p) PROVE nextpid' \in 2 .. MaxPid + 1 /\ nextpid' + Cardinality(Asking') <= MaxPid + 1
  <2>1. Asking' = Asking /\ nextpid' = nextpid
      BY <1>23, <1>0 DEF wait_sleeps, TypeOK, Asking, FamilyThreads, Exiting
  <2>2. QED
      BY <1>0, <2>1, ProcAssumption
<1>24. ASSUME NEW p \in Slots, NEW target \in Targets, kills(p, target) PROVE nextpid' \in 2 .. MaxPid + 1 /\ nextpid' + Cardinality(Asking') <= MaxPid + 1
  <2>1. Asking' = Asking /\ nextpid' = nextpid
      BY <1>24, <1>0 DEF kills, kill, TypeOK, Asking, FamilyThreads, Exiting
  <2>2. QED
      BY <1>0, <2>1, ProcAssumption
<1>25. QED
    BY <1>1, <1>2, <1>3, <1>4, <1>5, <1>6, <1>7, <1>8, <1>9, <1>10,
       <1>11, <1>12, <1>13, <1>14, <1>15, <1>16, <1>17, <1>18, <1>19, <1>20,
       <1>21, <1>22, <1>23, <1>24 DEF FamilyNext, FamilyStep

LEMMA FamilyTypesKept ==
    ASSUME FamilyInv, [FamilyNext]_<<vars, familyVars>>
    PROVE  TypeOK'
<1> USE DEF At, Goto, NextSlot, FirstSlot, wakeup, freeproc, Call, procVars, familyVars, Free, Held, Released
<1>0. TypeOK /\ FamilyTypes /\ initproc \in Slots /\ Null \notin Slots
    BY SlotFacts DEF FamilyInv
<1>a. nextpid' \in 2 .. MaxPid + 1
    BY FamilyCount
<1>b. nextpid \in 2 .. MaxPid + 1
    BY <1>0 DEF TypeOK
<1>1. CASE UNCHANGED <<vars, familyVars>>
    BY <1>1, <1>0 DEF vars, TypeOK
<1>2. ASSUME NEW p \in Slots, schedule(p) PROVE TypeOK'
    BY <1>2, <1>0, <1>a, ProcAssumption DEF schedule, TypeOK, Slots, States,
       Places, Null, Targets
<1>3. ASSUME NEW p \in Slots, fork_begins(p) PROVE TypeOK'
    BY <1>3, <1>0, <1>a, ProcAssumption DEF fork_begins, fork, TypeOK, Slots,
       States, Places, Null, Targets
<1>4. ASSUME NEW p \in Slots, fork_skip(p) PROVE TypeOK'
  <2>1. idx' \in [Slots -> 1 .. NPROC + 1]
    <3>1. idx[p] \in Slots /\ idx' = [idx EXCEPT ![p] = idx[p] + 1]
        BY <1>4 DEF fork_skip, allocproc_skip
    <3>2. QED
        BY <1>0, <3>1, IdxTyped
  <2>2. parent' \in [Slots -> Slots \cup {Null}]
      BY <1>4, <1>0 DEF fork_skip, allocproc_skip, TypeOK
  <2>3. QED
      BY <1>4, <1>0, <1>b, <2>1, <2>2 DEF fork_skip, allocproc_skip, TypeOK
<1>5. ASSUME NEW p \in Slots, fork_full(p) PROVE TypeOK'
    BY <1>5, <1>0, <1>a, ProcAssumption DEF fork_full, allocproc_full, TypeOK,
       Slots, States, Places, Null, Targets
<1>6. ASSUME NEW p \in Slots, fork_no_memory(p) PROVE TypeOK'
  <2>1. PICK np \in Slots : np = idx[p]
      BY <1>6 DEF fork_no_memory, fork_fails
  <2>2. /\ state' = [state EXCEPT ![np] = "UNUSED"]
        /\ pid' = [pid EXCEPT ![np] = 0]
        /\ parent' = [parent EXCEPT ![np] = Null]
        /\ killed' = [killed EXCEPT ![np] = FALSE]
        /\ condemned' = condemned \ {pid[np]}
      BY <2>1, <1>6 DEF fork_no_memory, fork_fails
  <2>3. state' \in [Slots -> States] /\ pid' \in [Slots -> 0 .. MaxPid]
      BY <1>0, <2>2, ProcAssumption DEF TypeOK, States
  <2>4. /\ parent' \in [Slots -> Slots \cup {Null}] /\ killed' \in [Slots -> BOOLEAN]
        /\ condemned' \subseteq 0 .. MaxPid
      BY <1>0, <2>2 DEF TypeOK
  <2>5. idx' \in [Slots -> 1 .. NPROC + 1] /\ pc' \in [Slots -> Places]
      BY <1>6, <1>0, ProcAssumption DEF fork_no_memory, fork_fails, TypeOK, Places
  <2>6. /\ wait_lock' \in Slots \cup {Null}
        /\ plocked' \subseteq Slots /\ havekids' \in [Slots -> BOOLEAN]
      BY <1>6, <1>0 DEF fork_no_memory, fork_fails, TypeOK
  <2>7. QED
      BY <1>a, <2>3, <2>4, <2>5, <2>6 DEF TypeOK
<1>7. ASSUME NEW p \in Slots, fork_no_trapframe(p) PROVE TypeOK'
  <2>1. PICK np \in Slots : np = idx[p]
      BY <1>7 DEF fork_no_trapframe
  <2>2. /\ pid' = [pid EXCEPT ![np] = nextpid] /\ nextpid' = nextpid + 1
        /\ pc' = [pc EXCEPT ![p] = "user"] /\ idx' = [idx EXCEPT ![p] = 1]
        /\ UNCHANGED <<state, parent, killed, condemned, wait_lock, plocked, havekids>>
      BY <1>7, <2>1 DEF fork_no_trapframe
  <2>3. nextpid \in 0 .. MaxPid
      BY <1>a, <1>b, <2>2, ProcAssumption
  <2>4. pc' \in [Slots -> Places] /\ pid' \in [Slots -> 0 .. MaxPid]
      BY <1>0, <2>2, <2>3 DEF TypeOK, Places
  <2>5. idx' \in [Slots -> 1 .. NPROC + 1]
      BY <1>0, <2>2, IdxTyped
  <2>6. QED
      BY <1>0, <1>a, <2>2, <2>4, <2>5 DEF TypeOK
<1>8. ASSUME NEW p \in Slots, fork_child(p) PROVE TypeOK'
  <2>1. PICK np \in Slots : np = idx[p]
      BY <1>8 DEF fork_child
  <2>2. /\ state' = [state EXCEPT ![np] = "RUNNABLE"]
        /\ pid' = [pid EXCEPT ![np] = nextpid]
        /\ parent' = [parent EXCEPT ![np] = p]
        /\ pc' = [pc EXCEPT ![p] = "user", ![np] = "user"]
        /\ idx' = [idx EXCEPT ![p] = 1]
        /\ UNCHANGED <<killed, wait_lock, plocked, havekids, condemned>>
      BY <2>1, <1>8 DEF fork_child
  <2>3. nextpid' = nextpid + 1
      BY <1>8 DEF fork_child
  <2>4. state' \in [Slots -> States] /\ pc' \in [Slots -> Places]
      BY <1>0, <2>2 DEF TypeOK, States, Places
  <2>5. pid' \in [Slots -> 0 .. MaxPid]
      BY <1>0, <1>a, <1>b, <2>2, <2>3, ProcAssumption DEF TypeOK
  <2>6. parent' \in [Slots -> Slots \cup {Null}] /\ idx' \in [Slots -> 1 .. NPROC + 1]
      BY <1>0, <2>2, ProcAssumption DEF TypeOK
  <2>7. QED
      BY <1>0, <1>a, <2>2, <2>4, <2>5, <2>6 DEF TypeOK
<1>9. ASSUME NEW p \in Slots, exit_begins(p) PROVE TypeOK'
    BY <1>9, <1>0, <1>a, ProcAssumption DEF exit_begins, TypeOK, Slots, States,
       Places, Null, Targets
<1>10. ASSUME NEW p \in Slots, exit_parent(p) PROVE TypeOK'
    BY <1>10, <1>0, <1>a, ProcAssumption DEF exit_parent, TypeOK, Slots, States,
       Places, Null, Targets
<1>11. ASSUME NEW p \in Slots, exit_lock_parent(p) PROVE TypeOK'
    BY <1>11, <1>0, <1>a, ProcAssumption DEF exit_lock_parent, TypeOK, Slots,
       States, Places, Null, Targets
<1>12. ASSUME NEW p \in Slots, exit_lock(p) PROVE TypeOK'
    BY <1>12, <1>0, <1>a, ProcAssumption DEF exit_lock, TypeOK, Slots, States,
       Places, Null, Targets
<1>13. ASSUME NEW p \in Slots, reparent_child(p) PROVE TypeOK'
  <2>1. idx' \in [Slots -> 1 .. NPROC + 1]
    <3>1. idx[p] \in Slots /\ idx' = [idx EXCEPT ![p] = idx[p] + 1]
        BY <1>13 DEF reparent_child
    <3>2. QED
        BY <1>0, <3>1, IdxTyped
  <2>2. parent' \in [Slots -> Slots \cup {Null}]
      BY <1>13, <1>0 DEF reparent_child, TypeOK
  <2>3. QED
      BY <1>13, <1>0, <1>b, <2>1, <2>2 DEF reparent_child, TypeOK
<1>14. ASSUME NEW p \in Slots, exit_ends(p) PROVE TypeOK'
  <2>1. /\ state' = [wakeup(original_parent[p]) EXCEPT ![p] = "ZOMBIE"]
        /\ idx' = [idx EXCEPT ![p] = 1] /\ pc' = [pc EXCEPT ![p] = "exit_sched"]
        /\ UNCHANGED <<pid, parent, killed, nextpid, wait_lock, plocked, havekids, condemned>>
      BY <1>14 DEF exit_ends
  <2>2. state' \in [Slots -> States]
      BY <1>0, <2>1 DEF TypeOK, States
  <2>3. pc' \in [Slots -> Places]
      BY <1>0, <2>1 DEF TypeOK, Places
  <2>4. idx' \in [Slots -> 1 .. NPROC + 1]
      BY <1>0, <2>1, IdxTyped
  <2>5. QED
      BY <1>0, <2>1, <2>2, <2>3, <2>4 DEF TypeOK
<1>15. ASSUME NEW p \in Slots, exit_leaves(p) PROVE TypeOK'
    BY <1>15, <1>0, <1>a, ProcAssumption DEF exit_leaves, TypeOK, Slots, States,
       Places, Null, Targets
<1>16. ASSUME NEW p \in Slots, wait_begins(p) PROVE TypeOK'
    BY <1>16, <1>0, <1>a, ProcAssumption DEF wait_begins, TypeOK, Slots, States,
       Places, Null, Targets
<1>17. ASSUME NEW p \in Slots, wait_locks(p) PROVE TypeOK'
    BY <1>17, <1>0, <1>a, ProcAssumption DEF wait_locks, TypeOK, Slots, States,
       Places, Null, Targets
<1>18. ASSUME NEW p \in Slots, wait_other(p) PROVE TypeOK'
    BY <1>18, <1>0, <1>a, ProcAssumption DEF wait_other, wait_skip, TypeOK, Slots,
       States, Places, Null, Targets
<1>19. ASSUME NEW p \in Slots, wait_living(p) PROVE TypeOK'
  <2>1. idx' \in [Slots -> 1 .. NPROC + 1]
    <3>1. idx[p] \in Slots /\ idx' = [idx EXCEPT ![p] = idx[p] + 1]
        BY <1>19 DEF wait_living, wait_child
    <3>2. QED
        BY <1>0, <3>1, IdxTyped
  <2>2. parent' \in [Slots -> Slots \cup {Null}]
      BY <1>19, <1>0 DEF wait_living, wait_child, TypeOK
  <2>3. QED
      BY <1>19, <1>0, <1>b, <2>1, <2>2 DEF wait_living, wait_child, TypeOK
<1>20. ASSUME NEW p \in Slots, wait_reaps(p) PROVE TypeOK'
  <2>1. PICK np \in Slots : np = idx[p]
      BY <1>20 DEF wait_reaps, wait_finds, wait_returns
  <2>2. /\ state' = [state EXCEPT ![np] = "UNUSED"]
        /\ pid' = [pid EXCEPT ![np] = 0]
        /\ parent' = [parent EXCEPT ![np] = Null]
        /\ killed' = [killed EXCEPT ![np] = FALSE]
        /\ condemned' = condemned \ {pid[np]}
      BY <2>1, <1>20 DEF wait_reaps, wait_finds, wait_returns
  <2>3. state' \in [Slots -> States] /\ pid' \in [Slots -> 0 .. MaxPid]
      BY <1>0, <2>2, ProcAssumption DEF TypeOK, States
  <2>4. /\ parent' \in [Slots -> Slots \cup {Null}] /\ killed' \in [Slots -> BOOLEAN]
        /\ condemned' \subseteq 0 .. MaxPid
      BY <1>0, <2>2 DEF TypeOK
  <2>5. idx' \in [Slots -> 1 .. NPROC + 1] /\ pc' \in [Slots -> Places]
      BY <1>20, <1>0, ProcAssumption DEF wait_reaps, wait_finds, wait_returns,
         TypeOK, Places
  <2>6. /\ wait_lock' \in Slots \cup {Null}
        /\ plocked' \subseteq Slots /\ havekids' \in [Slots -> BOOLEAN]
      BY <1>20, <1>0 DEF wait_reaps, wait_finds, wait_returns, TypeOK
  <2>7. QED
      BY <1>a, <2>3, <2>4, <2>5, <2>6 DEF TypeOK
<1>21. ASSUME NEW p \in Slots, wait_no_copyout(p) PROVE TypeOK'
  <2>1. idx' \in [Slots -> 1 .. NPROC + 1] /\ pc' \in [Slots -> Places]
      BY <1>21, <1>0, ProcAssumption DEF wait_no_copyout, wait_finds,
         wait_returns, TypeOK, Places
  <2>2. QED
      BY <1>21, <1>0, <1>a, <2>1 DEF wait_no_copyout, wait_finds, wait_returns,
         TypeOK
<1>22. ASSUME NEW p \in Slots, wait_alone(p) PROVE TypeOK'
  <2>1. idx' \in [Slots -> 1 .. NPROC + 1] /\ pc' \in [Slots -> Places]
      BY <1>22, <1>0, ProcAssumption DEF wait_alone, wait_returns, TypeOK, Places
  <2>2. QED
      BY <1>22, <1>0, <1>a, <2>1 DEF wait_alone, wait_returns, TypeOK
<1>23. ASSUME NEW p \in Slots, wait_sleeps(p) PROVE TypeOK'
    BY <1>23, <1>0, <1>a, ProcAssumption DEF wait_sleeps, TypeOK, Slots, States,
       Places, Null, Targets
<1>24. ASSUME NEW p \in Slots, NEW target \in Targets, kills(p, target) PROVE TypeOK'
  <2>1. /\ killed' \in [Slots -> BOOLEAN] /\ state' \in [Slots -> States]
        /\ UNCHANGED <<pid, parent, nextpid, wait_lock, plocked, pc, idx, havekids>>
      BY <1>24, <1>0 DEF kills, kill, TypeOK, States
  <2>2. condemned' \subseteq 0 .. MaxPid
    <3>1. target \in 0 .. MaxPid /\ condemned' = condemned \cup {target}
        BY <1>24, <1>0 DEF kills, kill, TypeOK
    <3>2. QED
        BY <1>0, <3>1 DEF TypeOK
  <2>3. QED
      BY <1>0, <2>1, <2>2 DEF TypeOK
<1>25. QED
    BY <1>1, <1>2, <1>3, <1>4, <1>5, <1>6, <1>7, <1>8, <1>9, <1>10,
       <1>11, <1>12, <1>13, <1>14, <1>15, <1>16, <1>17, <1>18, <1>19, <1>20,
       <1>21, <1>22, <1>23, <1>24 DEF FamilyNext, FamilyStep

LEMMA FamilyOwnersKept ==
    ASSUME FamilyInv, [FamilyNext]_<<vars, familyVars>>
    PROVE  FamilyTypes'
<1> USE DEF At, Goto, NextSlot, FirstSlot, wakeup, freeproc, Call, procVars, familyVars, Free, Held, Released
<1>0. TypeOK /\ FamilyTypes /\ initproc \in Slots /\ Null \notin Slots
    BY SlotFacts DEF FamilyInv
<1>a. nextpid' \in 2 .. MaxPid + 1
    BY FamilyCount
<1>b. nextpid \in 2 .. MaxPid + 1
    BY <1>0 DEF TypeOK
<1>1. CASE UNCHANGED <<vars, familyVars>>
    BY <1>1, <1>0 DEF FamilyTypes
<1>2. ASSUME NEW p \in Slots, schedule(p) PROVE FamilyTypes'
    BY <1>2, <1>0 DEF schedule, TypeOK, FamilyTypes
<1>3. ASSUME NEW p \in Slots, fork_begins(p) PROVE FamilyTypes'
    BY <1>3, <1>0 DEF fork_begins, fork, TypeOK, FamilyTypes
<1>4. ASSUME NEW p \in Slots, fork_skip(p) PROVE FamilyTypes'
    BY <1>4, <1>0 DEF fork_skip, allocproc_skip, TypeOK, FamilyTypes
<1>5. ASSUME NEW p \in Slots, fork_full(p) PROVE FamilyTypes'
    BY <1>5, <1>0 DEF fork_full, allocproc_full, TypeOK, FamilyTypes
<1>6. ASSUME NEW p \in Slots, fork_no_memory(p) PROVE FamilyTypes'
    BY <1>6, <1>0 DEF fork_no_memory, fork_fails, TypeOK, FamilyTypes
<1>7. ASSUME NEW p \in Slots, fork_no_trapframe(p) PROVE FamilyTypes'
    BY <1>7, <1>0 DEF fork_no_trapframe, TypeOK, FamilyTypes
<1>8. ASSUME NEW p \in Slots, fork_child(p) PROVE FamilyTypes'
    BY <1>8, <1>0 DEF fork_child, TypeOK, FamilyTypes
<1>9. ASSUME NEW p \in Slots, exit_begins(p) PROVE FamilyTypes'
    BY <1>9, <1>0 DEF exit_begins, TypeOK, FamilyTypes
<1>10. ASSUME NEW p \in Slots, exit_parent(p) PROVE FamilyTypes'
    BY <1>10, <1>0 DEF exit_parent, TypeOK, FamilyTypes
<1>11. ASSUME NEW p \in Slots, exit_lock_parent(p) PROVE FamilyTypes'
    BY <1>11, <1>0 DEF exit_lock_parent, TypeOK, FamilyTypes
<1>12. ASSUME NEW p \in Slots, exit_lock(p) PROVE FamilyTypes'
    BY <1>12, <1>0 DEF exit_lock, TypeOK, FamilyTypes
<1>13. ASSUME NEW p \in Slots, reparent_child(p) PROVE FamilyTypes'
    BY <1>13, <1>0 DEF reparent_child, TypeOK, FamilyTypes
<1>14. ASSUME NEW p \in Slots, exit_ends(p) PROVE FamilyTypes'
    BY <1>14, <1>0 DEF exit_ends, TypeOK, FamilyTypes
<1>15. ASSUME NEW p \in Slots, exit_leaves(p) PROVE FamilyTypes'
    BY <1>15, <1>0 DEF exit_leaves, TypeOK, FamilyTypes
<1>16. ASSUME NEW p \in Slots, wait_begins(p) PROVE FamilyTypes'
    BY <1>16, <1>0 DEF wait_begins, TypeOK, FamilyTypes
<1>17. ASSUME NEW p \in Slots, wait_locks(p) PROVE FamilyTypes'
    BY <1>17, <1>0 DEF wait_locks, TypeOK, FamilyTypes
<1>18. ASSUME NEW p \in Slots, wait_other(p) PROVE FamilyTypes'
    BY <1>18, <1>0 DEF wait_other, wait_skip, TypeOK, FamilyTypes
<1>19. ASSUME NEW p \in Slots, wait_living(p) PROVE FamilyTypes'
    BY <1>19, <1>0 DEF wait_living, wait_child, TypeOK, FamilyTypes
<1>20. ASSUME NEW p \in Slots, wait_reaps(p) PROVE FamilyTypes'
    BY <1>20, <1>0 DEF wait_reaps, wait_finds, wait_returns, TypeOK, FamilyTypes
<1>21. ASSUME NEW p \in Slots, wait_no_copyout(p) PROVE FamilyTypes'
    BY <1>21, <1>0 DEF wait_no_copyout, wait_finds, wait_returns, TypeOK,
       FamilyTypes
<1>22. ASSUME NEW p \in Slots, wait_alone(p) PROVE FamilyTypes'
    BY <1>22, <1>0 DEF wait_alone, wait_returns, TypeOK, FamilyTypes
<1>23. ASSUME NEW p \in Slots, wait_sleeps(p) PROVE FamilyTypes'
    BY <1>23, <1>0 DEF wait_sleeps, TypeOK, FamilyTypes
<1>24. ASSUME NEW p \in Slots, NEW target \in Targets, kills(p, target) PROVE FamilyTypes'
    BY <1>24, <1>0 DEF kills, kill, TypeOK, FamilyTypes
<1>25. QED
    BY <1>1, <1>2, <1>3, <1>4, <1>5, <1>6, <1>7, <1>8, <1>9, <1>10,
       <1>11, <1>12, <1>13, <1>14, <1>15, <1>16, <1>17, <1>18, <1>19, <1>20,
       <1>21, <1>22, <1>23, <1>24 DEF FamilyNext, FamilyStep

LEMMA FamilyInitInv == ASSUME FamilyInit PROVE FamilyInv
<1> USE DEF FamilyInit, Init
<1>0. initproc \in Slots /\ Null \notin Slots /\ ProcInv
    BY SlotFacts, InitInv
<1>1. TypeOK
    BY <1>0 DEF ProcInv
<1>2. FamilyTypes
    BY DEF FamilyTypes
<1>3. FamilyThreads
    BY <1>0 DEF FamilyThreads, Exiting, Alive
<1>4. FamilyLocks
    BY <1>0 DEF FamilyLocks
<1>5. FamilyLoops
    BY DEF FamilyLoops
<1>6. Lineage
    BY <1>0 DEF Lineage, Alive, FamilyTree
<1>7. FamilyExits /\ FamilyWaits
    BY <1>0 DEF FamilyExits, FamilyWaits, Exiting, Leaving
<1>8. nextpid + Cardinality(Asking) <= MaxPid + 1
    BY <1>0 DEF ProcInv, Pids
<1>9. QED
    BY <1>1, <1>2, <1>3, <1>4, <1>5, <1>6, <1>7, <1>8 DEF FamilyInv

LEMMA FamilyInvKept ==
    ASSUME FamilyInv, [FamilyNext]_<<vars, familyVars>>
    PROVE  FamilyInv'
<1>1. TypeOK' /\ FamilyTypes' /\ FamilyThreads' /\ FamilyLocks' /\ FamilyLoops'
    BY FamilyTypesKept, FamilyOwnersKept, FamilyThreadsKept, FamilyLocksKept,
       FamilyLoopsKept
<1>2. Lineage' /\ FamilyExits' /\ FamilyWaits'
    BY LineageKept, FamilyExitsKept, FamilyWaitsKept
<1>3. nextpid' + Cardinality(Asking') <= MaxPid + 1
    BY FamilyCount
<1>4. QED
    BY <1>1, <1>2, <1>3 DEF FamilyInv

LEMMA FamilyInvSound ==
    ASSUME FamilyInv
    PROVE  TableOK /\ StackRetired /\ FamilyOK
<1>1. TableOK
    BY DEF FamilyInv, Lineage, TableOK
<1>2. StackRetired
    BY DEF FamilyInv, FamilyThreads, StackRetired, Exiting, Alive
<1>3. ParentsKnow
    BY DEF FamilyInv, FamilyWaits, HasChild, NoZombie, ParentsKnow
<1>4. LocksHeld
  <2>1. ASSUME NEW s \in Slots, owner[s] # Null PROVE owner[s] \in Slots
      BY <2>1 DEF FamilyInv, FamilyTypes
  <2>2. QED
      BY <2>1 DEF FamilyInv, FamilyLocks, LocksHeld
<1>5. QED
    BY <1>1, <1>2, <1>3, <1>4 DEF FamilyOK

\* The invariant of the protocol of MP0 and mp1 holds in every state.
THEOREM FamilyInvariant == FamilySpec => []FamilyInv
<1>1. FamilyInit => FamilyInv
    BY FamilyInitInv
<1>2. FamilyInv /\ [FamilyNext]_<<vars, familyVars>> => FamilyInv'
    BY FamilyInvKept
<1>3. QED
    BY <1>1, <1>2, PTL DEF FamilySpec

-----------------------------------------------------------------------------
(* Both protocols, as they are checked side by side.                       *)

ProtocolInv ==
    /\ part \in {"wait_lock", "parent_locks"}
    /\ part = "wait_lock" => ProcInv /\ \A s \in Slots : owner[s] = Null
    /\ part = "parent_locks" => FamilyInv

\* Every state of either protocol satisfies the invariant of that protocol.
THEOREM ProtocolInvariant == MCSpec => []ProtocolInv
<1>1. MCInit => ProtocolInv
  <2>1. ASSUME MCInit PROVE ProcInv /\ FamilyInv /\ \A s \in Slots : owner[s] = Null
      BY <2>1, InitInv, FamilyInitInv DEF MCInit, FamilyInit
  <2>2. QED
      BY <2>1 DEF MCInit, ProtocolInv
<1>2. ASSUME ProtocolInv, [MCNext]_mcVars PROVE ProtocolInv'
  <2>1. CASE part = "wait_lock" /\ Next /\ UNCHANGED <<familyVars, part>>
    <3>1. ProcInv'
        BY <1>2, <2>1, InvKept DEF ProtocolInv
    <3>2. QED
        BY <1>2, <2>1, <3>1 DEF ProtocolInv, familyVars
  <2>2. CASE part = "parent_locks" /\ FamilyNext /\ UNCHANGED part
    <3>1. FamilyInv'
        BY <1>2, <2>2, FamilyInvKept DEF ProtocolInv
    <3>2. QED
        BY <2>2, <3>1 DEF ProtocolInv
  <2>3. CASE UNCHANGED mcVars
    <3>1. UNCHANGED vars /\ UNCHANGED familyVars /\ part' = part
        BY <2>3 DEF mcVars
    <3>2. part = "wait_lock" => ProcInv'
        BY <1>2, <3>1, InvKept DEF ProtocolInv
    <3>3. part = "parent_locks" => FamilyInv'
        BY <1>2, <3>1, FamilyInvKept DEF ProtocolInv
    <3>4. QED
        BY <1>2, <3>1, <3>2, <3>3 DEF ProtocolInv, familyVars
  <2>4. QED
      BY <1>2, <2>1, <2>2, <2>3 DEF MCNext
<1>3. QED
    BY <1>1, <1>2, PTL DEF MCSpec

LEMMA ProtocolSound ==
    ASSUME ProtocolInv
    PROVE  TableOK /\ StackRetired /\ FamilyOK /\ (~KillZero => WaitLockSound)
<1>1. CASE part = "wait_lock"
  <2>1. TableOK /\ StackRetired /\ WaitsForSomething /\ (~KillZero => OnlyTheCondemned)
      BY <1>1, InvSound DEF ProtocolInv
  <2>2. ParentsKnow
      BY <2>1 DEF ParentsKnow, WaitsForSomething
  <2>3. LocksHeld
      BY <1>1 DEF ProtocolInv, LocksHeld
  <2>4. QED
      BY <2>1, <2>2, <2>3 DEF FamilyOK, WaitLockSound
<1>2. CASE part = "parent_locks"
    BY <1>2, FamilyInvSound DEF ProtocolInv, WaitLockSound
<1>3. QED
    BY <1>1, <1>2 DEF ProtocolInv

\* Whoever is somebody's parent is alive, and every process but init has a
\* parent to reap it, for any number of slots and in both protocols: exit()
\* hands its children to init before it becomes a zombie, whatever fork(),
\* wait() and the other exits do between the steps of its loop.
THEOREM FamilyIsATree == MCSpec => []TableOK
<1>1. ProtocolInv => TableOK
    BY ProtocolSound
<1>2. QED
    BY <1>1, ProtocolInvariant, PTL

\* No slot is free, or being filled by fork(), while the old thread of the slot
\* is still on its way from exit() to the scheduler.
THEOREM StacksRetired == MCSpec => []StackRetired
<1>1. ProtocolInv => StackRetired
    BY ProtocolSound
<1>2. QED
    BY <1>1, ProtocolInvariant, PTL

\* mp2: nobody sleeps in wait(), or returns from it, because of what is no
\* longer so, and only a kill() of its own pid kills a process, if programs do
\* not call kill(0), which marks a free slot.
THEOREM WaitLockSuffices ==
    ASSUME ~KillZero
    PROVE  MCSpec => []WaitLockSound
<1>1. ProtocolInv => WaitLockSound
    BY ProtocolSound
<1>2. QED
    BY <1>1, ProtocolInvariant, PTL

\* MP0 and mp1: without a wait_lock, a parent other than init that sleeps has a
\* child and no zombie among its children, and every lock is held by whoever
\* took it.
THEOREM ParentLocksSuffice == MCSpec => []FamilyOK
<1>1. ProtocolInv => FamilyOK
    BY ProtocolSound
<1>2. QED
    BY <1>1, ProtocolInvariant, PTL
=============================================================================
