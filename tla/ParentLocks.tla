----------------------------- MODULE ParentLocks -----------------------------
(***************************************************************************)
(* The same life of a process in the kernels of MP0 and mp1, where no      *)
(* wait_lock protects the family: a process writes the parent of its own   *)
(* children only, wait() holds the lock of the process that waits during   *)
(* its scan and across sleep(), and exit() takes the lock of a parent and  *)
(* then its own.  A lock is held by one process on its own slot or on      *)
(* another's, and two or three of them at a time.                          *)
(***************************************************************************)
EXTENDS Proc

VARIABLES
    owner,              \* owner[s]: the process that holds p->lock of slot s, or Null
    original_parent     \* original_parent[p]: the local variable of exit()

familyVars == <<owner, original_parent>>

FamilyInit == Init /\ owner = [s \in Slots |-> Null] /\ original_parent = [p \in Slots |-> Null]

Free(s) == owner[s] = Null
Held(p, slots) == owner' = [s \in Slots |-> IF s \in slots THEN p ELSE owner[s]]
Released(slots) == owner' = [s \in Slots |-> IF s \in slots THEN Null ELSE owner[s]]

\* Whoever comes back from sleep() in wait() still owns the lock that the
\* scheduler took for it.
schedule(p) ==
    /\ state[p] = "RUNNABLE" /\ Free(p)
    /\ state' = [state EXCEPT ![p] = "RUNNING"]
    /\ IF pc[p] = "wait" THEN Held(p, {p}) ELSE UNCHANGED owner
    /\ UNCHANGED <<pid, parent, killed, nextpid, wait_lock, plocked, pc, idx,
                   havekids, condemned, original_parent>>

-----------------------------------------------------------------------------
(* fork(): everything under np->lock.                                      *)

fork_skip(p) == allocproc_skip(p) /\ Free(idx[p]) /\ UNCHANGED familyVars
fork_full(p) == allocproc_full(p) /\ UNCHANGED familyVars
fork_begins(p) == fork(p) /\ UNCHANGED familyVars
fork_no_memory(p) == fork_fails(p) /\ Free(idx[p]) /\ UNCHANGED familyVars

\* No page for the trapframe: allocproc() gives up without freeproc(), and the
\* free slot keeps the pid.
fork_no_trapframe(p) ==
    LET np == idx[p] IN
    /\ At(p, "allocproc")
    /\ np \in Slots /\ Free(np) /\ state[np] = "UNUSED"
    /\ pid' = [pid EXCEPT ![np] = nextpid]
    /\ nextpid' = nextpid + 1
    /\ FirstSlot(p)
    /\ Goto(p, "user")
    /\ UNCHANGED <<state, parent, killed, condemned, wait_lock, plocked, havekids, familyVars>>

fork_child(p) ==
    LET np == idx[p] IN
    /\ At(p, "allocproc")
    /\ np \in Slots /\ Free(np) /\ state[np] = "UNUSED"
    /\ pid' = [pid EXCEPT ![np] = nextpid]
    /\ nextpid' = nextpid + 1
    /\ parent' = [parent EXCEPT ![np] = p]
    /\ state' = [state EXCEPT ![np] = "RUNNABLE"]
    /\ pc' = [pc EXCEPT ![p] = "user", ![np] = "user"]
    /\ FirstSlot(p)
    /\ UNCHANGED <<killed, wait_lock, plocked, havekids, condemned, familyVars>>

-----------------------------------------------------------------------------
(* exit().  Bound: init does not exit (it would panic).                    *)

\* wakeup1(initproc), needed or not.
exit_begins(p) ==
    /\ At(p, "user") /\ p # initproc /\ Free(initproc)
    /\ state' = wakeup(initproc)
    /\ Goto(p, "exit_parent")
    /\ UNCHANGED <<pid, parent, killed, nextpid, wait_lock, plocked, idx,
                   havekids, condemned, familyVars>>

exit_parent(p) ==
    /\ At(p, "exit_parent") /\ Free(p)
    /\ original_parent' = [original_parent EXCEPT ![p] = parent[p]]
    /\ Goto(p, "exit_lock_parent")
    /\ UNCHANGED <<procVars, nextpid, wait_lock, plocked, idx, havekids, owner>>

\* Mutant: the parent's lock is not taken.
exit_lock_parent_skips(p) ==
    /\ At(p, "exit_lock_parent")
    /\ Goto(p, "exit_lock")
    /\ UNCHANGED <<procVars, nextpid, wait_lock, plocked, idx, havekids, familyVars>>

exit_lock_parent(p) ==
    /\ At(p, "exit_lock_parent") /\ Free(original_parent[p])
    /\ Held(p, {original_parent[p]})
    /\ Goto(p, "exit_lock")
    /\ UNCHANGED <<procVars, nextpid, wait_lock, plocked, idx, havekids, original_parent>>

exit_lock(p) ==
    /\ At(p, "exit_lock") /\ Free(p)
    /\ Held(p, {p})
    /\ Goto(p, "reparent")
    /\ UNCHANGED <<procVars, nextpid, wait_lock, plocked, idx, havekids, original_parent>>

reparent_child(p) ==
    /\ At(p, "reparent") /\ idx[p] \in Slots
    /\ \/ /\ parent[idx[p]] # p
          /\ UNCHANGED parent
       \/ /\ parent[idx[p]] = p /\ Free(idx[p])
          /\ parent' = [parent EXCEPT ![idx[p]] = initproc]
    /\ NextSlot(p)
    /\ UNCHANGED <<state, pid, killed, nextpid, wait_lock, plocked, pc, havekids,
                   condemned, familyVars>>

\* wakeup1(original_parent), and the state that wait() looks for; p->lock is
\* released by the scheduler.
exit_ends(p) ==
    /\ At(p, "reparent") /\ idx[p] \notin Slots
    /\ state' = [wakeup(original_parent[p]) EXCEPT ![p] = "ZOMBIE"]
    /\ Released({original_parent[p]})
    /\ original_parent' = [original_parent EXCEPT ![p] = Null]
    /\ FirstSlot(p)
    /\ Goto(p, "exit_sched")
    /\ UNCHANGED <<pid, parent, killed, nextpid, wait_lock, plocked, havekids, condemned>>

exit_leaves(p) ==
    /\ pc[p] = "exit_sched"
    /\ Released({p})
    /\ Goto(p, "none")
    /\ UNCHANGED <<procVars, nextpid, wait_lock, plocked, idx, havekids, original_parent>>

-----------------------------------------------------------------------------
(* wait().                                                                 *)

wait_begins(p) ==
    /\ Call(p, "wait_lock")
    /\ UNCHANGED <<procVars, nextpid, wait_lock, plocked, idx, havekids, familyVars>>

wait_locks(p) ==
    /\ At(p, "wait_lock") /\ Free(p)
    /\ Held(p, {p})
    /\ Goto(p, "wait")
    /\ UNCHANGED <<procVars, nextpid, wait_lock, plocked, idx, havekids, original_parent>>

wait_other(p) == wait_skip(p) /\ UNCHANGED familyVars
wait_living(p) == wait_child(p) /\ Free(idx[p]) /\ UNCHANGED familyVars

wait_finds(p) ==
    /\ At(p, "wait") /\ idx[p] \in Slots /\ parent[idx[p]] = p
    /\ Free(idx[p]) /\ state[idx[p]] = "ZOMBIE"

wait_returns(p) ==
    /\ Released({p})
    /\ FirstSlot(p)
    /\ havekids' = [havekids EXCEPT ![p] = FALSE]
    /\ Goto(p, "user")
    /\ UNCHANGED <<nextpid, wait_lock, plocked, original_parent>>

wait_reaps(p) == wait_finds(p) /\ freeproc(idx[p]) /\ wait_returns(p)
wait_no_copyout(p) ==
    wait_finds(p) /\ p # initproc /\ wait_returns(p) /\ UNCHANGED procVars
wait_alone(p) ==
    /\ At(p, "wait") /\ idx[p] \notin Slots
    /\ ~havekids[p] \/ killed[p]
    /\ wait_returns(p)
    /\ UNCHANGED procVars

\* sleep(p, &p->lock): the scheduler releases the lock and takes it again, and
\* the scan starts over.
wait_sleeps(p) ==
    /\ At(p, "wait") /\ idx[p] \notin Slots
    /\ havekids[p] /\ ~killed[p]
    /\ state' = [state EXCEPT ![p] = "SLEEPING"]
    /\ Released({p})
    /\ FirstSlot(p)
    /\ havekids' = [havekids EXCEPT ![p] = FALSE]
    /\ UNCHANGED <<pid, parent, killed, nextpid, wait_lock, plocked, pc, condemned,
                   original_parent>>

-----------------------------------------------------------------------------
\* As in Proc: the first slot with the pid, and nobody kills init.
kills(p, target) ==
    kill(p, target) /\ (\A s \in Slots : pid[s] = target => Free(s)) /\ UNCHANGED familyVars

FamilyStep(p) ==
    \/ schedule(p)
    \/ fork_begins(p) \/ fork_skip(p) \/ fork_full(p) \/ fork_no_memory(p)
    \/ fork_no_trapframe(p) \/ fork_child(p)
    \/ exit_begins(p) \/ exit_parent(p) \/ exit_lock_parent(p) \/ exit_lock(p)
    \/ reparent_child(p) \/ exit_ends(p) \/ exit_leaves(p)
    \/ wait_begins(p) \/ wait_locks(p) \/ wait_other(p) \/ wait_living(p)
    \/ wait_reaps(p) \/ wait_no_copyout(p) \/ wait_alone(p) \/ wait_sleeps(p)
    \/ \E target \in Targets : kills(p, target)

FamilyNext == \E p \in Slots : FamilyStep(p)
FamilySpec == FamilyInit /\ [][FamilyNext]_<<vars, familyVars>>

-----------------------------------------------------------------------------
(* Properties.                                                             *)

\* A process that sleeps in wait() has a child, and no child that has exited:
\* exit() makes itself a zombie and wakes its parent under the parent's lock
\* (MP0's and mp1's proc.c:383-393).  init is not among them: it may miss its
\* wakeup when it inherits a child that is about to exit.
ParentsKnow ==
    \A p \in Slots \ {initproc} : state[p] = "SLEEPING" =>
        /\ \E s \in Slots : parent[s] = p
        /\ \A s \in Slots : parent[s] = p => state[s] # "ZOMBIE"

\* A lock that somebody holds is the one that its code has taken.
LocksHeld ==
    \A s \in Slots : owner[s] # Null =>
        LET p == owner[s] IN
        \/ p = s /\ pc[p] \in {"reparent", "exit_sched", "wait"}
        \/ s = original_parent[p] /\ pc[p] \in {"exit_lock", "reparent"}

\* Without a wait_lock, too, the family is a tree and a parent that waits knows
\* of every zombie, whatever its children, their children and it do meanwhile.
FamilyOK == ParentsKnow /\ LocksHeld

\* The slot whose lock p spins for, or Null.
Wanted(p) ==
    IF state[p] # "RUNNING" THEN Null
    ELSE IF pc[p] = "exit_lock_parent" THEN original_parent[p]
    ELSE IF pc[p] \in {"exit_parent", "exit_lock", "wait_lock"} THEN p
    ELSE IF pc[p] \in {"reparent", "wait"} /\ idx[p] \in Slots
         THEN IF parent[idx[p]] = p THEN idx[p] ELSE Null
    ELSE Null

\* No processes spin for ever, each for a lock that another of them holds: the
\* locks are taken "parent-then-child", and a race with an exiting parent is "a
\* harmless spurious wakeup to a dead or wrong process" (MP0's proc.c:363-376).
NoCircle ==
    ~ \E ring \in SUBSET Slots \ {{}} :
        \A p \in ring : Wanted(p) # Null /\ owner[Wanted(p)] \in ring
=============================================================================
