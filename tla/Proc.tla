-------------------------------- MODULE Proc --------------------------------
(***************************************************************************)
(* The life of a process in mp2/kernel/proc.c: fork() with allocproc(),    *)
(* exit() with reparent(), wait() and kill(), and the two kinds of lock    *)
(* that protect the process table, one p->lock per slot and the global     *)
(* wait_lock that protects p->parent.                                      *)
(*                                                                         *)
(* A loop over the table is one step per slot, because it takes the lock   *)
(* of one slot at a time.  What a thread does under one lock, to data only *)
(* that lock protects, is one step; a lock that is held from one step to   *)
(* another is in the state.  The only process that ever sleeps on a        *)
(* process p as its channel is p itself in wait(), so the loop of          *)
(* wakeup(p) is the step that visits the slot of p.  Harts, interrupts and *)
(* the switch between threads are the subject of SleepLock; memory is the  *)
(* subject of Paging.                                                      *)
(***************************************************************************)
EXTENDS Integers, FiniteSets

CONSTANTS NPROC,    \* number of slots of the process table
          MaxPid,   \* bound: the last pid that allocpid() hands out
          KillZero  \* do programs call kill(0)?

ASSUME ProcAssumption ==
    /\ NPROC \in Nat \ {0}
    /\ MaxPid \in Nat \ {0}
    /\ KillZero \in BOOLEAN

Slots == 1 .. NPROC
Null == 0            \* the null pointer, for p->parent and wait_lock
initproc == 1        \* userinit() runs first and gets the first slot

VARIABLES
    state,      \* state[p]: p->state
    pid,        \* pid[p]: p->pid
    parent,     \* parent[p]: p->parent
    killed,     \* killed[p]: p->killed
    nextpid,    \* nextpid
    wait_lock,  \* the process that holds wait_lock, or Null
    plocked,    \* the slots whose p->lock is held, by the thread of p itself
    pc,         \* pc[p]: where the kernel thread of p is
    idx,        \* idx[p]: the slot that the loop p executes has reached
    havekids,   \* havekids[p]: the local variable of wait()
    condemned   \* history: pids given to kill() while they were in use

procVars == <<state, pid, parent, killed, condemned>>
vars == <<state, pid, parent, killed, nextpid, wait_lock, plocked, pc, idx,
          havekids, condemned>>

States == {"UNUSED", "USED", "SLEEPING", "RUNNABLE", "RUNNING", "ZOMBIE"}
Places == {"none", "user", "allocproc", "fork_parent", "fork_runnable",
           "reparent", "exit_zombie", "exit_sched",
           "wait_lock", "wait", "sleep", "sleep_sched",
           "exit_parent", "exit_lock_parent", "exit_lock"} \* of ParentLocks

(* State, locks, counters and program points have their types.             *)
TypeOK ==
    /\ state \in [Slots -> States]
    /\ pid \in [Slots -> 0 .. MaxPid]
    /\ parent \in [Slots -> Slots \cup {Null}]
    /\ killed \in [Slots -> BOOLEAN]
    /\ nextpid \in 2 .. MaxPid + 1
    /\ wait_lock \in Slots \cup {Null}
    /\ plocked \subseteq Slots
    /\ pc \in [Slots -> Places]
    /\ idx \in [Slots -> 1 .. NPROC + 1]
    /\ havekids \in [Slots -> BOOLEAN]
    /\ condemned \subseteq 0 .. MaxPid

\* What userinit() leaves behind: one process, not yet scheduled.
Init ==
    /\ state = [p \in Slots |-> IF p = initproc THEN "RUNNABLE" ELSE "UNUSED"]
    /\ pid = [p \in Slots |-> IF p = initproc THEN 1 ELSE 0]
    /\ parent = [p \in Slots |-> Null]
    /\ killed = [p \in Slots |-> FALSE]
    /\ nextpid = 2
    /\ wait_lock = Null
    /\ plocked = {}
    /\ pc = [p \in Slots |-> IF p = initproc THEN "user" ELSE "none"]
    /\ idx = [p \in Slots |-> 1]
    /\ havekids = [p \in Slots |-> FALSE]
    /\ condemned = {}

-----------------------------------------------------------------------------
(* Parts of the actions.                                                   *)

\* The thread of p runs at program point x.
At(p, x) == state[p] = "RUNNING" /\ pc[p] = x

Goto(p, x) == pc' = [pc EXCEPT ![p] = x]

\* The loop goes on to the next slot; leaving it, the index is forgotten.
NextSlot(p) == idx' = [idx EXCEPT ![p] = @ + 1]
FirstSlot(p) == idx' = [idx EXCEPT ![p] = 1]

\* The state of the table after wakeup(q): q sleeps on q or not at all.
wakeup(q) ==
    IF state[q] = "SLEEPING" THEN [state EXCEPT ![q] = "RUNNABLE"] ELSE state

freeproc(s) ==
    /\ state' = [state EXCEPT ![s] = "UNUSED"]
    /\ pid' = [pid EXCEPT ![s] = 0]
    /\ parent' = [parent EXCEPT ![s] = Null]
    /\ killed' = [killed EXCEPT ![s] = FALSE]
    /\ condemned' = condemned \ {pid[s]}

\* The scheduler switches to p, which releases p->lock when it arrives.
scheduler(p) ==
    /\ state[p] = "RUNNABLE"
    /\ p \notin plocked
    /\ state' = [state EXCEPT ![p] = "RUNNING"]
    /\ UNCHANGED <<pid, parent, killed, nextpid, wait_lock, plocked, pc, idx,
                   havekids, condemned>>

\* usertrap() lets a program make a system call unless it is killed.
Call(p, x) == At(p, "user") /\ ~killed[p] /\ Goto(p, x)

-----------------------------------------------------------------------------
(* fork().                                                                 *)

\* Bound: no more forks than there are pids left.
fork(p) ==
    /\ nextpid + Cardinality({q \in Slots : pc[q] = "allocproc"}) <= MaxPid
    /\ Call(p, "allocproc")
    /\ UNCHANGED <<procVars, nextpid, wait_lock, plocked, idx, havekids>>

allocproc_skip(p) ==
    /\ At(p, "allocproc")
    /\ idx[p] \in Slots \ plocked
    /\ state[idx[p]] # "UNUSED"
    /\ NextSlot(p)
    /\ UNCHANGED <<procVars, nextpid, wait_lock, plocked, pc, havekids>>

\* The table is full, fork() returns -1.
allocproc_full(p) ==
    /\ At(p, "allocproc")
    /\ idx[p] \notin Slots
    /\ FirstSlot(p)
    /\ Goto(p, "user")
    /\ UNCHANGED <<procVars, nextpid, wait_lock, plocked, havekids>>

\* allocproc() and the part of fork() under np->lock succeed.
allocproc(p) ==
    LET np == idx[p] IN
    /\ At(p, "allocproc")
    /\ np \in Slots \ plocked
    /\ state[np] = "UNUSED"
    /\ pid' = [pid EXCEPT ![np] = nextpid]
    /\ nextpid' = nextpid + 1
    /\ state' = [state EXCEPT ![np] = "USED"]
    /\ Goto(p, "fork_parent")
    /\ UNCHANGED <<parent, killed, wait_lock, plocked, idx, havekids, condemned>>

\* Memory runs out in allocproc() or uvmcopy(): fork() returns -1.
fork_fails(p) ==
    LET np == idx[p] IN
    /\ At(p, "allocproc")
    /\ np \in Slots \ plocked
    /\ state[np] = "UNUSED"
    /\ nextpid' = nextpid + 1
    /\ freeproc(np)
    /\ FirstSlot(p)
    /\ Goto(p, "user")
    /\ UNCHANGED <<wait_lock, plocked, havekids>>

fork_parent(p) ==
    /\ At(p, "fork_parent")
    /\ wait_lock = Null
    /\ parent' = [parent EXCEPT ![idx[p]] = p]
    /\ Goto(p, "fork_runnable")
    /\ UNCHANGED <<state, pid, killed, nextpid, wait_lock, plocked, idx,
                   havekids, condemned>>

\* The child starts in forkret() and goes on to user space.
fork_runnable(p) ==
    LET np == idx[p] IN
    /\ At(p, "fork_runnable")
    /\ np \notin plocked
    /\ state' = [state EXCEPT ![np] = "RUNNABLE"]
    /\ pc' = [pc EXCEPT ![p] = "user", ![np] = "user"]
    /\ FirstSlot(p)
    /\ UNCHANGED <<pid, parent, killed, nextpid, wait_lock, plocked, havekids,
                   condemned>>

-----------------------------------------------------------------------------
(* exit().                                                                 *)

\* By the program's wish, or because usertrap() finds p->killed set.  The
\* files are closed by now.  Bound: init does not exit (it would panic).
exit(p) ==
    /\ At(p, "user")
    /\ p # initproc
    /\ wait_lock = Null
    /\ wait_lock' = p
    /\ Goto(p, "reparent")
    /\ UNCHANGED <<procVars, nextpid, plocked, idx, havekids>>

\* Mutant: reparent() leaves children alone that have exited already.
reparent_living(p) ==
    /\ At(p, "reparent")
    /\ idx[p] \in Slots
    /\ \/ /\ parent[idx[p]] # p \/ state[idx[p]] = "ZOMBIE"
          /\ UNCHANGED <<state, parent>>
       \/ /\ parent[idx[p]] = p /\ state[idx[p]] # "ZOMBIE"
          /\ initproc \notin plocked
          /\ parent' = [parent EXCEPT ![idx[p]] = initproc]
          /\ state' = wakeup(initproc)
    /\ NextSlot(p)
    /\ UNCHANGED <<pid, killed, nextpid, wait_lock, plocked, pc, havekids,
                   condemned>>

reparent(p) ==
    /\ At(p, "reparent")
    /\ idx[p] \in Slots
    /\ \/ /\ parent[idx[p]] # p
          /\ UNCHANGED <<state, parent>>
       \/ /\ parent[idx[p]] = p
          /\ initproc \notin plocked
          /\ parent' = [parent EXCEPT ![idx[p]] = initproc]
          /\ state' = wakeup(initproc)
    /\ NextSlot(p)
    /\ UNCHANGED <<pid, killed, nextpid, wait_lock, plocked, pc, havekids,
                   condemned>>

\* wakeup(p->parent)
exit_wakeup(p) ==
    /\ At(p, "reparent")
    /\ idx[p] \notin Slots
    /\ parent[p] \notin plocked
    /\ state' = wakeup(parent[p])
    /\ FirstSlot(p)
    /\ Goto(p, "exit_zombie")
    /\ UNCHANGED <<pid, parent, killed, nextpid, wait_lock, plocked, havekids,
                   condemned>>

\* p->lock is taken here and released by the scheduler.
exit_zombie(p) ==
    /\ At(p, "exit_zombie")
    /\ p \notin plocked
    /\ plocked' = plocked \cup {p}
    /\ state' = [state EXCEPT ![p] = "ZOMBIE"]
    /\ wait_lock' = Null
    /\ Goto(p, "exit_sched")
    /\ UNCHANGED <<pid, parent, killed, nextpid, idx, havekids, condemned>>

\* The switch to the scheduler: the thread leaves its stack for good.
exit_sched(p) ==
    /\ pc[p] = "exit_sched"
    /\ plocked' = plocked \ {p}
    /\ Goto(p, "none")
    /\ UNCHANGED <<procVars, nextpid, wait_lock, idx, havekids>>

-----------------------------------------------------------------------------
(* wait().                                                                 *)

wait(p) ==
    /\ Call(p, "wait_lock")
    /\ UNCHANGED <<procVars, nextpid, wait_lock, plocked, idx, havekids>>

\* acquire(&wait_lock), on entry and on return from sleep(); then the scan
\* starts.
wait_acquire(p) ==
    /\ At(p, "wait_lock")
    /\ wait_lock = Null
    /\ wait_lock' = p
    /\ Goto(p, "wait")
    /\ havekids' = [havekids EXCEPT ![p] = FALSE]
    /\ UNCHANGED <<procVars, nextpid, plocked, idx>>

wait_skip(p) ==
    /\ At(p, "wait")
    /\ idx[p] \in Slots
    /\ parent[idx[p]] # p
    /\ NextSlot(p)
    /\ UNCHANGED <<procVars, nextpid, wait_lock, plocked, pc, havekids>>

wait_child(p) ==
    /\ At(p, "wait")
    /\ idx[p] \in Slots \ plocked
    /\ parent[idx[p]] = p
    /\ state[idx[p]] # "ZOMBIE"
    /\ havekids' = [havekids EXCEPT ![p] = TRUE]
    /\ NextSlot(p)
    /\ UNCHANGED <<procVars, nextpid, wait_lock, plocked, pc>>

\* Back to user space, with the lock released.
wait_return(p) ==
    /\ wait_lock' = Null
    /\ FirstSlot(p)
    /\ havekids' = [havekids EXCEPT ![p] = FALSE]
    /\ Goto(p, "user")

\* Mutant: the child's lock is not taken.
wait_reap_unlocked(p) ==
    /\ At(p, "wait")
    /\ idx[p] \in Slots
    /\ parent[idx[p]] = p
    /\ state[idx[p]] = "ZOMBIE"
    /\ freeproc(idx[p])
    /\ wait_return(p)
    /\ UNCHANGED <<nextpid, plocked>>

\* Mutant: the child is reported and not freed.
wait_reap_keeps(p) ==
    /\ At(p, "wait")
    /\ idx[p] \in Slots \ plocked
    /\ parent[idx[p]] = p
    /\ state[idx[p]] = "ZOMBIE"
    /\ wait_return(p)
    /\ UNCHANGED <<procVars, nextpid, plocked>>

wait_reap(p) ==
    /\ At(p, "wait")
    /\ idx[p] \in Slots \ plocked
    /\ parent[idx[p]] = p
    /\ state[idx[p]] = "ZOMBIE"
    /\ freeproc(idx[p])
    /\ wait_return(p)
    /\ UNCHANGED <<nextpid, plocked>>

\* The address is bad: wait() returns -1 and the child stays.  init passes 0.
wait_copyout_fails(p) ==
    /\ At(p, "wait")
    /\ p # initproc
    /\ idx[p] \in Slots \ plocked
    /\ parent[idx[p]] = p
    /\ state[idx[p]] = "ZOMBIE"
    /\ wait_return(p)
    /\ UNCHANGED <<procVars, nextpid, plocked>>

wait_nobody(p) ==
    /\ At(p, "wait")
    /\ idx[p] \notin Slots
    /\ ~havekids[p] \/ killed[p]
    /\ wait_return(p)
    /\ UNCHANGED <<procVars, nextpid, plocked>>

wait_sleep(p) ==
    /\ At(p, "wait")
    /\ idx[p] \notin Slots
    /\ havekids[p] /\ ~killed[p]
    /\ FirstSlot(p)
    /\ Goto(p, "sleep")
    /\ UNCHANGED <<procVars, nextpid, wait_lock, plocked, havekids>>

\* Mutant: sleep() releases wait_lock and takes p->lock later.
sleep_late(p) ==
    /\ p \notin plocked
    /\ \/ /\ At(p, "sleep") /\ wait_lock = p
          /\ wait_lock' = Null
          /\ UNCHANGED <<state, plocked, pc>>
       \/ /\ At(p, "sleep") /\ wait_lock # p
          /\ plocked' = plocked \cup {p}
          /\ state' = [state EXCEPT ![p] = "SLEEPING"]
          /\ Goto(p, "sleep_sched")
          /\ UNCHANGED wait_lock
    /\ UNCHANGED <<pid, parent, killed, nextpid, idx, havekids, condemned>>

\* sleep(p, &wait_lock): p->lock, then release(&wait_lock).
sleep(p) ==
    /\ At(p, "sleep")
    /\ p \notin plocked
    /\ plocked' = plocked \cup {p}
    /\ wait_lock' = Null
    /\ state' = [state EXCEPT ![p] = "SLEEPING"]
    /\ Goto(p, "sleep_sched")
    /\ UNCHANGED <<pid, parent, killed, nextpid, idx, havekids, condemned>>

sleep_sched(p) ==
    /\ pc[p] = "sleep_sched"
    /\ plocked' = plocked \ {p}
    /\ Goto(p, "wait_lock")
    /\ UNCHANGED <<procVars, nextpid, wait_lock, idx, havekids>>

-----------------------------------------------------------------------------
(* kill(), which stops at the first slot with the given pid.  A free slot  *)
(* has pid 0.  Bound: nobody kills init (it would exit and panic).         *)

kill(p, target) ==
    \E s \in Slots \ (plocked \cup {initproc}) :
        /\ At(p, "user") /\ ~killed[p]
        /\ pid[s] = target
        /\ \A t \in Slots : pid[t] = target => s <= t
        /\ killed' = [killed EXCEPT ![s] = TRUE]
        /\ state' = wakeup(s)
        /\ condemned' = condemned \cup {target}
        /\ UNCHANGED <<pid, parent, nextpid, wait_lock, plocked, pc, idx,
                       havekids>>

Targets == (2 .. MaxPid) \cup (IF KillZero THEN {0} ELSE {})

-----------------------------------------------------------------------------
\* The steps of p inside fork(), exit() and wait().
InKernel(p) ==
    \/ scheduler(p)
    \/ allocproc_skip(p) \/ allocproc_full(p) \/ allocproc(p) \/ fork_fails(p)
    \/ fork_parent(p) \/ fork_runnable(p)
    \/ reparent(p) \/ exit_wakeup(p) \/ exit_zombie(p) \/ exit_sched(p)
    \/ wait_acquire(p) \/ wait_skip(p) \/ wait_child(p) \/ wait_reap(p)
    \/ wait_copyout_fails(p) \/ wait_nobody(p) \/ wait_sleep(p)
    \/ sleep(p) \/ sleep_sched(p)

Next ==
    \E p \in Slots :
        \/ InKernel(p)
        \/ fork(p) \/ exit(p) \/ wait(p)
        \/ \E target \in Targets : kill(p, target)

Spec == Init /\ [][Next]_vars

\* What happens by itself: a thread inside the kernel goes on, spin locks
\* included; a killed process meets a timer interrupt and exits; init, the
\* program, calls wait() again and again.  Nothing else is owed: programs may
\* run for ever.
Fairness ==
    /\ \A p \in Slots : SF_vars(InKernel(p)) /\ SF_vars(killed[p] /\ exit(p))
    /\ SF_vars(wait(initproc))

-----------------------------------------------------------------------------
(* Properties.                                                             *)

\* Whoever is somebody's parent is alive: exit() hands every child to init,
\* under wait_lock, before it becomes a zombie, whatever fork(), wait() and
\* other exits do meanwhile; and everybody but init has a parent to reap it.
FamilyTree ==
    /\ \A s \in Slots : parent[s] # Null =>
           state[parent[s]] \in {"SLEEPING", "RUNNABLE", "RUNNING"}
    /\ \A s \in Slots \ {initproc} :
           state[s] \notin {"UNUSED", "USED"} => parent[s] # Null

\* The process table: types, pids within bounds, and the family tree.
TableOK == TypeOK /\ FamilyTree

\* Nobody sleeps in wait(), or leaves it with -1, because of what is no longer
\* so: a sleeper has a child, and none of them is a zombie already, though the
\* wakeup() of exit() comes before the zombie state; and when wait() has looked
\* at every slot, one at a time, and says there is no child, there is none.
\* init exits, and the kernel panics, if this goes wrong (proc.c:372-427).
WaitsForSomething ==
    /\ \A p \in Slots : state[p] = "SLEEPING" =>
        /\ \E s \in Slots : parent[s] = p
        /\ \A s \in Slots : parent[s] = p => state[s] # "ZOMBIE"
    /\ \A p \in Slots : pc[p] = "wait" /\ idx[p] \notin Slots =>
        /\ ~havekids[p] => \A s \in Slots : parent[s] # p
        /\ \A s \in Slots : parent[s] = p => state[s] # "ZOMBIE"

\* freeproc() and fork() never get a slot whose old thread still runs on the
\* slot's kernel stack, on its way from exit() to the scheduler.
StackRetired ==
    \A s \in Slots : state[s] \in {"UNUSED", "USED"} => pc[s] = "none"

\* A process is killed only by a kill() of its own pid, not by what happened
\* to an earlier process in the same slot.
OnlyTheCondemned ==
    \A s \in Slots :
        killed[s] /\ state[s] # "UNUSED" => pid[s] \in condemned

\* A zombie that is init's child, by birth or by reparent(), is reaped.
OrphansReaped ==
    \A s \in Slots :
        (state[s] = "ZOMBIE" /\ parent[s] = initproc) ~> (state[s] = "UNUSED")

=============================================================================
