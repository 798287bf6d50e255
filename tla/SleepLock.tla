------------------------------ MODULE SleepLock ------------------------------
(***************************************************************************)
(* The synchronisation core of the kernel: spin locks with interrupt       *)
(* masking (kernel/spinlock.c), sleep(), wakeup(), kill(), yield(),        *)
(* sched() and scheduler() (kernel/proc.c), and the sleeping locks built   *)
(* from them (kernel/sleeplock.c).  Harts run scheduler threads and the    *)
(* kernel threads of processes; every process repeatedly takes and         *)
(* releases some sleep lock, and timer interrupts and kill() may happen in *)
(* between.                                                                *)
(*                                                                         *)
(* A critical section under one spin lock is one step when all it touches  *)
(* is protected by that lock; where two locks overlap (sleep() and         *)
(* wakeup(), which is where a wakeup could be lost) acquire() and          *)
(* release() are steps of their own.                                       *)
(***************************************************************************)
EXTENDS Integers, FiniteSets

CONSTANTS NPROC,   \* number of slots of the process table
          Harts,   \* the CPUs
          Locks,   \* the sleep locks; each is also the channel slept on
          Victims, \* bound: the processes that may be killed
          Nil      \* the null pointer

ASSUME SleepLockAssumption ==
    /\ NPROC \in Nat \ {0}
    /\ Nil \notin Harts
    /\ Nil \notin Locks
    /\ Nil \notin Int
    /\ Victims \subseteq 0 .. (NPROC - 1)

Procs == 0 .. (NPROC - 1)

VARIABLES
    hart,     \* hart[c]: process whose kernel thread c executes, Nil: scheduler
    proc,     \* proc[c]: c->proc
    intr,     \* intr[c]: interrupts enabled (sstatus.SIE)
    noff,     \* noff[c]: c->noff, depth of push_off() nesting
    intena,   \* intena[c]: c->intena
    state,    \* state[p]: p->state
    chan,     \* chan[p]: p->chan
    killed,   \* killed[p]: p->killed
    plock,    \* plock[p]: the hart holding p->lock, or Nil
    lk,       \* lk[l]: the hart holding the spin lock inside sleep lock l
    locked,   \* locked[l]: l->locked
    pid,      \* pid[l]: l->pid
    pc,       \* pc[p]: where the kernel thread of p is
    arg,      \* arg[p]: the sleep lock p operates on
    idx,      \* idx[p]: next process table slot wakeup() visits
    saved,    \* saved[p]: the local variable intena of sched()
    ret,      \* ret[p]: where p continues after a timer interrupt
    panicked  \* a panic() has been reached

cpuVars  == <<hart, proc>>
offVars  == <<intr, noff, intena>>
procVars == <<state, chan, killed>>
lockVars == <<locked, pid>>
thrVars  == <<arg, idx, saved, ret>>
vars == <<hart, proc, intr, noff, intena, state, chan, killed, plock, lk,
          locked, pid, pc, arg, idx, saved, ret, panicked>>

PCs == {"forkret", "idle", "as_test", "as_take", "sl_lock", "sl_release", 
        "sl_switch", "sl_resume", "sl_reacquire", "cs", "release", "rs_clear",
        "rs_wake", "y_resume"}

(***************************************************************************)
(* spinlock.c.  intr_off() and the nesting count of hart c; acquire()      *)
(* spins until the lock is free and panics when c itself holds it.         *)
(***************************************************************************)
\* Mutant: push_off() counts but leaves interrupts enabled.
push_off_unmasked(c) ==
    /\ noff' = [noff EXCEPT ![c] = @ + 1]
    /\ intena' = [intena EXCEPT ![c] = IF noff[c] = 0 THEN intr[c] ELSE @]
    /\ UNCHANGED intr

push_off(c) ==
    /\ noff' = [noff EXCEPT ![c] = @ + 1]
    /\ intena' = [intena EXCEPT ![c] = IF noff[c] = 0 THEN intr[c] ELSE @]
    /\ intr' = [intr EXCEPT ![c] = FALSE]

pop_off(c) ==
    /\ noff' = [noff EXCEPT ![c] = @ - 1]
    /\ intr' = [intr EXCEPT ![c] = IF noff[c] = 1 /\ intena[c] THEN TRUE ELSE @]
    /\ UNCHANGED intena

acquirable(owner, c) == owner \in {Nil, c}
acquire_panics(owner, c) == owner = c
release_panics(owner, c) == owner # c \/ intr[c] \/ noff[c] < 1

Goto(p, l) == pc' = [pc EXCEPT ![p] = l]

Runs(c, p, l) == hart[c] = p /\ pc[p] = l

(***************************************************************************)
(* sched(): the four checks, then swtch() to the scheduler of hart c.      *)
(* p->state has just been set to st.                                       *)
(***************************************************************************)
sched_panics(c, p, st) ==
    \/ plock[p] # c
    \/ noff[c] # 1
    \/ st = "RUNNING"
    \/ intr[c]

sched(c, p, st) ==
    /\ state' = [state EXCEPT ![p] = st]
    /\ panicked' = (panicked \/ sched_panics(c, p, st))
    /\ saved' = [saved EXCEPT ![p] = intena[c]]
    /\ hart' = [hart EXCEPT ![c] = Nil]
    /\ UNCHANGED <<proc, offVars, plock>>

\* The return from sched() on hart c, followed by release(&p->lock).
return_from_sched(c, p) ==
    /\ panicked' = (panicked \/ release_panics(plock[p], c))
    /\ plock' = [plock EXCEPT ![p] = Nil]
    /\ noff' = [noff EXCEPT ![c] = @ - 1]
    /\ intena' = [intena EXCEPT ![c] = saved[p]]
-----------------------------------------------------------------------------
(***************************************************************************)
(* scheduler(), one hart.                                                  *)
(***************************************************************************)
\* The top of the for(;;) loop: intr_on().
scheduler_intr_on(c) ==
    /\ hart[c] = Nil /\ proc[c] = Nil
    /\ ~intr[c]
    /\ intr' = [intr EXCEPT ![c] = TRUE]
    /\ UNCHANGED <<cpuVars, noff, intena, procVars, plock, lk, lockVars, pc,
                   thrVars, panicked>>

\* acquire(&p->lock); p is RUNNABLE: run it.
scheduler_run(c, p) ==
    /\ hart[c] = Nil /\ proc[c] = Nil
    /\ acquirable(plock[p], c)
    /\ state[p] = "RUNNABLE"
    /\ push_off(c)
    /\ panicked' = (panicked \/ acquire_panics(plock[p], c))
    /\ plock' = [plock EXCEPT ![p] = c]
    /\ state' = [state EXCEPT ![p] = "RUNNING"]
    /\ proc' = [proc EXCEPT ![c] = p]
    /\ hart' = [hart EXCEPT ![c] = p]
    /\ UNCHANGED <<chan, killed, lk, lockVars, pc, thrVars>>

\* Back from swtch(): c->proc = 0; release(&p->lock).
scheduler_back(c) ==
    /\ hart[c] = Nil /\ proc[c] # Nil
    /\ panicked' = (panicked \/ release_panics(plock[proc[c]], c))
    /\ plock' = [plock EXCEPT ![proc[c]] = Nil]
    /\ proc' = [proc EXCEPT ![c] = Nil]
    /\ pop_off(c)
    /\ UNCHANGED <<hart, procVars, lk, lockVars, pc, thrVars>>

\* forkret(): a new process releases its own lock and returns to user space,
\* where interrupts are enabled.
forkret(c, p) ==
    /\ Runs(c, p, "forkret")
    /\ panicked' = (panicked \/ release_panics(plock[p], c))
    /\ plock' = [plock EXCEPT ![p] = Nil]
    /\ noff' = [noff EXCEPT ![c] = @ - 1]
    /\ intr' = [intr EXCEPT ![c] = TRUE]
    /\ Goto(p, "idle")
    /\ UNCHANGED <<cpuVars, intena, procVars, lk, lockVars, thrVars>>
-----------------------------------------------------------------------------
(***************************************************************************)
(* A timer interrupt on a hart that runs a process with interrupts on:     *)
(* usertrap()/kerneltrap() call yield().  The trap masks interrupts, and   *)
(* the return from the trap restores them.                                 *)
(***************************************************************************)
yield(c, p) ==
    /\ hart[c] = p
    /\ intr[c]
    /\ state[p] = "RUNNING"
    /\ acquirable(plock[p], c)
    /\ state' = [state EXCEPT ![p] = "RUNNABLE"]
    /\ panicked' = (panicked \/ acquire_panics(plock[p], c) \/ noff[c] + 1 # 1)
    /\ plock' = [plock EXCEPT ![p] = c]
    /\ noff' = [noff EXCEPT ![c] = @ + 1]
    /\ intena' = [intena EXCEPT ![c] = IF noff[c] = 0 THEN FALSE ELSE @]
    /\ intr' = [intr EXCEPT ![c] = FALSE]
    /\ saved' = [saved EXCEPT ![p] = FALSE]
    /\ hart' = [hart EXCEPT ![c] = Nil]
    /\ ret' = [ret EXCEPT ![p] = pc[p]]
    /\ Goto(p, "y_resume")
    /\ UNCHANGED <<proc, chan, killed, lk, lockVars, arg, idx>>

yield_resume(c, p) ==
    /\ Runs(c, p, "y_resume")
    /\ return_from_sched(c, p)
    /\ intr' = [intr EXCEPT ![c] = TRUE]
    /\ Goto(p, ret[p])
    /\ UNCHANGED <<cpuVars, procVars, lk, lockVars, thrVars>>

\* kill(q->pid): one critical section under q->lock.
kill(c, p, q) ==
    /\ Runs(c, p, "idle")
    /\ acquirable(plock[q], c)
    /\ panicked' = (panicked \/ acquire_panics(plock[q], c))
    /\ killed' = [killed EXCEPT ![q] = TRUE]
    /\ state' = [state EXCEPT ![q] = IF @ = "SLEEPING" THEN "RUNNABLE" ELSE @]
    /\ UNCHANGED <<cpuVars, offVars, chan, plock, lk, lockVars, pc, thrVars>>
-----------------------------------------------------------------------------
(***************************************************************************)
(* acquiresleep(l), with sleep(l, &l->lk) expanded.                        *)
(***************************************************************************)
acquiresleep(c, p, l) ==
    /\ Runs(c, p, "idle")
    /\ acquirable(lk[l], c)
    /\ panicked' = (panicked \/ acquire_panics(lk[l], c))
    /\ push_off(c)
    /\ lk' = [lk EXCEPT ![l] = c]
    /\ arg' = [arg EXCEPT ![p] = l]
    /\ Goto(p, "as_test")
    /\ UNCHANGED <<cpuVars, procVars, plock, lockVars, idx, saved, ret>>

\* while (lk->locked) sleep(lk, &lk->lk);
acquiresleep_wait(c, p) ==
    /\ Runs(c, p, "as_test")
    /\ locked[arg[p]]
    /\ Goto(p, "sl_lock")
    /\ UNCHANGED <<cpuVars, offVars, procVars, plock, lk, lockVars, thrVars,
                   panicked>>

\* The loop ends: the lock is free.
acquiresleep_free(c, p) ==
    /\ Runs(c, p, "as_test")
    /\ ~locked[arg[p]]
    /\ Goto(p, "as_take")
    /\ UNCHANGED <<cpuVars, offVars, procVars, plock, lk, lockVars, thrVars,
                   panicked>>

\* lk->locked = 1; lk->pid = p->pid; release(&lk->lk)
acquiresleep_take(c, p) ==
    /\ Runs(c, p, "as_take")
    /\ locked' = [locked EXCEPT ![arg[p]] = TRUE]
    /\ pid' = [pid EXCEPT ![arg[p]] = p]
    /\ panicked' = (panicked \/ release_panics(lk[arg[p]], c))
    /\ lk' = [lk EXCEPT ![arg[p]] = Nil]
    /\ pop_off(c)
    /\ Goto(p, "cs")
    /\ UNCHANGED <<cpuVars, procVars, plock, thrVars>>

\* Mutant: sleep() without p->lock, straight on to release(lk).
sleep_lock_dropped(c, p) ==
    /\ Runs(c, p, "sl_lock")
    /\ Goto(p, "sl_release")
    /\ UNCHANGED <<cpuVars, offVars, procVars, plock, lk, lockVars, thrVars,
                   panicked>>

\* Mutant: sleep() gives the condition lock back before it holds p->lock.
sleep_lock_late(c, p) ==
    /\ Runs(c, p, "sl_lock")
    /\ IF lk[arg[p]] = c
          THEN /\ lk' = [lk EXCEPT ![arg[p]] = Nil]
               /\ pop_off(c)
               /\ UNCHANGED <<plock, pc>>
          ELSE /\ plock[p] = Nil
               /\ plock' = [plock EXCEPT ![p] = c]
               /\ push_off(c)
               /\ Goto(p, "sl_switch")
               /\ UNCHANGED lk
    /\ UNCHANGED <<cpuVars, procVars, lockVars, thrVars, panicked>>

\* sleep(): acquire(&p->lock)
sleep_lock(c, p) ==
    /\ Runs(c, p, "sl_lock")
    /\ acquirable(plock[p], c)
    /\ panicked' = (panicked \/ acquire_panics(plock[p], c))
    /\ plock' = [plock EXCEPT ![p] = c]
    /\ push_off(c)
    /\ Goto(p, "sl_release")
    /\ UNCHANGED <<cpuVars, procVars, lk, lockVars, thrVars>>

\* sleep(): release(lk)
sleep_release(c, p) ==
    /\ Runs(c, p, "sl_release")
    /\ panicked' = (panicked \/ release_panics(lk[arg[p]], c))
    /\ lk' = [lk EXCEPT ![arg[p]] = Nil]
    /\ pop_off(c)
    /\ Goto(p, "sl_switch")
    /\ UNCHANGED <<cpuVars, procVars, plock, lockVars, thrVars>>

\* sleep(): p->chan = chan; p->state = SLEEPING; sched()
sleep_switch(c, p) ==
    /\ Runs(c, p, "sl_switch")
    /\ chan' = [chan EXCEPT ![p] = arg[p]]
    /\ sched(c, p, "SLEEPING")
    /\ Goto(p, "sl_resume")
    /\ UNCHANGED <<killed, lk, lockVars, arg, idx, ret>>

\* sleep(): p->chan = 0; release(&p->lock)
sleep_resume(c, p) ==
    /\ Runs(c, p, "sl_resume")
    /\ return_from_sched(c, p)
    /\ intr' = [intr EXCEPT ![c] = IF noff[c] = 1 /\ saved[p] THEN TRUE ELSE @]
    /\ chan' = [chan EXCEPT ![p] = Nil]
    /\ Goto(p, "sl_reacquire")
    /\ UNCHANGED <<cpuVars, state, killed, lk, lockVars, thrVars>>

\* Mutant: acquiresleep() tests the lock once, not in a loop.
sleep_reacquire_if(c, p) ==
    /\ Runs(c, p, "sl_reacquire")
    /\ lk[arg[p]] = Nil
    /\ locked' = [locked EXCEPT ![arg[p]] = TRUE]
    /\ pid' = [pid EXCEPT ![arg[p]] = p]
    /\ Goto(p, "cs")
    /\ UNCHANGED <<cpuVars, offVars, procVars, plock, lk, thrVars, panicked>>

\* sleep(): acquire(lk), and back to the while loop of acquiresleep().
sleep_reacquire(c, p) ==
    /\ Runs(c, p, "sl_reacquire")
    /\ acquirable(lk[arg[p]], c)
    /\ panicked' = (panicked \/ acquire_panics(lk[arg[p]], c))
    /\ push_off(c)
    /\ lk' = [lk EXCEPT ![arg[p]] = c]
    /\ Goto(p, "as_test")
    /\ UNCHANGED <<cpuVars, procVars, plock, lockVars, thrVars>>
-----------------------------------------------------------------------------
(***************************************************************************)
(* The users of sleep locks (brelse(), iunlock()) call holdingsleep() and  *)
(* panic when it fails, then call releasesleep(), with wakeup(l) expanded. *)
(***************************************************************************)
holdingsleep(c, p) ==
    /\ Runs(c, p, "cs")
    /\ acquirable(lk[arg[p]], c)
    /\ panicked' = (panicked \/ ~(locked[arg[p]] /\ pid[arg[p]] = p))
    /\ Goto(p, "release")
    /\ UNCHANGED <<cpuVars, offVars, procVars, plock, lk, lockVars, thrVars>>

releasesleep(c, p) ==
    /\ Runs(c, p, "release")
    /\ acquirable(lk[arg[p]], c)
    /\ panicked' = (panicked \/ acquire_panics(lk[arg[p]], c))
    /\ push_off(c)
    /\ lk' = [lk EXCEPT ![arg[p]] = c]
    /\ Goto(p, "rs_clear")
    /\ UNCHANGED <<cpuVars, procVars, plock, lockVars, thrVars>>

\* Mutant: releasesleep() clears the lock and wakes nobody.
releasesleep_clear_silent(c, p) ==
    /\ Runs(c, p, "rs_clear")
    /\ locked' = [locked EXCEPT ![arg[p]] = FALSE]
    /\ pid' = [pid EXCEPT ![arg[p]] = Nil]
    /\ idx' = [idx EXCEPT ![p] = NPROC]
    /\ Goto(p, "rs_wake")
    /\ UNCHANGED <<cpuVars, offVars, procVars, plock, lk, arg, saved, ret,
                   panicked>>

releasesleep_clear(c, p) ==
    /\ Runs(c, p, "rs_clear")
    /\ locked' = [locked EXCEPT ![arg[p]] = FALSE]
    /\ pid' = [pid EXCEPT ![arg[p]] = Nil]
    /\ idx' = [idx EXCEPT ![p] = 0]
    /\ Goto(p, "rs_wake")
    /\ UNCHANGED <<cpuVars, offVars, procVars, plock, lk, arg, saved, ret,
                   panicked>>

\* Mutant: wakeup() advances twice past its own slot.
wakeup_strides(c, p) ==
    LET q == idx[p] IN
    /\ Runs(c, p, "rs_wake")
    /\ q < NPROC
    /\ q # p => acquirable(plock[q], c)
    /\ state' = [state EXCEPT ![q] =
                    IF q # p /\ @ = "SLEEPING" /\ chan[q] = arg[p]
                    THEN "RUNNABLE" ELSE @]
    /\ idx' = [idx EXCEPT ![p] = IF q = p THEN q + 2 ELSE q + 1]
    /\ UNCHANGED <<cpuVars, offVars, chan, killed, plock, lk, lockVars, pc, arg,
                   saved, ret, panicked>>

\* wakeup(): one iteration, a critical section under the lock of slot q.
wakeup(c, p) ==
    LET q == idx[p] IN
    /\ Runs(c, p, "rs_wake")
    /\ q < NPROC
    /\ q # p => acquirable(plock[q], c)
    /\ panicked' = (panicked \/ (q # p /\ acquire_panics(plock[q], c)))
    /\ state' = [state EXCEPT ![q] =
                    IF q # p /\ @ = "SLEEPING" /\ chan[q] = arg[p]
                    THEN "RUNNABLE" ELSE @]
    /\ idx' = [idx EXCEPT ![p] = q + 1]
    /\ UNCHANGED <<cpuVars, offVars, chan, killed, plock, lk, lockVars, pc, arg,
                   saved, ret>>

releasesleep_done(c, p) ==
    /\ Runs(c, p, "rs_wake")
    /\ idx[p] = NPROC
    /\ panicked' = (panicked \/ release_panics(lk[arg[p]], c))
    /\ lk' = [lk EXCEPT ![arg[p]] = Nil]
    /\ pop_off(c)
    /\ idx' = [idx EXCEPT ![p] = 0]
    /\ arg' = [arg EXCEPT ![p] = Nil]
    /\ Goto(p, "idle")
    /\ UNCHANGED <<cpuVars, procVars, plock, lockVars, saved, ret>>
-----------------------------------------------------------------------------
Init ==
    /\ hart = [c \in Harts |-> Nil]
    /\ proc = [c \in Harts |-> Nil]
    /\ intr = [c \in Harts |-> FALSE]
    /\ noff = [c \in Harts |-> 0]
    /\ intena = [c \in Harts |-> FALSE]
    /\ state = [p \in Procs |-> "RUNNABLE"]
    /\ chan = [p \in Procs |-> Nil]
    /\ killed = [p \in Procs |-> FALSE]
    /\ plock = [p \in Procs |-> Nil]
    /\ lk = [l \in Locks |-> Nil]
    /\ locked = [l \in Locks |-> FALSE]
    /\ pid = [l \in Locks |-> Nil]
    /\ pc = [p \in Procs |-> "forkret"]
    /\ arg = [p \in Procs |-> Nil]
    /\ idx = [p \in Procs |-> 0]
    /\ saved = [p \in Procs |-> FALSE]
    /\ ret = [p \in Procs |-> "idle"]
    /\ panicked = FALSE

scheduler(c) ==
    \/ scheduler_intr_on(c)
    \/ \E p \in Procs : scheduler_run(c, p)
    \/ scheduler_back(c)

\* What the kernel thread of p does next on hart c when nothing intervenes.
thread(c, p) ==
    \/ forkret(c, p)
    \/ acquiresleep_wait(c, p) \/ acquiresleep_free(c, p)
    \/ acquiresleep_take(c, p)
    \/ sleep_lock(c, p) \/ sleep_release(c, p) \/ sleep_switch(c, p)
    \/ sleep_resume(c, p) \/ sleep_reacquire(c, p)
    \/ holdingsleep(c, p) \/ releasesleep(c, p) \/ releasesleep_clear(c, p)
    \/ wakeup(c, p) \/ releasesleep_done(c, p)

Next ==
    \E c \in Harts :
        \/ scheduler(c)
        \/ \E p \in Procs :
              \/ thread(c, p)
              \/ yield(c, p)
              \/ yield_resume(c, p)
              \/ \E l \in Locks : acquiresleep(c, p, l)
              \/ \E q \in Victims : kill(c, p, q)

Spec == Init /\ [][Next]_vars

(***************************************************************************)
(* Fairness.  A kernel thread on a hart takes its next step (an acquire()  *)
(* whose lock is free again and again finally gets it); scheduler() scans  *)
(* the whole table for ever, so a process that is RUNNABLE again and again *)
(* is run.  A time slice is longer than a step: a process that is run      *)
(* again and again is not interrupted before its next step every time.     *)
(* Timer interrupts and kill() are never required to happen.               *)
(***************************************************************************)
Fairness ==
    /\ \A c \in Harts : WF_vars(scheduler_intr_on(c) \/ scheduler_back(c))
    /\ \A p \in Procs : /\ SF_vars(\E c \in Harts : scheduler_run(c, p))
                        /\ SF_vars(\E c \in Harts : yield_resume(c, p))
                        /\ SF_vars(\E c \in Harts : thread(c, p))

FairSpec == Spec /\ Fairness
-----------------------------------------------------------------------------
States == {"RUNNABLE", "RUNNING", "SLEEPING"}

\* Every variable has the type its declaration in the source gives it.
TypeOK ==
    /\ hart \in [Harts -> Procs \cup {Nil}]
    /\ proc \in [Harts -> Procs \cup {Nil}]
    /\ intr \in [Harts -> BOOLEAN]
    /\ noff \in [Harts -> Int]
    /\ intena \in [Harts -> BOOLEAN]
    /\ state \in [Procs -> States]
    /\ chan \in [Procs -> Locks \cup {Nil}]
    /\ killed \in [Procs -> BOOLEAN]
    /\ plock \in [Procs -> Harts \cup {Nil}]
    /\ lk \in [Locks -> Harts \cup {Nil}]
    /\ locked \in [Locks -> BOOLEAN]
    /\ pid \in [Locks -> Procs \cup {Nil}]
    /\ pc \in [Procs -> PCs]
    /\ arg \in [Procs -> Locks \cup {Nil}]
    /\ idx \in [Procs -> 0 .. NPROC]
    /\ saved \in [Procs -> BOOLEAN]
    /\ ret \in [Procs -> PCs]
    /\ panicked \in BOOLEAN

\* Where p is in its own code, seen through a pending timer interrupt.
Loc(p) == IF pc[p] = "y_resume" THEN ret[p] ELSE pc[p]

InCS(p, l) == arg[p] = l /\ Loc(p) \in {"cs", "release", "rs_clear"}

\* Mutual exclusion of acquiresleep()/releasesleep(): whatever wakeups,
\* kills and preemptions happen, at most one process is between the two on a
\* sleep lock, and then l->locked is set and l->pid names it.
SleepLockMutex ==
    \A l \in Locks : \A p \in Procs :
        InCS(p, l) => /\ locked[l]
                      /\ pid[l] = p
                      /\ \A q \in Procs : InCS(q, l) => q = p

\* What p->lock protects across swtch(): a process that is not RUNNING and
\* whose lock is free is on no hart (its context is saved, so another
\* scheduler may run it), and no kernel stack is in use on two harts.
StackOwnership ==
    /\ \A p \in Procs :
          plock[p] = Nil /\ state[p] # "RUNNING" =>
              \A c \in Harts : hart[c] # p /\ proc[c] # p
    /\ \A c, d \in Harts : hart[c] # Nil /\ hart[c] = hart[d] => c = d

\* No lost wakeup: a process asleep on a sleep lock either sleeps on a lock
\* that is held, or its wakeup is on the way: a releasesleep() is in its
\* wakeup() loop and has not passed the sleeper yet.
NoLostWakeup ==
    \A p \in Procs :
        state[p] = "SLEEPING" =>
            \/ locked[chan[p]]
            \/ \E q \in Procs : /\ Loc(q) = "rs_wake"
                                /\ arg[q] = chan[p]
                                /\ idx[q] <= p

\* push_off()/pop_off() nest: c->noff counts the spin locks hart c holds, and
\* interrupts are masked for as long as there is one.
MaskedWhileLocked ==
    \A c \in Harts :
        /\ noff[c] = Cardinality({p \in Procs : plock[p] = c})
                       + Cardinality({l \in Locks : lk[l] = c})
        /\ noff[c] > 0 => ~intr[c]

\* None of the panics of acquire(), release(), pop_off(), sched(), brelse()
\* and iunlock() is reachable.
NoPanic == ~panicked

\* The kernel keeps its types and never panics (spinlock.c:27,51,99-101,
\* proc.c sched(), and the holdingsleep() tests of brelse() and iunlock()).
KernelSound == TypeOK /\ NoPanic

\* A process that goes to sleep in acquiresleep() does not sleep for ever:
\* holders release, and releasing wakes it.
SleeperWakes ==
    \A p \in Procs : (state[p] = "SLEEPING") ~> (state[p] # "SLEEPING")
-----------------------------------------------------------------------------
(***************************************************************************)
(* The inductive invariant behind the properties above.                    *)
(***************************************************************************)
\* Where a process holds its own lock, where it holds the spin lock inside
\* its sleep lock, and where interrupts may be on.
PLockPCs == {"forkret", "y_resume", "sl_resume", "sl_release", "sl_switch"}
LkPCs    == {"as_test", "as_take", "sl_lock", "sl_release", "rs_clear",
             "rs_wake"}
OpenPCs  == {"idle", "cs", "release", "sl_reacquire"}
AwayPCs  == {"forkret", "y_resume", "sl_resume"}

HartInv ==
    \A c \in Harts :
        /\ hart[c] # Nil => proc[c] = hart[c] /\ state[hart[c]] = "RUNNING"
        /\ \A d \in Harts : proc[c] # Nil /\ proc[c] = proc[d] => c = d

ProcInv ==
    \A p \in Procs :
        /\ state[p] = "RUNNING" => \E c \in Harts : hart[c] = p
        /\ state[p] # "RUNNING" => pc[p] \in AwayPCs
        /\ state[p] = "SLEEPING" => pc[p] = "sl_resume" /\ chan[p] = arg[p]
        /\ ret[p] \in OpenPCs
        /\ Loc(p) \notin {"forkret", "idle"} => arg[p] \in Locks

PLockInv ==
    \A p \in Procs, c \in Harts :
        plock[p] = c <=> proc[c] = p /\ (hart[c] = Nil \/ pc[p] \in PLockPCs)

LkInv ==
    \A l \in Locks, c \in Harts :
        lk[l] = c <=> /\ hart[c] # Nil
                      /\ pc[hart[c]] \in LkPCs
                      /\ arg[hart[c]] = l

Depth(c) ==
    IF hart[c] = Nil THEN IF proc[c] = Nil THEN 0 ELSE 1
    ELSE IF pc[hart[c]] \in OpenPCs THEN 0
    ELSE IF pc[hart[c]] = "sl_release" THEN 2 ELSE 1

OffInv ==
    \A c \in Harts : noff[c] = Depth(c) /\ (noff[c] # 0 => ~intr[c])

\* What a process has learnt about the sleep lock under its spin lock.
TestInv ==
    \A p \in Procs :
        /\ pc[p] = "as_take" => ~locked[arg[p]]
        /\ pc[p] \in {"sl_lock", "sl_release"} => locked[arg[p]]

OwnerInv ==
    \A p \in Procs :
        Loc(p) \in {"cs", "release", "rs_clear"} =>
            locked[arg[p]] /\ pid[arg[p]] = p

WakerOf(p, l) ==
    \E q \in Procs : pc[q] = "rs_wake" /\ arg[q] = l /\ idx[q] <= p

WakeInv ==
    \A p \in Procs :
        state[p] = "SLEEPING" \/ pc[p] = "sl_switch" =>
            locked[arg[p]] \/ WakerOf(p, arg[p])

IInv ==
    /\ TypeOK /\ HartInv /\ ProcInv /\ PLockInv /\ LkInv /\ OffInv
    /\ TestInv /\ OwnerInv /\ WakeInv /\ NoPanic
=============================================================================
