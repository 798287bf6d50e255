---------------------------- MODULE SleepProofs ----------------------------
(***************************************************************************)
(* Those who sleep until somebody wakes them: in sleep locks, in the       *)
(* clock's sys_sleep(), and at the console.  Each has an inductive         *)
(* invariant, IInv, ClockOK and TermInv; one lemma per action shows that   *)
(* the action preserves every conjunct, and the properties follow.         *)
(***************************************************************************)
EXTENDS SleepLock, Clock, Terminal, FiniteSetTheorems, SequenceTheorems, TLAPS

USE SleepLockAssumption

\* The null pointer is no process (c->proc is 0 in the scheduler).
LEMMA NilNotProc == Nil \notin Procs
BY DEF Procs

\* What the invariant says of a process that is running on hart c: c->proc
\* is that process and no other hart has it, the locks c holds are those of
\* its position in the code, and interrupts are masked unless it holds none.
LEMMA OnHart ==
  ASSUME IInv, NEW c \in Harts, NEW p \in Procs, hart[c] = p
  PROVE  /\ proc[c] = p /\ state[p] = "RUNNING"
         /\ \A d \in Harts : hart[d] = p \/ proc[d] = p => d = c
         /\ pc[p] \in PLockPCs => plock[p] = c
         /\ pc[p] \notin PLockPCs => plock[p] = Nil
         /\ pc[p] \in LkPCs => arg[p] \in Locks /\ lk[arg[p]] = c
         /\ pc[p] \notin LkPCs => \A l \in Locks : lk[l] # c
         /\ noff[c] = Depth(c)
         /\ intr[c] => pc[p] \in OpenPCs
         /\ \A q \in Procs : plock[q] = c => q = p
         /\ ret[p] \in OpenPCs
         /\ pc[p] \notin {"forkret", "idle", "y_resume"} => arg[p] \in Locks
         /\ pc[p] \in {"cs", "release", "rs_clear"} =>
               locked[arg[p]] /\ pid[arg[p]] = p
<1>1. p # Nil
  BY NilNotProc
<1>2. proc[c] = p /\ state[p] = "RUNNING"
  BY <1>1 DEF IInv, HartInv
<1>3. \A d \in Harts : hart[d] = p \/ proc[d] = p => d = c
  BY <1>1, <1>2 DEF IInv, HartInv
<1>4. /\ pc[p] \in PLockPCs => plock[p] = c
      /\ pc[p] \notin PLockPCs => plock[p] = Nil
  BY <1>1, <1>2, <1>3 DEF IInv, PLockInv, TypeOK
<1>5. \A q \in Procs : plock[q] = c => q = p
  BY <1>2 DEF IInv, PLockInv
<1>6. /\ pc[p] \in LkPCs => arg[p] \in Locks /\ lk[arg[p]] = c
      /\ pc[p] \notin LkPCs => \A l \in Locks : lk[l] # c
  BY <1>1 DEF IInv, LkInv, ProcInv, LkPCs, Loc
<1>7. /\ noff[c] = Depth(c)
      /\ intr[c] => pc[p] \in OpenPCs
  BY <1>1 DEF IInv, OffInv, Depth
<1>8. /\ ret[p] \in OpenPCs
      /\ pc[p] \notin {"forkret", "idle", "y_resume"} => arg[p] \in Locks
      /\ pc[p] \in {"cs", "release", "rs_clear"} =>
            locked[arg[p]] /\ pid[arg[p]] = p
  BY DEF IInv, ProcInv, OwnerInv, Loc
<1> QED BY <1>2, <1>3, <1>4, <1>5, <1>6, <1>7, <1>8

\* pop_off() keeps the types of the fields it writes.
LEMMA PopOffType ==
  ASSUME TypeOK, NEW c \in Harts, pop_off(c)
  PROVE  /\ intr' \in [Harts -> BOOLEAN]
         /\ noff' \in [Harts -> Int]
         /\ intena' \in [Harts -> BOOLEAN]
<1>1. intr' = [intr EXCEPT ![c] = IF noff[c] = 1 /\ intena[c] THEN TRUE ELSE @]
  BY DEF pop_off
<1>2. (IF noff[c] = 1 /\ intena[c] THEN TRUE ELSE intr[c]) \in BOOLEAN
  BY Zenon DEF TypeOK
<1>3. intr' \in [Harts -> BOOLEAN]
  BY <1>1, <1>2, Zenon DEF TypeOK
<1>4. noff' \in [Harts -> Int] /\ intena' \in [Harts -> BOOLEAN]
  BY DEF TypeOK, pop_off
<1> QED BY <1>3, <1>4

\* At most one process is in the section the spin lock inside a sleep lock
\* protects.
LEMMA LkExclusive ==
  ASSUME IInv, NEW c \in Harts, NEW p \in Procs, hart[c] = p, pc[p] \in LkPCs,
         NEW q \in Procs, pc[q] \in LkPCs, arg[q] = arg[p]
  PROVE  q = p
<1>1. arg[p] \in Locks /\ lk[arg[p]] = c
  BY OnHart
<1>2. PICK d \in Harts : hart[d] = q
  BY DEF IInv, ProcInv, LkPCs, AwayPCs
<1>3. lk[arg[p]] = d
  BY <1>2, OnHart
<1> QED BY <1>1, <1>2, <1>3

\* scheduler() turning interrupts on preserves the invariant.
LEMMA scheduler_intr_on_step ==
  ASSUME IInv, NEW c \in Harts,
         scheduler_intr_on(c)
  PROVE  IInv'
<1>2. TypeOK'
  BY DEF IInv, scheduler_intr_on, cpuVars, procVars, lockVars, thrVars,
      TypeOK, PCs, States
<1>3. HartInv'
  BY DEF IInv, scheduler_intr_on, cpuVars, procVars, TypeOK, HartInv
<1>4. ProcInv'
  BY DEF IInv, scheduler_intr_on, cpuVars, procVars, thrVars, TypeOK, Loc,
      OpenPCs, AwayPCs, ProcInv
<1>5. PLockInv'
  BY DEF IInv, scheduler_intr_on, cpuVars, TypeOK, PLockPCs, PLockInv
<1>6. LkInv'
  BY DEF IInv, scheduler_intr_on, cpuVars, thrVars, TypeOK, LkPCs, LkInv
<1>7. OffInv'
  BY DEF IInv, scheduler_intr_on, cpuVars, TypeOK, OpenPCs, Depth, OffInv
<1>8. TestInv'
  BY DEF IInv, scheduler_intr_on, lockVars, thrVars, TypeOK, TestInv
<1>9. OwnerInv'
  BY DEF IInv, scheduler_intr_on, lockVars, thrVars, TypeOK, Loc, OwnerInv
<1>10. WakeInv'
  BY DEF IInv, scheduler_intr_on, procVars, lockVars, thrVars, TypeOK,
      WakerOf, WakeInv
<1>11. NoPanic'
  BY DEF IInv, NoPanic, scheduler_intr_on
<1> QED
  BY <1>2, <1>3, <1>4, <1>5, <1>6, <1>7, <1>8, <1>9, <1>10, <1>11 DEF IInv

\* scheduler() switching to a RUNNABLE process preserves the invariant.
LEMMA scheduler_run_step ==
  ASSUME IInv, NEW c \in Harts, NEW p \in Procs,
         scheduler_run(c, p)
  PROVE  IInv'
<1>1. plock[p] = Nil /\ noff[c] = 0 /\ \A l \in Locks : lk[l] # c
  BY NilNotProc DEF scheduler_run, IInv, TypeOK, PLockInv, OffInv, LkInv,
      Depth, acquirable
<1>2. TypeOK'
  BY DEF IInv, scheduler_run, push_off, lockVars, thrVars, TypeOK, PCs, States
<1>3. HartInv'
  <2>1. /\ hart' = [hart EXCEPT ![c] = p] /\ proc' = [proc EXCEPT ![c] = p]
        /\ state' = [state EXCEPT ![p] = "RUNNING"]
        /\ hart[c] = Nil /\ proc[c] = Nil /\ state[p] = "RUNNABLE"
    BY DEF scheduler_run
  <2>2. \A d \in Harts : proc[d] # p
    BY <1>1, <2>1, NilNotProc DEF IInv, PLockInv, ProcInv, HartInv, PLockPCs, Loc
  <2>3. \A d \in Harts \ {c} : hart'[d] = hart[d] /\ proc'[d] = proc[d] /\ hart[d] # p
    BY <2>1, <2>2, NilNotProc DEF IInv, TypeOK, HartInv
  <2>4. hart'[c] = p /\ proc'[c] = p /\ state'[p] = "RUNNING"
    BY <2>1 DEF IInv, TypeOK
  <2>5. \A q \in Procs \ {p} : state'[q] = state[q]
    BY <2>1 DEF IInv, TypeOK
  <2>6. QED
    BY <2>2, <2>3, <2>4, <2>5, NilNotProc DEF IInv, TypeOK, HartInv
<1>4. ProcInv'
  BY <1>1, NilNotProc DEF IInv, scheduler_run, push_off, acquirable, lockVars,
      thrVars, TypeOK, HartInv, ProcInv, OffInv, Depth, Loc, OpenPCs, AwayPCs
<1>5. PLockInv'
  BY <1>1, NilNotProc DEF IInv, scheduler_run, push_off, acquirable, lockVars,
      thrVars, TypeOK, HartInv, ProcInv, PLockInv, PLockPCs, AwayPCs, OpenPCs,
      OffInv, Depth
<1>6. LkInv'
  <2>1. pc[p] \notin LkPCs
    BY DEF IInv, ProcInv, AwayPCs, LkPCs, scheduler_run
  <2>2. UNCHANGED <<lk, pc, arg>>
    BY DEF scheduler_run, thrVars
  <2>3. hart' = [hart EXCEPT ![c] = p] /\ hart \in [Harts -> Procs \cup {Nil}]
    BY DEF scheduler_run, IInv, TypeOK
  <2> QED
    BY <1>1, <2>1, <2>2, <2>3 DEF IInv, LkInv
<1>7. OffInv'
  BY <1>1, NilNotProc DEF IInv, scheduler_run, push_off, acquirable, lockVars,
      thrVars, TypeOK, HartInv, ProcInv, OffInv, Depth, OpenPCs, AwayPCs
<1>8. TestInv'
  BY <1>1 DEF IInv, scheduler_run, push_off, lockVars, thrVars, TypeOK,
      TestInv
<1>9. OwnerInv'
  BY <1>1 DEF IInv, scheduler_run, push_off, lockVars, thrVars, TypeOK, Loc,
      OwnerInv
<1>10. WakeInv'
  BY <1>1 DEF IInv, scheduler_run, push_off, lockVars, thrVars, TypeOK,
      WakerOf, WakeInv
<1>11. NoPanic'
  BY <1>1 DEF IInv, NoPanic, scheduler_run, acquire_panics
<1> QED
  BY <1>2, <1>3, <1>4, <1>5, <1>6, <1>7, <1>8, <1>9, <1>10, <1>11 DEF IInv

\* scheduler() getting control back preserves the invariant.
LEMMA scheduler_back_step ==
  ASSUME IInv, NEW c \in Harts,
         scheduler_back(c)
  PROVE  IInv'
<1>1. proc[c] \in Procs /\ plock[proc[c]] = c /\ noff[c] = 1 /\ ~intr[c]
  BY NilNotProc DEF scheduler_back, IInv, TypeOK, PLockInv, OffInv, Depth
<1>2. TypeOK'
  <2>1. TypeOK
    BY DEF IInv
  <2>2. /\ intr' \in [Harts -> BOOLEAN]
        /\ noff' \in [Harts -> Int]
        /\ intena' \in [Harts -> BOOLEAN]
    BY <2>1, PopOffType DEF scheduler_back
  <2> QED
    BY <2>1, <2>2 DEF scheduler_back, procVars, lockVars, thrVars, TypeOK,
        PCs, States
<1>3. HartInv'
  BY <1>1 DEF IInv, scheduler_back, pop_off, procVars, TypeOK, HartInv
<1>4. ProcInv'
  BY <1>1 DEF IInv, scheduler_back, pop_off, procVars, thrVars, TypeOK, Loc,
      OpenPCs, AwayPCs, ProcInv
<1>5. PLockInv'
  BY <1>1, NilNotProc DEF IInv, scheduler_back, pop_off, procVars, lockVars,
      thrVars, TypeOK, HartInv, ProcInv, PLockInv, PLockPCs, AwayPCs, OpenPCs,
      OffInv, Depth
<1>6. LkInv'
  BY <1>1 DEF IInv, scheduler_back, pop_off, thrVars, TypeOK, LkPCs, LkInv
<1>7. OffInv'
  BY <1>1 DEF IInv, scheduler_back, pop_off, TypeOK, OpenPCs, Depth, OffInv
<1>8. TestInv'
  BY <1>1 DEF IInv, scheduler_back, pop_off, lockVars, thrVars, TypeOK,
      TestInv
<1>9. OwnerInv'
  BY <1>1 DEF IInv, scheduler_back, pop_off, lockVars, thrVars, TypeOK, Loc,
      OwnerInv
<1>10. WakeInv'
  BY <1>1 DEF IInv, scheduler_back, pop_off, procVars, lockVars, thrVars,
      TypeOK, WakerOf, WakeInv
<1>11. NoPanic'
  <2>1. ~release_panics(plock[proc[c]], c)
    BY <1>1 DEF release_panics
  <2> QED
    BY <2>1 DEF IInv, NoPanic, scheduler_back
<1> QED
  BY <1>2, <1>3, <1>4, <1>5, <1>6, <1>7, <1>8, <1>9, <1>10, <1>11 DEF IInv

\* forkret() preserves the invariant.
LEMMA forkret_step ==
  ASSUME IInv, NEW c \in Harts, NEW p \in Procs,
         forkret(c, p)
  PROVE  IInv'
<1>1. plock[p] = c /\ noff[c] = 1 /\ ~intr[c]
  BY OnHart, NilNotProc DEF forkret, Runs, PLockPCs, LkPCs, OpenPCs, Depth
<1>2. TypeOK'
  BY DEF IInv, forkret, Goto, Runs, cpuVars, procVars, lockVars, thrVars,
      TypeOK, PCs, States
<1>3. HartInv'
  BY <1>1 DEF IInv, forkret, Goto, Runs, cpuVars, procVars, TypeOK, HartInv
<1>4. ProcInv'
  BY <1>1, NilNotProc DEF IInv, forkret, Runs, Goto, cpuVars, procVars,
      lockVars, thrVars, TypeOK, HartInv, ProcInv, OffInv, Depth, Loc,
      OpenPCs, AwayPCs
<1>5. PLockInv'
  BY <1>1, NilNotProc DEF IInv, forkret, Runs, Goto, cpuVars, procVars,
      lockVars, thrVars, TypeOK, HartInv, ProcInv, PLockInv, PLockPCs,
      AwayPCs, OpenPCs, OffInv, Depth
<1>6. LkInv'
  BY <1>1 DEF IInv, forkret, Goto, Runs, cpuVars, thrVars, TypeOK, LkPCs,
      LkInv
<1>7. OffInv'
  BY <1>1, NilNotProc DEF IInv, forkret, Runs, Goto, cpuVars, procVars,
      lockVars, thrVars, TypeOK, HartInv, ProcInv, OffInv, Depth, OpenPCs,
      AwayPCs
<1>8. TestInv'
  BY <1>1 DEF IInv, forkret, Goto, Runs, lockVars, thrVars, TypeOK, TestInv
<1>9. OwnerInv'
  BY <1>1 DEF IInv, forkret, Goto, Runs, lockVars, thrVars, TypeOK, Loc,
      OwnerInv
<1>10. WakeInv'
  BY <1>1 DEF IInv, forkret, Goto, Runs, procVars, lockVars, thrVars, TypeOK,
      WakerOf, WakeInv
<1>11. NoPanic'
  <2>1. ~release_panics(plock[p], c)
    BY <1>1 DEF release_panics
  <2> QED
    BY <2>1 DEF IInv, NoPanic, forkret
<1> QED
  BY <1>2, <1>3, <1>4, <1>5, <1>6, <1>7, <1>8, <1>9, <1>10, <1>11 DEF IInv

\* yield() in a timer interrupt preserves the invariant.
LEMMA yield_step ==
  ASSUME IInv, NEW c \in Harts, NEW p \in Procs,
         yield(c, p)
  PROVE  IInv'
<1>1. pc[p] \in OpenPCs /\ noff[c] = 0 /\ plock[p] = Nil /\ \A l \in Locks : lk[l] # c
  BY OnHart, NilNotProc DEF yield, PLockPCs, LkPCs, OpenPCs, Depth, acquirable
<1>2. TypeOK'
  BY <1>1, NilNotProc DEF IInv, yield, Goto, acquirable, lockVars, TypeOK,
      States, PCs
<1>3. HartInv'
  BY <1>1 DEF IInv, yield, Goto, TypeOK, HartInv
<1>4. ProcInv'
  BY <1>1 DEF IInv, yield, Goto, TypeOK, Loc, OpenPCs, AwayPCs, ProcInv
<1>5. PLockInv'
  BY <1>1, NilNotProc DEF IInv, yield, Goto, acquirable, lockVars, TypeOK,
      HartInv, ProcInv, PLockInv, PLockPCs, AwayPCs, OpenPCs, OffInv, Depth
<1>6. LkInv'
  BY <1>1 DEF IInv, yield, Goto, TypeOK, LkPCs, LkInv
<1>7. OffInv'
  BY <1>1, NilNotProc DEF IInv, yield, Goto, acquirable, lockVars, TypeOK,
      HartInv, ProcInv, OffInv, Depth, OpenPCs, AwayPCs
<1>8. TestInv'
  BY <1>1 DEF IInv, yield, Goto, lockVars, TypeOK, TestInv
<1>9. OwnerInv'
  BY <1>1 DEF IInv, yield, Goto, lockVars, TypeOK, Loc, OwnerInv
<1>10. WakeInv'
  BY <1>1, NilNotProc DEF IInv, yield, Goto, acquirable, lockVars, TypeOK,
      HartInv, ProcInv, PLockInv, LkInv, TestInv, OwnerInv, WakeInv, WakerOf,
      LkPCs, PLockPCs, OpenPCs, AwayPCs, Loc, OffInv, Depth
<1>11. NoPanic'
  <2>1. ~(acquire_panics(plock[p], c) \/ noff[c] + 1 # 1)
    BY <1>1 DEF acquire_panics
  <2> QED
    BY <2>1 DEF IInv, NoPanic, yield
<1> QED
  BY <1>2, <1>3, <1>4, <1>5, <1>6, <1>7, <1>8, <1>9, <1>10, <1>11 DEF IInv

\* the return from yield() preserves the invariant.
LEMMA yield_resume_step ==
  ASSUME IInv, NEW c \in Harts, NEW p \in Procs,
         yield_resume(c, p)
  PROVE  IInv'
<1>1. plock[p] = c /\ noff[c] = 1 /\ ~intr[c] /\ ret[p] \in OpenPCs
  BY OnHart, NilNotProc DEF yield_resume, Runs, PLockPCs, LkPCs, OpenPCs,
      Depth
<1>2. TypeOK'
  BY DEF IInv, yield_resume, Goto, Runs, return_from_sched, cpuVars, procVars,
      lockVars, thrVars, TypeOK, PCs, States
<1>3. HartInv'
  BY <1>1 DEF IInv, yield_resume, Goto, Runs, return_from_sched, cpuVars,
      procVars, TypeOK, HartInv
<1>4. ProcInv'
  BY <1>1, NilNotProc DEF IInv, yield_resume, Runs, Goto, return_from_sched,
      cpuVars, procVars, lockVars, thrVars, TypeOK, HartInv, ProcInv, OffInv,
      Depth, Loc, OpenPCs, AwayPCs
<1>5. PLockInv'
  BY <1>1, NilNotProc DEF IInv, yield_resume, Runs, Goto, return_from_sched,
      cpuVars, procVars, lockVars, thrVars, TypeOK, HartInv, ProcInv,
      PLockInv, PLockPCs, AwayPCs, OpenPCs, OffInv, Depth
<1>6. LkInv'
  BY <1>1, NilNotProc DEF IInv, yield_resume, Runs, Goto, return_from_sched,
      cpuVars, procVars, lockVars, thrVars, TypeOK, HartInv, ProcInv, LkInv,
      LkPCs, OpenPCs, AwayPCs, Loc, OffInv, Depth
<1>7. OffInv'
  BY <1>1, NilNotProc DEF IInv, yield_resume, Runs, Goto, return_from_sched,
      cpuVars, procVars, lockVars, thrVars, TypeOK, HartInv, ProcInv, OffInv,
      Depth, OpenPCs, AwayPCs
<1>8. TestInv'
  BY <1>1, NilNotProc DEF IInv, yield_resume, Runs, Goto, return_from_sched,
      cpuVars, procVars, lockVars, thrVars, TypeOK, HartInv, ProcInv, LkInv,
      TestInv, LkPCs, OpenPCs, AwayPCs, Loc
<1>9. OwnerInv'
  BY <1>1 DEF IInv, yield_resume, Goto, Runs, return_from_sched, lockVars,
      thrVars, TypeOK, Loc, OwnerInv
<1>10. WakeInv'
  BY <1>1, NilNotProc DEF IInv, yield_resume, Runs, Goto, return_from_sched,
      cpuVars, procVars, lockVars, thrVars, TypeOK, HartInv, ProcInv,
      PLockInv, LkInv, TestInv, OwnerInv, WakeInv, WakerOf, LkPCs, PLockPCs,
      OpenPCs, AwayPCs, Loc, OffInv, Depth
<1>11. NoPanic'
  <2>1. ~release_panics(plock[p], c)
    BY <1>1 DEF release_panics
  <2> QED
    BY <2>1 DEF IInv, NoPanic, yield_resume, return_from_sched
<1> QED
  BY <1>2, <1>3, <1>4, <1>5, <1>6, <1>7, <1>8, <1>9, <1>10, <1>11 DEF IInv

\* kill() preserves the invariant.
LEMMA kill_step ==
  ASSUME IInv, NEW c \in Harts, NEW p \in Procs, NEW q \in Procs,
         kill(c, p, q)
  PROVE  IInv'
<1>1. plock[q] = Nil
  BY OnHart, NilNotProc DEF kill, Runs, PLockPCs, LkPCs, OpenPCs, acquirable
<1>2. TypeOK'
  BY DEF IInv, kill, Runs, cpuVars, offVars, lockVars, thrVars, TypeOK, PCs,
      States
<1>3. HartInv'
  BY <1>1 DEF IInv, kill, Runs, cpuVars, TypeOK, HartInv
<1>4. ProcInv'
  BY <1>1 DEF IInv, kill, Runs, cpuVars, thrVars, TypeOK, Loc, OpenPCs,
      AwayPCs, ProcInv
<1>5. PLockInv'
  BY <1>1 DEF IInv, kill, Runs, cpuVars, TypeOK, PLockPCs, PLockInv
<1>6. LkInv'
  BY <1>1 DEF IInv, kill, Runs, cpuVars, thrVars, TypeOK, LkPCs, LkInv
<1>7. OffInv'
  BY <1>1 DEF IInv, kill, Runs, cpuVars, offVars, TypeOK, OpenPCs, Depth,
      OffInv
<1>8. TestInv'
  BY <1>1 DEF IInv, kill, Runs, lockVars, thrVars, TypeOK, TestInv
<1>9. OwnerInv'
  BY <1>1 DEF IInv, kill, Runs, lockVars, thrVars, TypeOK, Loc, OwnerInv
<1>10. WakeInv'
  BY <1>1 DEF IInv, kill, Runs, lockVars, thrVars, TypeOK, WakerOf, WakeInv
<1>11. NoPanic'
  BY <1>1 DEF IInv, NoPanic, kill, acquire_panics
<1> QED
  BY <1>2, <1>3, <1>4, <1>5, <1>6, <1>7, <1>8, <1>9, <1>10, <1>11 DEF IInv

\* acquiresleep() taking the inner spin lock preserves the invariant.
LEMMA acquiresleep_step ==
  ASSUME IInv, NEW c \in Harts, NEW p \in Procs, NEW l \in Locks,
         acquiresleep(c, p, l)
  PROVE  IInv'
<1>1. lk[l] = Nil
  BY OnHart, NilNotProc DEF acquiresleep, Runs, PLockPCs, LkPCs, OpenPCs,
      acquirable
<1>2. TypeOK'
  BY DEF IInv, acquiresleep, push_off, Goto, Runs, cpuVars, procVars,
      lockVars, TypeOK, PCs, States
<1>3. HartInv'
  BY <1>1 DEF IInv, acquiresleep, push_off, Goto, Runs, cpuVars, procVars,
      TypeOK, HartInv
<1>4. ProcInv'
  BY <1>1 DEF IInv, acquiresleep, push_off, Goto, Runs, cpuVars, procVars,
      TypeOK, Loc, OpenPCs, AwayPCs, ProcInv
<1>5. PLockInv'
  BY <1>1 DEF IInv, acquiresleep, push_off, Goto, Runs, cpuVars, TypeOK,
      PLockPCs, PLockInv
<1>6. LkInv'
  BY <1>1, NilNotProc DEF IInv, acquiresleep, Runs, Goto, push_off,
      acquirable, cpuVars, procVars, lockVars, TypeOK, HartInv, ProcInv,
      LkInv, LkPCs, OpenPCs, AwayPCs, Loc, OffInv, Depth
<1>7. OffInv'
  BY <1>1, NilNotProc DEF IInv, acquiresleep, Runs, Goto, push_off,
      acquirable, cpuVars, procVars, lockVars, TypeOK, HartInv, ProcInv,
      OffInv, Depth, OpenPCs, AwayPCs
<1>8. TestInv'
  BY <1>1 DEF IInv, acquiresleep, push_off, Goto, Runs, lockVars, TypeOK,
      TestInv
<1>9. OwnerInv'
  BY <1>1 DEF IInv, acquiresleep, push_off, Goto, Runs, lockVars, TypeOK, Loc,
      OwnerInv
<1>10. WakeInv'
  <2>1. UNCHANGED <<state, locked, idx>>
    BY DEF acquiresleep, procVars, lockVars
  <2>2. \A q \in Procs : q # p => pc'[q] = pc[q] /\ arg'[q] = arg[q]
    BY DEF IInv, TypeOK, acquiresleep, Goto
  <2>3. state[p] = "RUNNING" /\ pc[p] = "idle" /\ pc'[p] = "as_test"
    BY OnHart DEF IInv, TypeOK, acquiresleep, Runs, Goto
  <2> QED
    BY <2>1, <2>2, <2>3 DEF IInv, WakeInv, WakerOf
<1>11. NoPanic'
  BY <1>1 DEF IInv, NoPanic, acquiresleep, acquire_panics
<1> QED
  BY <1>2, <1>3, <1>4, <1>5, <1>6, <1>7, <1>8, <1>9, <1>10, <1>11 DEF IInv

\* acquiresleep() finding the lock held preserves the invariant.
LEMMA acquiresleep_wait_step ==
  ASSUME IInv, NEW c \in Harts, NEW p \in Procs,
         acquiresleep_wait(c, p)
  PROVE  IInv'
<1>2. TypeOK'
  BY DEF IInv, acquiresleep_wait, Goto, Runs, cpuVars, offVars, procVars,
      lockVars, thrVars, TypeOK, PCs, States
<1>3. HartInv'
  BY DEF IInv, acquiresleep_wait, Goto, Runs, cpuVars, procVars, TypeOK,
      HartInv
<1>4. ProcInv'
  BY DEF IInv, acquiresleep_wait, Goto, Runs, cpuVars, procVars, thrVars,
      TypeOK, Loc, OpenPCs, AwayPCs, ProcInv
<1>5. PLockInv'
  BY DEF IInv, acquiresleep_wait, Goto, Runs, cpuVars, TypeOK, PLockPCs,
      PLockInv
<1>6. LkInv'
  BY DEF IInv, acquiresleep_wait, Goto, Runs, cpuVars, thrVars, TypeOK, LkPCs,
      LkInv
<1>7. OffInv'
  BY DEF IInv, acquiresleep_wait, Goto, Runs, cpuVars, offVars, TypeOK,
      OpenPCs, Depth, OffInv
<1>8. TestInv'
  BY DEF IInv, acquiresleep_wait, Goto, Runs, lockVars, thrVars, TypeOK,
      TestInv
<1>9. OwnerInv'
  BY DEF IInv, acquiresleep_wait, Goto, Runs, lockVars, thrVars, TypeOK, Loc,
      OwnerInv
<1>10. WakeInv'
  BY DEF IInv, acquiresleep_wait, Goto, Runs, procVars, lockVars, thrVars,
      TypeOK, WakerOf, WakeInv
<1>11. NoPanic'
  BY DEF IInv, NoPanic, acquiresleep_wait
<1> QED
  BY <1>2, <1>3, <1>4, <1>5, <1>6, <1>7, <1>8, <1>9, <1>10, <1>11 DEF IInv

\* acquiresleep() finding the lock free preserves the invariant.
LEMMA acquiresleep_free_step ==
  ASSUME IInv, NEW c \in Harts, NEW p \in Procs,
         acquiresleep_free(c, p)
  PROVE  IInv'
<1>2. TypeOK'
  BY DEF IInv, acquiresleep_free, Goto, Runs, cpuVars, offVars, procVars,
      lockVars, thrVars, TypeOK, PCs, States
<1>3. HartInv'
  BY DEF IInv, acquiresleep_free, Goto, Runs, cpuVars, procVars, TypeOK,
      HartInv
<1>4. ProcInv'
  BY DEF IInv, acquiresleep_free, Goto, Runs, cpuVars, procVars, thrVars,
      TypeOK, Loc, OpenPCs, AwayPCs, ProcInv
<1>5. PLockInv'
  BY DEF IInv, acquiresleep_free, Goto, Runs, cpuVars, TypeOK, PLockPCs,
      PLockInv
<1>6. LkInv'
  BY DEF IInv, acquiresleep_free, Goto, Runs, cpuVars, thrVars, TypeOK, LkPCs,
      LkInv
<1>7. OffInv'
  BY DEF IInv, acquiresleep_free, Goto, Runs, cpuVars, offVars, TypeOK,
      OpenPCs, Depth, OffInv
<1>8. TestInv'
  BY DEF IInv, acquiresleep_free, Goto, Runs, lockVars, thrVars, TypeOK,
      TestInv
<1>9. OwnerInv'
  BY DEF IInv, acquiresleep_free, Goto, Runs, lockVars, thrVars, TypeOK, Loc,
      OwnerInv
<1>10. WakeInv'
  BY DEF IInv, acquiresleep_free, Goto, Runs, procVars, lockVars, thrVars,
      TypeOK, WakerOf, WakeInv
<1>11. NoPanic'
  BY DEF IInv, NoPanic, acquiresleep_free
<1> QED
  BY <1>2, <1>3, <1>4, <1>5, <1>6, <1>7, <1>8, <1>9, <1>10, <1>11 DEF IInv

\* acquiresleep() taking the lock preserves the invariant.
LEMMA acquiresleep_take_step ==
  ASSUME IInv, NEW c \in Harts, NEW p \in Procs,
         acquiresleep_take(c, p)
  PROVE  IInv'
<1>1. arg[p] \in Locks /\ lk[arg[p]] = c /\ noff[c] = 1 /\ ~intr[c]
  BY OnHart, NilNotProc DEF acquiresleep_take, Runs, PLockPCs, LkPCs, OpenPCs,
      Depth
<1>2. TypeOK'
  <2>1. TypeOK
    BY DEF IInv
  <2>2. /\ intr' \in [Harts -> BOOLEAN]
        /\ noff' \in [Harts -> Int]
        /\ intena' \in [Harts -> BOOLEAN]
    BY <2>1, PopOffType DEF acquiresleep_take
  <2> QED
    BY <2>1, <2>2 DEF acquiresleep_take, Goto, Runs, cpuVars, procVars,
        thrVars, TypeOK, PCs, States
<1>3. HartInv'
  BY <1>1 DEF IInv, acquiresleep_take, pop_off, Goto, Runs, cpuVars, procVars,
      TypeOK, HartInv
<1>4. ProcInv'
  BY <1>1 DEF IInv, acquiresleep_take, pop_off, Goto, Runs, cpuVars, procVars,
      thrVars, TypeOK, Loc, OpenPCs, AwayPCs, ProcInv
<1>5. PLockInv'
  BY <1>1 DEF IInv, acquiresleep_take, pop_off, Goto, Runs, cpuVars, TypeOK,
      PLockPCs, PLockInv
<1>6. LkInv'
  BY <1>1 DEF IInv, acquiresleep_take, pop_off, Goto, Runs, cpuVars, thrVars,
      TypeOK, LkPCs, LkInv
<1>7. OffInv'
  BY <1>1, NilNotProc DEF IInv, acquiresleep_take, Runs, Goto, pop_off,
      cpuVars, procVars, thrVars, TypeOK, HartInv, ProcInv, OffInv, Depth,
      OpenPCs, AwayPCs
<1>8. TestInv'
  <2>1. \A q \in Procs : pc[q] \in LkPCs /\ arg[q] = arg[p] => q = p
    BY LkExclusive DEF acquiresleep_take, Runs, LkPCs
  <2> QED
    BY <1>1, <2>1 DEF IInv, TypeOK, TestInv, acquiresleep_take, Runs, Goto,
                      thrVars, LkPCs
<1>9. OwnerInv'
  BY <1>1, NilNotProc DEF IInv, acquiresleep_take, Runs, Goto, pop_off,
      cpuVars, procVars, thrVars, TypeOK, HartInv, ProcInv, LkInv, TestInv,
      OwnerInv, LkPCs, OpenPCs, AwayPCs, Loc, OffInv, Depth
<1>10. WakeInv'
  BY <1>1 DEF IInv, acquiresleep_take, pop_off, Goto, Runs, procVars, thrVars,
      TypeOK, WakerOf, WakeInv
<1>11. NoPanic'
  <2>1. ~release_panics(lk[arg[p]], c)
    BY <1>1 DEF release_panics
  <2> QED
    BY <2>1 DEF IInv, NoPanic, acquiresleep_take
<1> QED
  BY <1>2, <1>3, <1>4, <1>5, <1>6, <1>7, <1>8, <1>9, <1>10, <1>11 DEF IInv

\* sleep() taking p->lock preserves the invariant.
LEMMA sleep_lock_step ==
  ASSUME IInv, NEW c \in Harts, NEW p \in Procs,
         sleep_lock(c, p)
  PROVE  IInv'
<1>1. plock[p] = Nil
  BY OnHart, NilNotProc DEF sleep_lock, Runs, PLockPCs, LkPCs, OpenPCs,
      acquirable
<1>2. TypeOK'
  BY DEF IInv, sleep_lock, push_off, Goto, Runs, cpuVars, procVars, lockVars,
      thrVars, TypeOK, PCs, States
<1>3. HartInv'
  BY <1>1 DEF IInv, sleep_lock, push_off, Goto, Runs, cpuVars, procVars,
      TypeOK, HartInv
<1>4. ProcInv'
  BY <1>1 DEF IInv, sleep_lock, push_off, Goto, Runs, cpuVars, procVars,
      thrVars, TypeOK, Loc, OpenPCs, AwayPCs, ProcInv
<1>5. PLockInv'
  BY <1>1, NilNotProc DEF IInv, sleep_lock, Runs, Goto, push_off, acquirable,
      cpuVars, procVars, lockVars, thrVars, TypeOK, HartInv, ProcInv,
      PLockInv, PLockPCs, AwayPCs, OpenPCs, OffInv, Depth
<1>6. LkInv'
  BY <1>1 DEF IInv, sleep_lock, push_off, Goto, Runs, cpuVars, thrVars,
      TypeOK, LkPCs, LkInv
<1>7. OffInv'
  BY <1>1, NilNotProc DEF IInv, sleep_lock, Runs, Goto, push_off, acquirable,
      cpuVars, procVars, lockVars, thrVars, TypeOK, HartInv, ProcInv, OffInv,
      Depth, OpenPCs, AwayPCs
<1>8. TestInv'
  BY <1>1 DEF IInv, sleep_lock, push_off, Goto, Runs, lockVars, thrVars,
      TypeOK, TestInv
<1>9. OwnerInv'
  BY <1>1 DEF IInv, sleep_lock, push_off, Goto, Runs, lockVars, thrVars,
      TypeOK, Loc, OwnerInv
<1>10. WakeInv'
  BY <1>1 DEF IInv, sleep_lock, push_off, Goto, Runs, procVars, lockVars,
      thrVars, TypeOK, WakerOf, WakeInv
<1>11. NoPanic'
  BY <1>1 DEF IInv, NoPanic, sleep_lock, acquire_panics
<1> QED
  BY <1>2, <1>3, <1>4, <1>5, <1>6, <1>7, <1>8, <1>9, <1>10, <1>11 DEF IInv

\* sleep() releasing the condition lock preserves the invariant.
LEMMA sleep_release_step ==
  ASSUME IInv, NEW c \in Harts, NEW p \in Procs,
         sleep_release(c, p)
  PROVE  IInv'
<1>1. arg[p] \in Locks /\ lk[arg[p]] = c /\ noff[c] = 2 /\ ~intr[c]
  BY OnHart, NilNotProc DEF sleep_release, Runs, PLockPCs, LkPCs, OpenPCs,
      Depth
<1>2. TypeOK'
  <2>1. TypeOK
    BY DEF IInv
  <2>2. /\ intr' \in [Harts -> BOOLEAN]
        /\ noff' \in [Harts -> Int]
        /\ intena' \in [Harts -> BOOLEAN]
    BY <2>1, PopOffType DEF sleep_release
  <2> QED
    BY <2>1, <2>2 DEF sleep_release, Goto, Runs, cpuVars, procVars, lockVars,
        thrVars, TypeOK, PCs, States
<1>3. HartInv'
  BY <1>1 DEF IInv, sleep_release, pop_off, Goto, Runs, cpuVars, procVars,
      TypeOK, HartInv
<1>4. ProcInv'
  BY <1>1 DEF IInv, sleep_release, pop_off, Goto, Runs, cpuVars, procVars,
      thrVars, TypeOK, Loc, OpenPCs, AwayPCs, ProcInv
<1>5. PLockInv'
  BY <1>1 DEF IInv, sleep_release, pop_off, Goto, Runs, cpuVars, TypeOK,
      PLockPCs, PLockInv
<1>6. LkInv'
  BY <1>1 DEF IInv, sleep_release, pop_off, Goto, Runs, cpuVars, thrVars,
      TypeOK, LkPCs, LkInv
<1>7. OffInv'
  BY <1>1, NilNotProc DEF IInv, sleep_release, Runs, Goto, pop_off, cpuVars,
      procVars, lockVars, thrVars, TypeOK, HartInv, ProcInv, OffInv, Depth,
      OpenPCs, AwayPCs
<1>8. TestInv'
  BY <1>1 DEF IInv, sleep_release, pop_off, Goto, Runs, lockVars, thrVars,
      TypeOK, TestInv
<1>9. OwnerInv'
  BY <1>1 DEF IInv, sleep_release, pop_off, Goto, Runs, lockVars, thrVars,
      TypeOK, Loc, OwnerInv
<1>10. WakeInv'
  BY <1>1, NilNotProc DEF IInv, sleep_release, Runs, Goto, pop_off, cpuVars,
      procVars, lockVars, thrVars, TypeOK, HartInv, ProcInv, PLockInv, LkInv,
      TestInv, OwnerInv, WakeInv, WakerOf, LkPCs, PLockPCs, OpenPCs, AwayPCs,
      Loc, OffInv, Depth
<1>11. NoPanic'
  <2>1. ~release_panics(lk[arg[p]], c)
    BY <1>1 DEF release_panics
  <2> QED
    BY <2>1 DEF IInv, NoPanic, sleep_release
<1> QED
  BY <1>2, <1>3, <1>4, <1>5, <1>6, <1>7, <1>8, <1>9, <1>10, <1>11 DEF IInv

\* sleep() going to sleep preserves the invariant.
LEMMA sleep_switch_step ==
  ASSUME IInv, NEW c \in Harts, NEW p \in Procs,
         sleep_switch(c, p)
  PROVE  IInv'
<1>1. arg[p] \in Locks /\ plock[p] = c /\ noff[c] = 1 /\ ~intr[c]
  BY OnHart, NilNotProc DEF sleep_switch, Runs, PLockPCs, LkPCs, OpenPCs,
      Depth
<1>2. TypeOK'
  BY DEF IInv, sleep_switch, Goto, Runs, sched, offVars, lockVars, TypeOK,
      PCs, States
<1>3. HartInv'
  BY <1>1 DEF IInv, sleep_switch, Goto, Runs, sched, TypeOK, HartInv
<1>4. ProcInv'
  BY <1>1 DEF IInv, sleep_switch, Goto, Runs, sched, TypeOK, Loc, OpenPCs,
      AwayPCs, ProcInv
<1>5. PLockInv'
  BY <1>1 DEF IInv, sleep_switch, Goto, Runs, sched, TypeOK, PLockPCs,
      PLockInv
<1>6. LkInv'
  BY <1>1 DEF IInv, sleep_switch, Goto, Runs, sched, TypeOK, LkPCs, LkInv
<1>7. OffInv'
  BY <1>1, NilNotProc DEF IInv, sleep_switch, Runs, Goto, sched, offVars,
      lockVars, TypeOK, HartInv, ProcInv, OffInv, Depth, OpenPCs, AwayPCs
<1>8. TestInv'
  BY <1>1 DEF IInv, sleep_switch, Goto, Runs, sched, lockVars, TypeOK, TestInv
<1>9. OwnerInv'
  BY <1>1 DEF IInv, sleep_switch, Goto, Runs, sched, lockVars, TypeOK, Loc,
      OwnerInv
<1>10. WakeInv'
  BY <1>1 DEF IInv, sleep_switch, Goto, Runs, sched, lockVars, TypeOK,
      WakerOf, WakeInv
<1>11. NoPanic'
  BY <1>1 DEF IInv, NoPanic, sleep_switch, sched, sched_panics
<1> QED
  BY <1>2, <1>3, <1>4, <1>5, <1>6, <1>7, <1>8, <1>9, <1>10, <1>11 DEF IInv

\* sleep() after its sched() preserves the invariant.
LEMMA sleep_resume_step ==
  ASSUME IInv, NEW c \in Harts, NEW p \in Procs,
         sleep_resume(c, p)
  PROVE  IInv'
<1>1. plock[p] = c /\ noff[c] = 1 /\ ~intr[c]
  BY OnHart, NilNotProc DEF sleep_resume, Runs, PLockPCs, LkPCs, OpenPCs,
      Depth
<1>2. TypeOK'
  <2>1. (IF noff[c] = 1 /\ saved[p] THEN TRUE ELSE intr[c]) \in BOOLEAN
    BY Zenon DEF IInv, TypeOK
  <2>2. intr' \in [Harts -> BOOLEAN]
    BY <2>1, Zenon DEF IInv, TypeOK, sleep_resume
  <2>3. intena' \in [Harts -> BOOLEAN] /\ panicked' \in BOOLEAN
    BY Zenon DEF IInv, TypeOK, sleep_resume, return_from_sched
  <2>4. UNCHANGED <<hart, proc, state, killed, lk, locked, pid, arg, idx, saved, ret>>
    BY DEF sleep_resume, cpuVars, lockVars, thrVars
  <2>5. plock' \in [Procs -> Harts \cup {Nil}] /\ noff' \in [Harts -> Int]
    BY DEF IInv, TypeOK, sleep_resume, return_from_sched
  <2>6. pc' \in [Procs -> PCs] /\ chan' \in [Procs -> Locks \cup {Nil}]
    BY DEF IInv, TypeOK, PCs, sleep_resume, Goto
  <2> QED
    BY <2>2, <2>3, <2>4, <2>5, <2>6 DEF IInv, TypeOK
<1>3. HartInv'
  BY <1>1 DEF IInv, sleep_resume, Goto, Runs, return_from_sched, cpuVars,
      TypeOK, HartInv
<1>4. ProcInv'
  BY <1>1, NilNotProc DEF IInv, sleep_resume, Runs, Goto, return_from_sched,
      cpuVars, lockVars, thrVars, TypeOK, HartInv, ProcInv, OffInv, Depth,
      Loc, OpenPCs, AwayPCs
<1>5. PLockInv'
  BY <1>1, NilNotProc DEF IInv, sleep_resume, Runs, Goto, return_from_sched,
      cpuVars, lockVars, thrVars, TypeOK, HartInv, ProcInv, PLockInv,
      PLockPCs, AwayPCs, OpenPCs, OffInv, Depth
<1>6. LkInv'
  BY <1>1 DEF IInv, sleep_resume, Goto, Runs, return_from_sched, cpuVars,
      thrVars, TypeOK, LkPCs, LkInv
<1>7. OffInv'
  BY <1>1, NilNotProc DEF IInv, sleep_resume, Runs, Goto, return_from_sched,
      cpuVars, lockVars, thrVars, TypeOK, HartInv, ProcInv, OffInv, Depth,
      OpenPCs, AwayPCs
<1>8. TestInv'
  BY <1>1 DEF IInv, sleep_resume, Goto, Runs, return_from_sched, lockVars,
      thrVars, TypeOK, TestInv
<1>9. OwnerInv'
  BY <1>1 DEF IInv, sleep_resume, Goto, Runs, return_from_sched, lockVars,
      thrVars, TypeOK, Loc, OwnerInv
<1>10. WakeInv'
  BY <1>1 DEF IInv, sleep_resume, Goto, Runs, return_from_sched, lockVars,
      thrVars, TypeOK, WakerOf, WakeInv
<1>11. NoPanic'
  <2>1. ~release_panics(plock[p], c)
    BY <1>1 DEF release_panics
  <2> QED
    BY <2>1 DEF IInv, NoPanic, sleep_resume, return_from_sched
<1> QED
  BY <1>2, <1>3, <1>4, <1>5, <1>6, <1>7, <1>8, <1>9, <1>10, <1>11 DEF IInv

\* sleep() taking the condition lock again preserves the invariant.
LEMMA sleep_reacquire_step ==
  ASSUME IInv, NEW c \in Harts, NEW p \in Procs,
         sleep_reacquire(c, p)
  PROVE  IInv'
<1>1. arg[p] \in Locks /\ lk[arg[p]] = Nil
  BY OnHart, NilNotProc DEF sleep_reacquire, Runs, PLockPCs, LkPCs, OpenPCs,
      acquirable
<1>2. TypeOK'
  BY <1>1, NilNotProc DEF IInv, sleep_reacquire, Runs, Goto, push_off,
      acquirable, cpuVars, procVars, lockVars, thrVars, TypeOK, States, PCs
<1>3. HartInv'
  BY <1>1 DEF IInv, sleep_reacquire, push_off, Goto, Runs, cpuVars, procVars,
      TypeOK, HartInv
<1>4. ProcInv'
  BY <1>1 DEF IInv, sleep_reacquire, push_off, Goto, Runs, cpuVars, procVars,
      thrVars, TypeOK, Loc, OpenPCs, AwayPCs, ProcInv
<1>5. PLockInv'
  BY <1>1 DEF IInv, sleep_reacquire, push_off, Goto, Runs, cpuVars, TypeOK,
      PLockPCs, PLockInv
<1>6. LkInv'
  BY <1>1, NilNotProc DEF IInv, sleep_reacquire, Runs, Goto, push_off,
      acquirable, cpuVars, procVars, lockVars, thrVars, TypeOK, HartInv,
      ProcInv, LkInv, LkPCs, OpenPCs, AwayPCs, Loc, OffInv, Depth
<1>7. OffInv'
  BY <1>1, NilNotProc DEF IInv, sleep_reacquire, Runs, Goto, push_off,
      acquirable, cpuVars, procVars, lockVars, thrVars, TypeOK, HartInv,
      ProcInv, OffInv, Depth, OpenPCs, AwayPCs
<1>8. TestInv'
  BY <1>1 DEF IInv, sleep_reacquire, push_off, Goto, Runs, lockVars, thrVars,
      TypeOK, TestInv
<1>9. OwnerInv'
  BY <1>1 DEF IInv, sleep_reacquire, push_off, Goto, Runs, lockVars, thrVars,
      TypeOK, Loc, OwnerInv
<1>10. WakeInv'
  BY <1>1 DEF IInv, sleep_reacquire, push_off, Goto, Runs, procVars, lockVars,
      thrVars, TypeOK, WakerOf, WakeInv
<1>11. NoPanic'
  BY <1>1 DEF IInv, NoPanic, sleep_reacquire, acquire_panics
<1> QED
  BY <1>2, <1>3, <1>4, <1>5, <1>6, <1>7, <1>8, <1>9, <1>10, <1>11 DEF IInv

\* holdingsleep() preserves the invariant.
LEMMA holdingsleep_step ==
  ASSUME IInv, NEW c \in Harts, NEW p \in Procs,
         holdingsleep(c, p)
  PROVE  IInv'
<1>2. TypeOK'
  BY DEF IInv, holdingsleep, Goto, Runs, cpuVars, offVars, procVars, lockVars,
      thrVars, TypeOK, PCs, States
<1>3. HartInv'
  BY DEF IInv, holdingsleep, Goto, Runs, cpuVars, procVars, TypeOK, HartInv
<1>4. ProcInv'
  BY DEF IInv, holdingsleep, Goto, Runs, cpuVars, procVars, thrVars, TypeOK,
      Loc, OpenPCs, AwayPCs, ProcInv
<1>5. PLockInv'
  BY DEF IInv, holdingsleep, Goto, Runs, cpuVars, TypeOK, PLockPCs, PLockInv
<1>6. LkInv'
  BY DEF IInv, holdingsleep, Goto, Runs, cpuVars, thrVars, TypeOK, LkPCs,
      LkInv
<1>7. OffInv'
  BY DEF IInv, holdingsleep, Goto, Runs, cpuVars, offVars, TypeOK, OpenPCs,
      Depth, OffInv
<1>8. TestInv'
  BY DEF IInv, holdingsleep, Goto, Runs, lockVars, thrVars, TypeOK, TestInv
<1>9. OwnerInv'
  BY DEF IInv, holdingsleep, Goto, Runs, lockVars, thrVars, TypeOK, Loc,
      OwnerInv
<1>10. WakeInv'
  BY DEF IInv, holdingsleep, Goto, Runs, procVars, lockVars, thrVars, TypeOK,
      WakerOf, WakeInv
<1>11. NoPanic'
  <2>1. locked[arg[p]] /\ pid[arg[p]] = p
    BY OnHart DEF holdingsleep, Runs
  <2> QED
    BY <2>1 DEF IInv, NoPanic, holdingsleep
<1> QED
  BY <1>2, <1>3, <1>4, <1>5, <1>6, <1>7, <1>8, <1>9, <1>10, <1>11 DEF IInv

\* releasesleep() taking the inner spin lock preserves the invariant.
LEMMA releasesleep_step ==
  ASSUME IInv, NEW c \in Harts, NEW p \in Procs,
         releasesleep(c, p)
  PROVE  IInv'
<1>1. arg[p] \in Locks /\ lk[arg[p]] = Nil
  BY OnHart, NilNotProc DEF releasesleep, Runs, PLockPCs, LkPCs, OpenPCs,
      acquirable
<1>2. TypeOK'
  BY <1>1, NilNotProc DEF IInv, releasesleep, Runs, Goto, push_off,
      acquirable, cpuVars, procVars, lockVars, thrVars, TypeOK, States, PCs
<1>3. HartInv'
  BY <1>1 DEF IInv, releasesleep, push_off, Goto, Runs, cpuVars, procVars,
      TypeOK, HartInv
<1>4. ProcInv'
  BY <1>1 DEF IInv, releasesleep, push_off, Goto, Runs, cpuVars, procVars,
      thrVars, TypeOK, Loc, OpenPCs, AwayPCs, ProcInv
<1>5. PLockInv'
  BY <1>1 DEF IInv, releasesleep, push_off, Goto, Runs, cpuVars, TypeOK,
      PLockPCs, PLockInv
<1>6. LkInv'
  BY <1>1, NilNotProc DEF IInv, releasesleep, Runs, Goto, push_off,
      acquirable, cpuVars, procVars, lockVars, thrVars, TypeOK, HartInv,
      ProcInv, LkInv, LkPCs, OpenPCs, AwayPCs, Loc, OffInv, Depth
<1>7. OffInv'
  BY <1>1, NilNotProc DEF IInv, releasesleep, Runs, Goto, push_off,
      acquirable, cpuVars, procVars, lockVars, thrVars, TypeOK, HartInv,
      ProcInv, OffInv, Depth, OpenPCs, AwayPCs
<1>8. TestInv'
  BY <1>1 DEF IInv, releasesleep, push_off, Goto, Runs, lockVars, thrVars,
      TypeOK, TestInv
<1>9. OwnerInv'
  BY <1>1 DEF IInv, releasesleep, push_off, Goto, Runs, lockVars, thrVars,
      TypeOK, Loc, OwnerInv
<1>10. WakeInv'
  BY <1>1 DEF IInv, releasesleep, push_off, Goto, Runs, procVars, lockVars,
      thrVars, TypeOK, WakerOf, WakeInv
<1>11. NoPanic'
  BY <1>1 DEF IInv, NoPanic, releasesleep, acquire_panics
<1> QED
  BY <1>2, <1>3, <1>4, <1>5, <1>6, <1>7, <1>8, <1>9, <1>10, <1>11 DEF IInv

\* releasesleep() clearing the lock preserves the invariant.
LEMMA releasesleep_clear_step ==
  ASSUME IInv, NEW c \in Harts, NEW p \in Procs,
         releasesleep_clear(c, p)
  PROVE  IInv'
<1>1. arg[p] \in Locks /\ lk[arg[p]] = c /\ locked[arg[p]] /\ pid[arg[p]] = p
  BY OnHart, NilNotProc DEF releasesleep_clear, Runs, PLockPCs, LkPCs, OpenPCs
<1>2. TypeOK'
  BY <1>1, NilNotProc DEF IInv, releasesleep_clear, Runs, Goto, cpuVars,
      offVars, procVars, TypeOK, States, PCs
<1>3. HartInv'
  BY <1>1 DEF IInv, releasesleep_clear, Goto, Runs, cpuVars, procVars, TypeOK,
      HartInv
<1>4. ProcInv'
  BY <1>1 DEF IInv, releasesleep_clear, Goto, Runs, cpuVars, procVars, TypeOK,
      Loc, OpenPCs, AwayPCs, ProcInv
<1>5. PLockInv'
  BY <1>1 DEF IInv, releasesleep_clear, Goto, Runs, cpuVars, TypeOK, PLockPCs,
      PLockInv
<1>6. LkInv'
  BY <1>1 DEF IInv, releasesleep_clear, Goto, Runs, cpuVars, TypeOK, LkPCs,
      LkInv
<1>7. OffInv'
  BY <1>1 DEF IInv, releasesleep_clear, Goto, Runs, cpuVars, offVars, TypeOK,
      OpenPCs, Depth, OffInv
<1>8. TestInv'
  <2>1. \A q \in Procs : pc[q] \in LkPCs /\ arg[q] = arg[p] => q = p
    BY LkExclusive DEF releasesleep_clear, Runs, LkPCs
  <2> QED
    BY <1>1, <2>1 DEF IInv, TypeOK, TestInv, releasesleep_clear, Runs, Goto,
                      LkPCs
<1>9. OwnerInv'
  BY <1>1 DEF IInv, releasesleep_clear, Goto, Runs, TypeOK, Loc, OwnerInv
<1>10. WakeInv'
  <2> SUFFICES ASSUME NEW q \in Procs, (state[q] = "SLEEPING" \/ pc[q] = "sl_switch")'
               PROVE  (locked[arg[q]] \/ WakerOf(q, arg[q]))'
    BY DEF WakeInv
  <2>1. state[q] = "SLEEPING" \/ pc[q] = "sl_switch"
    BY DEF IInv, TypeOK, releasesleep_clear, Runs, Goto, procVars
  <2>2. CASE arg[q] = arg[p]
    <3>1. (pc[p] = "rs_wake" /\ arg[p] = arg[q] /\ idx[p] <= q)'
      BY <2>2 DEF IInv, TypeOK, releasesleep_clear, Runs, Goto, thrVars, Procs
    <3> QED BY <3>1 DEF WakerOf
  <2>3. CASE arg[q] # arg[p] /\ locked[arg[q]]
    BY <2>3 DEF IInv, TypeOK, releasesleep_clear
  <2>4. CASE arg[q] # arg[p] /\ WakerOf(q, arg[q])
    BY <2>4 DEF IInv, TypeOK, WakerOf, releasesleep_clear, Runs, Goto
  <2> QED BY <2>1, <2>2, <2>3, <2>4 DEF IInv, WakeInv
<1>11. NoPanic'
  BY <1>1 DEF IInv, NoPanic, releasesleep_clear
<1> QED
  BY <1>2, <1>3, <1>4, <1>5, <1>6, <1>7, <1>8, <1>9, <1>10, <1>11 DEF IInv

\* one iteration of wakeup() preserves the invariant.
LEMMA wakeup_step ==
  ASSUME IInv, NEW c \in Harts, NEW p \in Procs,
         wakeup(c, p)
  PROVE  IInv'
<1>1. idx[p] \in Procs /\ (idx[p] # p => plock[idx[p]] = Nil)
  BY NilNotProc DEF wakeup, IInv, TypeOK, PLockInv, HartInv, ProcInv, LkInv,
      LkPCs, PLockPCs, Loc, acquirable, Runs, Procs
<1>2. TypeOK'
  BY <1>1, NilNotProc DEF IInv, wakeup, Runs, acquirable, cpuVars, offVars,
      lockVars, TypeOK, States, PCs
<1>3. HartInv'
  BY <1>1 DEF IInv, wakeup, Runs, cpuVars, TypeOK, HartInv
<1>4. ProcInv'
  BY <1>1 DEF IInv, wakeup, Runs, cpuVars, TypeOK, Loc, OpenPCs, AwayPCs,
      ProcInv
<1>5. PLockInv'
  BY <1>1 DEF IInv, wakeup, Runs, cpuVars, TypeOK, PLockPCs, PLockInv
<1>6. LkInv'
  BY <1>1 DEF IInv, wakeup, Runs, cpuVars, TypeOK, LkPCs, LkInv
<1>7. OffInv'
  BY <1>1 DEF IInv, wakeup, Runs, cpuVars, offVars, TypeOK, OpenPCs, Depth,
      OffInv
<1>8. TestInv'
  BY <1>1 DEF IInv, wakeup, Runs, lockVars, TypeOK, TestInv
<1>9. OwnerInv'
  BY <1>1 DEF IInv, wakeup, Runs, lockVars, TypeOK, Loc, OwnerInv
<1>10. WakeInv'
  <2> SUFFICES ASSUME NEW q \in Procs, (state[q] = "SLEEPING" \/ pc[q] = "sl_switch")'
               PROVE  (locked[arg[q]] \/ WakerOf(q, arg[q]))'
    BY DEF WakeInv
  <2>1. state[q] = "SLEEPING" \/ pc[q] = "sl_switch"
    BY <1>1 DEF IInv, TypeOK, wakeup, States
  <2>2. CASE locked[arg[q]]
    BY <2>2 DEF wakeup, lockVars
  <2>3. CASE WakerOf(q, arg[q])
    <3>1. PICK u \in Procs : pc[u] = "rs_wake" /\ arg[u] = arg[q] /\ idx[u] <= q
      BY <2>3 DEF WakerOf
    <3>2. ~(u = p /\ idx[p] = q)
      <4> SUFFICES ASSUME u = p, idx[p] = q PROVE FALSE
        OBVIOUS
      <4>1. q # p
        BY <2>1, OnHart DEF wakeup, Runs
      <4>2. pc[q] # "sl_switch"
        BY <1>1, <4>1, NilNotProc DEF IInv, ProcInv, HartInv, PLockInv, AwayPCs, PLockPCs
      <4>3. state[q] = "SLEEPING" /\ chan[q] = arg[p]
        BY <2>1, <3>1, <4>2 DEF IInv, ProcInv
      <4> QED
        BY <4>1, <4>2, <4>3 DEF IInv, TypeOK, wakeup
    <3>3. (pc[u] = "rs_wake" /\ arg[u] = arg[q] /\ idx[u] <= q)'
      BY <1>1, <3>1, <3>2 DEF IInv, TypeOK, wakeup, Procs
    <3> QED BY <3>3 DEF WakerOf
  <2> QED BY <2>1, <2>2, <2>3 DEF IInv, WakeInv
<1>11. NoPanic'
  BY <1>1 DEF IInv, NoPanic, wakeup, acquire_panics
<1> QED
  BY <1>2, <1>3, <1>4, <1>5, <1>6, <1>7, <1>8, <1>9, <1>10, <1>11 DEF IInv

\* the end of releasesleep() preserves the invariant.
LEMMA releasesleep_done_step ==
  ASSUME IInv, NEW c \in Harts, NEW p \in Procs,
         releasesleep_done(c, p)
  PROVE  IInv'
<1>1. arg[p] \in Locks /\ lk[arg[p]] = c /\ noff[c] = 1 /\ ~intr[c]
  BY OnHart, NilNotProc DEF releasesleep_done, Runs, PLockPCs, LkPCs, OpenPCs,
      Depth
<1>2. TypeOK'
  <2>1. TypeOK
    BY DEF IInv
  <2>2. /\ intr' \in [Harts -> BOOLEAN]
        /\ noff' \in [Harts -> Int]
        /\ intena' \in [Harts -> BOOLEAN]
    BY <2>1, PopOffType DEF releasesleep_done
  <2> QED
    BY <1>1, NilNotProc, <2>1, <2>2 DEF releasesleep_done, Runs, Goto,
        cpuVars, procVars, lockVars, TypeOK, States, PCs
<1>3. HartInv'
  BY <1>1 DEF IInv, releasesleep_done, pop_off, Goto, Runs, cpuVars, procVars,
      TypeOK, HartInv
<1>4. ProcInv'
  BY <1>1 DEF IInv, releasesleep_done, pop_off, Goto, Runs, cpuVars, procVars,
      TypeOK, Loc, OpenPCs, AwayPCs, ProcInv
<1>5. PLockInv'
  BY <1>1 DEF IInv, releasesleep_done, pop_off, Goto, Runs, cpuVars, TypeOK,
      PLockPCs, PLockInv
<1>6. LkInv'
  BY <1>1 DEF IInv, releasesleep_done, pop_off, Goto, Runs, cpuVars, TypeOK,
      LkPCs, LkInv
<1>7. OffInv'
  BY <1>1, NilNotProc DEF IInv, releasesleep_done, Runs, Goto, pop_off,
      cpuVars, procVars, lockVars, TypeOK, HartInv, ProcInv, OffInv, Depth,
      OpenPCs, AwayPCs
<1>8. TestInv'
  BY <1>1 DEF IInv, releasesleep_done, pop_off, Goto, Runs, lockVars, TypeOK,
      TestInv
<1>9. OwnerInv'
  BY <1>1 DEF IInv, releasesleep_done, pop_off, Goto, Runs, lockVars, TypeOK,
      Loc, OwnerInv
<1>10. WakeInv'
  <2> SUFFICES ASSUME NEW q \in Procs, (state[q] = "SLEEPING" \/ pc[q] = "sl_switch")'
               PROVE  (locked[arg[q]] \/ WakerOf(q, arg[q]))'
    BY DEF WakeInv
  <2>1. state[q] = "SLEEPING" \/ pc[q] = "sl_switch"
    BY DEF IInv, TypeOK, releasesleep_done, Runs, Goto, procVars
  <2>2. q # p
    BY <2>1, OnHart DEF releasesleep_done, Runs
  <2>3. arg'[q] = arg[q]
    BY <2>2 DEF IInv, TypeOK, releasesleep_done
  <2>4. CASE locked[arg[q]]
    BY <2>3, <2>4 DEF releasesleep_done, lockVars
  <2>5. CASE WakerOf(q, arg[q])
    <3>1. PICK u \in Procs : pc[u] = "rs_wake" /\ arg[u] = arg[q] /\ idx[u] <= q
      BY <2>5 DEF WakerOf
    <3>2. u # p
      BY <3>1 DEF releasesleep_done, Procs
    <3>3. (pc[u] = "rs_wake" /\ arg[u] = arg[q] /\ idx[u] <= q)'
      BY <2>3, <3>1, <3>2 DEF IInv, TypeOK, releasesleep_done, Goto
    <3> QED BY <3>3 DEF WakerOf
  <2> QED BY <2>1, <2>4, <2>5 DEF IInv, WakeInv
<1>11. NoPanic'
  <2>1. ~release_panics(lk[arg[p]], c)
    BY <1>1 DEF release_panics
  <2> QED
    BY <2>1 DEF IInv, NoPanic, releasesleep_done
<1> QED
  BY <1>2, <1>3, <1>4, <1>5, <1>6, <1>7, <1>8, <1>9, <1>10, <1>11 DEF IInv

\* The first state, every process new and every hart in its scheduler,
\* satisfies the invariant.
LEMMA InitIInv == Init => IInv
<1> SUFFICES ASSUME Init PROVE IInv
  OBVIOUS
<1>1. TypeOK
  <2>1. /\ 0 \in Int /\ 0 \in 0 .. NPROC
        /\ "RUNNABLE" \in States /\ "forkret" \in PCs /\ "idle" \in PCs
    BY DEF States, PCs
  <2> QED
    BY <2>1, Zenon DEF Init, TypeOK
<1>2. HartInv /\ ProcInv /\ PLockInv /\ LkInv
  BY NilNotProc DEF Init, HartInv, ProcInv, PLockInv, LkInv, AwayPCs, OpenPCs, Loc
<1>3. OffInv /\ TestInv /\ OwnerInv /\ WakeInv
  BY DEF Init, OffInv, Depth, TestInv, OwnerInv, Loc, WakeInv
<1>4. NoPanic
  BY DEF Init, NoPanic
<1> QED
  BY <1>1, <1>2, <1>3, <1>4 DEF IInv

\* Every step of every hart preserves the invariant.
LEMMA NextIInv == IInv /\ [Next]_vars => IInv'
<1> SUFFICES ASSUME IInv, [Next]_vars PROVE IInv'
  OBVIOUS
<1>1. CASE UNCHANGED vars
  BY <1>1 DEF vars, IInv, TypeOK, HartInv, ProcInv, PLockInv, LkInv, OffInv,
      Depth, TestInv, OwnerInv, WakeInv, WakerOf, NoPanic, Loc
<1>2. ASSUME NEW c \in Harts, scheduler(c) PROVE IInv'
  BY <1>2, scheduler_intr_on_step, scheduler_run_step, scheduler_back_step
      DEF scheduler
<1>3. ASSUME NEW c \in Harts, NEW p \in Procs, thread(c, p) PROVE IInv'
  BY <1>3, forkret_step, acquiresleep_wait_step, acquiresleep_free_step,
      acquiresleep_take_step, sleep_lock_step, sleep_release_step,
      sleep_switch_step, sleep_resume_step, sleep_reacquire_step,
      holdingsleep_step, releasesleep_step, releasesleep_clear_step,
      wakeup_step, releasesleep_done_step
      DEF thread
<1>4. ASSUME NEW c \in Harts, NEW p \in Procs,
             \/ yield(c, p) \/ yield_resume(c, p)
             \/ \E l \in Locks : acquiresleep(c, p, l)
             \/ \E q \in Victims : kill(c, p, q)
      PROVE  IInv'
  BY <1>4, yield_step, yield_resume_step, acquiresleep_step, kill_step
      DEF Procs
<1> QED
  BY <1>1, <1>2, <1>3, <1>4 DEF Next

\* The invariant holds in every reachable state, for every number of
\* processes, harts and sleep locks.
THEOREM Invariance == Spec => []IInv
BY InitIInv, NextIInv, PTL DEF Spec

\* Type correctness of the whole state of the scheduler and the locks.
THEOREM TypeCorrect == Spec => []TypeOK
<1>1. IInv => TypeOK
  BY DEF IInv
<1> QED
  BY <1>1, Invariance, PTL

\* Mutual exclusion of acquiresleep()/releasesleep(), whatever timer
\* interrupts, kills and stray wakeups happen.
THEOREM MutualExclusion == Spec => []SleepLockMutex
<1>1. IInv => SleepLockMutex
  BY DEF IInv, OwnerInv, SleepLockMutex, InCS
<1> QED
  BY <1>1, Invariance, PTL

\* p->lock held across swtch() keeps a kernel stack from being used by two
\* harts, or by a scheduler before its context is saved.
THEOREM StacksOwned == Spec => []StackOwnership
<1>1. IInv => StackOwnership
  <2> SUFFICES ASSUME IInv PROVE StackOwnership
    OBVIOUS
  <2>1. ASSUME NEW p \in Procs, plock[p] = Nil, state[p] # "RUNNING",
               NEW c \in Harts
        PROVE  hart[c] # p /\ proc[c] # p
    BY <2>1, NilNotProc DEF IInv, HartInv, PLockInv, TypeOK
  <2>2. ASSUME NEW c \in Harts, NEW d \in Harts, hart[c] # Nil,
               hart[c] = hart[d]
        PROVE  c = d
    BY <2>2 DEF IInv, HartInv
  <2> QED
    BY <2>1, <2>2 DEF StackOwnership
<1> QED
  BY <1>1, Invariance, PTL

\* sleep() and wakeup() lose no wakeup: the handover from the condition lock
\* to p->lock leaves no window.
THEOREM WakeupsKept == Spec => []NoLostWakeup
<1>1. IInv => NoLostWakeup
  BY DEF IInv, ProcInv, WakeInv, WakerOf, NoLostWakeup, Loc
<1> QED
  BY <1>1, Invariance, PTL

\* No panic() of acquire(), release(), pop_off(), sched(), brelse() or
\* iunlock() is reachable.
THEOREM PanicFree == Spec => []NoPanic
<1>1. IInv => NoPanic
  BY DEF IInv
<1> QED
  BY <1>1, Invariance, PTL

\* The kernel keeps its types and reaches no panic().
THEOREM Soundness == Spec => []KernelSound
<1>1. TypeOK /\ NoPanic => KernelSound
  BY DEF KernelSound
<1> QED
  BY <1>1, TypeCorrect, PanicFree, PTL

\* c->noff is the number of spin locks hart c holds: its own process's lock and
\* the one inside a sleep lock, both of them only in the handover of sleep().
THEOREM MaskingNests == Spec => []MaskedWhileLocked
<1>1. IInv => MaskedWhileLocked
  <2> SUFFICES ASSUME IInv, NEW c \in Harts
               PROVE  /\ noff[c] = Cardinality({p \in Procs : plock[p] = c})
                                     + Cardinality({l \in Locks : lk[l] = c})
                      /\ noff[c] > 0 => ~intr[c]
    BY DEF MaskedWhileLocked
  <2> DEFINE Own   == {p \in Procs : plock[p] = c}
             Inner == {l \in Locks : lk[l] = c}
  <2> HIDE DEF Own, Inner
  <2>1. noff[c] = Depth(c) /\ (noff[c] > 0 => ~intr[c]) /\ noff[c] \in Int
    BY DEF IInv, OffInv, TypeOK
  <2>2. Cardinality({}) = 0 /\ \A x : Cardinality({x}) = 1
    BY FS_EmptySet, FS_Singleton
  <2>3. noff[c] = Cardinality(Own) + Cardinality(Inner)
    <3>1. CASE hart[c] = Nil
      <4>1. Inner = {}
        BY <3>1 DEF Inner, IInv, LkInv
      <4>2. CASE proc[c] = Nil
        <5>1. Own = {}
          BY <4>2, NilNotProc DEF Own, IInv, PLockInv
        <5> QED BY <2>1, <2>2, <3>1, <4>1, <4>2, <5>1 DEF Depth
      <4>3. CASE proc[c] # Nil
        <5>1. proc[c] \in Procs /\ plock[proc[c]] = c
          BY <3>1, <4>3 DEF IInv, PLockInv, TypeOK
        <5>2. \A p \in Procs : plock[p] = c => p = proc[c]
          BY DEF IInv, PLockInv
        <5>3. Own = {proc[c]}
          BY <5>1, <5>2 DEF Own
        <5>4. Cardinality(Own) = 1 /\ Cardinality(Inner) = 0
          BY <2>2, <4>1, <5>3, Zenon
        <5> QED BY <2>1, <3>1, <4>3, <5>4 DEF Depth
      <4> QED BY <4>2, <4>3
    <3>2. CASE hart[c] # Nil
      <4>1. PICK q \in Procs : hart[c] = q
        BY <3>2 DEF IInv, TypeOK
      <4>2. /\ pc[q] \in PLockPCs => Own = {q}
            /\ pc[q] \notin PLockPCs => Own = {}
        BY <4>1, NilNotProc, OnHart DEF Own, IInv, PLockInv
      <4>3. /\ pc[q] \in LkPCs => Inner = {arg[q]}
            /\ pc[q] \notin LkPCs => Inner = {}
        BY <4>1, <3>2, OnHart DEF Inner, IInv, LkInv
      <4>4. pc[q] \in PCs
        BY DEF IInv, TypeOK
      <4>5. CASE pc[q] \in OpenPCs
        <5>1. Own = {} /\ Inner = {}
          BY <4>2, <4>3, <4>5 DEF OpenPCs, PLockPCs, LkPCs
        <5> QED BY <2>1, <2>2, <3>2, <4>1, <4>5, <5>1 DEF Depth
      <4>6. CASE pc[q] = "sl_release"
        <5>1. pc[q] \in PLockPCs /\ pc[q] \in LkPCs /\ pc[q] \notin OpenPCs
          BY <4>6 DEF OpenPCs, PLockPCs, LkPCs
        <5>2. Own = {q} /\ Inner = {arg[q]}
          BY <4>2, <4>3, <5>1
        <5>3. Cardinality(Own) = 1 /\ Cardinality(Inner) = 1
          BY <2>2, <5>2, Zenon
        <5> QED BY <2>1, <3>2, <4>1, <4>6, <5>1, <5>3 DEF Depth
      <4>7. CASE pc[q] \notin OpenPCs /\ pc[q] # "sl_release"
        <5>1. pc[q] \in PLockPCs <=> pc[q] \notin LkPCs
          BY <4>4, <4>7 DEF PCs, OpenPCs, PLockPCs, LkPCs
        <5>2. \/ Own = {q} /\ Inner = {}
              \/ Own = {} /\ Inner = {arg[q]}
          BY <4>2, <4>3, <5>1
        <5>3. \/ Cardinality(Own) = 1 /\ Cardinality(Inner) = 0
              \/ Cardinality(Own) = 0 /\ Cardinality(Inner) = 1
          BY <2>2, <5>2, Zenon
        <5> QED BY <2>1, <3>2, <4>1, <4>7, <5>3 DEF Depth
      <4> QED BY <4>5, <4>6, <4>7
    <3> QED BY <3>1, <3>2
  <2> QED BY <2>1, <2>3 DEF Own, Inner
<1> QED
  BY <1>1, Invariance, PTL

-----------------------------------------------------------------------------
(* The clock and the console *)

HIDE SleepLockAssumption
USE ClockAssumption DEF ClockAssumption

\* The remainder of a number, in one turn of the counter and in the turn below.
LEMMA ModRange == ASSUME NEW x \in Int, NEW W \in Nat \ {0} PROVE x % W \in 0 .. W - 1
OBVIOUS

LEMMA ModSmall == ASSUME NEW W \in Nat \ {0}, NEW x \in 0 .. W - 1 PROVE x % W = x
OBVIOUS

LEMMA ModBelow == ASSUME NEW W \in Nat \ {0}, NEW x \in -W .. -1 PROVE x % W = x + W
OBVIOUS

LEMMA ModFull == ASSUME NEW W \in Nat \ {0} PROVE W % W = 0
OBVIOUS

\* What sys_sleep() computes, in unsigned arithmetic, is the number of ticks since
\* the call.
LEMMA Elapsed ==
    ASSUME ClockTypeOK, NEW p \in Sleeper, nap[p].at # "user", Counted(p)
    PROVE  (ticks - nap[p].from) % WIDTH = nap[p].slept
<1>1. nap[p].slept \in 0 .. WIDTH - 1 /\ nap[p].from \in 0 .. WIDTH - 1 /\ ticks \in 0 .. WIDTH - 1
    BY DEF ClockTypeOK, Naps
<1>2. CASE ticks - nap[p].from = nap[p].slept
    BY <1>1, <1>2, ModSmall
<1>3. CASE ticks - nap[p].from = nap[p].slept - WIDTH
    <2>1. nap[p].slept - WIDTH \in -WIDTH .. -1
        BY <1>1
    <2>2. (nap[p].slept - WIDTH) % WIDTH = nap[p].slept - WIDTH + WIDTH
        BY <2>1, ModBelow
    <2>3. QED
        BY <1>1, <1>3, <2>2
<1>4. QED
    BY <1>2, <1>3 DEF Counted

\* A tick of hart 0 moves the counter and everybody's count by one.
LEMMA TimerKeeps ==
    ASSUME ClockOK, NEW h \in Cores, timer(h), h = 0
    PROVE  ClockOK'
<1>1. ticks \in 0 .. WIDTH - 1 /\ nap \in [Sleeper -> Naps] /\ ticks' = (ticks + 1) % WIDTH
    BY DEF ClockOK, ClockTypeOK, timer
<1>2. ticks' = IF ticks = WIDTH - 1 THEN 0 ELSE ticks + 1
    <2>1. CASE ticks = WIDTH - 1
        <3>1. ticks + 1 = WIDTH
            BY <2>1
        <3>2. QED
            BY <1>1, <2>1, <3>1, ModFull
    <2>2. CASE ticks # WIDTH - 1
        <3>1. ticks + 1 \in 0 .. WIDTH - 1
            BY <1>1, <2>2
        <3>2. (ticks + 1) % WIDTH = ticks + 1
            BY <3>1, ModSmall
        <3>3. QED
            BY <1>1, <2>2, <3>2
    <2>3. QED
        BY <2>1, <2>2
<1>3. ticks' \in 0 .. WIDTH - 1
    BY <1>1, <1>2
<1>4. nap' = [p \in Sleeper |-> IF nap[p].at = "user" THEN nap[p]
                                ELSE [nap[p] EXCEPT !.slept = @ + 1, !.at = "check"]]
    BY DEF timer
<1>5. ASSUME NEW p \in Sleeper PROVE nap'[p] \in Naps /\ Counted(p)' /\ Answered(p)'
    <2>1. nap[p] \in Naps /\ Counted(p) /\ Answered(p)
        BY <1>1 DEF ClockOK
    <2>2. CASE nap[p].at = "user"
        <3>1. nap'[p] = nap[p]
            BY <1>4, <2>2
        <3>2. QED
            BY <2>1, <2>2, <3>1 DEF Counted, Answered
    <2>3. CASE nap[p].at # "user"
        <3>1. nap[p].slept \in 0 .. WIDTH - 1 /\ nap[p].from \in 0 .. WIDTH - 1
            BY <2>1 DEF Naps
        <3>2. nap[p].slept + 1 \in 0 .. WIDTH - 1
            <4>1. ~(nap[p].slept >= WIDTH - 1)
                BY <2>3 DEF timer, Turning
            <4>2. QED
                BY <3>1, <4>1
        <3>3. nap'[p] = [nap[p] EXCEPT !.slept = nap[p].slept + 1, !.at = "check"]
            BY <1>4, <2>3
        <3>4. /\ nap'[p] \in Naps /\ nap'[p].at = "check"
              /\ nap'[p].slept = nap[p].slept + 1 /\ nap'[p].from = nap[p].from
            BY <2>1, <3>2, <3>3 DEF Naps
        <3>5. ticks - nap[p].from \in {nap[p].slept, nap[p].slept - WIDTH}
            BY <2>1, <2>3 DEF Counted
        <3>6. ticks' - nap[p].from \in {nap[p].slept + 1, nap[p].slept + 1 - WIDTH}
            BY <1>1, <1>2, <3>1, <3>2, <3>5
        <3>7. Counted(p)'
            <4>1. /\ ticks' - nap'[p].from = ticks' - nap[p].from
                  /\ nap'[p].slept - WIDTH = nap[p].slept + 1 - WIDTH
                BY <1>3, <3>1, <3>2, <3>4
            <4>2. QED
                BY <3>4, <3>6, <4>1, Zenon DEF Counted
        <3>8. QED
            BY <3>4, <3>7 DEF Answered
    <2>4. QED
        BY <2>2, <2>3
<1>6. nap' \in [Sleeper -> Naps]
    BY <1>4, <1>5
<1>7. QED
    BY <1>3, <1>5, <1>6 DEF ClockOK, ClockTypeOK

\* A step of one process leaves the others as they are.
LEMMA OneSleeper ==
    ASSUME ClockOK, NEW p \in Sleeper, NEW row \in Naps, UNCHANGED ticks,
           nap' = [nap EXCEPT ![p] = row], Counted(p)', Answered(p)'
    PROVE  ClockOK'
<1>1. nap' \in [Sleeper -> Naps] /\ ticks' \in 0 .. WIDTH - 1
    BY DEF ClockOK, ClockTypeOK
<1>2. ASSUME NEW q \in Sleeper, q # p PROVE Counted(q)' /\ Answered(q)'
    <2>1. nap'[q] = nap[q]
        BY <1>2 DEF ClockOK, ClockTypeOK
    <2>2. QED
        BY <2>1 DEF ClockOK, Counted, Answered
<1>3. QED
    BY <1>1, <1>2 DEF ClockOK, ClockTypeOK

\* A sleep begins.
LEMMA SleepKeeps ==
    ASSUME ClockOK, NEW p \in Sleeper, NEW n \in -MaxArg .. MaxArg, sleep(p, n)
    PROVE  ClockOK'
<1> DEFINE row == [at |-> "check", from |-> ticks, n |-> n, slept |-> 0, killed |-> FALSE, result |-> 0]
<1>1. row \in Naps /\ row.at = "check" /\ row.from = ticks /\ row.slept = 0
    <2>1. ticks \in 0 .. WIDTH - 1 /\ 0 \in 0 .. WIDTH - 1
        BY DEF ClockOK, ClockTypeOK
    <2>2. QED
        BY <2>1 DEF Naps
<1>2. nap' = [nap EXCEPT ![p] = row] /\ nap'[p] = row /\ UNCHANGED ticks
    BY DEF sleep, ClockOK, ClockTypeOK
<1>3. Counted(p)' /\ Answered(p)'
    BY <1>1, <1>2 DEF Counted, Answered, ClockOK, ClockTypeOK
<1>4. QED
    BY <1>1, <1>2, <1>3, OneSleeper

\* The test of sys_sleep(): it compares the ticks that have passed with n.
LEMMA TestKeeps ==
    ASSUME ClockOK, NEW p \in Sleeper, sys_sleep(p)
    PROVE  ClockOK'
<1>1. nap[p] \in Naps /\ nap[p].at = "check" /\ Counted(p) /\ ClockTypeOK
    BY DEF sys_sleep, ClockOK, ClockTypeOK
<1>2. (ticks - nap[p].from) % WIDTH = nap[p].slept
    BY <1>1, Elapsed
<1>3. PICK want \in 0 .. WIDTH - 1 : want = nap[p].n % WIDTH
    <2>1. nap[p].n \in Int
        BY <1>1 DEF Naps
    <2>2. QED
        BY <2>1, ModRange
<1>4. UNCHANGED ticks
    BY DEF sys_sleep
<1>5. nap[p].slept \in 0 .. WIDTH - 1
    BY <1>1 DEF Naps
<1>6. CASE nap[p].slept < want /\ nap[p].killed
    <2> DEFINE row == [nap[p] EXCEPT !.at = "user", !.result = -1]
    <2>1. row \in Naps /\ row.at = "user" /\ row.result = -1 /\ row.killed /\ row.slept = nap[p].slept /\ row.n = nap[p].n
        BY <1>1, <1>6 DEF Naps
    <2>2. nap' = [nap EXCEPT ![p] = row] /\ nap'[p] = row
        BY <1>1, <1>2, <1>3, <1>6 DEF sys_sleep, ClockTypeOK
    <2>3. Counted(p)'
        BY <2>1, <2>2 DEF Counted
    <2>4. Answered(p)'
        <3>1. /\ nap'[p].at = "user" /\ nap'[p].result = -1 /\ nap'[p].killed
              /\ nap'[p].slept < want /\ nap'[p].n % WIDTH = want
            BY <1>3, <1>6, <2>1, <2>2
        <3>2. nap'[p].result # 0
            BY <3>1
        <3>3. QED
            BY <3>1, <3>2, Zenon DEF Answered
    <2>5. QED
        BY <1>4, <2>1, <2>2, <2>3, <2>4, OneSleeper
<1>7. CASE nap[p].slept < want /\ ~nap[p].killed
    <2> DEFINE row == [nap[p] EXCEPT !.at = "drop"]
    <2>1. row \in Naps /\ row.at = "drop" /\ row.from = nap[p].from /\ row.slept = nap[p].slept /\ row.n = nap[p].n
        BY <1>1, <1>7 DEF Naps
    <2>2. nap' = [nap EXCEPT ![p] = row] /\ nap'[p] = row
        BY <1>1, <1>2, <1>3, <1>7 DEF sys_sleep, ClockTypeOK
    <2>3. Counted(p)'
        BY <1>1, <1>4, <2>1, <2>2 DEF Counted
    <2>4. Answered(p)'
        BY <1>3, <1>7, <2>1, <2>2 DEF Answered
    <2>5. QED
        BY <1>4, <2>1, <2>2, <2>3, <2>4, OneSleeper
<1>8. CASE ~(nap[p].slept < want)
    <2> DEFINE row == [nap[p] EXCEPT !.at = "user", !.result = 0]
    <2>1. row \in Naps /\ row.at = "user" /\ row.result = 0 /\ row.slept = nap[p].slept /\ row.n = nap[p].n
        BY <1>1, <1>8 DEF Naps
    <2>2. nap' = [nap EXCEPT ![p] = row] /\ nap'[p] = row
        BY <1>1, <1>2, <1>3, <1>8 DEF sys_sleep, ClockTypeOK
    <2>3. Counted(p)'
        BY <2>1, <2>2 DEF Counted
    <2>4. nap[p].slept >= want
        BY <1>3, <1>5, <1>8
    <2>5. Answered(p)'
        <3>1. /\ nap'[p].at = "user" /\ nap'[p].result = 0
              /\ nap'[p].slept >= want /\ nap'[p].n % WIDTH = want
            BY <1>3, <2>1, <2>2, <2>4
        <3>2. nap'[p].result # -1
            BY <3>1
        <3>3. QED
            BY <3>1, <3>2, Zenon DEF Answered
    <2>6. QED
        BY <1>4, <2>1, <2>2, <2>3, <2>5, OneSleeper
<1>9. QED
    BY <1>6, <1>7, <1>8

\* sleep() lets go of tickslock.
LEMMA DropKeeps ==
    ASSUME ClockOK, NEW p \in Sleeper, drop_off(p)
    PROVE  ClockOK'
<1> DEFINE row == [nap[p] EXCEPT !.at = "asleep"]
<1>1. row \in Naps /\ row.at = "asleep" /\ row.from = nap[p].from /\ row.slept = nap[p].slept /\ row.n = nap[p].n
    BY DEF ClockOK, ClockTypeOK, Naps
<1>2. nap' = [nap EXCEPT ![p] = row] /\ nap'[p] = row /\ UNCHANGED ticks /\ nap[p].at = "drop"
    BY DEF drop_off, ClockOK, ClockTypeOK
<1>3. Counted(p)' /\ Answered(p)'
    BY <1>1, <1>2 DEF ClockOK, Counted, Answered
<1>4. QED
    BY <1>1, <1>2, <1>3, OneSleeper

\* kill() may wake the sleeper, and takes no tickslock.
LEMMA KillKeeps ==
    ASSUME ClockOK, NEW p \in Sleeper, kill_nap(p)
    PROVE  ClockOK'
<1> DEFINE row == [nap[p] EXCEPT !.killed = TRUE, !.at = IF nap[p].at = "asleep" THEN "check" ELSE nap[p].at]
<1>1. /\ row \in Naps /\ row.killed /\ row.from = nap[p].from /\ row.slept = nap[p].slept
      /\ row.n = nap[p].n /\ row.result = nap[p].result
      /\ row.at = IF nap[p].at = "asleep" THEN "check" ELSE nap[p].at
    BY DEF ClockOK, ClockTypeOK, Naps
<1>2. nap' = [nap EXCEPT ![p] = row] /\ nap'[p] = row /\ UNCHANGED ticks
    BY DEF kill_nap, ClockOK, ClockTypeOK
<1>3. Counted(p)' /\ Answered(p)'
    BY <1>1, <1>2 DEF ClockOK, Counted, Answered
<1>4. QED
    BY <1>1, <1>2, <1>3, OneSleeper

-----------------------------------------------------------------------------
\* sleep() is as long as it was asked to be, across the wrap of the counter, for
\* every width of the counter and any number of processes.
THEOREM SleepsCount == ClockSpec => []ClockOK
<1>1. ClockInit => ClockOK
    <2> SUFFICES ASSUME ClockInit PROVE ClockOK
        OBVIOUS
    <2>1. 0 % WIDTH = 0
        BY ModSmall
    <2>2. QED
        BY <2>1 DEF ClockInit, ClockOK, ClockTypeOK, Naps, Awake, Counted, Answered
<1>2. ClockOK /\ [ClockNext]_clockvars => ClockOK'
    <2> SUFFICES ASSUME ClockOK, [ClockNext]_clockvars PROVE ClockOK'
        OBVIOUS
    <2>1. ASSUME NEW h \in Cores, timer(h) PROVE ClockOK'
        <3>1. CASE h = 0
            BY <2>1, <3>1, TimerKeeps
        <3>2. CASE h # 0
            BY <2>1, <3>2 DEF timer, clockvars, ClockOK, ClockTypeOK, Counted, Answered
        <3>3. QED
            BY <3>1, <3>2
    <2>2. CASE UNCHANGED clockvars
        BY <2>2 DEF clockvars, ClockOK, ClockTypeOK, Counted, Answered
    <2>3. QED
        BY <2>1, <2>2, SleepKeeps, TestKeeps, DropKeeps, KillKeeps DEF ClockNext
<1>3. QED
    BY <1>1, <1>2, PTL DEF ClockSpec

-----------------------------------------------------------------------------
(* The console: indices that wrap, in a ring whose size divides their range. *)

LEMMA DivMod ==
    ASSUME NEW x \in Int, NEW n \in Nat \ {0}
    PROVE  x \div n \in Int /\ x % n \in 0 .. n - 1 /\ x = n * (x \div n) + (x % n)
OBVIOUS

\* A remainder is determined by the number.
LEMMA OneRemainder ==
    ASSUME NEW n \in Nat \ {0}, NEW x \in Int, NEW y \in Int,
           NEW s \in 0 .. n - 1, NEW t \in 0 .. n - 1, n * x + s = n * y + t
    PROVE  s = t
<1>1. n * (x - y) = t - s /\ n * (y - x) = s - t
    OBVIOUS
<1>2. ASSUME NEW k \in Int, k >= 1 PROVE n * k >= n
    BY <1>2
<1>3. CASE x - y >= 1
    BY <1>1, <1>2, <1>3
<1>4. CASE y - x >= 1
    BY <1>1, <1>2, <1>4
<1>5. CASE x = y
    BY <1>1, <1>5
<1>6. QED
    BY <1>3, <1>4, <1>5

\* A whole number of turns back is as many as forth.
LEMMA TurnBack ==
    ASSUME NEW n \in Nat \ {0}, NEW u \in Int, NEW v \in Int, u + v = 0, u % n = 0
    PROVE  v % n = 0
<1>1. PICK x \in Int : u = n * x
    <2>1. u \div n \in Int /\ u = n * (u \div n) + (u % n)
        BY DivMod
    <2>2. PICK x \in Int : u = n * x + (u % n)
        BY <2>1
    <2>3. n * x \in Int
        OBVIOUS
    <2>4. QED
        BY <2>2, <2>3
<1>2. PICK y \in Int, t \in 0 .. n - 1 : v = n * y + t /\ t = v % n
    BY DivMod
<1>3. PICK z \in Int : z = -x
    OBVIOUS
<1>4. n * z = -(n * x) /\ n * x \in Int /\ n * z \in Int /\ n * y \in Int
    BY <1>3
<1>7. v = -u
    OBVIOUS
<1>8. n * z = v
    BY <1>1, <1>4, <1>7
<1>6. n * z + 0 = n * y + t /\ 0 \in 0 .. n - 1
  <2>1. n * z + 0 = n * z
    BY <1>4
  <2>2. QED
    BY <1>2, <1>8, <2>1
<1>5. QED
    BY <1>2, <1>6, OneRemainder

\* Going on by less than a turn changes a remainder; by a whole number of turns, and less
\* than a turn, too.
LEMMA ModDiffers ==
    ASSUME NEW x \in Int, NEW n \in Nat \ {0}, NEW d \in 1 .. n - 1, NEW u \in Int, u % n = 0,
           NEW y \in Int, y = x + d + u
    PROVE  y % n # x % n
<1> DEFINE a == x \div n
           b == u \div n
           c == y \div n
           s == x % n
           t == y % n
<1>1. a \in Int /\ s \in 0 .. n - 1 /\ x = n * a + s
    BY DivMod
<1>2. b \in Int /\ u = n * b
    BY DivMod
<1>4. c \in Int /\ t \in 0 .. n - 1 /\ x + d + u = n * c + t
    BY DivMod
<1>5. SUFFICES ASSUME t = s PROVE FALSE
    OBVIOUS
<1> HIDE DEF a, b, c, s, t
<1>6. n * (a + b) = n * a + n * b
    BY <1>1, <1>2
<1>7. PICK z \in Int : z = a + b
    BY <1>1, <1>2
<1>3. n * z + d = n * c + 0 /\ d \in 0 .. n - 1 /\ 0 \in 0 .. n - 1
    BY <1>1, <1>2, <1>4, <1>5, <1>6, <1>7
<1>8. d = 0
    BY <1>4, <1>3, OneRemainder
<1>9. QED
    BY <1>8

Index == 0 .. UWIDTH - 1
Plus(i, k) == (i + k) % UWIDTH

LEMMA Sizes ==
    /\ INPUT_BUF \in Nat \ {0} /\ UWIDTH \in Nat \ {0} /\ UWIDTH % INPUT_BUF = 0 /\ UWIDTH > INPUT_BUF
    /\ 0 \in Index
BY TerminalAssumption DEF TerminalAssumption, Index

LEMMA PlusIs ==
    ASSUME NEW i \in Index, NEW k \in Index
    PROVE  Plus(i, k) \in Index /\ Plus(i, k) = IF i + k < UWIDTH THEN i + k ELSE i + k - UWIDTH
<1>1. CASE i + k < UWIDTH
    <2>1. i + k \in 0 .. UWIDTH - 1
        BY <1>1, Sizes DEF Index
    <2>2. QED
        BY <1>1, <2>1, Sizes, ModSmall DEF Plus, Index
<1>2. CASE ~(i + k < UWIDTH)
    <2>1. i + k - UWIDTH \in 0 .. UWIDTH - 1
        BY <1>2, Sizes DEF Index
    <2>2. (i + k) % UWIDTH = i + k - UWIDTH
        BY <1>2, <2>1, Sizes DEF Index
    <2>3. QED
        BY <1>2, <2>1, <2>2 DEF Plus, Index
<1>3. QED
    BY <1>1, <1>2

LEMMA UpIs ==
    ASSUME NEW i \in Index
    PROVE  Up(i) \in Index /\ Up(i) = IF i = UWIDTH - 1 THEN 0 ELSE i + 1
<1>1. 1 \in Index /\ Up(i) = Plus(i, 1)
    BY Sizes DEF Up, Plus, Index
<1>2. Up(i) \in Index /\ Up(i) = IF i + 1 < UWIDTH THEN i + 1 ELSE i + 1 - UWIDTH
    BY <1>1, PlusIs
<1>3. QED
    BY <1>2, Sizes DEF Index

LEMMA ApartIs ==
    ASSUME NEW i \in Index, NEW j \in Index
    PROVE  Apart(i, j) \in Index /\ Apart(i, j) = IF i <= j THEN j - i ELSE j - i + UWIDTH
<1>1. CASE i <= j
    <2>1. j - i \in 0 .. UWIDTH - 1
        BY <1>1, Sizes DEF Index
    <2>2. QED
        BY <1>1, <2>1, Sizes, ModSmall DEF Apart, Index
<1>2. CASE ~(i <= j)
    <2>1. j - i \in -UWIDTH .. -1 /\ j - i + UWIDTH \in 0 .. UWIDTH - 1
        BY <1>2, Sizes DEF Index
    <2>2. QED
        BY <1>2, <2>1, Sizes, ModBelow DEF Apart, Index
<1>3. QED
    BY <1>1, <1>2

LEMMA DownIs ==
    ASSUME NEW i \in Index
    PROVE  Down(i) \in Index /\ Down(i) = IF i = 0 THEN UWIDTH - 1 ELSE i - 1
<1>1. 1 \in Index /\ Down(i) = Apart(1, i)
    BY Sizes DEF Down, Apart, Index
<1>2. QED
    BY <1>1, ApartIs, Sizes DEF Index

\* Two indices that are apart by less than the ring have places of their own.
LEMMA OtherPlace ==
    ASSUME NEW i \in Index, NEW k \in 1 .. INPUT_BUF - 1
    PROVE  Plus(i, k) % INPUT_BUF # i % INPUT_BUF
<1>1. k \in Index /\ i \in Int
    BY Sizes DEF Index
<1>2. Plus(i, k) = IF i + k < UWIDTH THEN i + k ELSE i + k - UWIDTH
    BY <1>1, PlusIs
<1>3. PICK j \in Index : j = Plus(i, k)
    BY <1>1, PlusIs
<1>4. CASE i + k < UWIDTH
    <2>0. PICK u \in Int : u = 0
        OBVIOUS
    <2>1. u % INPUT_BUF = 0 /\ j = i + k + u /\ j \in Int
        BY <1>1, <1>2, <1>3, <1>4, <2>0, Sizes
    <2>2. QED
        BY <1>1, <1>3, <2>1, Sizes, ModDiffers
<1>5. CASE ~(i + k < UWIDTH)
    <2>1. PICK u \in Int : u = -UWIDTH
        BY Sizes
    <2>2. UWIDTH \in Int /\ UWIDTH + u = 0
        BY <2>1, Sizes
    <2>8. u % INPUT_BUF = 0
        BY <2>2, Sizes, TurnBack
    <2>9. j = i + k + u /\ j \in Int
        BY <1>1, <1>2, <1>3, <1>5, <2>1, Sizes
    <2>10. QED
        BY <1>1, <1>3, <2>8, <2>9, Sizes, ModDiffers
<1>6. QED
    BY <1>4, <1>5

\* How far apart two indices are, and the index that far on.
LEMMA PlusApart ==
    ASSUME NEW i \in Index, NEW j \in Index, NEW d \in Index
    PROVE  Apart(i, j) = d <=> Plus(i, d) = j
<1>1. Apart(i, j) = IF i <= j THEN j - i ELSE j - i + UWIDTH
    BY ApartIs
<1>2. Plus(i, d) = IF i + d < UWIDTH THEN i + d ELSE i + d - UWIDTH
    BY PlusIs
<1>3. QED
    BY <1>1, <1>2, Sizes DEF Index

LEMMA PlusPlus ==
    ASSUME NEW i \in Index, NEW d \in Index, NEW k \in Index, NEW m \in Index, d + k = m
    PROVE  Plus(Plus(i, d), k) = Plus(i, m)
<1>1. PICK j \in Index : j = Plus(i, d)
    BY PlusIs
<1>2. /\ j = IF i + d < UWIDTH THEN i + d ELSE i + d - UWIDTH
      /\ Plus(j, k) = IF j + k < UWIDTH THEN j + k ELSE j + k - UWIDTH
      /\ Plus(i, m) = IF i + m < UWIDTH THEN i + m ELSE i + m - UWIDTH
    BY <1>1, PlusIs
<1>3. QED
    BY <1>1, <1>2, Sizes DEF Index

\* One index moves by one.
LEMMA ApartNext ==
    ASSUME NEW i \in Index, NEW j \in Index
    PROVE  /\ i # j => /\ Apart(i, j) > 0 /\ Apart(Up(i), j) = Apart(i, j) - 1
                       /\ Apart(i, Down(j)) = Apart(i, j) - 1
           /\ Apart(i, j) < UWIDTH - 1 => Apart(i, Up(j)) = Apart(i, j) + 1
           /\ Apart(i, i) = 0
<1>1. PICK x \in Index : x = Up(i) /\ x = IF i = UWIDTH - 1 THEN 0 ELSE i + 1
    BY UpIs
<1>2. PICK y \in Index : y = Up(j) /\ y = IF j = UWIDTH - 1 THEN 0 ELSE j + 1
    BY UpIs
<1>3. PICK z \in Index : z = Down(j) /\ z = IF j = 0 THEN UWIDTH - 1 ELSE j - 1
    BY DownIs
<1>4. /\ Apart(i, j) = IF i <= j THEN j - i ELSE j - i + UWIDTH
      /\ Apart(x, j) = IF x <= j THEN j - x ELSE j - x + UWIDTH
      /\ Apart(i, y) = IF i <= y THEN y - i ELSE y - i + UWIDTH
      /\ Apart(i, z) = IF i <= z THEN z - i ELSE z - i + UWIDTH
      /\ Apart(i, i) = IF i <= i THEN i - i ELSE i - i + UWIDTH
    BY ApartIs
<1>5. i \in 0 .. UWIDTH - 1 /\ j \in 0 .. UWIDTH - 1 /\ UWIDTH \in Nat
    BY Sizes DEF Index
<1>6. CASE i # j
    BY <1>1, <1>2, <1>3, <1>4, <1>5, <1>6
<1>7. Apart(i, j) < UWIDTH - 1 => Apart(i, y) = Apart(i, j) + 1
    BY <1>2, <1>4, <1>5
<1>8. QED
    BY <1>2, <1>4, <1>5, <1>6, <1>7

-----------------------------------------------------------------------------
(* What the ring holds between two indices.                                *)

Ring == [0 .. INPUT_BUF - 1 -> Stored]
View(f, i, j) == [k \in 1 .. Apart(i, j) |-> f[Plus(i, k - 1) % INPUT_BUF]]

LEMMA BetweenIs ==
    \A i, j : Between(i, j) = View(ring, i, j) /\ Between(i, j)' = View(ring', i, j)
BY DEF Between, View, Plus

LEMMA Places ==
    ASSUME NEW i \in Index, NEW j \in Index, NEW k \in 1 .. Apart(i, j)
    PROVE  /\ k - 1 \in Index /\ Plus(i, k - 1) \in Index
           /\ Plus(i, k - 1) % INPUT_BUF \in 0 .. INPUT_BUF - 1
<1>1. Apart(i, j) \in 0 .. UWIDTH - 1
    BY ApartIs DEF Index
<1>2. k - 1 \in Index
    BY <1>1, Sizes DEF Index
<1>3. Plus(i, k - 1) \in Index
    BY <1>2, PlusIs
<1>4. Plus(i, k - 1) \in Int
    BY <1>3 DEF Index
<1>5. Plus(i, k - 1) % INPUT_BUF \in 0 .. INPUT_BUF - 1
    BY <1>4, DivMod, Sizes
<1>6. QED
    BY <1>2, <1>3, <1>5

LEMMA ViewIs ==
    ASSUME NEW f \in Ring, NEW i \in Index, NEW j \in Index
    PROVE  /\ View(f, i, j) \in Seq(Stored) /\ Len(View(f, i, j)) = Apart(i, j)
           /\ \A k \in 1 .. Apart(i, j) : View(f, i, j)[k] = f[Plus(i, k - 1) % INPUT_BUF]
<1>1. Apart(i, j) \in Nat
    BY ApartIs, Sizes DEF Index
<1>2. \A k \in 1 .. Apart(i, j) : f[Plus(i, k - 1) % INPUT_BUF] \in Stored
    BY Places DEF Ring
<1>3. View(f, i, j) \in [1 .. Apart(i, j) -> Stored]
    BY <1>2 DEF View
<1>4. QED
    BY <1>1, <1>3 DEF View

\* A sequence is what is between two indices when it is as long, and is so place by place.
LEMMA ViewEqual ==
    ASSUME NEW f \in Ring, NEW i \in Index, NEW j \in Index, NEW s \in Seq(Stored), Len(s) = Apart(i, j),
           \A k \in 1 .. Apart(i, j) : s[k] = f[Plus(i, k - 1) % INPUT_BUF]
    PROVE  View(f, i, j) = s
<1>1. /\ View(f, i, j) \in Seq(Stored) /\ Len(View(f, i, j)) = Apart(i, j)
      /\ \A k \in 1 .. Apart(i, j) : View(f, i, j)[k] = f[Plus(i, k - 1) % INPUT_BUF]
    BY ViewIs
<1>2. \A k \in 1 .. Len(s) : s[k] = View(f, i, j)[k]
    BY <1>1
<1>3. QED
    BY <1>1, <1>2, SeqEqual

\* The first is taken away.
LEMMA ViewTail ==
    ASSUME NEW f \in Ring, NEW i \in Index, NEW j \in Index, i # j
    PROVE  /\ Apart(i, j) > 0 /\ Apart(Up(i), j) = Apart(i, j) - 1
           /\ View(f, i, j) # <<>> /\ View(f, Up(i), j) = Tail(View(f, i, j))
<1> DEFINE s == View(f, i, j)
<1>1. Up(i) \in Index /\ Apart(i, j) \in Nat /\ Apart(i, j) > 0 /\ Apart(Up(i), j) = Apart(i, j) - 1
    BY UpIs, ApartIs, ApartNext DEF Index
<1>2. s \in Seq(Stored) /\ Len(s) = Apart(i, j) /\ s # <<>>
    BY <1>1, ViewIs
<1>3. Tail(s) \in Seq(Stored) /\ Len(Tail(s)) = Apart(Up(i), j) /\ \A k \in 1 .. Len(Tail(s)) : Tail(s)[k] = s[k + 1]
    BY <1>1, <1>2, HeadTailProperties
<1>4. ASSUME NEW k \in 1 .. Apart(Up(i), j) PROVE Tail(s)[k] = f[Plus(Up(i), k - 1) % INPUT_BUF]
    <2>1. k + 1 \in 1 .. Apart(i, j) /\ (k + 1) - 1 = k
        BY <1>1
    <2>2. s[k + 1] = f[Plus(i, k) % INPUT_BUF]
        BY <2>1, ViewIs
    <2>3. k - 1 \in Index /\ k \in Index
        BY <1>1, <2>1, Places
    <2>4. Plus(Up(i), k - 1) = Plus(i, k)
        <3>1. Up(i) = Plus(i, 1)
            BY DEF Up, Plus
        <3>2. 1 \in Index /\ 1 + (k - 1) = k
            BY Sizes DEF Index
        <3>3. QED
            BY <2>3, <3>1, <3>2, PlusPlus
    <2>5. QED
        BY <1>3, <2>2, <2>4
<1>5. QED
    BY <1>1, <1>2, <1>3, <1>4, ViewEqual

\* The last is taken away.
LEMMA ViewFront ==
    ASSUME NEW f \in Ring, NEW i \in Index, NEW j \in Index, i # j
    PROVE  /\ Apart(i, j) > 0 /\ Apart(i, Down(j)) = Apart(i, j) - 1
           /\ View(f, i, Down(j)) = Front(View(f, i, j))
<1> DEFINE s == View(f, i, j)
<1>1. Down(j) \in Index /\ Apart(i, j) \in Nat /\ Apart(i, j) > 0 /\ Apart(i, Down(j)) = Apart(i, j) - 1
    BY DownIs, ApartIs, ApartNext DEF Index
<1>2. s \in Seq(Stored) /\ Len(s) = Apart(i, j)
    BY ViewIs
<1>3. /\ Front(s) \in Seq(Stored) /\ Len(Front(s)) = Apart(i, Down(j))
      /\ \A k \in 1 .. Apart(i, Down(j)) : Front(s)[k] = s[k]
    <2>1. \A k \in 1 .. Len(s) - 1 : s[k] \in Stored
        BY <1>1, <1>2, ElementOfSeq
    <2>2. /\ SubSeq(s, 1, Len(s) - 1) \in Seq(Stored) /\ Len(SubSeq(s, 1, Len(s) - 1)) = Len(s) - 1
          /\ \A k \in 1 .. Len(s) - 1 : SubSeq(s, 1, Len(s) - 1)[k] = s[k]
        BY <1>1, <1>2, <2>1
    <2>3. QED
        BY <1>1, <1>2, <2>2 DEF Front
<1>4. ASSUME NEW k \in 1 .. Apart(i, Down(j)) PROVE Front(s)[k] = f[Plus(i, k - 1) % INPUT_BUF]
    <2>1. k \in 1 .. Apart(i, j)
        BY <1>1
    <2>2. QED
        BY <1>3, <2>1, ViewIs
<1>5. QED
    BY <1>1, <1>3, <1>4, ViewEqual

\* Two pieces that meet.
LEMMA ViewJoin ==
    ASSUME NEW f \in Ring, NEW i \in Index, NEW m \in Index, NEW j \in Index,
           Apart(i, j) = Apart(i, m) + Apart(m, j)
    PROVE  View(f, i, j) = View(f, i, m) \o View(f, m, j)
<1> DEFINE s == View(f, i, m)
           t == View(f, m, j)
<1>1. /\ s \in Seq(Stored) /\ Len(s) = Apart(i, m) /\ t \in Seq(Stored) /\ Len(t) = Apart(m, j)
      /\ Apart(i, m) \in Nat /\ Apart(m, j) \in Nat /\ Apart(i, j) \in Index
    BY ViewIs, ApartIs, Sizes DEF Index
<1> HIDE DEF s, t
<1>2. /\ s \o t \in Seq(Stored) /\ Len(s \o t) = Apart(i, j)
      /\ \A k \in 1 .. Apart(i, j) : (s \o t)[k] = IF k <= Len(s) THEN s[k] ELSE t[k - Len(s)]
    <2>1. /\ s \o t \in Seq(Stored) /\ Len(s \o t) = Len(s) + Len(t)
          /\ \A k \in 1 .. Len(s) + Len(t) : (s \o t)[k] = IF k <= Len(s) THEN s[k] ELSE t[k - Len(s)]
        BY <1>1, ConcatProperties
    <2>2. Len(s) + Len(t) = Apart(i, j)
        BY <1>1
    <2>3. QED
        BY <2>1, <2>2
<1>3. ASSUME NEW k \in 1 .. Apart(i, j) PROVE (s \o t)[k] = f[Plus(i, k - 1) % INPUT_BUF]
    <2>1. CASE k <= Len(s)
        <3>1. k \in 1 .. Apart(i, m)
            BY <1>1, <2>1
        <3>2. QED
            BY <1>2, <2>1, <3>1, ViewIs DEF s
    <2>2. CASE ~(k <= Len(s))
        <3>1. PICK d \in 1 .. Apart(m, j) : d = k - Apart(i, m)
            BY <1>1, <2>2
        <3>2. t[d] = f[Plus(m, d - 1) % INPUT_BUF] /\ d - 1 \in Index /\ k - 1 \in Index
            <4>1. t[d] = f[Plus(m, d - 1) % INPUT_BUF]
                BY <3>1, ViewIs DEF t
            <4>2. d - 1 \in Index /\ k - 1 \in Index
                BY <3>1, Places
            <4>3. QED
                BY <4>1, <4>2
        <3>3. Plus(m, d - 1) = Plus(i, k - 1)
            <4>1. Apart(i, m) \in Index /\ m = Plus(i, Apart(i, m)) /\ Apart(i, m) + (d - 1) = k - 1
                BY <1>1, <3>1, ApartIs, PlusApart
            <4>2. QED
                BY <3>2, <4>1, PlusPlus
        <3>4. QED
            BY <1>1, <1>2, <2>2, <3>1, <3>2, <3>3
    <2>3. QED
        BY <2>1, <2>2
<1>4. QED
    BY <1>1, <1>2, <1>3, ViewEqual DEF s, t

\* A place is filled at j, and only that one changes.
LEMMA ViewPut ==
    ASSUME NEW f \in Ring, NEW i \in Index, NEW j \in Index, NEW c \in Stored, NEW g \in Ring,
           g[j % INPUT_BUF] = c, \A x \in 0 .. INPUT_BUF - 1 : x # j % INPUT_BUF => g[x] = f[x],
           Apart(i, j) < INPUT_BUF
    PROVE  /\ Apart(i, Up(j)) = Apart(i, j) + 1
           /\ View(g, i, Up(j)) = Append(View(f, i, j), c)
           /\ \A m \in Index : Apart(i, m) <= Apart(i, j) => View(g, i, m) = View(f, i, m)
<1>1. Up(j) \in Index /\ Apart(i, j) \in Index /\ Apart(i, Up(j)) = Apart(i, j) + 1 /\ j % INPUT_BUF \in 0 .. INPUT_BUF - 1
    <2>1. Apart(i, j) \in Index /\ Up(j) \in Index /\ Apart(i, j) < UWIDTH - 1 /\ j \in Int
        BY UpIs, ApartIs, Sizes DEF Index
    <2>2. QED
        BY <2>1, ApartNext, DivMod, Sizes
<1>2. ASSUME NEW k \in 1 .. Apart(i, j) PROVE g[Plus(i, k - 1) % INPUT_BUF] = f[Plus(i, k - 1) % INPUT_BUF]
    <2>1. PICK x \in Index : x = Plus(i, k - 1)
        BY Places
    <2>2. PICK d \in 1 .. INPUT_BUF - 1 : d = Apart(i, j) - (k - 1)
        BY <1>1, Sizes DEF Index
    <2>3. k - 1 \in Index /\ d \in Index
        BY <2>2, Places, Sizes DEF Index
    <2>4. j = Plus(x, d)
        <3>1. j = Plus(i, Apart(i, j)) /\ (k - 1) + d = Apart(i, j)
            BY <1>1, <2>2, PlusApart DEF Index
        <3>2. QED
            BY <1>1, <2>1, <2>3, <3>1, PlusPlus
    <2>5. j % INPUT_BUF # x % INPUT_BUF
        BY <2>4, OtherPlace
    <2>6. x % INPUT_BUF \in 0 .. INPUT_BUF - 1
        BY <2>1, Places
    <2>7. QED
        BY <2>1, <2>5, <2>6
<1>4. ASSUME NEW m \in Index, Apart(i, m) <= Apart(i, j) PROVE View(g, i, m) = View(f, i, m)
    <2>1. /\ View(f, i, m) \in Seq(Stored) /\ Len(View(f, i, m)) = Apart(i, m)
          /\ \A k \in 1 .. Apart(i, m) : View(f, i, m)[k] = f[Plus(i, k - 1) % INPUT_BUF]
        BY ViewIs
    <2>2. \A k \in 1 .. Apart(i, m) : k \in 1 .. Apart(i, j)
        BY <1>1, <1>4, ApartIs DEF Index
    <2>3. \A k \in 1 .. Apart(i, m) : View(f, i, m)[k] = g[Plus(i, k - 1) % INPUT_BUF]
        BY <1>2, <2>1, <2>2
    <2>4. QED
        BY <2>1, <2>3, ViewEqual
<1>5. View(g, i, Up(j)) = Append(View(f, i, j), c)
    <2> DEFINE s == View(f, i, j)
    <2>1. /\ s \in Seq(Stored) /\ Len(s) = Apart(i, j) /\ \A k \in 1 .. Apart(i, j) : s[k] = f[Plus(i, k - 1) % INPUT_BUF]
        BY ViewIs
    <2>2. /\ Append(s, c) \in Seq(Stored) /\ Len(Append(s, c)) = Apart(i, Up(j))
          /\ \A k \in 1 .. Apart(i, j) : Append(s, c)[k] = s[k] 
          /\ Append(s, c)[Apart(i, j) + 1] = c
        BY <1>1, <2>1, AppendProperties
    <2>3. ASSUME NEW k \in 1 .. Apart(i, Up(j)) PROVE Append(s, c)[k] = g[Plus(i, k - 1) % INPUT_BUF]
        <3>1. CASE k \in 1 .. Apart(i, j)
            BY <1>2, <2>1, <2>2, <3>1
        <3>2. CASE k = Apart(i, j) + 1
            <4>1. k - 1 = Apart(i, j) /\ Plus(i, Apart(i, j)) = j
                BY <1>1, <3>2, PlusApart DEF Index
            <4>2. QED
                BY <2>2, <3>2, <4>1
        <3>3. Apart(i, j) \in Nat
            BY <1>1, Sizes DEF Index
        <3>4. QED
            <4>1. k \in 1 .. Apart(i, j) + 1
                BY <1>1
            <4>2. k \in 1 .. Apart(i, j) \/ k = Apart(i, j) + 1
                BY <3>3, <4>1
            <4>3. QED
                BY <3>1, <3>2, <4>2
    <2>4. QED
        BY <1>1, <2>2, <2>3, ViewEqual
<1>6. QED
    BY <1>1, <1>4, <1>5

-----------------------------------------------------------------------------
(* The bytes of a writer in a sequence: m + 1 to n, in their order.        *)

Kept(s, p, m, n) ==
    /\ \A i, j \in DOMAIN s : s[i].by = p /\ s[j].by = p /\ i < j => s[i].k < s[j].k
    /\ \A i \in DOMAIN s : s[i].by = p => s[i].k \in m + 1 .. n
    /\ \A k \in m + 1 .. n : \E i \in DOMAIN s : s[i].by = p /\ s[i].k = k

LEMMA ByteIs == ASSUME NEW b \in Byte PROVE b.k \in Int
BY TerminalAssumption DEF Byte, Echo, TerminalAssumption

\* A byte is added behind.
LEMMA KeptAppend ==
    ASSUME NEW s \in Seq(Byte), NEW p, NEW m \in Nat, NEW n \in Nat, m <= n, Kept(s, p, m, n), NEW c \in Byte
    PROVE  /\ c.by = p /\ c.k = n + 1 => Kept(Append(s, c), p, m, n + 1)
           /\ c.by # p => Kept(Append(s, c), p, m, n)
<1> DEFINE a == Append(s, c)
<1>1. /\ DOMAIN s = 1 .. Len(s) /\ DOMAIN a = 1 .. Len(s) + 1 /\ Len(s) \in Nat
      /\ a[Len(s) + 1] = c /\ \A i \in 1 .. Len(s) : a[i] = s[i]
    BY AppendProperties
<1>2. \A i \in DOMAIN a : i \in DOMAIN s \/ i = Len(s) + 1
    BY <1>1
<1>3. \A i \in DOMAIN s : i \in DOMAIN a /\ a[i] = s[i] /\ i < Len(s) + 1
    BY <1>1
<1>4. Len(s) + 1 \in DOMAIN a
    BY <1>1
<1> HIDE DEF a
<1>5. CASE c.by # p
    <2>1. \A i \in DOMAIN a : a[i].by = p => i \in DOMAIN s
        BY <1>1, <1>2, <1>5
    <2>2. QED
        BY <1>3, <1>5, <2>1 DEF Kept, a
<1>6. CASE c.by = p /\ c.k = n + 1
    <2>1. ASSUME NEW i \in DOMAIN a, NEW j \in DOMAIN a, a[i].by = p, a[j].by = p, i < j PROVE a[i].k < a[j].k
        <3>1. i \in DOMAIN s
            BY <1>1, <1>2, <2>1
        <3>2. CASE j \in DOMAIN s
            BY <1>3, <2>1, <3>1, <3>2 DEF Kept
        <3>3. CASE j = Len(s) + 1
            <4>1. s[i].k \in m + 1 .. n
                BY <1>3, <2>1, <3>1 DEF Kept
            <4>2. QED
                BY <1>1, <1>3, <1>6, <3>1, <3>3, <4>1
        <3>4. QED
            BY <1>2, <3>2, <3>3
    <2>2. ASSUME NEW i \in DOMAIN a, a[i].by = p PROVE a[i].k \in m + 1 .. n + 1
        <3>1. CASE i \in DOMAIN s
            <4>1. s[i].k \in m + 1 .. n
                BY <1>3, <2>2, <3>1 DEF Kept
            <4>2. QED
                BY <1>3, <3>1, <4>1
        <3>2. CASE i = Len(s) + 1
            BY <1>1, <1>6, <3>2
        <3>3. QED
            BY <1>2, <3>1, <3>2
    <2>3. ASSUME NEW k \in m + 1 .. n + 1 PROVE \E i \in DOMAIN a : a[i].by = p /\ a[i].k = k
        <3>1. CASE k = n + 1
            BY <1>1, <1>4, <1>6, <3>1
        <3>2. CASE k # n + 1
            <4>1. k \in m + 1 .. n
                BY <3>2
            <4>2. QED
                BY <1>3, <4>1 DEF Kept
        <3>3. QED
            BY <3>1, <3>2
    <2>4. QED
        BY <1>6, <2>1, <2>2, <2>3 DEF Kept, a
<1>7. QED
    BY <1>5, <1>6 DEF a

\* The first byte goes out.
LEMMA KeptTail ==
    ASSUME NEW s \in Seq(Byte), s # <<>>, NEW p, NEW m \in Nat, NEW n \in Nat, m <= n, Kept(s, p, m, n)
    PROVE  /\ Head(s).by = p => Head(s).k = m + 1 /\ m + 1 <= n /\ Kept(Tail(s), p, m + 1, n)
           /\ Head(s).by # p => Kept(Tail(s), p, m, n)
<1> DEFINE a == Tail(s)
<1>1. /\ DOMAIN s = 1 .. Len(s) /\ Len(s) \in Nat /\ Len(s) > 0 /\ DOMAIN a = 1 .. Len(s) - 1
      /\ Head(s) = s[1] /\ \A i \in 1 .. Len(s) - 1 : a[i] = s[i + 1]
    BY HeadTailProperties
<1>2. \A i \in DOMAIN a : i \in Int /\ i + 1 \in DOMAIN s /\ i + 1 # 1 /\ a[i] = s[i + 1]
    BY <1>1
<1>3. \A i \in DOMAIN s : i = 1 \/ (1 < i /\ i - 1 \in DOMAIN a /\ a[i - 1] = s[i])
    <2>1. \A i \in DOMAIN s : i = 1 \/ (1 < i /\ i - 1 \in 1 .. Len(s) - 1 /\ (i - 1) + 1 = i)
        BY <1>1
    <2>2. QED
        BY <1>1, <2>1
<1>4. 1 \in DOMAIN s
    BY <1>1
<1> HIDE DEF a
<1>5. \A i, j \in DOMAIN a : a[i].by = p /\ a[j].by = p /\ i < j => a[i].k < a[j].k
    <2>1. \A i, j \in DOMAIN a : i < j => i + 1 < j + 1
        BY <1>2
    <2>2. QED
        BY <1>2, <2>1 DEF Kept
<1>6. \A i \in DOMAIN a : a[i].by = p => a[i].k \in m + 1 .. n
    BY <1>2 DEF Kept
<1>7. CASE Head(s).by # p
    <2>1. ASSUME NEW k \in m + 1 .. n PROVE \E i \in DOMAIN a : a[i].by = p /\ a[i].k = k
        <3>1. PICK i \in DOMAIN s : s[i].by = p /\ s[i].k = k
            BY DEF Kept
        <3>2. i # 1
            BY <1>1, <1>7, <3>1
        <3>3. QED
            BY <1>3, <3>1, <3>2
    <2>2. QED
        BY <1>5, <1>6, <1>7, <2>1 DEF Kept, a
<1>8. CASE Head(s).by = p
    <2>1. s[1].k \in m + 1 .. n /\ s[1].by = p
        BY <1>1, <1>4, <1>8 DEF Kept
    <2>2. \A i \in DOMAIN s : s[i].by = p /\ i # 1 => s[1].k < s[i].k
        BY <1>3, <1>4, <2>1 DEF Kept
    <2>3. s[1].k = m + 1
        <3>1. m + 1 \in m + 1 .. n
            BY <2>1
        <3>2. PICK i \in DOMAIN s : s[i].by = p /\ s[i].k = m + 1
            BY <3>1 DEF Kept
        <3>3. CASE i = 1
            BY <3>2, <3>3
        <3>4. CASE i # 1
            BY <2>1, <2>2, <3>2, <3>4
        <3>5. QED
            BY <3>3, <3>4
    <2>4. ASSUME NEW i \in DOMAIN a, a[i].by = p PROVE a[i].k \in (m + 1) + 1 .. n
        <3>1. a[i].k \in m + 1 .. n
            BY <1>6, <2>4
        <3>2. m + 1 < a[i].k
            BY <1>2, <2>2, <2>3, <2>4
        <3>3. QED
            BY <3>1, <3>2
    <2>5. ASSUME NEW k \in (m + 1) + 1 .. n PROVE \E i \in DOMAIN a : a[i].by = p /\ a[i].k = k
        <3>1. k \in m + 1 .. n /\ k # m + 1
            OBVIOUS
        <3>2. PICK i \in DOMAIN s : s[i].by = p /\ s[i].k = k
            BY <3>1 DEF Kept
        <3>3. i # 1
            BY <2>3, <3>1, <3>2
        <3>4. QED
            BY <1>3, <3>2, <3>3
    <2>6. Kept(a, p, m + 1, n)
        BY <1>5, <2>4, <2>5 DEF Kept
    <2>7. QED
        BY <1>1, <1>8, <2>1, <2>3, <2>6 DEF a
<1>9. QED
    BY <1>7, <1>8

\* A byte of somebody else goes before.
LEMMA KeptFirst ==
    ASSUME NEW s \in Seq(Byte), NEW p, NEW m \in Nat, NEW n \in Nat, Kept(s, p, m, n), NEW c \in Byte, c.by # p
    PROVE  Kept(<<c>> \o s, p, m, n)
<1> DEFINE a == <<c>> \o s
<1>1. /\ DOMAIN s = 1 .. Len(s) /\ DOMAIN a = 1 .. Len(s) + 1 /\ Len(s) \in Nat
      /\ a[1] = c /\ \A i \in 2 .. Len(s) + 1 : a[i] = s[i - 1]
    BY ConcatProperties
<1>2. \A i \in DOMAIN a : i \in Int /\ (a[i].by = p => i - 1 \in DOMAIN s /\ a[i] = s[i - 1])
    BY <1>1
<1>3. \A i \in DOMAIN s : i + 1 \in DOMAIN a /\ a[i + 1] = s[i]
    <2>1. \A i \in DOMAIN s : i + 1 \in 2 .. Len(s) + 1 /\ (i + 1) - 1 = i
        BY <1>1
    <2>2. QED
        BY <1>1, <2>1
<1> HIDE DEF a
<1>4. \A i, j \in DOMAIN a : i < j => i - 1 < j - 1
    BY <1>2
<1>5. \A i, j \in DOMAIN a : a[i].by = p /\ a[j].by = p /\ i < j => a[i].k < a[j].k
    BY <1>2, <1>4 DEF Kept
<1>6. \A i \in DOMAIN a : a[i].by = p => a[i].k \in m + 1 .. n
    BY <1>2 DEF Kept
<1>7. ASSUME NEW k \in m + 1 .. n PROVE \E i \in DOMAIN a : a[i].by = p /\ a[i].k = k
    <2>1. PICK i \in DOMAIN s : s[i].by = p /\ s[i].k = k
        BY DEF Kept
    <2>2. QED
        BY <1>3, <2>1
<1>8. QED
    BY <1>5, <1>6, <1>7 DEF Kept, a

-----------------------------------------------------------------------------
(* The inductive invariant: cons.lock has one holder, who found the ring   *)
(* empty if it is about to sleep, and a read() is still to get a byte.     *)

Held(p) == tty[p].at \in {"in", "drop"}

Calls ==
    /\ \A p, q \in TermProc : Held(p) /\ Held(q) => p = q
    /\ \A p \in TermProc :
          /\ tty[p].at = "drop" => r = w
          /\ tty[p].at \in {"read", "in", "drop", "asleep"} => tty[p].done < tty[p].of
          /\ Writing(p) => p \in Writer

TermInv == TerminalOK /\ Calls

Row == [at : {"user", "read", "in", "drop", "asleep", "write", "full"},
        done : 0 .. Request, of : 0 .. Request, killed : BOOLEAN]

LEMMA Rows ==
    ASSUME TermTypeOK
    PROVE  tty \in [TermProc -> Row] /\ Request \in Nat /\ TX_BUF \in Nat
           /\ \A p \in TermProc : /\ tty[p].done \in Nat /\ tty[p].of \in Nat /\ tty[p].done <= Request
                                  /\ tty[p].of <= Request
BY TerminalAssumption DEF TermTypeOK, Row, TerminalAssumption

LEMMA Woken ==
    ASSUME TermTypeOK, NEW place, NEW there \in {"read", "write"}
    PROVE  /\ Wake(place, there) \in [TermProc -> Row]
           /\ \A p \in TermProc :
                /\ Wake(place, there)[p].at = IF tty[p].at = place THEN there ELSE tty[p].at
                /\ Wake(place, there)[p].done = tty[p].done /\ Wake(place, there)[p].of = tty[p].of
BY Rows DEF Wake, Row

\* What OutputKept says of a writer, with the sequence of its bytes.
WriterKept(p) ==
    \E n \in sent[p] .. Request : Kept(Out, p, sent[p], n) /\ (Writing(p) => n = tty[p].done)

WritersKept == \A p \in Writer : WriterKept(p) /\ (tty[p].at = "full" => Len(tx) = TX_BUF)
Served == tx # <<>> => thr # <<>> \/ uirq \/ uart # "none"

LEMMA OutIs ==
    ASSUME TermTypeOK
    PROVE  /\ Out \in Seq(Byte) /\ tx \in Seq(Byte) /\ thr \in Seq(Byte) /\ Len(thr) <= 1
           /\ \A p \in Writer : sent[p] \in Nat /\ sent[p] <= Request /\ p \in TermProc /\ Echo.by # p
           /\ Echo \in Byte
BY ConcatProperties, TerminalAssumption DEF TermTypeOK, Out, TermProc, Echo, Byte, TerminalAssumption

LEMMA OutputIs == ASSUME TermTypeOK PROVE OutputKept <=> WritersKept /\ Served
<1>1. ASSUME NEW p \in Writer, NEW n \in sent[p] .. Request
      PROVE  Kept(Out, p, sent[p], n) <=> /\ \A i, j \in Mine(p) : i < j => Out[i].k < Out[j].k
                                          /\ {Out[i].k : i \in Mine(p)} = sent[p] + 1 .. n
    <2>1. Out \in Seq(Byte) /\ sent[p] \in Nat /\ n \in Nat
        BY OutIs, Rows
    <2>2. Mine(p) = {i \in DOMAIN Out : Out[i].by = p}
        BY DEF Mine
    <2>3. QED
        BY <2>1, <2>2 DEF Kept
<1>2. ASSUME NEW p \in Writer
      PROVE  WriterKept(p) <=> /\ \A i, j \in Mine(p) : i < j => Out[i].k < Out[j].k
                               /\ \E n \in sent[p] .. Request :
                                     /\ {Out[i].k : i \in Mine(p)} = sent[p] + 1 .. n
                                     /\ Writing(p) => n = tty[p].done
    BY <1>1 DEF WriterKept
<1>3. QED
    BY <1>2 DEF OutputKept, WritersKept, Served

LEMMA OutputNextIs == ASSUME TermTypeOK' PROVE OutputKept' <=> WritersKept' /\ Served'
BY OutputIs, PTL

\* Output does not change but for an echo, and writers go on from where they were.
LEMMA OutputStays ==
    ASSUME TermTypeOK, TermTypeOK', OutputKept, sent' = sent, tx' = tx,
           thr' = thr \/ (thr = <<>> /\ thr' = <<Echo>>),
           \A p \in Writer : /\ Writing(p)' => Writing(p) /\ tty'[p].done = tty[p].done
                             /\ tty'[p].at = "full" => tty[p].at = "full" \/ Len(tx) = TX_BUF,
           uirq \/ uart # "none" => uirq' \/ uart' # "none"
    PROVE  OutputKept'
<1>1. WritersKept /\ Served
    BY OutputIs
<1>2. ASSUME NEW p \in Writer, NEW n \in sent[p] .. Request, Kept(Out, p, sent[p], n)
      PROVE  Kept(Out', p, sent[p], n)
    <2>1. CASE thr' = thr
        BY <1>2, <2>1 DEF Out
    <2>2. CASE thr = <<>> /\ thr' = <<Echo>>
        <3>1. Out = tx /\ Out' = <<Echo>> \o tx
            BY <2>2, OutIs DEF Out
        <3>2. sent[p] \in Nat /\ n \in Nat /\ Echo \in Byte /\ Echo.by # p /\ tx \in Seq(Byte)
            BY OutIs, Rows
        <3>3. QED
            BY <1>2, <3>1, <3>2, KeptFirst
    <2>3. QED
        BY <2>1, <2>2
<1>3. ASSUME NEW p \in Writer PROVE WriterKept(p)'
    <2>1. PICK n \in sent[p] .. Request : Kept(Out, p, sent[p], n) /\ (Writing(p) => n = tty[p].done)
        BY <1>1 DEF WritersKept, WriterKept
    <2>2. Kept(Out', p, sent'[p], n) /\ (Writing(p)' => n = tty'[p].done) /\ n \in sent'[p] .. Request
        BY <1>2, <2>1
    <2>3. QED
        BY <2>2 DEF WriterKept
<1>4. Served'
    BY <1>1 DEF Served
<1>5. \A p \in Writer : tty'[p].at = "full" => Len(tx') = TX_BUF
    BY <1>1 DEF WritersKept
<1>6. WritersKept'
    BY <1>3, <1>5 DEF WritersKept
<1>7. QED
    BY <1>4, <1>6, OutputNextIs

\* Only the port changes.
LEMMA PortSteps ==
    ASSUME TermInv, UNCHANGED <<input, output, tty>>, rx' \in Seq(Key), uirq' \in BOOLEAN,
           uart' \in {"none", "input", "kill", "output"}, uirq \/ uart # "none" => uirq' \/ uart' # "none"
    PROVE  TermInv'
<1>0. TermTypeOK /\ Lines /\ ReadersWoken /\ OutputKept /\ Calls
    BY DEF TermInv, TerminalOK
<1>1. TermTypeOK'
    BY <1>0 DEF TermTypeOK, input, output
<1>2. Lines' /\ ReadersWoken' /\ Calls'
    BY <1>0 DEF Lines, Between, ReadersWoken, Calls, Held, Writing, Apart, input
<1>3. OutputKept'
    BY <1>0, <1>1, OutputStays DEF output, Writing
<1>4. QED
    BY <1>1, <1>2, <1>3 DEF TermInv, TerminalOK

\* Only one process changes.
LEMMA RowSteps ==
    ASSUME TermInv, NEW p \in TermProc, NEW row \in Row, tty' = [tty EXCEPT ![p] = row],
           UNCHANGED <<input, rx, output, uirq, uart>>,
           row.at \in {"drop", "asleep"} => r = w,
           row.at \in {"in", "drop"} => Held(p) \/ consLockFree,
           row.at \in {"read", "in", "drop", "asleep"} => row.done < row.of,
           row.at \in {"write", "full"} => Writing(p) /\ row.done = tty[p].done,
           row.at = "full" => Len(tx) = TX_BUF
    PROVE  TermInv'
<1>0. TermTypeOK /\ Lines /\ ReadersWoken /\ OutputKept /\ Calls /\ tty \in [TermProc -> Row]
    BY Rows DEF TermInv, TerminalOK
<1>1. tty' \in [TermProc -> Row] /\ tty'[p] = row /\ \A q \in TermProc : q # p => tty'[q] = tty[q]
    BY <1>0
<1>2. TermTypeOK'
    BY <1>0, <1>1 DEF TermTypeOK, Row, input, output
<1>3. Lines'
    BY <1>0 DEF Lines, Between, Apart, input
<1>4. ReadersWoken'
    BY <1>0, <1>1 DEF ReadersWoken, input
<1>5. OutputKept'
    BY <1>0, <1>1, <1>2, OutputStays, OutIs DEF output, Writing
<1>6. Calls'
    <2>1. ASSUME NEW x \in TermProc, NEW y \in TermProc, Held(x)', Held(y)' PROVE x = y
        BY <1>0, <1>1, <2>1 DEF Calls, Held, consLockFree
    <2>2. ASSUME NEW q \in TermProc
          PROVE  /\ tty'[q].at = "drop" => r' = w'
                 /\ tty'[q].at \in {"read", "in", "drop", "asleep"} => tty'[q].done < tty'[q].of
                 /\ Writing(q)' => q \in Writer
        BY <1>0, <1>1 DEF Calls, Writing, input
    <2>3. QED
        BY <2>1, <2>2 DEF Calls
<1>7. QED
    BY <1>2, <1>3, <1>4, <1>5, <1>6 DEF TermInv, TerminalOK

-----------------------------------------------------------------------------
(* Each action keeps it.                                                   *)

LEMMA ReadKeeps ==
    ASSUME TermInv, NEW p \in TermProc, NEW n \in 1 .. Request,
           tty_read(p, n) \/ acquire(p) \/ consoleread_waits(p) \/ consoleread_sleeps(p)
    PROVE  TermInv'
<1>0. TermTypeOK /\ ReadersWoken /\ Calls /\ tty \in [TermProc -> Row] /\ tty[p] \in Row /\ 0 \in 0 .. Request /\ Request \in Nat
    BY Rows DEF TermInv, TerminalOK
<1>1. CASE tty_read(p, n)
    <2> DEFINE row == [Outside EXCEPT !.at = "read", !.of = n]
    <2>0. n \in 0 .. Request
        BY <1>0
    <2>1. row.at = "read" /\ row.done = 0 /\ row.of = n /\ n > 0
        BY DEF Outside
    <2>4. row \in Row
        BY <1>0, <2>0 DEF Row, Outside
    <2>2. tty' = [tty EXCEPT ![p] = row] /\ UNCHANGED <<input, rx, output, uirq, uart>>
        BY <1>1 DEF tty_read
    <2> HIDE DEF row
    <2>3. QED
        BY <2>1, <2>2, <2>4, RowSteps
<1>2. CASE acquire(p)
    <2> DEFINE row == [tty[p] EXCEPT !.at = "in"]
    <2>1. row \in Row /\ row.at = "in" /\ row.done = tty[p].done /\ row.of = tty[p].of
        BY <1>0 DEF Row
    <2>2. tty' = [tty EXCEPT ![p] = row] /\ UNCHANGED <<input, rx, output, uirq, uart>> /\ consLockFree /\ tty[p].at = "read"
        BY <1>2 DEF acquire
    <2>3. tty[p].done < tty[p].of
        BY <1>0, <2>2 DEF Calls
    <2> HIDE DEF row
    <2>4. QED
        BY <2>1, <2>2, <2>3, RowSteps
<1>3. CASE consoleread_waits(p)
    <2>1. UNCHANGED <<input, rx, output, uirq, uart>> /\ tty[p].at = "in" /\ r = w /\ Held(p) /\ tty[p].done < tty[p].of
        BY <1>0, <1>3 DEF consoleread_waits, Calls, Held
    <2>2. CASE tty[p].killed
        <3> DEFINE row == [Outside EXCEPT !.killed = tty[p].killed]
        <3>1. row \in Row /\ row.at = "user"
            BY <1>0 DEF Row, Outside
        <3>2. tty' = [tty EXCEPT ![p] = row]
            BY <1>3, <2>2 DEF consoleread_waits, Back
        <3> HIDE DEF row
        <3>3. QED
            BY <2>1, <3>1, <3>2, RowSteps
    <2>3. CASE ~tty[p].killed
        <3> DEFINE row == [tty[p] EXCEPT !.at = "drop"]
        <3>1. row \in Row /\ row.at = "drop" /\ row.done = tty[p].done /\ row.of = tty[p].of
            BY <1>0 DEF Row
        <3>2. tty' = [tty EXCEPT ![p] = row]
            BY <1>3, <2>3 DEF consoleread_waits
        <3> HIDE DEF row
        <3>3. QED
            BY <2>1, <3>1, <3>2, RowSteps
    <2>4. QED
        BY <2>2, <2>3
<1>4. CASE consoleread_sleeps(p)
    <2> DEFINE row == [tty[p] EXCEPT !.at = "asleep"]
    <2>1. row \in Row /\ row.at = "asleep" /\ row.done = tty[p].done /\ row.of = tty[p].of
        BY <1>0 DEF Row
    <2>2. tty' = [tty EXCEPT ![p] = row] /\ UNCHANGED <<input, rx, output, uirq, uart>> /\ tty[p].at = "drop"
        BY <1>4 DEF consoleread_sleeps
    <2>3. r = w /\ tty[p].done < tty[p].of
        BY <1>0, <2>2 DEF Calls
    <2> HIDE DEF row
    <2>4. QED
        BY <2>1, <2>2, <2>3, RowSteps
<1>5. QED
    BY <1>1, <1>2, <1>3, <1>4

LEMMA WriteKeeps ==
    ASSUME TermInv, NEW p \in TermProc, kill_reader(p) \/ uartputc_sleeps(p) \/ consolewrite_end(p)
    PROVE  TermInv'
<1>0. TermTypeOK /\ ReadersWoken /\ OutputKept /\ Calls /\ tty \in [TermProc -> Row] /\ tty[p] \in Row /\ 0 \in 0 .. Request
    BY Rows DEF TermInv, TerminalOK
<1>1. CASE kill_reader(p)
    <2> DEFINE row == [tty[p] EXCEPT !.killed = TRUE,
                                     !.at = CASE @ = "asleep" -> "read" [] @ = "full" -> "write"
                                              [] OTHER -> @]
    <2>1. /\ row \in Row /\ row.done = tty[p].done /\ row.of = tty[p].of
          /\ row.at = IF tty[p].at = "asleep" THEN "read" ELSE IF tty[p].at = "full" THEN "write" ELSE tty[p].at
        BY <1>0 DEF Row
    <2>2. tty' = [tty EXCEPT ![p] = row] /\ UNCHANGED <<input, rx, output, uirq, uart>>
        BY <1>1 DEF kill_reader
    <2>3. /\ tty[p].at = "drop" => r = w
          /\ tty[p].at \in {"read", "in", "drop", "asleep"} => tty[p].done < tty[p].of
        BY <1>0 DEF Calls
    <2> HIDE DEF row
    <2>4. /\ row.at \in {"drop", "asleep"} => r = w
          /\ row.at \in {"in", "drop"} => Held(p)
          /\ row.at \in {"read", "in", "drop", "asleep"} => row.done < row.of
          /\ row.at \in {"write", "full"} => Writing(p) /\ row.done = tty[p].done
          /\ row.at # "full"
        BY <2>1, <2>3 DEF Held, Writing
    <2>5. QED
        BY <2>1, <2>2, <2>4, RowSteps
<1>2. CASE uartputc_sleeps(p)
    <2> DEFINE row == [tty[p] EXCEPT !.at = "full"]
    <2>1. row \in Row /\ row.at = "full" /\ row.done = tty[p].done
        BY <1>0 DEF Row
    <2>2. /\ tty' = [tty EXCEPT ![p] = row] /\ UNCHANGED <<input, rx, output, uirq, uart>>
          /\ Len(tx) = TX_BUF /\ Writing(p)
        BY <1>2 DEF uartputc_sleeps, Writing
    <2> HIDE DEF row
    <2>3. QED
        BY <2>1, <2>2, RowSteps
<1>3. CASE consolewrite_end(p)
    <2> DEFINE row == [Outside EXCEPT !.killed = tty[p].killed]
    <2>1. row \in Row /\ row.at = "user"
        BY <1>0 DEF Row, Outside
    <2>2. tty' = [tty EXCEPT ![p] = row] /\ UNCHANGED <<input, rx, output, uirq, uart>>
        BY <1>3 DEF consolewrite_end, Back
    <2> HIDE DEF row
    <2>3. QED
        BY <2>1, <2>2, RowSteps
<1>4. QED
    BY <1>1, <1>2, <1>3

LEMMA PortKeeps ==
    ASSUME TermInv, NEW c \in Key,
           \/ receive(c) \/ consoleintr_drops(c) \/ consoleintr_line(c) \/ kill_end \/ uartintr
           \/ uartintr_keys_done
    PROVE  TermInv'
<1>0. TermTypeOK /\ rx \in Seq(Key) /\ uirq \in BOOLEAN /\ uart \in {"none", "input", "kill", "output"}
    BY DEF TermInv, TerminalOK, TermTypeOK
<1>1. rx # <<>> => Tail(rx) \in Seq(Key)
    BY <1>0, HeadTailProperties
<1>2. Append(rx, c) \in Seq(Key)
    BY <1>0, AppendProperties
<1>3. CASE receive(c)
    BY <1>0, <1>2, <1>3, PortSteps DEF receive
<1>4. CASE consoleintr_drops(c)
    BY <1>0, <1>1, <1>4, PortSteps DEF consoleintr_drops, handler
<1>5. CASE consoleintr_line(c)
    BY <1>0, <1>1, <1>5, PortSteps DEF consoleintr_line, handler
<1>6. CASE kill_end
    BY <1>0, <1>6, PortSteps DEF kill_end
<1>7. CASE uartintr
    BY <1>0, <1>7, PortSteps DEF uartintr
<1>8. CASE uartintr_keys_done
    BY <1>0, <1>8, PortSteps DEF uartintr_keys_done
<1>9. QED
    BY <1>3, <1>4, <1>5, <1>6, <1>7, <1>8

-----------------------------------------------------------------------------
(* Input.                                                                  *)

\* Between, with the ring and the indices it is of.
LEMMA LinesAre ==
    ASSUME TermTypeOK, Lines
    PROVE  /\ ring \in Ring /\ r \in Index /\ w \in Index /\ e \in Index
           /\ View(ring, r, w) = due /\ View(ring, w, e) = edit
           /\ Apart(r, w) \in Nat /\ Apart(w, e) \in Nat /\ Apart(r, e) \in Nat
           /\ Apart(r, e) = Apart(r, w) + Apart(w, e) /\ Apart(r, e) <= INPUT_BUF
           /\ Apart(r, e) = INPUT_BUF => w = e
<1>1. ring \in Ring /\ r \in Index /\ w \in Index /\ e \in Index
    BY DEF TermTypeOK, Ring, Index
<1>2. \A i, j \in Index : Apart(i, j) \in Nat
    BY ApartIs, Sizes DEF Index
<1>3. QED
    BY <1>1, <1>2, BetweenIs DEF Lines

LEMMA LinesNow ==
    ASSUME View(ring', r', w') = due', View(ring', w', e') = edit',
           Apart(r', e') = Apart(r', w') + Apart(w', e'), Apart(r', e') <= INPUT_BUF,
           Apart(r', e') = INPUT_BUF => w' = e'
    PROVE  Lines'
<1>1. Between(r, w)' = View(ring', r', w') /\ Between(w, e)' = View(ring', w', e')
    BY DEF Between, View, Plus, Apart
<1>2. QED
    BY <1>1 DEF Lines, Apart

\* A byte is taken out, or stays.
LEMMA TakeKeeps == ASSUME TermInv, NEW p \in TermProc, consoleread(p) PROVE TermInv'
<1> DEFINE c == ring[r % INPUT_BUF]
           kept == c = "eof" /\ tty[p].done > 0
           back == [Outside EXCEPT !.killed = tty[p].killed]
           more == [tty[p] EXCEPT !.done = @ + 1]
<1>0. /\ TermTypeOK /\ Lines /\ ReadersWoken /\ OutputKept /\ Calls
      /\ tty \in [TermProc -> Row] /\ tty[p] \in Row /\ 0 \in 0 .. Request
      /\ tty[p].done \in Nat /\ tty[p].of \in Nat /\ tty[p].of <= Request /\ Request \in Nat
    BY Rows DEF TermInv, TerminalOK
<1>1. /\ tty[p].at = "in" /\ r # w /\ r' = (IF kept THEN r ELSE Up(r)) /\ due' = (IF kept THEN due ELSE Tail(due))
      /\ UNCHANGED <<ring, w, e, edit, rx, output, uirq, uart>>
    BY DEF consoleread
<1>2. tty[p].done < tty[p].of
    BY <1>0, <1>1 DEF Calls
<1>3. PICK row \in Row : /\ tty' = [tty EXCEPT ![p] = row] /\ row.at \in {"user", "in"}
                         /\ row.at = "in" => row.done < row.of
    <2>1. CASE tty' = [tty EXCEPT ![p] = back]
        <3>1. back \in Row /\ back.at = "user"
            BY <1>0 DEF Row, Outside
        <3>2. QED
            BY <2>1, <3>1
    <2>2. CASE tty' = [tty EXCEPT ![p].done = @ + 1] /\ tty[p].done + 1 # tty[p].of
        <3>0. tty[p].done + 1 \in 0 .. Request /\ tty[p].done + 1 < tty[p].of
            BY <1>0, <1>2, <2>2
        <3>1. more \in Row /\ more.at = "in" /\ more.done < more.of
            BY <1>0, <1>1, <3>0 DEF Row
        <3>2. tty' = [tty EXCEPT ![p] = more]
            BY <2>2
        <3>3. QED
            BY <3>1, <3>2
    <2>3. QED
        BY <2>1, <2>2 DEF consoleread, Back
<1>4. tty' \in [TermProc -> Row] /\ tty'[p] = row /\ \A q \in TermProc : q # p => tty'[q] = tty[q]
    BY <1>0, <1>3
<1>5. /\ r' \in Index /\ View(ring, r', w) = due' /\ due' \in Seq(Stored)
      /\ Apart(r', e) = Apart(r', w) + Apart(w, e) /\ Apart(r', e) <= INPUT_BUF
      /\ Apart(r', e) = INPUT_BUF => w = e
    <2>1. due \in Seq(Stored)
        BY <1>0 DEF TermTypeOK
    <2>2. CASE kept
        BY <1>0, <1>1, <2>1, <2>2, LinesAre
    <2>3. CASE ~kept
        <3>1. r' = Up(r) /\ due' = Tail(due)
            BY <1>1, <2>3
        <3>2. /\ Apart(r, w) > 0 /\ Apart(Up(r), w) = Apart(r, w) - 1
              /\ View(ring, r, w) # <<>> /\ View(ring, Up(r), w) = Tail(View(ring, r, w))
            BY <1>0, <1>1, LinesAre, ViewTail
        <3>3. r # e
            BY <1>0, <3>2, LinesAre, ApartNext
        <3>4. Apart(Up(r), e) = Apart(r, e) - 1
            BY <1>0, <3>3, LinesAre, ApartNext
        <3>5. Up(r) \in Index
            BY <1>0, LinesAre, UpIs
        <3>6. Tail(due) \in Seq(Stored)
            BY <1>0, <2>1, <3>2, LinesAre, HeadTailProperties
        <3>7. View(ring, Up(r), w) = Tail(due)
            BY <1>0, <3>2, LinesAre
        <3>8. /\ Apart(Up(r), e) = Apart(Up(r), w) + Apart(w, e) /\ Apart(Up(r), e) <= INPUT_BUF
              /\ Apart(Up(r), e) # INPUT_BUF
            BY <1>0, <3>2, <3>4, LinesAre, Sizes
        <3>9. QED
            BY <3>1, <3>5, <3>6, <3>7, <3>8
    <2>4. QED
        BY <2>2, <2>3
<1> HIDE DEF c, kept, back, more
<1>6. Lines'
    <2>1. ring' = ring /\ w' = w /\ e' = e /\ edit' = edit /\ View(ring, w, e) = edit
        BY <1>0, <1>1, LinesAre
    <2>2. QED
        BY <1>5, <2>1, LinesNow
<1>7. TermTypeOK'
    BY <1>0, <1>1, <1>4, <1>5 DEF TermTypeOK, Row, Index, output
<1>8. ReadersWoken'
    BY <1>0, <1>1, <1>3, <1>4 DEF ReadersWoken
<1>9. OutputKept'
    BY <1>0, <1>1, <1>3, <1>4, <1>7, OutputStays, OutIs DEF output, Writing
<1>10. Calls'
    <2>1. ASSUME NEW x \in TermProc, NEW y \in TermProc, Held(x)', Held(y)' PROVE x = y
        BY <1>0, <1>1, <1>3, <1>4, <2>1 DEF Calls, Held
    <2>2. ASSUME NEW q \in TermProc
          PROVE  /\ tty'[q].at = "drop" => r' = w'
                 /\ tty'[q].at \in {"read", "in", "drop", "asleep"} => tty'[q].done < tty'[q].of
                 /\ Writing(q)' => q \in Writer
        <3>1. CASE q = p
            BY <1>3, <1>4, <3>1 DEF Writing
        <3>2. CASE q # p
            <4>1. tty[q].at # "drop"
                BY <1>0, <1>1, <3>2 DEF Calls, Held
            <4>2. QED
                BY <1>0, <1>4, <3>2, <4>1 DEF Calls, Writing
        <3>3. QED
            BY <3>1, <3>2
    <2>3. QED
        BY <2>1, <2>2 DEF Calls
<1>11. QED
    BY <1>6, <1>7, <1>8, <1>9, <1>10 DEF TermInv, TerminalOK

\* The last character of the line is erased.
LEMMA EraseKeeps ==
    ASSUME TermInv, erase, e # w, thr = <<>>, thr' = <<Echo>>, UNCHANGED <<tx, sent, uirq, uart, tty>>,
           rx' \in Seq(Key)
    PROVE  TermInv'
<1>0. TermTypeOK /\ Lines /\ ReadersWoken /\ OutputKept /\ Calls
    BY DEF TermInv, TerminalOK
<1>1. e' = Down(e) /\ edit' = Front(edit) /\ UNCHANGED <<ring, r, w, due>>
    BY DEF erase
<1>2. Apart(w, e) > 0 /\ Apart(w, Down(e)) = Apart(w, e) - 1 /\ View(ring, w, Down(e)) = Front(edit)
    BY <1>0, LinesAre, ViewFront
<1>3. r # e
    BY <1>0, <1>2, LinesAre, ApartNext
<1>4. Apart(r, Down(e)) = Apart(r, e) - 1
    BY <1>0, <1>3, LinesAre, ApartNext
<1>5. Down(e) \in Index
    BY <1>0, LinesAre, DownIs
<1>6. View(ring, w, Down(e)) \in Seq(Stored)
    BY <1>0, <1>5, LinesAre, ViewIs
<1>7. Lines'
    <2>1. /\ Apart(r, Down(e)) = Apart(r, w) + Apart(w, Down(e)) /\ Apart(r, Down(e)) <= INPUT_BUF
          /\ Apart(r, Down(e)) # INPUT_BUF /\ View(ring, r, w) = due
        BY <1>0, <1>2, <1>4, LinesAre, Sizes
    <2>2. QED
        BY <1>1, <1>2, <2>1, LinesNow
<1>8. TermTypeOK'
    <2>1. <<Echo>> \in Seq(Byte) /\ Len(<<Echo>>) <= 1
        BY <1>0, OutIs
    <2>2. edit' \in Seq(Stored) /\ e' \in Index
        BY <1>1, <1>2, <1>5, <1>6
    <2>3. QED
        BY <1>0, <1>1, <2>1, <2>2 DEF TermTypeOK, Index
<1>9. OutputKept'
    BY <1>0, <1>8, OutputStays DEF Writing
<1>10. ReadersWoken' /\ Calls'
    BY <1>0, <1>1 DEF ReadersWoken, Calls, Held, Writing
<1>11. QED
    BY <1>7, <1>8, <1>9, <1>10 DEF TermInv, TerminalOK

LEMMA BackKeeps == ASSUME TermInv, NEW c \in Key, consoleintr_back(c) \/ kill_line PROVE TermInv'
<1>0. rx \in Seq(Key)
    BY DEF TermInv, TerminalOK, TermTypeOK
<1>1. CASE consoleintr_back(c)
    <2>1. rx # <<>> /\ rx' = Tail(rx)
        BY <1>1 DEF consoleintr_back, handler
    <2>2. rx' \in Seq(Key)
        BY <1>0, <2>1, HeadTailProperties
    <2>3. QED
        BY <1>1, <2>2, EraseKeeps DEF consoleintr_back
<1>2. CASE kill_line
    BY <1>0, <1>2, EraseKeeps DEF kill_line, Typed
<1>3. QED
    BY <1>1, <1>2

\* A character is stored; the line may be finished by it.
LEMMA StoreKeeps == ASSUME TermInv, NEW c \in Key, consoleintr(c) PROVE TermInv'
<1> DEFINE ends == c # "x" \/ Up(e) = (r + INPUT_BUF) % UWIDTH
<1>0. TermTypeOK /\ Lines /\ ReadersWoken /\ OutputKept /\ Calls /\ tty \in [TermProc -> Row]
    BY Rows DEF TermInv, TerminalOK
<1>1. /\ c \in Stored /\ Apart(r, e) < INPUT_BUF /\ thr = <<>> /\ thr' = <<Echo>>
      /\ ring' = [ring EXCEPT ![e % INPUT_BUF] = c] /\ e' = Up(e) /\ UNCHANGED <<r, tx, sent, uirq, uart>>
      /\ ends => w' = Up(e) /\ due' = due \o Append(edit, c) /\ edit' = <<>> /\ tty' = Wake("asleep", "read")
      /\ ~ends => edit' = Append(edit, c) /\ UNCHANGED <<w, due, tty>>
      /\ rx # <<>> /\ rx' = Tail(rx) /\ consLockFree
    BY DEF consoleintr, handler
<1>2. ~ends => Apart(r, Up(e)) # INPUT_BUF
    <2>1. Up(e) \in Index /\ INPUT_BUF \in Index
        BY <1>0, LinesAre, UpIs, Sizes DEF Index
    <2>2. Apart(r, Up(e)) = INPUT_BUF <=> Plus(r, INPUT_BUF) = Up(e)
        BY <1>0, <2>1, LinesAre, PlusApart
    <2>3. QED
        BY <2>2 DEF Plus
<1> HIDE DEF ends
<1>3. /\ due \in Seq(Stored) /\ edit \in Seq(Stored) /\ rx \in Seq(Key) /\ ring' \in Ring /\ Up(e) \in Index
      /\ Apart(w, e) < INPUT_BUF /\ Apart(r, w) <= Apart(r, e)
    <2>1. due \in Seq(Stored) /\ edit \in Seq(Stored) /\ rx \in Seq(Key)
        BY <1>0 DEF TermTypeOK
    <2>2. ring' \in Ring
        BY <1>0, <1>1, LinesAre DEF Ring
    <2>3. QED
        BY <1>0, <1>1, <2>1, <2>2, LinesAre, UpIs, Sizes
<1>16. /\ ring \in Ring /\ r \in Index /\ w \in Index /\ e \in Index
       /\ View(ring, r, w) = due /\ View(ring, w, e) = edit
    BY <1>0, LinesAre
<1>17. ring'[e % INPUT_BUF] = c /\ \A x \in 0 .. INPUT_BUF - 1 : x # e % INPUT_BUF => ring'[x] = ring[x]
    <2>1. e % INPUT_BUF \in 0 .. INPUT_BUF - 1
        BY <1>16, DivMod, Sizes DEF Index
    <2>2. QED
        BY <1>1, <1>16, <2>1 DEF Ring
<1>18. c \in Stored /\ ring' \in Ring /\ Apart(r, e) < INPUT_BUF /\ Apart(w, e) < INPUT_BUF
    BY <1>1, <1>3
<1>19. PICK f \in Ring, g \in Ring : f = ring /\ g = ring'
    BY <1>16, <1>18
<1>20. PICK i \in Index, k \in Index, j \in Index : i = r /\ k = w /\ j = e
    BY <1>16
<1>21. /\ g[j % INPUT_BUF] = c /\ \A x \in 0 .. INPUT_BUF - 1 : x # j % INPUT_BUF => g[x] = f[x]
       /\ Apart(i, j) < INPUT_BUF /\ Apart(k, j) < INPUT_BUF
    BY <1>17, <1>18, <1>19, <1>20
<1>4. /\ Apart(r, Up(e)) = Apart(r, e) + 1
      /\ View(ring', r, Up(e)) = Append(View(ring, r, e), c)
      /\ View(ring', r, w) = due
    <2>1. \A m \in Index : Apart(r, m) <= Apart(r, e) => View(ring', r, m) = View(ring, r, m)
        BY <1>18, <1>19, <1>20, <1>21, ViewPut
    <2>2. Apart(r, Up(e)) = Apart(r, e) + 1 /\ View(ring', r, Up(e)) = Append(View(ring, r, e), c)
        BY <1>18, <1>19, <1>20, <1>21, ViewPut
    <2>3. QED
        BY <1>3, <1>16, <2>1, <2>2
<1>5. Apart(w, Up(e)) = Apart(w, e) + 1 /\ View(ring', w, Up(e)) = Append(edit, c)
    <2>1. Apart(w, Up(e)) = Apart(w, e) + 1 /\ View(ring', w, Up(e)) = Append(View(ring, w, e), c)
        BY <1>18, <1>19, <1>20, <1>21, ViewPut
    <2>2. QED
        BY <1>16, <2>1
<1>6. View(ring, r, e) = due \o edit
    <2>1. Apart(i, j) = Apart(i, k) + Apart(k, j)
        BY <1>0, <1>20, LinesAre
    <2>2. View(f, i, j) = View(f, i, k) \o View(f, k, j)
        BY <2>1, ViewJoin
    <2>3. QED
        BY <1>16, <1>19, <1>20, <2>2
<1>7. Append(edit, c) \in Seq(Stored) /\ due \o Append(edit, c) = Append(due \o edit, c)
    BY <1>1, <1>3, AppendProperties, AppendIsConcat, ConcatAssociative, ConcatProperties
<1>8. Apart(r, Up(e)) <= INPUT_BUF
    BY <1>0, <1>1, <1>4, LinesAre, Sizes
<1>9. Lines'
    <2>1. CASE ends
        <3>1. View(ring', r', w') = due' /\ r' = r /\ w' = Up(e) /\ e' = Up(e) /\ edit' = <<>>
            BY <1>1, <1>4, <1>6, <1>7, <2>1
        <3>2. Apart(Up(e), Up(e)) = 0 /\ Apart(r, Up(e)) \in Nat
            <4>1. Apart(Up(e), Up(e)) = 0
                BY <1>3, ApartNext
            <4>2. Apart(r, Up(e)) \in Nat
                BY <1>3, <1>16, ApartIs, Sizes DEF Index
            <4>3. QED
                BY <4>1, <4>2
        <3>3. View(ring', Up(e), Up(e)) = <<>>
            BY <1>3, <3>2, ViewIs
        <3>4. Apart(r, Up(e)) = Apart(r, Up(e)) + Apart(Up(e), Up(e))
            BY <3>2
        <3>5. QED
            BY <1>8, <3>1, <3>3, <3>4, LinesNow
    <2>2. CASE ~ends
        <3>1. /\ r' = r /\ w' = w /\ e' = Up(e) /\ View(ring', r', w') = due' /\ View(ring', w', e') = edit'
              /\ Apart(r', e') # INPUT_BUF
            BY <1>1, <1>2, <1>4, <1>5, <2>2
        <3>2. Apart(r, Up(e)) = Apart(r, w) + Apart(w, Up(e))
            BY <1>0, <1>4, <1>5, LinesAre
        <3>3. QED
            BY <1>8, <3>1, <3>2, LinesNow
    <2>3. QED
        BY <2>1, <2>2
<1>10. /\ tty' \in [TermProc -> Row]
       /\ \A q \in TermProc : /\ tty'[q].at = IF ends /\ tty[q].at = "asleep" THEN "read" ELSE tty[q].at
                              /\ tty'[q].done = tty[q].done /\ tty'[q].of = tty[q].of
    <2>1. CASE ends
        BY <1>0, <1>1, <2>1, Woken
    <2>2. CASE ~ends
        BY <1>0, <1>1, <2>2
    <2>3. QED
        BY <2>1, <2>2
<1>11. TermTypeOK'
    <2>1. <<Echo>> \in Seq(Byte) /\ Len(<<Echo>>) <= 1 /\ Tail(rx) \in Seq(Key)
        BY <1>0, <1>1, <1>3, OutIs, HeadTailProperties
    <2>2. /\ w' \in Index /\ e' \in Index /\ r' \in Index /\ edit' \in Seq(Stored) /\ due' \in Seq(Stored)
        <3>1. due \o Append(edit, c) \in Seq(Stored) /\ <<>> \in Seq(Stored)
            BY <1>3, <1>7, ConcatProperties
        <3>2. QED
            BY <1>0, <1>1, <1>3, <1>7, <3>1, LinesAre
    <2>3. QED
        BY <1>0, <1>1, <1>3, <1>10, <2>1, <2>2 DEF TermTypeOK, Index, Row, Ring
<1>12. ReadersWoken'
    BY <1>0, <1>1, <1>10 DEF ReadersWoken
<1>13. OutputKept'
    <2>1. \A p \in Writer : p \in TermProc
        BY DEF TermProc
    <2>2. \A p \in Writer : /\ Writing(p)' => Writing(p) /\ tty'[p].done = tty[p].done
                            /\ tty'[p].at = "full" => tty[p].at = "full"
        BY <1>10, <2>1 DEF Writing
    <2>3. QED
        BY <1>0, <1>1, <1>11, <2>2, OutputStays
<1>14. Calls'
    <2>1. \A q \in TermProc : ~Held(q) /\ ~Held(q)'
        BY <1>1, <1>10 DEF consLockFree, Held
    <2>2. ASSUME NEW q \in TermProc
          PROVE  /\ tty'[q].at # "drop"
                 /\ tty'[q].at \in {"read", "in", "drop", "asleep"} => tty'[q].done < tty'[q].of
                 /\ Writing(q)' => q \in Writer
        BY <1>0, <1>10, <2>1 DEF Calls, Writing, Held
    <2>3. QED
        BY <2>1, <2>2 DEF Calls
<1>15. QED
    BY <1>9, <1>11, <1>12, <1>13, <1>14 DEF TermInv, TerminalOK

-----------------------------------------------------------------------------
(* Output.                                                                 *)

\* A write() begins when none of its bytes are on their way.
LEMMA BeginKeeps == ASSUME TermInv, NEW p \in Writer, tty_write(p) PROVE TermInv'
<1> DEFINE row == [Outside EXCEPT !.at = "write", !.of = Request]
<1>0. /\ TermTypeOK /\ Lines /\ ReadersWoken /\ OutputKept /\ Calls /\ tty \in [TermProc -> Row]
      /\ 0 \in 0 .. Request /\ Request \in 0 .. Request /\ p \in TermProc /\ Request \in Nat
    BY Rows DEF TermInv, TerminalOK, TermProc
<1>1. /\ tty[p].at = "user" /\ \A i \in DOMAIN Out : Out[i].by # p
      /\ sent' = [sent EXCEPT ![p] = 0] /\ tty' = [tty EXCEPT ![p] = row]
      /\ UNCHANGED <<input, rx, tx, thr, uirq, uart>>
    BY DEF tty_write, Out
<1>2. row \in Row /\ row.at = "write" /\ row.done = 0
    BY <1>0 DEF Row, Outside
<1> HIDE DEF row
<1>3. tty' \in [TermProc -> Row] /\ tty'[p] = row /\ \A q \in TermProc : q # p => tty'[q] = tty[q]
    BY <1>0, <1>1, <1>2
<1>4. sent' \in [Writer -> 0 .. Request] /\ sent'[p] = 0 /\ \A q \in Writer : q # p => sent'[q] = sent[q]
    BY <1>0, <1>1 DEF TermTypeOK
<1>5. TermTypeOK'
    BY <1>0, <1>1, <1>3, <1>4 DEF TermTypeOK, Row, input
<1>6. Lines' /\ ReadersWoken'
    BY <1>0, <1>1, <1>2, <1>3 DEF Lines, Between, Apart, ReadersWoken, input
<1>7. OutputKept'
    <2>1. WritersKept /\ Served
        BY <1>0, OutputIs
    <2>2. ASSUME NEW q \in Writer PROVE WriterKept(q)' /\ (tty'[q].at = "full" => Len(tx') = TX_BUF)
        <3>1. CASE q = p
            <4>1. Kept(Out, p, 0, 0)
                BY <1>1 DEF Kept
            <4>2. Out' = Out
                BY <1>1 DEF Out
            <4>3. QED
                BY <1>0, <1>2, <1>3, <1>4, <3>1, <4>1, <4>2 DEF WriterKept
        <3>2. CASE q # p
            <4>1. sent'[q] = sent[q] /\ tty'[q] = tty[q] /\ tx' = tx
                BY <1>1, <1>3, <1>4, <3>2, OutIs, <1>0
            <4>2. Out' = Out
                BY <1>1 DEF Out
            <4>3. WriterKept(q) /\ (tty[q].at = "full" => Len(tx) = TX_BUF)
                BY <2>1 DEF WritersKept
            <4>4. QED
                BY <4>1, <4>2, <4>3 DEF WriterKept, Writing
        <3>3. QED
            BY <3>1, <3>2
    <2>3. WritersKept'
        BY <2>2 DEF WritersKept
    <2>4. Served'
        BY <1>1, <2>1 DEF Served
    <2>5. QED
        BY <1>5, <2>3, <2>4, OutputNextIs
<1>8. Calls'
    <2>1. ASSUME NEW x \in TermProc, NEW y \in TermProc, Held(x)', Held(y)' PROVE x = y
        BY <1>0, <1>2, <1>3, <2>1 DEF Calls, Held
    <2>2. ASSUME NEW q \in TermProc
          PROVE  /\ tty'[q].at = "drop" => r' = w'
                 /\ tty'[q].at \in {"read", "in", "drop", "asleep"} => tty'[q].done < tty'[q].of
                 /\ Writing(q)' => q \in Writer
        BY <1>0, <1>1, <1>2, <1>3 DEF Calls, Writing, input
    <2>3. QED
        BY <2>1, <2>2 DEF Calls
<1>9. QED
    BY <1>5, <1>6, <1>7, <1>8 DEF TermInv, TerminalOK

\* uartstart() moves a byte, or does not: what is on its way stays the same.
LEMMA StartIs ==
    ASSUME TermTypeOK, NEW q \in Seq(Byte), uartstart(q), Len(q) <= TX_BUF
    PROVE  /\ Out' = thr \o q /\ tx' \in Seq(Byte) /\ thr' \in Seq(Byte) /\ Len(tx') <= TX_BUF /\ Len(thr') <= 1
           /\ q # <<>> => thr' # <<>>
           /\ ~Started(q) => tx' = q
           /\ tx' # <<>> => q # <<>>
<1>1. thr \in Seq(Byte) /\ Len(thr) <= 1 /\ Len(q) \in Nat /\ TX_BUF \in Nat
    BY OutIs, Rows
<1>2. CASE q # <<>> /\ thr = <<>>
    <2>1. tx' = Tail(q) /\ thr' = <<Head(q)>>
        BY <1>2 DEF uartstart
    <2>2. Head(q) \in Byte /\ Tail(q) \in Seq(Byte) /\ Len(Tail(q)) = Len(q) - 1 /\ <<Head(q)>> \o Tail(q) = q
        BY <1>2, HeadTailProperties
    <2>3. thr \o q = q
        BY <1>2
    <2>4. Out' = thr \o q
        BY <2>1, <2>2, <2>3 DEF Out
    <2>5. tx' \in Seq(Byte) /\ thr' \in Seq(Byte) /\ Len(tx') <= TX_BUF /\ Len(thr') <= 1 /\ thr' # <<>>
        BY <1>1, <2>1, <2>2
    <2>6. QED
        BY <1>2, <2>4, <2>5 DEF Started
<1>3. CASE ~(q # <<>> /\ thr = <<>>)
    BY <1>1, <1>3 DEF uartstart, Out, Started
<1>4. QED
    BY <1>2, <1>3

\* A byte is put into the ring.
LEMMA PutKeeps == ASSUME TermInv, NEW p \in TermProc, uartputc(p) PROVE TermInv'
<1> DEFINE c == [by |-> p, k |-> tty[p].done + 1]
           q == Append(tx, c)
           t == IF Started(q) THEN Wake("full", "write") ELSE tty
<1>0. /\ TermTypeOK /\ Lines /\ ReadersWoken /\ OutputKept /\ Calls /\ tty \in [TermProc -> Row]
      /\ tty[p].done \in Nat /\ tty[p].of \in Nat /\ tty[p].of <= Request /\ Request \in Nat /\ TX_BUF \in Nat
    BY Rows DEF TermInv, TerminalOK
<1>1. /\ tty[p].at = "write" /\ tty[p].done < tty[p].of /\ Len(tx) < TX_BUF /\ uartstart(q)
      /\ tty' = [t EXCEPT ![p].done = @ + 1] /\ UNCHANGED <<input, rx, sent, uirq, uart>>
    BY DEF uartputc
<1>2. p \in Writer /\ Writing(p)
    BY <1>0, <1>1 DEF Calls, Writing
<1>3. tty[p].done + 1 \in 1 .. Request
    BY <1>0, <1>1
<1>4. c \in Byte /\ c.by = p /\ c.k = tty[p].done + 1
    BY <1>2, <1>3 DEF Byte
<1> HIDE DEF c
<1>5. /\ tx \in Seq(Byte) /\ thr \in Seq(Byte) /\ Len(tx) \in Nat /\ Out \in Seq(Byte)
      /\ q \in Seq(Byte) /\ Len(q) = Len(tx) + 1 /\ q # <<>>
    BY <1>0, <1>4, OutIs, AppendProperties
<1>6. thr \o q = Append(Out, c)
    BY <1>4, <1>5, AppendProperties, AppendIsConcat, ConcatAssociative, ConcatProperties DEF Out
<1> HIDE DEF q
<1>7. /\ Out' = Append(Out, c) /\ tx' \in Seq(Byte) /\ thr' \in Seq(Byte) /\ Len(tx') <= TX_BUF
      /\ Len(thr') <= 1 /\ thr' # <<>>
    <2>1. Len(q) <= TX_BUF
        BY <1>0, <1>1, <1>5
    <2>2. QED
        BY <1>0, <1>1, <1>5, <1>6, <2>1, StartIs
<1>8. /\ t \in [TermProc -> Row]
      /\ \A x \in TermProc : /\ t[x].at = IF Started(q) /\ tty[x].at = "full" THEN "write" ELSE tty[x].at
                             /\ t[x].done = tty[x].done /\ t[x].of = tty[x].of
    BY <1>0, Woken
<1> HIDE DEF t
<1>9. /\ tty' \in [TermProc -> Row]
      /\ \A x \in TermProc : /\ tty'[x].at = t[x].at /\ tty'[x].of = tty[x].of
                             /\ tty'[x].done = IF x = p THEN tty[x].done + 1 ELSE tty[x].done
    <2>1. tty[p].done + 1 \in 0 .. Request
        BY <1>3
    <2>2. QED
        BY <1>1, <1>8, <2>1 DEF Row
<1>10. \A x \in TermProc : tty[x].at = "full" => tty'[x].at = "write" \/ x \notin Writer
    <2>1. CASE Started(q)
        BY <1>8, <1>9, <2>1
    <2>2. ASSUME NEW x \in Writer, tty[x].at = "full" PROVE FALSE
        BY <1>0, <1>1, <1>5, <2>2 DEF OutputKept
    <2>3. QED
        BY <2>1, <2>2
<1>11. TermTypeOK'
    BY <1>0, <1>1, <1>7, <1>9 DEF TermTypeOK, Row, input
<1>12. Lines' /\ ReadersWoken'
    BY <1>0, <1>1, <1>8, <1>9 DEF Lines, Between, Apart, ReadersWoken, input
<1>13. Calls'
    <2>1. ASSUME NEW x \in TermProc, NEW y \in TermProc, Held(x)', Held(y)' PROVE x = y
        BY <1>0, <1>8, <1>9, <2>1 DEF Calls, Held
    <2>2. ASSUME NEW x \in TermProc
          PROVE  /\ tty'[x].at = "drop" => r' = w'
                 /\ tty'[x].at \in {"read", "in", "drop", "asleep"} => tty'[x].done < tty'[x].of
                 /\ Writing(x)' => x \in Writer
        BY <1>0, <1>1, <1>8, <1>9 DEF Calls, Writing, input
    <2>3. QED
        BY <2>1, <2>2 DEF Calls
<1>14. OutputKept'
    <2>1. WritersKept /\ Served
        BY <1>0, OutputIs
    <2>2. ASSUME NEW x \in Writer PROVE WriterKept(x)'
        <3>1. PICK n \in sent[x] .. Request : Kept(Out, x, sent[x], n) /\ (Writing(x) => n = tty[x].done)
            BY <2>1 DEF WritersKept, WriterKept
        <3>2. x \in TermProc /\ sent[x] \in Nat /\ n \in Nat /\ sent[x] <= n /\ sent'[x] = sent[x]
            BY <1>0, <1>1, OutIs
        <3>3. CASE x = p
            <4>1. n = tty[p].done /\ n + 1 \in sent[x] .. Request
                BY <1>2, <1>3, <3>1, <3>2, <3>3
            <4>2. Kept(Out', x, sent[x], n + 1)
                BY <1>4, <1>5, <1>7, <3>1, <3>2, <3>3, <4>1, KeptAppend
            <4>3. QED
                BY <1>9, <3>2, <3>3, <4>1, <4>2 DEF WriterKept
        <3>4. CASE x # p
            <4>1. Kept(Out', x, sent[x], n)
                BY <1>4, <1>5, <1>7, <3>1, <3>2, <3>4, KeptAppend
            <4>2. Writing(x)' => Writing(x) /\ tty'[x].done = tty[x].done
                BY <1>8, <1>9, <3>2, <3>4 DEF Writing
            <4>3. QED
                BY <3>1, <3>2, <4>1, <4>2 DEF WriterKept
        <3>5. QED
            BY <3>3, <3>4
    <2>3. \A x \in Writer : tty'[x].at # "full"
        BY <1>8, <1>9, <1>10 DEF TermProc
    <2>4. WritersKept'
        BY <2>2, <2>3 DEF WritersKept
    <2>5. Served'
        BY <1>7 DEF Served
    <2>6. QED
        BY <1>11, <2>4, <2>5, OutputNextIs
<1>15. QED
    BY <1>11, <1>12, <1>13, <1>14 DEF TermInv, TerminalOK

\* The transmitter has sent what it was given.
LEMMA SentKeeps == ASSUME TermInv, transmit PROVE TermInv'
<1>0. TermTypeOK /\ Lines /\ ReadersWoken /\ OutputKept /\ Calls
    BY DEF TermInv, TerminalOK
<1>1. /\ thr # <<>> /\ thr' = Tail(thr) /\ uirq' = TRUE /\ UNCHANGED <<input, rx, tx, uart, tty>>
      /\ sent' = IF Head(thr) = Echo THEN sent ELSE [sent EXCEPT ![Head(thr).by] = Head(thr).k]
    BY DEF transmit
<1>2. /\ Out \in Seq(Byte) /\ tx \in Seq(Byte) /\ thr \in Seq(Byte) /\ Len(thr) <= 1 /\ Echo \in Byte
      /\ \A p \in Writer : sent[p] \in Nat /\ sent[p] <= Request /\ p \in TermProc /\ Echo.by # p
    BY <1>0, OutIs
<1>3. Len(thr) = 1 /\ Head(thr) = thr[1] /\ Tail(thr) = <<>>
    <2>1. Len(thr) \in Nat \ {0}
        BY <1>1, <1>2, EmptySeq
    <2>2. Tail(thr) \in Seq(Byte) /\ Len(Tail(thr)) = Len(thr) - 1 /\ Head(thr) = thr[1]
        BY <1>1, <1>2, HeadTailProperties
    <2>3. Len(thr) = 1 /\ Len(Tail(thr)) = 0
        BY <1>2, <2>1, <2>2
    <2>4. QED
        BY <2>2, <2>3, EmptySeq
<1>4. Out # <<>> /\ Head(Out) = Head(thr) /\ Tail(Out) = tx /\ Out' = tx
    <2>1. /\ Len(Out) = 1 + Len(tx) /\ Len(tx) \in Nat
          /\ \A i \in 1 .. 1 + Len(tx) : Out[i] = IF i <= 1 THEN thr[i] ELSE tx[i - 1]
      <3>1. Len(tx) \in Nat
          BY <1>2, LenProperties
      <3>2. /\ Len(thr \o tx) = Len(thr) + Len(tx)
            /\ \A i \in 1 .. Len(thr) + Len(tx) : (thr \o tx)[i] = IF i <= Len(thr) THEN thr[i] ELSE tx[i - Len(thr)]
          BY <1>2, ConcatProperties
      <3>3. QED
          BY <1>3, <3>1, <3>2 DEF Out
    <2>2. Out # <<>> /\ Head(Out) = thr[1]
        BY <1>2, <2>1, HeadTailProperties
    <2>3. /\ Tail(Out) \in Seq(Byte) /\ Len(Tail(Out)) = Len(tx)
          /\ \A i \in 1 .. Len(tx) : Tail(Out)[i] = Out[i + 1]
        BY <1>2, <2>1, <2>2, HeadTailProperties
    <2>4. \A i \in 1 .. Len(tx) : i + 1 \in 1 .. 1 + Len(tx) /\ ~(i + 1 <= 1) /\ (i + 1) - 1 = i
        BY <2>1
    <2>5. \A i \in 1 .. Len(tx) : Tail(Out)[i] = tx[i]
        BY <2>1, <2>3, <2>4
    <2>6. Tail(Out) = tx
        BY <1>2, <2>3, <2>5, SeqEqual
    <2>7. Out' = tx
        BY <1>1, <1>2, <1>3, ConcatEmptySeq DEF Out
    <2>8. QED
        BY <1>3, <2>2, <2>6, <2>7
<1>5. Head(thr) \in Byte
    BY <1>1, <1>2, HeadTailProperties
<1>6. Head(thr) = Echo \/ (Head(thr).by \in Writer /\ Head(thr).k \in 1 .. Request /\ Head(thr) # Echo)
    BY <1>5 DEF Byte
<1>7. sent' \in [Writer -> 0 .. Request]
    BY <1>0, <1>1, <1>6, Rows DEF TermTypeOK
<1>8. \A p \in Writer : sent'[p] = IF Head(thr).by = p THEN Head(thr).k ELSE sent[p]
    BY <1>0, <1>1, <1>2, <1>6 DEF TermTypeOK
<1>9. TermTypeOK'
    <2>1. Tail(thr) \in Seq(Byte) /\ Len(Tail(thr)) <= 1
      <3>1. <<>> \in Seq(Byte) /\ Len(<<>>) <= 1
          BY EmptySeq
      <3>2. QED
          BY <1>3, <3>1
    <2>2. QED
        BY <1>0, <1>1, <1>7, <2>1 DEF TermTypeOK, input
<1>10. Lines' /\ ReadersWoken' /\ Calls'
    BY <1>0, <1>1 DEF Lines, Between, ReadersWoken, Calls, Held, Writing, Apart, input
<1>11. OutputKept'
    <2>1. WritersKept /\ Served
        BY <1>0, OutputIs
    <2>2. ASSUME NEW p \in Writer PROVE WriterKept(p)'
        <3>1. PICK n \in sent[p] .. Request : Kept(Out, p, sent[p], n) /\ (Writing(p) => n = tty[p].done)
            BY <2>1 DEF WritersKept, WriterKept
        <3>2. sent[p] \in Nat /\ n \in Nat /\ sent[p] <= n /\ Request \in Nat
            BY <1>0, <1>2, Rows
        <3>3. /\ Head(Out).by = p => Head(Out).k = sent[p] + 1 /\ sent[p] + 1 <= n /\ Kept(tx, p, sent[p] + 1, n)
              /\ Head(Out).by # p => Kept(tx, p, sent[p], n)
            BY <1>2, <1>4, <3>1, <3>2, KeptTail
        <3>4. Kept(Out', p, sent'[p], n) /\ n \in sent'[p] .. Request
            BY <1>4, <1>8, <3>1, <3>2, <3>3
        <3>5. Writing(p)' => n = tty'[p].done
            BY <1>1, <3>1 DEF Writing
        <3>6. QED
            BY <3>4, <3>5 DEF WriterKept
    <2>3. WritersKept'
        BY <1>1, <2>1, <2>2 DEF WritersKept
    <2>4. Served'
        BY <1>1 DEF Served
    <2>5. QED
        BY <1>9, <2>3, <2>4, OutputNextIs
<1>12. QED
    BY <1>9, <1>10, <1>11 DEF TermInv, TerminalOK

\* The interrupt starts the transmitter again.
LEMMA RestartKeeps == ASSUME TermInv, uartintr_output PROVE TermInv'
<1>0. /\ TermTypeOK /\ Lines /\ ReadersWoken /\ OutputKept /\ Calls /\ tty \in [TermProc -> Row]
      /\ tx \in Seq(Byte) /\ thr \in Seq(Byte) /\ Len(tx) <= TX_BUF
    BY Rows, OutIs DEF TermInv, TerminalOK, TermTypeOK
<1>1. /\ uart' = "none" /\ uartstart(tx) /\ UNCHANGED <<input, rx, sent, uirq>>
      /\ tty' = IF Started(tx) THEN Wake("full", "write") ELSE tty
    BY DEF uartintr_output
<1>2. /\ Out' = Out /\ tx' \in Seq(Byte) /\ thr' \in Seq(Byte) /\ Len(tx') <= TX_BUF /\ Len(thr') <= 1
      /\ (tx # <<>> => thr' # <<>>) /\ (~Started(tx) => tx' = tx) /\ (tx' # <<>> => tx # <<>>)
    BY <1>0, <1>1, StartIs DEF Out
<1>3. /\ tty' \in [TermProc -> Row]
      /\ \A x \in TermProc : /\ tty'[x].at = IF Started(tx) /\ tty[x].at = "full" THEN "write" ELSE tty[x].at
                             /\ tty'[x].done = tty[x].done /\ tty'[x].of = tty[x].of
    <2>1. CASE Started(tx)
        BY <1>0, <1>1, <2>1, Woken
    <2>2. CASE ~Started(tx)
        BY <1>0, <1>1, <2>2
    <2>3. QED
        BY <2>1, <2>2
<1>4. TermTypeOK'
    BY <1>0, <1>1, <1>2, <1>3 DEF TermTypeOK, Row, input
<1>5. Lines' /\ ReadersWoken'
    BY <1>0, <1>1, <1>3 DEF Lines, Between, Apart, ReadersWoken, input
<1>6. Calls'
    <2>1. ASSUME NEW x \in TermProc, NEW y \in TermProc, Held(x)', Held(y)' PROVE x = y
        BY <1>0, <1>3, <2>1 DEF Calls, Held
    <2>2. ASSUME NEW x \in TermProc
          PROVE  /\ tty'[x].at = "drop" => r' = w'
                 /\ tty'[x].at \in {"read", "in", "drop", "asleep"} => tty'[x].done < tty'[x].of
                 /\ Writing(x)' => x \in Writer
        BY <1>0, <1>1, <1>3 DEF Calls, Writing, input
    <2>3. QED
        BY <2>1, <2>2 DEF Calls
<1>7. OutputKept'
    <2>1. WritersKept /\ Served
        BY <1>0, OutputIs
    <2>2. ASSUME NEW p \in Writer PROVE WriterKept(p)' /\ (tty'[p].at = "full" => Len(tx') = TX_BUF)
        <3>1. WriterKept(p) /\ (tty[p].at = "full" => Len(tx) = TX_BUF) /\ p \in TermProc
            BY <1>0, <2>1, OutIs DEF WritersKept
        <3>2. sent'[p] = sent[p] /\ tty'[p].done = tty[p].done /\ (Writing(p)' => Writing(p))
            BY <1>1, <1>3, <3>1 DEF Writing
        <3>3. WriterKept(p)'
            BY <1>2, <3>1, <3>2 DEF WriterKept
        <3>4. QED
            BY <1>2, <1>3, <3>1, <3>3
    <2>3. WritersKept'
        BY <2>2 DEF WritersKept
    <2>4. Served'
        BY <1>2 DEF Served
    <2>5. QED
        BY <1>4, <2>3, <2>4, OutputNextIs
<1>8. QED
    BY <1>4, <1>5, <1>6, <1>7 DEF TermInv, TerminalOK

-----------------------------------------------------------------------------
LEMMA TermStarts == ASSUME TermInit PROVE TermInv
<1>1. TermTypeOK
    <2>1. tty \in [TermProc -> Row]
        <3>1. 0 \in 0 .. Request
            BY TerminalAssumption DEF TerminalAssumption
        <3>2. PICK S \in SUBSET TermProc : tty = [p \in TermProc |-> [Outside EXCEPT !.killed = p \in S]]
            BY DEF TermInit
        <3>3. ASSUME NEW p \in TermProc, NEW b \in BOOLEAN PROVE [Outside EXCEPT !.killed = b] \in Row
            BY <3>1 DEF Outside, Row
        <3>4. \A p \in TermProc : (p \in S) \in BOOLEAN
            OBVIOUS
        <3>5. QED
            BY <3>2, <3>3, <3>4
    <2>2. ring \in [0 .. INPUT_BUF - 1 -> Stored] /\ {r, w, e} \subseteq 0 .. UWIDTH - 1
        BY Sizes DEF TermInit, Stored, Index
    <2>3. rx \in Seq(Key) /\ {due, edit} \subseteq Seq(Stored) /\ {tx, thr} \subseteq Seq(Byte)
        BY EmptySeq DEF TermInit
    <2>4. Len(tx) <= TX_BUF /\ Len(thr) <= 1 /\ sent \in [Writer -> 0 .. Request]
        BY EmptySeq, TerminalAssumption DEF TermInit, TerminalAssumption
    <2>5. uirq \in BOOLEAN /\ uart \in {"none", "input", "kill", "output"}
        BY DEF TermInit
    <2>6. QED
        BY <2>1, <2>2, <2>3, <2>4, <2>5 DEF TermTypeOK, Row
<1>2. \A p \in TermProc : tty[p].at = "user"
    BY DEF TermInit, Outside
<1>3. Lines
    <2>1. r = 0 /\ w = 0 /\ e = 0 /\ due = <<>> /\ edit = <<>> /\ 0 \in Index
        BY Sizes DEF TermInit
    <2>2. Apart(0, 0) = 0
        BY <2>1, ApartNext
    <2>3. ring \in Ring
        BY <1>1 DEF TermTypeOK, Ring
    <2>4. View(ring, 0, 0) = <<>>
        BY <2>1, <2>2, <2>3, ViewIs
    <2>5. QED
        BY <2>1, <2>2, <2>4, BetweenIs, Sizes DEF Lines
<1>4. ReadersWoken /\ Calls
    BY <1>2 DEF ReadersWoken, Calls, Held, Writing
<1>5. OutputKept
    <2>1. tx = <<>> /\ thr = <<>> /\ Out = <<>> /\ \A p \in Writer : sent[p] = 0 /\ p \in TermProc
        BY DEF TermInit, Out, TermProc
    <2>2. ASSUME NEW p \in Writer PROVE WriterKept(p)
        <3>1. Kept(Out, p, 0, 0) /\ ~Writing(p) /\ 0 \in 0 .. Request
            BY <1>1, <1>2, <2>1, Rows DEF Kept, Writing
        <3>2. QED
            BY <2>1, <3>1 DEF WriterKept
    <2>3. WritersKept /\ Served
        BY <1>2, <2>1, <2>2 DEF WritersKept, Served
    <2>4. QED
        BY <1>1, <2>3, OutputIs
<1>6. QED
    BY <1>1, <1>3, <1>4, <1>5 DEF TermInv, TerminalOK

LEMMA TermStutters == ASSUME TermInv, UNCHANGED termvars PROVE TermInv'
BY PortSteps DEF termvars, input, output, TermInv, TerminalOK, TermTypeOK

LEMMA TermSteps == ASSUME TermInv, TermNext PROVE TermInv'
<1>1. CASE \E p \in TermProc :
              \/ Read(p) \/ (p \in Reader /\ kill_reader(p))
              \/ \E n \in 1 .. Request : p \in Reader /\ tty_read(p, n)
              \/ p \in Writer /\ tty_write(p)
              \/ uartputc(p) \/ uartputc_sleeps(p) \/ consolewrite_end(p)
    <2>1. PICK p \in TermProc :
              \/ Read(p) \/ (p \in Reader /\ kill_reader(p))
              \/ \E n \in 1 .. Request : p \in Reader /\ tty_read(p, n)
              \/ p \in Writer /\ tty_write(p)
              \/ uartputc(p) \/ uartputc_sleeps(p) \/ consolewrite_end(p)
        BY <1>1
    <2>2. 1 \in 1 .. Request
        BY TerminalAssumption DEF TerminalAssumption
    <2>3. CASE acquire(p) \/ consoleread_waits(p) \/ consoleread_sleeps(p)
        BY <2>2, <2>3, ReadKeeps
    <2>4. CASE consoleread(p)
        BY <2>4, TakeKeeps
    <2>5. CASE \E n \in 1 .. Request : tty_read(p, n)
        BY <2>5, ReadKeeps
    <2>6. CASE kill_reader(p) \/ uartputc_sleeps(p) \/ consolewrite_end(p)
        BY <2>6, WriteKeeps
    <2>7. CASE p \in Writer /\ tty_write(p)
        BY <2>7, BeginKeeps
    <2>8. CASE uartputc(p)
        BY <2>8, PutKeeps
    <2>9. QED
        BY <2>1, <2>3, <2>4, <2>5, <2>6, <2>7, <2>8 DEF Read
<1>2. "x" \in Key
    BY DEF Key
<1>3. CASE (\E c \in Key : receive(c)) \/ uartintr_keys_done \/ uartintr
    BY <1>2, <1>3, PortKeeps
<1>4. CASE transmit
    BY <1>4, SentKeeps
<1>5. CASE uartintr_output
    BY <1>5, RestartKeeps
<1>6. CASE Keys
    <2>1. CASE kill_end
        BY <1>2, <2>1, PortKeeps
    <2>2. CASE kill_line
        BY <1>2, <2>2, BackKeeps
    <2>3. ASSUME NEW c \in Key, consoleintr(c) PROVE TermInv'
        BY <2>3, StoreKeeps
    <2>4. ASSUME NEW c \in Key, consoleintr_drops(c) \/ consoleintr_line(c) PROVE TermInv'
        BY <2>4, PortKeeps
    <2>5. ASSUME NEW c \in Key, consoleintr_back(c) PROVE TermInv'
        BY <2>5, BackKeeps
    <2>6. QED
        BY <1>6, <2>1, <2>2, <2>3, <2>4, <2>5 DEF Keys
<1>7. QED
    BY <1>1, <1>3, <1>4, <1>5, <1>6 DEF TermNext, Serve

\* Input is read as it was typed and edited, output goes out as it was written, no reader
\* sleeps on a finished line and no writer on a ring with a free place, whatever the sizes of
\* the rings and of the indices, and the number of processes (console.c:58-178,
\* uart.c:86-194).
THEOREM ConsoleSound == TermSpec => []TerminalOK
<1>1. TermInit => TermInv
    BY TermStarts
<1>2. TermInv /\ [TermNext]_termvars => TermInv'
    BY TermSteps, TermStutters
<1>3. TermInv => TerminalOK
    BY DEF TermInv
<1>4. QED
    BY <1>1, <1>2, <1>3, PTL DEF TermSpec
=============================================================================
