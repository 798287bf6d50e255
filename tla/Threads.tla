------------------------------- MODULE Threads -------------------------------
(***************************************************************************)
(* The user-level thread library of mp1 (user/threads.c): cooperative      *)
(* threads in a circular doubly linked run queue, each with an array of    *)
(* tasks, switched with setjmp() and longjmp().                            *)
(*                                                                         *)
(* Only one context runs at a time and nothing preempts it, so a library   *)
(* call is one step up to the point where dispatch() chooses what to run   *)
(* next; each branch of dispatch() is a step of its own.  Client code (the *)
(* main program, thread functions and tasks) calls the library in any      *)
(* order its habits allow.  A context is named <<t, i>>: the task in slot  *)
(* i of thread t, or for i = -1 the thread's own function.                 *)
(*                                                                         *)
(* Memory is abstracted to what a longjmp() needs.  A jmp_buf holds the    *)
(* context that called setjmp().  A thread's function has a stack of its   *)
(* own.  All tasks of a thread start at the same stack address, the array  *)
(* task_stack_p inside struct thread (line 94): a task that starts writes  *)
(* its frames over those of the suspended tasks of that thread.  The       *)
(* frames a task leaves depend on its function only (one call site of      *)
(* thread_yield() per function, as in the test programs).                  *)
(***************************************************************************)
EXTENDS Integers, Sequences, FiniteSets

CONSTANTS Thr,        \* addresses malloc() may return for a struct thread
          Fn,         \* task functions
          Nil,        \* NULL, no function
          MAX_TASK,   \* length of the task arrays of struct thread
          Depth,      \* bound: unfinished tasks a client gives one thread
          Clients     \* the client programs there are: [threads, habits], the
                      \*   threads they create and what they also do

\* "self":  code of a thread assigns tasks to its own thread;
\* "exit":  a task calls thread_exit();
\* "flood": code of one thread assigns a task to another whose arrays are full.
ASSUME ThreadsAssumption ==
    /\ Nil \notin Thr /\ Nil \notin Fn
    /\ MAX_TASK \in Nat \ {0} /\ Depth \in 1 .. MAX_TASK
    /\ \A c \in Clients : c.threads \subseteq Thr /\ c.habits \subseteq {"self", "exit", "flood"}

VARIABLES
    current_thread,
    next, previous,   \* the run queue
    heap,             \* threads that are allocated
    th,               \* th[t]: buf_set, num_tasks, current_task, the two yield
                      \*   flags, and who called setjmp(env)
    task,             \* task[t][i]: task_buf_set, task_fp, task_env of slot i
    act,              \* act[t][i]: whether context <<t, i>> is "none", "ready"
                      \*   to start or has "live" frames
    top,              \* top[t]: function whose frames are on t's task stack
    pc,               \* "main", "code" (a thread's or task's function runs),
                      \*   "dispatch", "exited" or "wild" (undefined behaviour)
    ctx,              \* the context that runs when pc = "code"
    client            \* the client program

threadVars == <<current_thread, next, previous, heap, th, task, act, top, pc, ctx, client>>
ringVars == <<current_thread, next, previous, heap>>

Slots    == 0 .. MAX_TASK - 1
Ctx      == Thr \X (-1 .. MAX_TASK - 1)
NoCtx    == <<Nil, -1>>
NewThread == [buf_set |-> -1, num_tasks |-> -1, current_task |-> -1,
              thread_yield |-> 0, task_yield |-> 0, env |-> NoCtx]
NoTask   == [buf_set |-> 0, fp |-> Nil, env |-> NoCtx]
NoActs   == [i \in -1 .. MAX_TASK - 1 |-> "none"]

Queued == {t \in heap : next[t] # Nil}
Client == pc \in {"main", "code"}

ThreadInit ==
    /\ current_thread = Nil
    /\ next = [t \in Thr |-> Nil] /\ previous = [t \in Thr |-> Nil]
    /\ heap = {}
    /\ th = [t \in Thr |-> NewThread]
    /\ task = [t \in Thr |-> [i \in Slots |-> NoTask]]
    /\ act = [t \in Thr |-> NoActs]
    /\ top = [t \in Thr |-> Nil]
    /\ pc = "main" /\ ctx = NoCtx
    /\ client \in Clients

-----------------------------------------------------------------------------
(* Building the run queue *)

\* The task arrays of a new thread hold what malloc() returns; no slot above
\* num_tasks is read before thread_assign_task() writes it.
thread_create(t) ==
    /\ Client /\ t \in client.threads \ heap
    /\ heap' = heap \cup {t}
    /\ th' = [th EXCEPT ![t] = NewThread]
    /\ act' = [act EXCEPT ![t] = [NoActs EXCEPT ![-1] = "ready"]]
    /\ UNCHANGED <<current_thread, next, previous, task, top, pc, ctx>>

\* Mutant: the new thread is linked after the current one, not before it.
add_after_current(t) ==
    /\ Client /\ t \in heap \ Queued
    /\ LET c == IF current_thread = Nil THEN t ELSE current_thread IN
       /\ next' = IF c = t THEN [next EXCEPT ![t] = t]
                  ELSE [next EXCEPT ![t] = next[c], ![c] = t]
       /\ previous' = IF c = t THEN [previous EXCEPT ![t] = t]
                      ELSE [previous EXCEPT ![t] = c, ![next[c]] = t]
       /\ current_thread' = c
    /\ UNCHANGED <<heap, th, task, act, top, pc, ctx>>

\* Mutant: the old tail keeps its link to the current thread.
add_keeps_tail(t) ==
    /\ Client /\ t \in heap \ Queued
    /\ LET c == IF current_thread = Nil THEN t ELSE current_thread IN
       /\ next' = IF c = t THEN [next EXCEPT ![t] = t] ELSE [next EXCEPT ![t] = c]
       /\ previous' = IF c = t THEN [previous EXCEPT ![t] = t]
                      ELSE [previous EXCEPT ![t] = previous[c], ![c] = t]
       /\ current_thread' = c
    /\ UNCHANGED <<heap, th, task, act, top, pc, ctx>>

thread_add_runqueue(t) ==
    /\ Client /\ t \in heap \ Queued
    /\ \/ /\ current_thread = Nil
          /\ current_thread' = t
          /\ next' = [next EXCEPT ![t] = t]
          /\ previous' = [previous EXCEPT ![t] = t]
       \/ /\ current_thread # Nil
          /\ LET last == previous[current_thread] IN
             /\ next' = [next EXCEPT ![t] = current_thread, ![last] = t]
             /\ previous' = [previous EXCEPT ![t] = last, ![current_thread] = t]
          /\ UNCHANGED current_thread
    /\ UNCHANGED <<heap, th, task, act, top, pc, ctx>>

thread_start_threading ==
    /\ pc = "main"
    /\ pc' = IF current_thread = Nil THEN "exited" ELSE "dispatch"
    /\ UNCHANGED <<ringVars, th, task, act, top, ctx>>

-----------------------------------------------------------------------------
(* Tasks *)

MayAssign(t) == t \in heap /\ (t # ctx[1] \/ "self" \in client.habits)

thread_assign_task(t, f) ==
    /\ Client /\ MayAssign(t)
    /\ th[t].num_tasks + 1 \in 0 .. Depth - 1
    /\ LET n == th[t].num_tasks + 1 IN
       /\ th' = [th EXCEPT ![t].num_tasks = n]
       /\ task' = [task EXCEPT ![t][n] = [NoTask EXCEPT !.buf_set = -1, !.fp = f]]
       /\ act' = [act EXCEPT ![t][n] = "ready"]
    /\ UNCHANGED <<ringVars, top, pc, ctx>>

\* No check against the length of the arrays: task_buf_set[MAX_TASK] is the
\* field num_tasks, which the last store sets to -1.
thread_assign_task_full(t) ==
    /\ Client /\ t \in heap /\ t # ctx[1] /\ "flood" \in client.habits
    /\ th[t].num_tasks + 1 = MAX_TASK
    /\ th' = [th EXCEPT ![t].num_tasks = -1]
    /\ UNCHANGED <<ringVars, task, act, top, pc, ctx>>

wild ==
    /\ pc' = "wild"
    /\ UNCHANGED <<ringVars, th, task, act, top, ctx>>

-----------------------------------------------------------------------------
(* Giving up the processor *)

schedule ==
    /\ current_thread' = next[current_thread]
    /\ pc' = "dispatch" /\ ctx' = NoCtx
    /\ UNCHANGED <<next, previous, heap>>

TaskBranch == th[current_thread].num_tasks >= 0 /\ th[current_thread].thread_yield = 0

\* index is current_task; at -1 the jmp_buf falls in task_stack_p[], which is
\* never read, and the flag in the last jmp_buf.
thread_yield_task ==
    /\ pc = "code" /\ TaskBranch
    /\ LET t == current_thread
           index == th[t].current_task IN
       /\ th' = [th EXCEPT ![t].task_yield = 1]
       /\ task' = IF index < 0 THEN task
                  ELSE [task EXCEPT ![t][index].env = ctx, ![t][index].buf_set = 1]
    /\ schedule
    /\ UNCHANGED <<act, top>>

\* Mutant: the thread's context is saved, the flag that says so is not set.
yield_thread_unset ==
    /\ pc = "code" /\ ~TaskBranch
    /\ th' = [th EXCEPT ![current_thread].thread_yield = 0,
                        ![current_thread].env = ctx]
    /\ schedule
    /\ UNCHANGED <<task, act, top>>

thread_yield_thread ==
    /\ pc = "code" /\ ~TaskBranch
    /\ th' = [th EXCEPT ![current_thread].thread_yield = 0,
                        ![current_thread].env = ctx,
                        ![current_thread].buf_set = 1]
    /\ schedule
    /\ UNCHANGED <<task, act, top>>

\* thread_exit(): the current thread leaves the run queue and is freed; what a
\* freed thread's memory holds is forgotten.
unlink ==
    LET t == current_thread IN
    /\ heap' = heap \ {t}
    /\ th' = [th EXCEPT ![t] = NewThread]
    /\ task' = [task EXCEPT ![t] = [i \in Slots |-> NoTask]]
    /\ act' = [act EXCEPT ![t] = NoActs]
    /\ top' = [top EXCEPT ![t] = Nil]
    /\ ctx' = NoCtx
    /\ \/ /\ next[t] # t
          /\ next' = [next EXCEPT ![previous[t]] = next[t], ![t] = Nil]
          /\ previous' = [previous EXCEPT ![next[t]] = previous[t], ![t] = Nil]
          /\ current_thread' = next[t]
          /\ pc' = "dispatch"
       \/ /\ next[t] = t
          /\ next' = [next EXCEPT ![t] = Nil]
          /\ previous' = [previous EXCEPT ![t] = Nil]
          /\ current_thread' = Nil
          /\ pc' = "exited"

\* Code of the current thread calls thread_exit().
thread_exit ==
    /\ pc = "code"
    /\ ctx[2] = -1 \/ "exit" \in client.habits
    /\ unlink

\* A task that calls it runs on frames that reach over task_stack[], whose
\* elements thread_exit() passes to free().
thread_exit_frees_frames ==
    /\ pc = "code" /\ ctx[2] >= 0 /\ "exit" \in client.habits
    /\ wild

\* The thread's own function returns to dispatch(), which calls thread_exit().
function_return ==
    /\ pc = "code" /\ ctx[2] = -1
    /\ unlink

\* A task's function returns into the loop of dispatch().
task_return ==
    /\ pc = "code" /\ ctx[2] >= 0
    /\ act' = [act EXCEPT ![ctx[1]][ctx[2]] = "none"]
    /\ th' = [th EXCEPT ![current_thread].num_tasks = @ - 1]
    /\ pc' = "dispatch" /\ ctx' = NoCtx
    /\ UNCHANGED <<ringVars, task, top>>

-----------------------------------------------------------------------------
(* dispatch() *)

\* longjmp() to a saved context: back to its frames if they are still there.
longjmp(env) ==
    /\ IF /\ env \in Ctx /\ act[env[1]][env[2]] = "live"
          /\ env[2] >= 0 => top[env[1]] = task[env[1]][env[2]].fp
       THEN pc' = "code" ELSE pc' = "wild"
    /\ ctx' = env

dispatch_resume_task ==
    LET t == current_thread
        i == th[t].num_tasks IN
    /\ pc = "dispatch" /\ i >= 0 /\ task[t][i].buf_set = 1
    /\ th' = [th EXCEPT ![t].current_task = i]
    /\ longjmp(task[t][i].env)    \* thread_yield() saves the context again
    /\ UNCHANGED <<ringVars, task, act, top>>

\* Mutant: the task that has waited longest starts first.
dispatch_start_oldest ==
    LET t == current_thread
        n == th[t].num_tasks IN
    /\ pc = "dispatch"
    /\ \E i \in 0 .. n :
        /\ task[t][n].buf_set = -1 /\ task[t][i].buf_set = -1
        /\ \A j \in 0 .. i - 1 : task[t][j].buf_set # -1
        /\ th' = [th EXCEPT ![t].current_task = i]
        /\ task' = [task EXCEPT ![t][i].buf_set = 0]
        /\ act' = [act EXCEPT ![t][i] = "live"]
        /\ top' = [top EXCEPT ![t] = task[t][i].fp]
        /\ pc' = "code" /\ ctx' = <<t, i>>
        /\ UNCHANGED ringVars

dispatch_start_task ==
    LET t == current_thread
        i == th[t].num_tasks IN
    /\ pc = "dispatch" /\ i >= 0 /\ task[t][i].buf_set = -1
    /\ th' = [th EXCEPT ![t].current_task = i]
    /\ task' = [task EXCEPT ![t][i].buf_set = 0]
    /\ act' = [act EXCEPT ![t][i] = "live"]
    /\ top' = [top EXCEPT ![t] = task[t][i].fp]
    /\ pc' = "code" /\ ctx' = <<t, i>>
    /\ UNCHANGED ringVars

dispatch_skip_task ==
    LET t == current_thread
        i == th[t].num_tasks IN
    /\ pc = "dispatch" /\ i >= 0 /\ task[t][i].buf_set = 0
    /\ th' = [th EXCEPT ![t].current_task = i, ![t].num_tasks = i - 1]
    /\ UNCHANGED <<ringVars, task, act, top, pc, ctx>>

\* Both branches of line 107: after a task has yielded, the flag thread_yield
\* is left alone.
FlagsOnRun(t) ==
    [th[t] EXCEPT !.current_task = -1, !.buf_set = 0, !.task_yield = 0,
                  !.thread_yield = IF th[t].task_yield = 1 THEN @ ELSE 1]

dispatch_resume_thread ==
    LET t == current_thread IN
    /\ pc = "dispatch" /\ th[t].num_tasks < 0 /\ th[t].buf_set = 1
    /\ th' = [th EXCEPT ![t] = FlagsOnRun(t)]
    /\ longjmp(th[t].env)
    /\ UNCHANGED <<ringVars, task, act, top>>

dispatch_start_thread ==
    LET t == current_thread IN
    /\ pc = "dispatch" /\ th[t].num_tasks < 0 /\ th[t].buf_set = -1
    /\ th' = [th EXCEPT ![t] = FlagsOnRun(t)]
    /\ act' = [act EXCEPT ![t][-1] = "live"]
    /\ pc' = "code" /\ ctx' = <<t, -1>>
    /\ UNCHANGED <<ringVars, task, top>>

dispatch_exit ==
    /\ pc = "dispatch" /\ th[current_thread].num_tasks < 0
    /\ th[current_thread].buf_set = 0
    /\ unlink

-----------------------------------------------------------------------------
leave == \/ thread_yield_task \/ thread_yield_thread \/ task_return
         \/ function_return \/ thread_exit

dispatch == \/ dispatch_resume_task \/ dispatch_start_task \/ dispatch_skip_task
            \/ dispatch_resume_thread \/ dispatch_start_thread \/ dispatch_exit

\* The process has ended with exit(0), or runs on overwritten memory.
over == pc \in {"exited", "wild"} /\ UNCHANGED threadVars

ThreadNext ==
  /\ \/ \E t \in Thr : \/ thread_create(t) \/ thread_add_runqueue(t)
                       \/ thread_assign_task_full(t)
                       \/ \E f \in Fn : thread_assign_task(t, f)
     \/ thread_start_threading
     \/ thread_yield_task \/ thread_yield_thread
     \/ task_return \/ function_return \/ thread_exit
     \/ thread_exit_frees_frames
     \/ dispatch_resume_task \/ dispatch_start_task \/ dispatch_skip_task
     \/ dispatch_resume_thread \/ dispatch_start_thread \/ dispatch_exit
     \/ over
  /\ UNCHANGED client

ThreadSpec == ThreadInit /\ [][ThreadNext]_threadVars

\* The program starts its threads; code that runs yields, returns or exits in
\* the end; dispatch() is straight-line code.
FairSpec == /\ ThreadSpec
            /\ WF_threadVars(thread_start_threading /\ UNCHANGED client)
            /\ WF_threadVars(leave /\ UNCHANGED client)
            /\ WF_threadVars(dispatch /\ UNCHANGED client)

-----------------------------------------------------------------------------
(* Properties *)

\* Every variable has its type.
TypeOK ==
    /\ current_thread \in Thr \cup {Nil}
    /\ next \in [Thr -> Thr \cup {Nil}] /\ previous \in [Thr -> Thr \cup {Nil}]
    /\ heap \subseteq Thr
    /\ th \in [Thr -> [buf_set : {-1, 0, 1}, num_tasks : -1 .. MAX_TASK - 1,
                       current_task : -1 .. MAX_TASK - 1,
                       thread_yield : {0, 1}, task_yield : {0, 1},
                       env : Ctx \cup {NoCtx}]]
    /\ task \in [Thr -> [Slots -> [buf_set : {-1, 0, 1}, fp : Fn \cup {Nil},
                                   env : Ctx \cup {NoCtx}]]]
    /\ act \in [Thr -> [-1 .. MAX_TASK - 1 -> {"none", "ready", "live"}]]
    /\ top \in [Thr -> Fn \cup {Nil}]
    /\ pc \in {"main", "code", "dispatch", "exited", "wild"}
    /\ ctx \in Ctx \cup {NoCtx}
    /\ client \in Clients

\* A client written like the test programs.
Proper == client.habits = {}

\* The k threads that follow the links next from current_thread.
Round(k) == LET w[i \in 1 .. k] == IF i = 1 THEN current_thread ELSE next[w[i - 1]]
           IN  w

\* thread_add_runqueue() and thread_exit() keep the run queue one circle: the
\* walk from current_thread along next meets every queued thread once and comes
\* back, previous is the inverse of next, no link leads to freed memory, and
\* the code that runs belongs to current_thread.
RingOK ==
    LET n == Cardinality(Queued)
        w == Round(n) IN
    /\ (current_thread = Nil) <=> (Queued = {})
    /\ n > 0 => /\ {w[i] : i \in 1 .. n} = Queued
                /\ next[w[n]] = current_thread
                /\ \A t \in Queued : previous[next[t]] = t
    /\ pc = "code" => ctx[1] = current_thread

\* A yield returns: the context of every thread function and task that has
\* started and does not run is in the jmp_buf dispatch() will use for it, and
\* the flag says so.
Resumable ==
    \A t \in Queued : \A i \in -1 .. MAX_TASK - 1 :
        act[t][i] = "live" /\ ~(pc = "code" /\ ctx = <<t, i>>) =>
            IF i = -1 THEN th[t].buf_set = 1 /\ th[t].env = <<t, i>>
                      ELSE task[t][i].buf_set = 1 /\ task[t][i].env = <<t, i>>

\* No task is forgotten: a task that was assigned and has not returned is in a
\* slot that dispatch() will still reach.
Kept ==
    \A t \in heap : \A i \in Slots : act[t][i] # "none" => i <= th[t].num_tasks

\* The structures of the library: arrays and flags, the circle, the tasks.
ThreadsOK == TypeOK /\ RingOK /\ (Proper => Kept)

\* Nothing that has started is lost, and longjmp() only goes back to frames
\* that are still on the stack, whatever the order of yields, returns and new
\* tasks: threads.c:51-140.
ContextsKept == Proper => Resumable /\ pc # "wild"

\* The library as a whole: turns in run queue order, tasks last come first
\* served, a thread's function only when its tasks are done.  The clients with
\* habits are left out: they stay where the abstract library begins.
Abstract ==
    INSTANCE Coroutines WITH
        Threads <- Thr, Fns <- Fn,
        runq <- IF Proper THEN Round(Cardinality(Queued)) ELSE <<>>,
        tasks <- [t \in Thr |-> IF ~Proper THEN <<>>
                    ELSE [k \in 1 .. th[t].num_tasks + 1 |-> task[t][k - 1].fp]],
        pc <- IF ~Proper THEN "main"
              ELSE CASE pc = "code" -> "run" [] pc = "dispatch" -> "pick" [] OTHER -> pc,
        level <- IF Proper /\ pc = "code" THEN ctx[2] + 1 ELSE 0
LCFS == Abstract!Spec

\* A thread in the run queue gets its turn or leaves, as long as the code that
\* runs gives up the processor: nobody overtakes it for ever, also not a client
\* whose tasks call thread_exit() or overflow the arrays.
Served ==
    \A t \in Thr : (t \in Queued) ~>
        (t \notin Queued \/ (pc = "code" /\ ctx[1] = t) \/ pc = "wild")
=============================================================================
