----------------------------- MODULE Coroutines -----------------------------
(***************************************************************************)
(* What the user-level thread library promises: threads take turns in the  *)
(* order in which they joined the run queue, and a thread whose turn it is *)
(* first serves the tasks assigned to it, the last one assigned first, and *)
(* runs its own function only when no task is left.                        *)
(***************************************************************************)
EXTENDS Naturals, Sequences, SequencesExt

CONSTANTS Threads, Fns

VARIABLES
    runq,    \* threads in the order of their turns; its head has the turn
    tasks,   \* tasks[t]: unfinished tasks of t, the newest last
    pc,      \* "main", "pick", "run" or "exited"
    level    \* which code runs: the level-th task of the head, 0 its function

vars == <<runq, tasks, pc, level>>

Init ==
    /\ runq = <<>>
    /\ tasks = [t \in Threads |-> <<>>]
    /\ pc = "main" /\ level = 0

Add(t) ==
    /\ pc \in {"main", "run"} /\ ~Contains(runq, t)
    /\ runq' = Append(runq, t)
    /\ UNCHANGED <<tasks, pc, level>>

Assign(t, f) ==
    /\ pc \in {"main", "run"}
    /\ tasks' = [tasks EXCEPT ![t] = Append(@, f)]
    /\ UNCHANGED <<runq, pc, level>>

Start ==
    /\ pc = "main"
    /\ pc' = IF runq = <<>> THEN "exited" ELSE "pick"
    /\ UNCHANGED <<runq, tasks, level>>

\* The newest task of the head, or its function if it has none.
Pick ==
    /\ pc = "pick"
    /\ level' = Len(tasks[Head(runq)])
    /\ pc' = "run"
    /\ UNCHANGED <<runq, tasks>>

Yield ==
    /\ pc = "run"
    /\ runq' = Append(Tail(runq), Head(runq))
    /\ pc' = "pick" /\ level' = 0
    /\ UNCHANGED tasks

Finish ==
    /\ pc = "run" /\ level > 0
    /\ tasks' = [tasks EXCEPT ![Head(runq)] = RemoveAt(@, level)]
    /\ pc' = "pick" /\ level' = 0
    /\ UNCHANGED runq

\* The head leaves: its function returned, or its code called thread_exit().
Leave ==
    /\ pc = "run"
    /\ runq' = Tail(runq)
    /\ tasks' = [tasks EXCEPT ![Head(runq)] = <<>>]
    /\ pc' = IF Len(runq) = 1 THEN "exited" ELSE "pick"
    /\ level' = 0

Next ==
    \/ \E t \in Threads : Add(t) \/ (\E f \in Fns : Assign(t, f))
    \/ Start \/ Pick \/ Yield \/ Finish \/ Leave

Spec == Init /\ [][Next]_vars
=============================================================================
