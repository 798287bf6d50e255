--------------------------- MODULE ThreadsProofs ---------------------------
(***************************************************************************)
(* Proofs about the thread library of mp1 (Threads), for any number of     *)
(* threads and task functions, any length of the task arrays and any       *)
(* clients.                                                                *)
(*                                                                         *)
(* The argument: the run queue is at any time the circle of one sequence   *)
(* of threads (Ring), to which thread_add_runqueue() appends, which        *)
(* schedule() rotates and of which thread_exit() takes the head off.  The  *)
(* context that runs is the one that current_task names (Running), so what *)
(* thread_yield() saves is found again under the same index (Saved), and   *)
(* the flags say for every task of a Proper client whether it is to be     *)
(* started or resumed (Tasks).  What is on the task stack is left by the   *)
(* task that started last, so going back to an older one is safe if both   *)
(* run the same function (Frames).  With the sequence of Ring as its queue *)
(* every step of a library call or of dispatch() is a step of Coroutines.  *)
(***************************************************************************)
EXTENDS Threads, FiniteSetTheorems, SequenceTheorems, WellFoundedInduction, TLAPS

USE ThreadsAssumption DEF ThreadsAssumption

-----------------------------------------------------------------------------
(* The inductive invariant.                                                *)

\* The sequence s is the run queue, in the order of the turns.
IsRing(s) ==
    /\ s \in Seq(Thr)
    /\ \A i, j \in 1 .. Len(s) : s[i] = s[j] => i = j
    /\ \A t \in Thr : t \in Queued <=> \E i \in 1 .. Len(s) : s[i] = t
    /\ Len(s) = 0 => current_thread = Nil
    /\ Len(s) > 0 => /\ current_thread = s[1]
                     /\ next[s[Len(s)]] = s[1] /\ previous[s[1]] = s[Len(s)]
    /\ \A i \in 1 .. Len(s) - 1 : next[s[i]] = s[i + 1] /\ previous[s[i + 1]] = s[i]

\* Nothing links to memory that is not allocated, and no task is in it.
Ring ==
    /\ \E s \in Seq(Thr) : IsRing(s)
    /\ \A t \in Thr \ heap : next[t] = Nil /\ th[t].num_tasks = -1
    /\ pc \in {"code", "dispatch"} => current_thread # Nil

\* The code that runs is where the current thread says.
Running ==
    /\ pc \notin {"code", "wild"} => ctx = NoCtx
    /\ pc = "code" => /\ ctx \in Ctx /\ ctx[1] = current_thread
                      /\ ctx[2] = th[current_thread].current_task
                      /\ ctx[2] <= th[current_thread].num_tasks
                      /\ act[current_thread][ctx[2]] = "live"
                      /\ Proper => ctx[2] = th[current_thread].num_tasks

\* A jmp_buf has the context it is for, and the flag thread_yield is set while the
\* thread's own function runs, at most.
Saved ==
    /\ \A t \in Thr : th[t].env \in {NoCtx, <<t, -1>>}
    /\ \A t \in Thr : \A i \in Slots : task[t][i].env \in {NoCtx, <<t, i>>}
    /\ \A t \in Thr : th[t].thread_yield = 1 => pc = "wild" \/ (pc = "code" /\ ctx = <<t, -1>>)

Runs(t, i) == pc = "code" /\ ctx = <<t, i>>

\* The tasks up to num_tasks are those that are assigned and have not returned, and the
\* flags tell which context has not started and which has been saved.
Tasks(t) ==
    /\ act[t][-1] \in {"ready", "live"}
    /\ act[t][-1] = "ready" => th[t].buf_set = -1
    /\ act[t][-1] = "live" /\ ~Runs(t, -1) => th[t].buf_set = 1 /\ th[t].env = <<t, -1>>
    /\ \A i \in Slots :
          /\ act[t][i] # "none" <=> i <= th[t].num_tasks
          /\ act[t][i] = "ready" => task[t][i].buf_set = -1
          /\ act[t][i] = "live" /\ ~Runs(t, i) =>
                task[t][i].buf_set = 1 /\ task[t][i].env = <<t, i>>

ThreadsInv == TypeOK /\ Ring /\ Running /\ Saved /\ (Proper => \A t \in heap : Tasks(t))

\* The unfinished tasks of a thread run the same function.  All of them start on the same
\* memory (threads.c:94), so those of different functions destroy each other's frames.
SameFunction == \A t \in Thr : \A i, j \in 0 .. th[t].num_tasks : task[t][i].fp = task[t][j].fp

\* The frames on the task stack of a thread are good for every task that has started.
Frames ==
    Proper => /\ pc # "wild"
              /\ \A t \in heap : \A i \in Slots : act[t][i] = "live" => top[t] = task[t][i].fp

-----------------------------------------------------------------------------
(* The circle and the walk along it.                                       *)

LEMMA Least ==
    ASSUME NEW S, S \subseteq Nat, S # {}
    PROVE  \E i \in S : \A j \in S : i <= j
<1> DEFINE R == {ss \in Nat \X Nat : ss[1] < ss[2]}
<1>1. IsWellFoundedOn(R, Nat)
    BY NatLessThanWellFounded DEF OpToRel
<1> HIDE DEF R
<1>2. PICK i \in S : \A j \in S : ~(<<j, i>> \in R)
    BY <1>1, WFMin
<1>3. ASSUME NEW j \in S PROVE i <= j
    <2>1. i \in Nat /\ j \in Nat /\ ~(<<j, i>> \in R)
        BY <1>2
    <2>2. QED
        BY <2>1 DEF R
<1>4. QED
    BY <1>3

LEMMA RingSize ==
    ASSUME TypeOK, NEW s, IsRing(s)
    PROVE  Cardinality(Queued) = Len(s) /\ Len(s) \in Nat /\ IsFiniteSet(Queued)
<1>1. s \in Seq(Thr) /\ Len(s) \in Nat /\ s \in [1 .. Len(s) -> Thr]
    BY DEF IsRing
<1>2. s \in [1 .. Len(s) -> Queued]
    BY <1>1 DEF IsRing
<1>3. \A t \in Queued : \E i \in 1 .. Len(s) : s[i] = t
    <2>1. Queued \subseteq Thr
        BY DEF Queued, TypeOK
    <2>2. QED
        BY <2>1 DEF IsRing
<1>4. s \in Bijection(1 .. Len(s), Queued)
    BY <1>1, <1>2, <1>3 DEF IsRing, Bijection, Injection, Surjection, IsInjective
<1>5. ExistsBijection(1 .. Len(s), Queued)
    BY <1>4 DEF ExistsBijection
<1>6. QED
    BY <1>1, <1>5, FS_CountingElements, FS_NatBijection

\* The walk of n threads from current_thread is the circle.
LEMMA RoundIsRing ==
    ASSUME TypeOK, NEW s, IsRing(s)
    PROVE  Round(Cardinality(Queued)) = s
<1> DEFINE n == Len(s)
           w == Round(n)
<1>1. s \in Seq(Thr) /\ n \in Nat /\ s = [i \in 1 .. n |-> s[i]] /\ Cardinality(Queued) = n
    BY RingSize DEF IsRing
<1>2. s = [i \in 1 .. n |-> IF i = 1 THEN current_thread ELSE next[s[i - 1]]]
    <2>1. ASSUME NEW i \in 1 .. n
          PROVE  s[i] = IF i = 1 THEN current_thread ELSE next[s[i - 1]]
        <3>1. CASE i = 1
            BY <1>1, <3>1 DEF IsRing
        <3>2. CASE i # 1
            <4>1. i - 1 \in 1 .. n - 1 /\ (i - 1) + 1 = i
                BY <1>1, <3>2
            <4>2. QED
                BY <4>1, <3>2 DEF IsRing
        <3>3. QED
            BY <3>1, <3>2
    <2>2. QED
        BY <1>1, <2>1
<1>3. w = [i \in 1 .. n |-> IF i = 1 THEN current_thread ELSE next[w[i - 1]]]
    BY <1>2 DEF Round
<1> HIDE DEF w
<1>4. \A i \in 1 .. n : w[i] = s[i]
    <2> DEFINE B == {i \in 1 .. n : w[i] # s[i]}
    <2>1. SUFFICES ASSUME B # {} PROVE FALSE
        OBVIOUS
    <2>2. B \subseteq Nat
        BY <1>1
    <2> HIDE DEF B
    <2>3. PICK i \in B : \A j \in B : i <= j
        BY <2>1, <2>2, Least
    <2>4. i \in 1 .. n /\ w[i] # s[i]
        BY <2>3 DEF B
    <2>5. i # 1
        BY <1>2, <1>3, <2>4
    <2>6. i - 1 \in 1 .. n /\ i - 1 < i
        BY <1>1, <2>4, <2>5
    <2>7. w[i - 1] = s[i - 1]
        BY <2>3, <2>6 DEF B
    <2>8. w[i] = next[w[i - 1]] /\ s[i] = next[s[i - 1]]
        BY <1>2, <1>3, <2>4, <2>5
    <2>9. QED
        BY <2>4, <2>7, <2>8
<1>5. w = s
    BY <1>1, <1>3, <1>4
<1>6. QED
    BY <1>1, <1>5 DEF w

-----------------------------------------------------------------------------
(* What the operations on the run queue do to the circle.                  *)

LEMMA RingStays ==
    ASSUME NEW s, IsRing(s), UNCHANGED <<current_thread, next, previous>>,
           heap' = heap \/ \E t \in Thr : (heap' = heap \cup {t} /\ next[t] = Nil)
    PROVE  IsRing(s)'
<1>1. Queued' = Queued
    BY DEF Queued
<1>2. QED
    BY <1>1 DEF IsRing

LEMMA RingAppends ==
    ASSUME TypeOK, NEW s, IsRing(s), NEW t \in Thr, thread_add_runqueue(t)
    PROVE  IsRing(Append(s, t))'
<1> DEFINE n == Len(s)
           r == Append(s, t)
<1>1. /\ s \in Seq(Thr) /\ n \in Nat /\ r \in Seq(Thr) /\ Len(r) = n + 1 /\ r[n + 1] = t
      /\ \A i \in 1 .. n : r[i] = s[i] /\ s[i] \in Thr
    BY DEF IsRing
<1>2. t \in heap /\ t \notin Queued /\ heap' = heap
    BY DEF thread_add_runqueue
<1>3. \A i \in 1 .. n : s[i] # t /\ s[i] \in Queued
    BY <1>1, <1>2 DEF IsRing
<1>4. /\ current_thread' = r[1] /\ next'[t] = r[1] /\ previous'[r[1]] = t
      /\ n > 0 => next'[s[n]] = t /\ previous'[t] = s[n]
      /\ \A i \in 1 .. n - 1 : next'[s[i]] = s[i + 1] /\ previous'[s[i + 1]] = s[i]
      /\ \A u \in Thr : u # t /\ (\A i \in 1 .. n : u # s[i]) => next'[u] = next[u]
    <2>1. CASE n = 0
        <3>1. current_thread = Nil /\ r[1] = t
            BY <1>1, <2>1 DEF IsRing
        <3>2. current_thread' = t /\ next' = [next EXCEPT ![t] = t]
                  /\ previous' = [previous EXCEPT ![t] = t]
            BY <3>1 DEF thread_add_runqueue
        <3>3. QED
            BY <2>1, <3>1, <3>2 DEF TypeOK
    <2>2. CASE n > 0
        <3>1. /\ 1 \in 1 .. n /\ n \in 1 .. n /\ current_thread = s[1] /\ r[1] = s[1]
              /\ previous[s[1]] = s[n] /\ s[1] # Nil
            BY <1>1, <2>2 DEF IsRing
        <3>2. /\ next' = [next EXCEPT ![t] = s[1], ![s[n]] = t]
              /\ previous' = [previous EXCEPT ![t] = s[n], ![s[1]] = t]
              /\ current_thread' = s[1]
            BY <3>1 DEF thread_add_runqueue
        <3>3. s[1] # t /\ s[n] # t /\ s[1] \in Thr /\ s[n] \in Thr
            BY <1>1, <1>3, <3>1
        <3>4. ASSUME NEW i \in 1 .. n - 1
              PROVE  next'[s[i]] = s[i + 1] /\ previous'[s[i + 1]] = s[i]
            <4>5. next[s[i]] = s[i + 1] /\ previous[s[i + 1]] = s[i]
                BY DEF IsRing
            <4>6. i \in 1 .. n /\ i + 1 \in 1 .. n /\ i # n /\ i + 1 # 1
                BY <1>1, <2>2
            <4>1. /\ i \in 1 .. n /\ i + 1 \in 1 .. n /\ i # n /\ i + 1 # 1
                  /\ next[s[i]] = s[i + 1] /\ previous[s[i + 1]] = s[i]
                BY <4>5, <4>6
            <4>2. s[i] # s[n] /\ s[i + 1] # s[1]
                BY <3>1, <4>1 DEF IsRing
            <4>3. s[i] # t /\ s[i + 1] # t /\ s[i] \in Thr /\ s[i + 1] \in Thr
                BY <1>1, <1>3, <4>1
            <4>4. QED
                BY <3>2, <4>1, <4>2, <4>3 DEF TypeOK
        <3>5. next'[t] = s[1] /\ previous'[s[1]] = t /\ next'[s[n]] = t /\ previous'[t] = s[n]
            BY <3>2, <3>3 DEF TypeOK
        <3>6. ASSUME NEW u \in Thr, u # t, \A i \in 1 .. n : u # s[i] PROVE next'[u] = next[u]
            BY <3>1, <3>2, <3>6 DEF TypeOK
        <3>7. QED
            BY <3>1, <3>2, <3>4, <3>5, <3>6
    <2>3. QED
        BY <1>1, <2>1, <2>2
<1> HIDE DEF r
<1>5. \A i, j \in 1 .. n + 1 : r[i] = r[j] => i = j
    <2>1. \A i \in 1 .. n + 1 : i \in 1 .. n \/ i = n + 1
        BY <1>1
    <2>2. \A i, j \in 1 .. n : s[i] = s[j] => i = j
        BY DEF IsRing
    <2>3. QED
        BY <1>1, <1>3, <2>1, <2>2
<1>6. \A i \in 1 .. n : r[i + 1] = IF i = n THEN t ELSE s[i + 1]
    <2>1. \A i \in 1 .. n : i = n \/ i + 1 \in 1 .. n
        BY <1>1
    <2>2. QED
        BY <1>1, <2>1
<1>7. \A i \in 1 .. n : next'[r[i]] = r[i + 1] /\ previous'[r[i + 1]] = r[i]
    <2>1. \A i \in 1 .. n : i = n \/ i \in 1 .. n - 1
        BY <1>1
    <2>2. \A i \in 1 .. n : n > 0
        BY <1>1
    <2>3. QED
        BY <1>1, <1>4, <1>6, <2>1, <2>2
<1>8. ASSUME NEW u \in Thr PROVE u \in Queued' <=> \E i \in 1 .. n + 1 : r[i] = u
    <2>1. CASE u = t
        <3>1. n + 1 \in 1 .. n + 1
            BY <1>1
        <3>2. next'[t] # Nil
            <4>1. 1 \in 1 .. n + 1 /\ r[1] \in Thr
                BY <1>1 DEF r
            <4>2. QED
                BY <1>4, <4>1
        <3>3. QED
            BY <1>1, <1>2, <2>1, <3>1, <3>2 DEF Queued
    <2>2. CASE \E i \in 1 .. n : u = s[i]
        <3>1. PICK i \in 1 .. n : u = s[i]
            BY <2>2
        <3>2. i \in 1 .. n + 1 /\ i + 1 \in 1 .. n + 1 /\ r[i] = u /\ r[i + 1] \in Thr
            <4>1. i \in 1 .. n + 1 /\ i + 1 \in 1 .. n + 1
                BY <1>1
            <4>2. QED
                BY <1>1, <3>1, <4>1 DEF r
        <3>3. next'[u] # Nil
            BY <1>7, <3>1, <3>2
        <3>4. u \in heap'
            BY <1>2, <1>3, <3>1 DEF Queued
        <3>5. QED
            BY <3>2, <3>3, <3>4 DEF Queued
    <2>3. CASE u # t /\ \A i \in 1 .. n : u # s[i]
        <3>1. next'[u] = next[u] /\ u \notin Queued
            BY <1>4, <2>3 DEF IsRing
        <3>2. \A i \in 1 .. n + 1 : r[i] # u
            <4>1. \A i \in 1 .. n + 1 : i \in 1 .. n \/ i = n + 1
                BY <1>1
            <4>2. QED
                BY <1>1, <2>3, <4>1
        <3>3. QED
            BY <1>2, <3>1, <3>2 DEF Queued
    <2>4. QED
        BY <2>1, <2>2, <2>3
<1>9. current_thread' = r[1] /\ next'[r[n + 1]] = r[1] /\ previous'[r[1]] = r[n + 1]
    BY <1>1, <1>4
<1>10. n + 1 - 1 = n /\ n + 1 > 0 /\ n + 1 # 0
    BY <1>1
<1>11. IsRing(r)'
    BY <1>1, <1>5, <1>7, <1>8, <1>9, <1>10 DEF IsRing
<1>12. QED
    BY <1>11 DEF r

LEMMA RingTurns ==
    ASSUME NEW s, IsRing(s), Len(s) > 0, current_thread' = next[current_thread],
           UNCHANGED <<next, previous, heap>>
    PROVE  IsRing(Append(Tail(s), Head(s)))'
<1> DEFINE n == Len(s)
           r == Append(Tail(s), Head(s))
<1>1. /\ s \in Seq(Thr) /\ n \in Nat /\ r \in Seq(Thr) /\ Len(r) = n /\ r[n] = s[1]
      /\ \A i \in 1 .. n - 1 : r[i] = s[i + 1]
    BY DEF IsRing
<1> HIDE DEF r
<1>2. \A i, j \in 1 .. n : r[i] = r[j] => i = j
    <2>1. \A i \in 1 .. n : i = n \/ (i \in 1 .. n - 1 /\ i + 1 \in 1 .. n /\ i + 1 # 1)
        BY <1>1
    <2>2. 1 \in 1 .. n /\ \A i, j \in 1 .. n : s[i] = s[j] => i = j
        BY <1>1 DEF IsRing
    <2>3. \A i, j \in 1 .. n - 1 : r[i] = r[j] => i = j
        <3>1. ASSUME NEW i \in 1 .. n - 1, NEW j \in 1 .. n - 1, r[i] = r[j] PROVE i = j
            <4>1. i + 1 \in 1 .. n /\ j + 1 \in 1 .. n /\ s[i + 1] = s[j + 1]
                BY <1>1, <3>1
            <4>2. i + 1 = j + 1
                BY <2>2, <4>1
            <4>3. QED
                BY <1>1, <4>2
        <3>2. QED
            BY <3>1
    <2>4. \A i \in 1 .. n - 1 : r[i] # r[n]
        BY <1>1, <2>1, <2>2
    <2>5. QED
        BY <2>1, <2>3, <2>4
<1>3. ASSUME NEW t \in Thr PROVE t \in Queued' <=> \E i \in 1 .. n : r[i] = t
    <2>1. Queued' = Queued /\ (t \in Queued <=> \E i \in 1 .. n : s[i] = t)
        BY DEF IsRing, Queued
    <2>2. ASSUME NEW i \in 1 .. n PROVE \E j \in 1 .. n : r[j] = s[i]
        <3>1. CASE i = 1
            BY <1>1, <3>1
        <3>2. CASE i # 1
            <4>1. i - 1 \in 1 .. n - 1 /\ (i - 1) + 1 = i /\ i - 1 \in 1 .. n
                BY <1>1, <3>2
            <4>2. QED
                BY <1>1, <4>1
        <3>3. QED
            BY <3>1, <3>2
    <2>3. ASSUME NEW i \in 1 .. n PROVE \E j \in 1 .. n : s[j] = r[i]
        <3>1. i = n \/ (i \in 1 .. n - 1 /\ i + 1 \in 1 .. n)
            BY <1>1
        <3>2. 1 \in 1 .. n
            BY <1>1
        <3>3. QED
            BY <1>1, <3>1, <3>2
    <2>4. QED
        BY <2>1, <2>2, <2>3
<1>4. /\ current_thread = s[1] /\ next[s[n]] = s[1] /\ previous[s[1]] = s[n]
      /\ \A i \in 1 .. n - 1 : next[s[i]] = s[i + 1] /\ previous[s[i + 1]] = s[i]
    BY DEF IsRing
<1>5. current_thread' = r[1]
    <2>1. CASE n = 1
        BY <1>1, <1>4, <2>1
    <2>2. CASE n # 1
        <3>1. 1 \in 1 .. n - 1
            BY <1>1, <2>2
        <3>2. r[1] = s[2] /\ next[s[1]] = s[2]
            BY <1>1, <1>4, <3>1
        <3>3. QED
            BY <1>4, <3>2
    <2>3. QED
        BY <2>1, <2>2
<1>6. next[r[n]] = r[1] /\ previous[r[1]] = r[n]
    <2>1. CASE n = 1
        BY <1>1, <1>4, <2>1
    <2>2. CASE n # 1
        <3>1. 1 \in 1 .. n - 1
            BY <1>1, <2>2
        <3>2. r[1] = s[2] /\ next[s[1]] = s[2] /\ previous[s[2]] = s[1]
            BY <1>1, <1>4, <3>1
        <3>3. QED
            BY <1>1, <3>2
    <2>3. QED
        BY <2>1, <2>2
<1>7. ASSUME NEW i \in 1 .. n - 1 PROVE next[r[i]] = r[i + 1] /\ previous[r[i + 1]] = r[i]
    <2>1. CASE i + 1 = n
        <3>1. r[i] = s[n] /\ r[i + 1] = s[1]
            BY <1>1, <2>1
        <3>2. QED
            BY <1>4, <3>1
    <2>2. CASE i + 1 # n
        <3>1. i + 1 \in 1 .. n - 1
            BY <1>1, <2>2
        <3>2. r[i] = s[i + 1] /\ r[i + 1] = s[(i + 1) + 1]
            BY <1>1, <3>1
        <3>3. QED
            BY <1>4, <3>1, <3>2
    <2>3. QED
        BY <2>1, <2>2
<1>8. IsRing(r)'
    BY <1>1, <1>2, <1>3, <1>5, <1>6, <1>7 DEF IsRing
<1>9. QED
    BY <1>8 DEF r

LEMMA RingLeaves ==
    ASSUME TypeOK, NEW s, IsRing(s), Len(s) > 0, unlink
    PROVE  IsRing(Tail(s))' /\ (pc' = "dispatch" <=> Len(s) # 1) /\ (pc' = "exited" <=> Len(s) = 1)
           /\ next'[current_thread] = Nil /\ \A t \in Thr : next[t] = Nil => next'[t] = Nil
<1> DEFINE n == Len(s)
           r == Tail(s)
           t == current_thread
<1>1. /\ s \in Seq(Thr) /\ n \in Nat /\ r \in Seq(Thr) /\ Len(r) = n - 1
      /\ \A i \in 1 .. n - 1 : r[i] = s[i + 1]
      /\ \A i \in 1 .. n : s[i] \in Thr
    BY DEF IsRing
<1>2. /\ t = s[1] /\ next[s[n]] = s[1] /\ previous[s[1]] = s[n]
      /\ \A i \in 1 .. n - 1 : next[s[i]] = s[i + 1] /\ previous[s[i + 1]] = s[i]
      /\ 1 \in 1 .. n /\ n \in 1 .. n /\ t \in Thr
    BY <1>1 DEF IsRing
<1> HIDE DEF r
<1>3. next[t] = t <=> n = 1
    <2>1. CASE n = 1
        BY <1>2, <2>1
    <2>2. CASE n # 1
        <3>1. 1 \in 1 .. n - 1 /\ 2 \in 1 .. n
            BY <1>1, <2>2
        <3>2. next[s[1]] = s[2] /\ s[2] # s[1]
            BY <1>2, <3>1 DEF IsRing
        <3>3. QED
            BY <1>2, <2>2, <3>2
    <2>3. QED
        BY <2>1, <2>2
<1>4. heap' = heap \ {t}
    BY DEF unlink
<1>5. \A i \in 1 .. n - 1 : r[i] # t /\ r[i] \in Thr
    <2>1. \A i \in 1 .. n - 1 : i + 1 \in 1 .. n /\ i + 1 # 1
        BY <1>1
    <2>2. QED
        BY <1>1, <1>2, <2>1 DEF IsRing
<1>6. \A i, j \in 1 .. n - 1 : r[i] = r[j] => i = j
    <2>1. ASSUME NEW i \in 1 .. n - 1, NEW j \in 1 .. n - 1, r[i] = r[j] PROVE i = j
        <3>1. i + 1 \in 1 .. n /\ j + 1 \in 1 .. n /\ s[i + 1] = s[j + 1]
            BY <1>1, <2>1
        <3>2. i + 1 = j + 1
            BY <3>1 DEF IsRing
        <3>3. QED
            BY <1>1, <3>2
    <2>2. QED
        BY <2>1
<1>7. \A u \in Thr : (\E i \in 1 .. n - 1 : r[i] = u) <=> u \in Queued /\ u # t
    <2>1. ASSUME NEW i \in 1 .. n, s[i] # t PROVE \E j \in 1 .. n - 1 : r[j] = s[i]
        <3>1. i - 1 \in 1 .. n - 1 /\ (i - 1) + 1 = i
            BY <1>1, <1>2, <2>1
        <3>2. QED
            BY <1>1, <3>1
    <2>2. \A i \in 1 .. n - 1 : i + 1 \in 1 .. n
        BY <1>1
    <2>3. ASSUME NEW u \in Thr, NEW i \in 1 .. n - 1, r[i] = u PROVE u \in Queued /\ u # t
        <3>1. i + 1 \in 1 .. n /\ s[i + 1] = u
            BY <1>1, <2>2, <2>3
        <3>2. u \in Queued
            BY <3>1 DEF IsRing
        <3>3. QED
            BY <1>5, <2>3, <3>2
    <2>4. ASSUME NEW u \in Thr, u \in Queued, u # t PROVE \E i \in 1 .. n - 1 : r[i] = u
        <3>1. PICK i \in 1 .. n : s[i] = u
            BY <2>4 DEF IsRing
        <3>2. QED
            BY <2>1, <2>4, <3>1
    <2>5. QED
        BY <2>3, <2>4
<1>8. CASE n = 1
    <2>1. /\ next' = [next EXCEPT ![t] = Nil] /\ current_thread' = Nil /\ pc' = "exited"
        BY <1>3, <1>8 DEF unlink
    <2>2. ASSUME NEW u \in Thr PROVE u \in Queued' <=> \E i \in 1 .. n - 1 : r[i] = u
        <3>1. u \in Queued' <=> u \in Queued /\ u # t
            BY <1>2, <1>4, <2>1 DEF Queued, TypeOK
        <3>2. QED
            BY <1>7, <3>1
    <2>3. IsRing(r)'
        <3>1. Len(r) = 0 /\ n - 1 = 0 /\ ~(0 > 0) /\ \A i \in 1 .. 0 - 1 : FALSE
            BY <1>1, <1>8
        <3>2. \A u \in Thr : u \in Queued' <=> \E i \in 1 .. Len(r) : r[i] = u
            BY <2>2, <3>1
        <3>3. /\ Len(r)' = Len(r) /\ \A i \in 1 .. Len(r) : FALSE
              /\ current_thread' = Nil
            BY <1>6, <2>1, <3>1
        <3>4. QED
            BY <1>1, <3>1, <3>2, <3>3, SMTT(30) DEF IsRing
    <2>4. next'[t] = Nil /\ \A u \in Thr : next[u] = Nil => next'[u] = Nil
        BY <1>2, <2>1 DEF TypeOK
    <2>5. QED
        BY <1>8, <2>1, <2>3, <2>4 DEF r
<1>9. CASE n # 1
    <2>1. /\ 1 \in 1 .. n - 1 /\ n - 1 \in 1 .. n - 1 /\ 2 \in 1 .. n /\ (n - 1) + 1 = n
          /\ s[1] \in Thr /\ s[2] \in Thr /\ s[n] \in Thr /\ s[2] # s[1] /\ s[n] # s[1]
        BY <1>1, <1>2, <1>9 DEF IsRing
    <2>2. next[t] = s[2] /\ previous[t] = s[n] /\ r[1] = s[2] /\ r[n - 1] = s[n]
        BY <1>1, <1>2, <2>1
    <2>3. /\ next' = [next EXCEPT ![s[n]] = s[2], ![t] = Nil]
          /\ previous' = [previous EXCEPT ![s[2]] = s[n], ![t] = Nil]
          /\ current_thread' = s[2] /\ pc' = "dispatch"
        BY <1>3, <1>9, <2>2 DEF unlink
    <2>4. ASSUME NEW i \in 1 .. n - 1 - 1 PROVE next'[r[i]] = r[i + 1] /\ previous'[r[i + 1]] = r[i]
        <3>1. i \in 1 .. n - 1 /\ i + 1 \in 1 .. n - 1 /\ i # n - 1 /\ i + 1 # 1
            BY <1>1
        <3>2. r[i] = s[i + 1] /\ r[i + 1] = s[(i + 1) + 1]
            BY <1>1, <3>1
        <3>3. next[r[i]] = r[i + 1] /\ previous[r[i + 1]] = r[i]
            BY <1>2, <3>1, <3>2
        <3>4. r[i] # s[n] /\ r[i] # t /\ r[i + 1] # s[2] /\ r[i + 1] # t
            BY <1>5, <1>6, <2>1, <2>2, <3>1
        <3>5. r[i] \in Thr /\ r[i + 1] \in Thr
            BY <1>5, <3>1
        <3>6. QED
            BY <2>3, <3>3, <3>4, <3>5 DEF TypeOK
    <2>5. next'[r[n - 1]] = r[1] /\ previous'[r[1]] = r[n - 1] /\ current_thread' = r[1]
        BY <1>2, <2>1, <2>2, <2>3 DEF TypeOK
    <2>6. \A u \in Thr : next'[u] = Nil <=> next[u] = Nil \/ u = t
        BY <1>2, <2>1, <2>3 DEF TypeOK
    <2>7. ASSUME NEW u \in Thr PROVE u \in Queued' <=> \E i \in 1 .. n - 1 : r[i] = u
        <3>1. u \in Queued' <=> u \in Queued /\ u # t
            <4>1. next[s[n]] # Nil
                BY <1>2
            <4>2. QED
                BY <1>4, <2>6 DEF Queued
        <3>2. QED
            BY <1>7, <3>1
    <2>8. IsRing(r)'
        <3>1. Len(r) = n - 1 /\ n - 1 # 0
            BY <1>1, <2>1
        <3>2. QED
            BY <1>1, <1>6, <2>4, <2>5, <2>7, <3>1 DEF IsRing
    <2>9. QED
        BY <1>2, <1>9, <2>3, <2>6, <2>8 DEF r
<1>10. QED
    BY <1>8, <1>9

-----------------------------------------------------------------------------
(* What is common to the steps.                                            *)

Indices == -1 .. MAX_TASK - 1

LEMMA Here ==
    ASSUME TypeOK, Ring, pc \in {"code", "dispatch"}
    PROVE  /\ current_thread \in heap /\ current_thread \in Thr /\ current_thread # Nil
           /\ next[current_thread] # Nil
           /\ \E s \in Seq(Thr) : IsRing(s) /\ Len(s) > 0
<1>1. PICK s \in Seq(Thr) : IsRing(s)
    BY DEF Ring
<1>2. current_thread # Nil /\ Len(s) \in Nat
    BY DEF Ring
<1>3. Len(s) > 0
    BY <1>1, <1>2 DEF IsRing
<1>4. 1 \in 1 .. Len(s) /\ current_thread = s[1] /\ current_thread \in Thr
    BY <1>1, <1>2, <1>3 DEF IsRing
<1>5. current_thread \in Queued
    BY <1>1, <1>4 DEF IsRing
<1>6. QED
    BY <1>1, <1>2, <1>3, <1>4, <1>5 DEF Queued

LEMMA RingKept ==
    ASSUME Ring, UNCHANGED ringVars, \A t \in Thr \ heap : th'[t].num_tasks = th[t].num_tasks,
           pc' \in {"code", "dispatch"} => current_thread # Nil
    PROVE  Ring'
<1>1. PICK s \in Seq(Thr) : IsRing(s)
    BY DEF Ring
<1>2. IsRing(s)'
    BY <1>1, RingStays DEF ringVars
<1>3. QED
    BY <1>2 DEF Ring, ringVars

LEMMA TasksKept ==
    ASSUME NEW t \in Thr, Tasks(t), task'[t] = task[t], act'[t] = act[t],
           th'[t].num_tasks = th[t].num_tasks, th'[t].buf_set = th[t].buf_set,
           th'[t].env = th[t].env,
           \A i \in Indices : act[t][i] = "live" /\ Runs(t, i) => Runs(t, i)'
    PROVE  Tasks(t)'
<1>1. -1 \in Indices /\ Slots \subseteq Indices
    BY DEF Indices, Slots
<1>2. QED
    BY <1>1 DEF Tasks

ThRec == [buf_set : {-1, 0, 1}, num_tasks : -1 .. MAX_TASK - 1, current_task : -1 .. MAX_TASK - 1,
          thread_yield : {0, 1}, task_yield : {0, 1}, env : Ctx \cup {NoCtx}]
TaskRec == [buf_set : {-1, 0, 1}, fp : Fn \cup {Nil}, env : Ctx \cup {NoCtx}]

LEMMA Types ==
    TypeOK => th \in [Thr -> ThRec] /\ task \in [Thr -> [Slots -> TaskRec]]
BY DEF TypeOK, ThRec, TaskRec

\* Only the current thread runs.
LEMMA Others ==
    ASSUME Running, NEW t \in Thr, t # current_thread \/ pc # "code", NEW i \in Indices
    PROVE  ~Runs(t, i)
BY DEF Running, Runs

LEMMA Longjmp ==
    ASSUME TypeOK, NEW t \in Thr, NEW i \in Indices, NEW env \in {NoCtx, <<t, i>>}, longjmp(env)
    PROVE  /\ ctx' = env /\ pc' \in {"code", "wild"}
           /\ pc' = "code" => env = <<t, i>> /\ act[t][i] = "live"
           /\ env = <<t, i>> /\ act[t][i] = "live" /\ (i >= 0 => top[t] = task[t][i].fp)
                => pc' = "code"
<1>1. CASE env = NoCtx
    <2>1. env \notin Ctx /\ env # <<t, i>>
        BY <1>1 DEF NoCtx, Ctx
    <2>2. QED
        BY <1>1, <2>1 DEF longjmp
<1>2. CASE env = <<t, i>>
    <2>1. env \in Ctx /\ env[1] = t /\ env[2] = i
        BY <1>2 DEF Ctx, Indices
    <2>2. QED
        BY <1>2, <2>1 DEF longjmp
<1>3. QED
    BY <1>1, <1>2

\* The context that runs.
LEMMA Context ==
    ASSUME TypeOK, Running, pc = "code"
    PROVE  /\ ctx[1] = current_thread /\ ctx[2] \in Indices
           /\ ctx = <<current_thread, ctx[2]>>
BY DEF Running, Ctx, Indices

-----------------------------------------------------------------------------
(* The steps keep the invariant.                                           *)

LEMMA CreateKeeps ==
    ASSUME ThreadsInv, NEW t \in Thr, thread_create(t), UNCHANGED client
    PROVE  ThreadsInv'
<1> USE DEF ThreadsInv
<1>1. /\ Client /\ t \notin heap /\ heap' = heap \cup {t}
      /\ th' = [th EXCEPT ![t] = NewThread]
      /\ act' = [act EXCEPT ![t] = [NoActs EXCEPT ![-1] = "ready"]]
      /\ UNCHANGED <<current_thread, next, previous, task, top, pc, ctx>>
    BY DEF thread_create
<1>2. /\ th'[t] = NewThread /\ act'[t] = [NoActs EXCEPT ![-1] = "ready"]
      /\ \A u \in Thr \ {t} : th'[u] = th[u] /\ act'[u] = act[u]
    BY <1>1 DEF TypeOK
<1>3. NewThread.num_tasks = -1 /\ NewThread.buf_set = -1 /\ NewThread.thread_yield = 0
      /\ NewThread.env = NoCtx
    BY DEF NewThread
<1>4. TypeOK'
    <2>1. NewThread \in [buf_set : {-1, 0, 1}, num_tasks : -1 .. MAX_TASK - 1,
                         current_task : -1 .. MAX_TASK - 1, thread_yield : {0, 1},
                         task_yield : {0, 1}, env : Ctx \cup {NoCtx}]
        BY DEF NewThread
    <2>2. [NoActs EXCEPT ![-1] = "ready"] \in [-1 .. MAX_TASK - 1 -> {"none", "ready", "live"}]
        BY DEF NoActs
    <2>3. QED
        BY <1>1, <2>1, <2>2 DEF TypeOK
<1>5. Ring'
    <2>1. PICK s \in Seq(Thr) : IsRing(s)
        BY DEF Ring
    <2>2. IsRing(s)'
        BY <1>1, <2>1, RingStays DEF Ring
    <2>3. QED
        BY <1>1, <1>2, <2>2 DEF Ring
<1>6. Running'
    <2>1. pc = "code" => current_thread # t
        BY <1>1, Here
    <2>2. pc = "code" => current_thread \in Thr
        BY Here
    <2>3. QED
        BY <1>1, <1>2, <2>1, <2>2 DEF Running, Proper
<1>7. Saved'
    BY <1>1, <1>2, <1>3 DEF Saved
<1>8. ASSUME Proper, NEW u \in heap' PROVE Tasks(u)'
    <2>1. CASE u = t
        <3>1. act'[t][-1] = "ready" /\ \A i \in Slots : act'[t][i] = "none"
            BY <1>2 DEF NoActs, Slots
        <3>2. \A i \in Slots : ~(i <= -1)
            BY DEF Slots
        <3>3. th'[t].num_tasks = -1 /\ th'[t].buf_set = -1
            BY <1>2, <1>3
        <3>4. QED
            BY <2>1, <3>1, <3>2, <3>3 DEF Tasks
    <2>2. CASE u # t
        <3>1. u \in heap /\ u \in Thr /\ th'[u] = th[u] /\ act'[u] = act[u] /\ Tasks(u)
            BY <1>1, <1>2, <1>8, <2>2 DEF TypeOK
        <3>2. QED
            BY <1>1, <3>1, TasksKept DEF Runs
    <2>3. QED
        BY <2>1, <2>2
<1>9. QED
    BY <1>4, <1>5, <1>6, <1>7, <1>8 DEF Proper

\* Steps that only change the queue, or pc between codes.
LEMMA AddKeeps ==
    ASSUME ThreadsInv, NEW t \in Thr, thread_add_runqueue(t), UNCHANGED client
    PROVE  ThreadsInv'
<1> USE DEF ThreadsInv
<1>1. /\ Client /\ t \in heap /\ UNCHANGED <<heap, th, task, act, top, pc, ctx>>
      /\ current_thread' = IF current_thread = Nil THEN t ELSE current_thread
    BY DEF thread_add_runqueue
<1>2. TypeOK'
    <2>1. current_thread # Nil => previous[current_thread] \in Thr \cup {Nil}
        BY DEF TypeOK
    <2>2. next' \in [Thr -> Thr \cup {Nil}] /\ previous' \in [Thr -> Thr \cup {Nil}]
        <3>1. CASE current_thread = Nil
            <4>1. next' = [next EXCEPT ![t] = t] /\ previous' = [previous EXCEPT ![t] = t]
                BY <3>1 DEF thread_add_runqueue
            <4>2. QED
                BY <4>1 DEF TypeOK
        <3>2. CASE current_thread # Nil
            <4>1. current_thread \in Thr
                BY <3>2 DEF TypeOK
            <4>2. next' = [next EXCEPT ![t] = current_thread, ![previous[current_thread]] = t]
                  /\ previous' = [previous EXCEPT ![t] = previous[current_thread], ![current_thread] = t]
                BY <3>2 DEF thread_add_runqueue
            <4>3. QED
                BY <2>1, <3>2, <4>1, <4>2 DEF TypeOK
        <3>3. QED
            BY <3>1, <3>2
    <2>3. QED
        BY <1>1, <2>2 DEF TypeOK
<1>3. Ring'
    <2>1. PICK s \in Seq(Thr) : IsRing(s)
        BY DEF Ring
    <2>2. IsRing(Append(s, t))' /\ Append(s, t) \in Seq(Thr)
        BY <2>1, RingAppends
    <2>3. ASSUME NEW u \in Thr \ heap PROVE next'[u] = Nil
        <3>1. next[u] = Nil /\ u # t
            BY <1>1, <2>3 DEF Ring
        <3>2. current_thread # Nil => previous[current_thread] \in heap
            <4>1. ASSUME current_thread # Nil PROVE previous[current_thread] \in heap
                <5>1. Len(s) \in Nat /\ Len(s) > 0
                    BY <2>1, <4>1 DEF IsRing
                <5>2. Len(s) \in 1 .. Len(s) /\ s[Len(s)] \in Thr /\ previous[current_thread] = s[Len(s)]
                    BY <2>1, <5>1 DEF IsRing
                <5>3. s[Len(s)] \in Queued
                    BY <2>1, <5>2 DEF IsRing
                <5>4. QED
                    BY <5>2, <5>3 DEF Queued
            <4>2. QED
                BY <4>1
        <3>3. CASE current_thread = Nil
            <4>1. next' = [next EXCEPT ![t] = t]
                BY <3>3 DEF thread_add_runqueue
            <4>2. QED
                BY <3>1, <4>1 DEF TypeOK
        <3>4. CASE current_thread # Nil
            <4>1. next' = [next EXCEPT ![t] = current_thread, ![previous[current_thread]] = t]
                BY <3>4 DEF thread_add_runqueue
            <4>2. u # previous[current_thread]
                BY <2>3, <3>2, <3>4
            <4>3. QED
                BY <3>1, <4>1, <4>2 DEF TypeOK
        <3>5. QED
            BY <3>3, <3>4
    <2>4. QED
        BY <1>1, <2>2, <2>3 DEF Ring
<1>4. Running'
    BY <1>1 DEF Running, Ring, Proper
<1>5. Saved'
    BY <1>1 DEF Saved
<1>6. ASSUME Proper, NEW u \in heap PROVE Tasks(u)'
    <2>1. u \in Thr /\ Tasks(u)
        BY <1>6 DEF TypeOK
    <2>2. QED
        BY <1>1, <2>1, TasksKept DEF Runs
<1>7. QED
    BY <1>1, <1>2, <1>3, <1>4, <1>5, <1>6 DEF Proper

LEMMA StartKeeps ==
    ASSUME ThreadsInv, thread_start_threading, UNCHANGED client
    PROVE  ThreadsInv'
<1> USE DEF ThreadsInv
<1>1. /\ pc = "main" /\ pc' = IF current_thread = Nil THEN "exited" ELSE "dispatch"
      /\ UNCHANGED <<ringVars, th, task, act, top, ctx>>
    BY DEF thread_start_threading
<1>2. TypeOK'
    BY <1>1 DEF TypeOK, ringVars
<1>3. Ring'
    BY <1>1, RingKept
<1>4. Running' /\ Saved'
    BY <1>1 DEF Running, Saved
<1>5. ASSUME Proper, NEW u \in heap PROVE Tasks(u)'
    <2>1. u \in Thr /\ Tasks(u)
        BY <1>5 DEF TypeOK
    <2>2. QED
        BY <1>1, <2>1, TasksKept DEF Runs
<1>6. QED
    BY <1>1, <1>2, <1>3, <1>4, <1>5 DEF Proper, ringVars

LEMMA AssignKeeps ==
    ASSUME ThreadsInv, NEW t \in Thr, NEW f \in Fn, thread_assign_task(t, f), UNCHANGED client
    PROVE  ThreadsInv'
<1> USE DEF ThreadsInv
<1> DEFINE n == th[t].num_tasks + 1
<1>1. /\ t \in heap /\ (Proper => t # ctx[1]) /\ n \in 0 .. Depth - 1 /\ Client
      /\ th' = [th EXCEPT ![t].num_tasks = n]
      /\ task' = [task EXCEPT ![t][n] = [NoTask EXCEPT !.buf_set = -1, !.fp = f]]
      /\ act' = [act EXCEPT ![t][n] = "ready"]
      /\ UNCHANGED <<ringVars, top, pc, ctx>>
    BY DEF thread_assign_task, MayAssign, Proper
<1>2. n \in Slots /\ n \in Indices
    BY <1>1 DEF Slots, Indices
<1>3. /\ th'[t] = [th[t] EXCEPT !.num_tasks = n]
      /\ \A u \in Thr \ {t} : th'[u] = th[u] /\ act'[u] = act[u] /\ task'[u] = task[u]
      /\ act'[t] = [act[t] EXCEPT ![n] = "ready"]
      /\ task'[t] = [task[t] EXCEPT ![n] = [NoTask EXCEPT !.buf_set = -1, !.fp = f]]
    BY <1>1 DEF TypeOK
<1>4. /\ th'[t].num_tasks = n /\ th'[t].current_task = th[t].current_task
      /\ th'[t].thread_yield = th[t].thread_yield /\ th'[t].env = th[t].env
      /\ th'[t].buf_set = th[t].buf_set
    BY <1>3 DEF TypeOK
<1> DEFINE new == [NoTask EXCEPT !.buf_set = -1, !.fp = f]
<1>5. new.buf_set = -1 /\ new.env = NoCtx /\ new.fp = f
    BY DEF NoTask
<1>6. TypeOK'
    <2>1. new \in [buf_set : {-1, 0, 1}, fp : Fn \cup {Nil}, env : Ctx \cup {NoCtx}]
        BY DEF NoTask
    <2>2. task' \in [Thr -> [Slots -> [buf_set : {-1, 0, 1}, fp : Fn \cup {Nil},
                                       env : Ctx \cup {NoCtx}]]]
        BY <1>1, <1>2, <2>1 DEF TypeOK
    <2>3. n \in -1 .. MAX_TASK - 1
        BY <1>2 DEF Indices
    <2>4. th' \in [Thr -> [buf_set : {-1, 0, 1}, num_tasks : -1 .. MAX_TASK - 1,
                           current_task : -1 .. MAX_TASK - 1, thread_yield : {0, 1},
                           task_yield : {0, 1}, env : Ctx \cup {NoCtx}]]
        <3>1. [th[t] EXCEPT !.num_tasks = n]
                  \in [buf_set : {-1, 0, 1}, num_tasks : -1 .. MAX_TASK - 1,
                       current_task : -1 .. MAX_TASK - 1, thread_yield : {0, 1},
                       task_yield : {0, 1}, env : Ctx \cup {NoCtx}]
            <4>1. th[t] \in [buf_set : {-1, 0, 1}, num_tasks : -1 .. MAX_TASK - 1,
                             current_task : -1 .. MAX_TASK - 1, thread_yield : {0, 1},
                             task_yield : {0, 1}, env : Ctx \cup {NoCtx}]
                BY DEF TypeOK
            <4> HIDE DEF n
            <4>2. QED
                BY <2>3, <4>1
        <3>2. th' = [th EXCEPT ![t] = [th[t] EXCEPT !.num_tasks = n]]
            BY <1>1
        <3>3. QED
            BY <3>1, <3>2 DEF TypeOK
    <2>5. act' \in [Thr -> [-1 .. MAX_TASK - 1 -> {"none", "ready", "live"}]]
        BY <1>1, <2>3 DEF TypeOK
    <2>6. QED
        BY <1>1, <2>2, <2>4, <2>5 DEF TypeOK, ringVars
<1>7. Ring'
    <2>1. pc \in {"code", "dispatch"} => current_thread # Nil
        BY DEF Ring
    <2>2. \A u \in Thr \ heap : th'[u].num_tasks = th[u].num_tasks
        BY <1>1, <1>3
    <2>3. QED
        BY <1>1, <2>1, <2>2, RingKept
<1>8. Running'
    <2>1. CASE pc = "code"
        <3>1. current_thread \in Thr /\ Proper' = Proper /\ ctx[2] \in Indices
            BY <2>1, Here, Context DEF Proper
        <3>2. th'[current_thread].current_task = th[current_thread].current_task
            BY <1>3, <1>4, <3>1
        <3>3. Proper => th'[current_thread] = th[current_thread]
            BY <1>1, <1>3, <2>1, <3>1 DEF Running
        <3>4. ctx[2] <= th'[current_thread].num_tasks
            <4>1. CASE current_thread = t
                <5>1. ctx[2] <= th[t].num_tasks /\ th[t].num_tasks \in Int
                    BY <2>1, <4>1 DEF Running, TypeOK
                <5>2. QED
                    BY <1>4, <3>1, <4>1, <5>1 DEF Indices
            <4>2. CASE current_thread # t
                BY <1>3, <2>1, <3>1, <4>2 DEF Running
            <4>3. QED
                BY <4>1, <4>2
        <3>5. act'[current_thread][ctx[2]] = "live"
            <4>1. current_thread = t => ctx[2] # n
                <5>1. ctx[2] <= th[current_thread].num_tasks /\ th[t].num_tasks \in Int
                    BY <2>1 DEF Running, TypeOK
                <5>2. QED
                    BY <3>1, <5>1 DEF Indices
            <4>2. current_thread = t => act'[t][ctx[2]] = act[t][ctx[2]]
                BY <1>3, <3>1, <4>1 DEF TypeOK, Indices
            <4>3. act[current_thread][ctx[2]] = "live"
                BY <2>1 DEF Running
            <4>4. QED
                BY <1>3, <3>1, <4>2, <4>3
        <3>6. QED
            BY <1>1, <2>1, <3>1, <3>2, <3>3, <3>4, <3>5 DEF Running, ringVars
    <2>2. CASE pc # "code"
        BY <1>1, <2>2 DEF Running, ringVars
    <2>3. QED
        BY <2>1, <2>2
<1>9. Saved'
    <2>1. \A u \in Thr : th'[u].env = th[u].env /\ th'[u].thread_yield = th[u].thread_yield
        BY <1>3, <1>4
    <2>2. \A u \in Thr : \A i \in Slots : task'[u][i].env \in {task[u][i].env, NoCtx}
        <3>1. \A i \in Slots : task'[t][i] = IF i = n THEN new ELSE task[t][i]
            BY <1>2, <1>3 DEF TypeOK
        <3>2. QED
            BY <1>3, <1>5, <3>1
    <2>3. QED
        BY <1>1, <2>1, <2>2 DEF Saved
<1>10. ASSUME Proper, NEW u \in heap PROVE Tasks(u)'
    <2>1. u \in Thr /\ Tasks(u)
        BY <1>10 DEF TypeOK
    <2>2. \A i \in Indices : Runs(u, i)' <=> Runs(u, i)
        BY <1>1 DEF Runs
    <2>3. CASE u # t
        BY <1>3, <2>1, <2>2, <2>3, TasksKept
    <2>4. CASE u = t
        <3>1. \A i \in Indices : i # n => act'[t][i] = act[t][i]
            BY <1>3 DEF TypeOK, Indices
        <3>2. \A i \in Slots : i # n => task'[t][i] = task[t][i]
            BY <1>3 DEF TypeOK
        <3>3. act'[t][n] = "ready" /\ task'[t][n].buf_set = -1
            BY <1>2, <1>3, <1>5 DEF TypeOK, Indices
        <3>4. -1 \in Indices /\ -1 # n /\ Slots \subseteq Indices
            BY <1>2 DEF Indices, Slots
        <3>5. \A i \in Slots : i # n => (i <= th[t].num_tasks <=> i <= n)
            BY <1>2 DEF Slots, TypeOK
        <3>6. n <= n
            BY <1>2 DEF Slots
        <3>7. QED
            BY <1>4, <2>1, <2>2, <2>4, <3>1, <3>2, <3>3, <3>4, <3>5, <3>6 DEF Tasks
    <2>5. QED
        BY <2>3, <2>4
<1>11. QED
    BY <1>1, <1>6, <1>7, <1>8, <1>9, <1>10 DEF Proper, ringVars

LEMMA FloodKeeps ==
    ASSUME ThreadsInv, NEW t \in Thr, thread_assign_task_full(t), UNCHANGED client
    PROVE  ThreadsInv'
<1> USE DEF ThreadsInv
<1>1. /\ t \in heap /\ t # ctx[1] /\ ~Proper
      /\ th' = [th EXCEPT ![t].num_tasks = -1]
      /\ UNCHANGED <<ringVars, task, act, top, pc, ctx>>
    BY DEF thread_assign_task_full, Proper
<1>2. /\ th'[t] = [th[t] EXCEPT !.num_tasks = -1]
      /\ \A u \in Thr \ {t} : th'[u] = th[u]
    BY <1>1 DEF TypeOK
<1>3. th'[t].thread_yield = th[t].thread_yield /\ th'[t].env = th[t].env
    BY <1>2 DEF TypeOK
<1>4. TypeOK'
    <2>1. th[t] \in ThRec
        BY Types
    <2>2. [th[t] EXCEPT !.num_tasks = -1] \in ThRec
        BY <2>1 DEF ThRec
    <2>3. th' = [th EXCEPT ![t] = [th[t] EXCEPT !.num_tasks = -1]]
        BY <1>1
    <2>4. th' \in [Thr -> ThRec]
        BY <2>2, <2>3, Types
    <2>5. QED
        BY <1>1, <2>4 DEF TypeOK, ringVars, ThRec
<1>5. Ring'
    <2>1. pc \in {"code", "dispatch"} => current_thread # Nil
        BY DEF Ring
    <2>2. QED
        BY <1>1, <1>2, <2>1, RingKept
<1>6. Running'
    <2>1. pc = "code" => current_thread \in Thr \ {t}
        BY <1>1, Here DEF Running
    <2>2. QED
        BY <1>1, <1>2, <2>1 DEF Running, ringVars, Proper
<1>7. Saved'
    BY <1>1, <1>2, <1>3 DEF Saved
<1>8. QED
    BY <1>1, <1>4, <1>5, <1>6, <1>7 DEF Proper

\* schedule() turns the circle.
LEMMA ScheduleTurns ==
    ASSUME TypeOK, Ring, pc = "code", schedule,
           \A t \in Thr \ heap : th'[t].num_tasks = th[t].num_tasks
    PROVE  /\ Ring' /\ current_thread' \in Thr
           /\ \A s \in Seq(Thr) : IsRing(s) => Len(s) > 0 /\ IsRing(Append(Tail(s), Head(s)))'
<1>1. PICK s \in Seq(Thr) : IsRing(s) /\ Len(s) > 0
    BY Here
<1>2. current_thread' = next[current_thread] /\ UNCHANGED <<next, previous, heap>>
    BY DEF schedule
<1>3. \A q \in Seq(Thr) : IsRing(q) => Len(q) > 0
    BY <1>1, RingSize
<1>4. \A q \in Seq(Thr) : IsRing(q) => IsRing(Append(Tail(q), Head(q)))'
    BY <1>2, <1>3, RingTurns
<1>5. Append(Tail(s), Head(s)) \in Seq(Thr)
    BY <1>1
<1>6. current_thread' \in Thr
    BY <1>2, Here DEF TypeOK
<1>7. Ring'
    <2>1. current_thread' # Nil
        BY <1>6
    <2>2. IsRing(Append(Tail(s), Head(s)))'
        BY <1>1, <1>4
    <2>3. QED
        BY <1>2, <1>5, <2>1, <2>2 DEF Ring
<1>8. QED
    BY <1>3, <1>4, <1>6, <1>7

LEMMA YieldTaskKeeps ==
    ASSUME ThreadsInv, thread_yield_task, UNCHANGED client
    PROVE  ThreadsInv'
<1> USE DEF ThreadsInv
<1> DEFINE t == current_thread
           index == th[t].current_task
<1>1. /\ pc = "code" /\ th[t].num_tasks >= 0 /\ th[t].thread_yield = 0
      /\ th' = [th EXCEPT ![t].task_yield = 1]
      /\ task' = IF index < 0 THEN task
                 ELSE [task EXCEPT ![t][index].env = ctx, ![t][index].buf_set = 1]
      /\ schedule /\ pc' = "dispatch" /\ ctx' = NoCtx
      /\ UNCHANGED <<next, previous, heap, act, top>>
    BY DEF thread_yield_task, TaskBranch, schedule
<1>2. t \in heap /\ t \in Thr /\ ctx = <<t, index>> /\ index \in Indices
    BY <1>1, Here, Context DEF Running
<1>3. /\ th'[t] = [th[t] EXCEPT !.task_yield = 1] /\ \A u \in Thr \ {t} : th'[u] = th[u]
    BY <1>1, <1>2 DEF TypeOK
<1>4. \A u \in Thr : /\ th'[u].num_tasks = th[u].num_tasks /\ th'[u].buf_set = th[u].buf_set
                     /\ th'[u].env = th[u].env /\ th'[u].thread_yield = th[u].thread_yield
    <2>1. th[t] \in ThRec
        BY <1>2, Types
    <2>2. /\ th'[t].num_tasks = th[t].num_tasks /\ th'[t].buf_set = th[t].buf_set
          /\ th'[t].env = th[t].env /\ th'[t].thread_yield = th[t].thread_yield
        BY <1>3, <2>1 DEF ThRec
    <2>3. QED
        BY <1>3, <2>2
<1>5. /\ \A u \in Thr \ {t} : task'[u] = task[u]
      /\ \A i \in Slots : i # index => task'[t][i] = task[t][i]
      /\ index \in Slots => /\ task'[t][index].env = ctx /\ task'[t][index].buf_set = 1
                            /\ task'[t][index].fp = task[t][index].fp
    <2>1. CASE index < 0
        BY <1>1, <2>1 DEF Slots
    <2>2. CASE ~(index < 0)
        <3>1. index \in Slots
            BY <1>2, <2>2 DEF Slots, Indices
        <3>2. task' = [task EXCEPT ![t][index].env = ctx, ![t][index].buf_set = 1]
            BY <1>1, <2>2
        <3> HIDE DEF index
        <3>3. QED
            BY <1>2, <3>1, <3>2 DEF TypeOK
    <2>3. QED
        BY <2>1, <2>2
<1>6. Ring' /\ current_thread' \in Thr
    BY <1>1, <1>4, ScheduleTurns
<1>7. TypeOK'
    <2>1. th' \in [Thr -> ThRec]
        <3>1. th[t] \in ThRec
            BY <1>2, Types
        <3>2. [th[t] EXCEPT !.task_yield = 1] \in ThRec
            BY <3>1 DEF ThRec
        <3>3. QED
            BY <1>1, <3>2, Types
    <2>2. task' \in [Thr -> [Slots -> TaskRec]]
        <3>1. CASE index < 0
            BY <1>1, <3>1, Types
        <3>2. CASE ~(index < 0)
            <4>1. index \in Slots
                BY <1>2, <3>2 DEF Slots, Indices
            <4>2. task' = [task EXCEPT ![t][index].env = ctx, ![t][index].buf_set = 1]
                BY <1>1, <3>2
            <4> HIDE DEF index
            <4>3. task[t][index] \in TaskRec /\ ctx \in Ctx
                BY <1>1, <1>2, <4>1, Types DEF Running
            <4>4. [task[t][index] EXCEPT !.env = ctx, !.buf_set = 1] \in TaskRec
                BY <4>3 DEF TaskRec
            <4>5. task' = [task EXCEPT ![t] = [task[t] EXCEPT ![index] =
                                  [task[t][index] EXCEPT !.env = ctx, !.buf_set = 1]]]
                BY <1>2, <4>1, <4>2, Types
            <4>6. QED
                BY <1>2, <4>1, <4>4, <4>5, Types
        <3>3. QED
            BY <3>1, <3>2
    <2>3. QED
        BY <1>1, <1>6, <2>1, <2>2 DEF TypeOK, ThRec, TaskRec
<1>8. Running'
    BY <1>1 DEF Running
<1>9. Saved'
    <2>1. \A u \in Thr : th'[u].env \in {NoCtx, <<u, -1>>}
        BY <1>4 DEF Saved
    <2>2. ASSUME NEW u \in Thr, NEW i \in Slots PROVE task'[u][i].env \in {NoCtx, <<u, i>>}
        BY <1>2, <1>5 DEF Saved
    <2>3. ASSUME NEW u \in Thr PROVE th'[u].thread_yield # 1
        <3>1. CASE u = t
            BY <1>1, <1>4, <3>1
        <3>2. CASE u # t
            <4>1. ctx # <<u, -1>>
                BY <1>2, <3>2
            <4>2. QED
                BY <1>1, <1>4, <4>1 DEF Saved
        <3>3. QED
            BY <3>1, <3>2
    <2>4. QED
        BY <2>1, <2>2, <2>3 DEF Saved
<1>10. ASSUME Proper, NEW u \in heap PROVE Tasks(u)'
    <2>1. u \in Thr /\ Tasks(u) /\ act' = act
        BY <1>1, <1>10 DEF TypeOK
    <2>2. \A i \in Indices : ~Runs(u, i)'
        BY <1>1 DEF Runs
    <2>3. CASE u # t
        <3>1. \A i \in Indices : ~Runs(u, i)
            BY <2>1, <2>3, Others
        <3>2. QED
            BY <1>4, <1>5, <2>1, <2>3, <3>1, TasksKept
    <2>4. CASE u = t
        <3>1. index >= 0 /\ index \in Slots
            BY <1>1, <1>2, <1>10 DEF Running, Slots, Indices
        <3>2. \A i \in Indices : Runs(t, i) => i = index
            BY <1>2 DEF Runs
        <3>3. act[t][index] # "ready"
            BY <1>1, <1>2, <1>10, <3>1 DEF Running
        <3>4. -1 \in Indices /\ Slots \subseteq Indices /\ -1 # index
            BY <3>1 DEF Indices, Slots
        <3>5. /\ th'[t].buf_set = th[t].buf_set /\ th'[t].env = th[t].env
              /\ th'[t].num_tasks = th[t].num_tasks
            BY <1>2, <1>4
        <3>6. ASSUME NEW i \in Slots
              PROVE  /\ act'[t][i] # "none" <=> i <= th'[t].num_tasks
                     /\ act'[t][i] = "ready" => task'[t][i].buf_set = -1
                     /\ act'[t][i] = "live" => task'[t][i].buf_set = 1 /\ task'[t][i].env = <<t, i>>
            <4>1. CASE i = index
                BY <1>2, <1>5, <2>1, <2>4, <3>1, <3>3, <3>5, <4>1 DEF Tasks
            <4>2. CASE i # index
                BY <1>5, <2>1, <2>4, <3>2, <3>4, <3>5, <4>2 DEF Tasks
            <4>3. QED
                BY <4>1, <4>2
        <3>7. QED
            BY <2>1, <2>2, <2>4, <3>2, <3>4, <3>5, <3>6 DEF Tasks
    <2>5. QED
        BY <2>3, <2>4
<1>11. QED
    BY <1>1, <1>6, <1>7, <1>8, <1>9, <1>10 DEF Proper

LEMMA YieldThreadKeeps ==
    ASSUME ThreadsInv, thread_yield_thread, UNCHANGED client
    PROVE  ThreadsInv'
<1> USE DEF ThreadsInv
<1> DEFINE t == current_thread
           new == [th[t] EXCEPT !.thread_yield = 0, !.env = ctx, !.buf_set = 1]
<1>1. /\ pc = "code" /\ ~(th[t].num_tasks >= 0 /\ th[t].thread_yield = 0)
      /\ th' = [th EXCEPT ![t] = new]
      /\ schedule /\ pc' = "dispatch" /\ ctx' = NoCtx
      /\ UNCHANGED <<next, previous, heap, task, act, top>>
    BY DEF thread_yield_thread, TaskBranch, schedule
<1>2. t \in heap /\ t \in Thr /\ ctx = <<t, ctx[2]>> /\ ctx[2] \in Indices /\ ctx \in Ctx
    BY <1>1, Here, Context DEF Running
<1>3. th[t] \in ThRec
    BY <1>2, Types
<1>4. /\ new \in ThRec /\ new.num_tasks = th[t].num_tasks /\ new.buf_set = 1 /\ new.env = ctx
      /\ new.thread_yield = 0 /\ new.current_task = th[t].current_task
    BY <1>1, <1>3, <1>2 DEF ThRec
<1> HIDE DEF new
<1>5. th'[t] = new /\ \A u \in Thr \ {t} : th'[u] = th[u]
    BY <1>1, <1>2, Types
<1>6. ctx[2] = -1 /\ ctx = <<t, -1>>
    <2>1. CASE th[t].thread_yield = 1
        BY <1>1, <1>2, <2>1 DEF Saved
    <2>2. CASE th[t].thread_yield # 1
        <3>1. th[t].num_tasks < 0 /\ ctx[2] <= th[t].num_tasks /\ th[t].num_tasks \in Int
            BY <1>1, <1>3, <2>2 DEF ThRec, Running
        <3>2. QED
            BY <1>2, <3>1 DEF Indices
    <2>3. QED
        BY <2>1, <2>2
<1>7. Ring' /\ current_thread' \in Thr
    <2>1. \A u \in Thr \ heap : th'[u].num_tasks = th[u].num_tasks
        BY <1>2, <1>5
    <2>2. QED
        BY <1>1, <2>1, ScheduleTurns
<1>8. TypeOK'
    <2>1. th' \in [Thr -> ThRec]
        BY <1>1, <1>4, Types
    <2>2. QED
        BY <1>1, <1>7, <2>1 DEF TypeOK, ThRec
<1>9. Running'
    BY <1>1 DEF Running
<1>10. Saved'
    <2>1. ASSUME NEW u \in Thr PROVE th'[u].env \in {NoCtx, <<u, -1>>} /\ th'[u].thread_yield # 1
        <3>1. CASE u = t
            BY <1>4, <1>5, <1>6, <3>1
        <3>2. CASE u # t
            <4>1. ctx # <<u, -1>>
                BY <1>2, <3>2
            <4>2. QED
                BY <1>1, <1>5, <3>2, <4>1 DEF Saved
        <3>3. QED
            BY <3>1, <3>2
    <2>2. QED
        BY <1>1, <2>1 DEF Saved
<1>11. ASSUME Proper, NEW u \in heap PROVE Tasks(u)'
    <2>1. u \in Thr /\ Tasks(u) /\ act' = act /\ task' = task
        BY <1>1, <1>11 DEF TypeOK
    <2>2. \A i \in Indices : ~Runs(u, i)'
        BY <1>1 DEF Runs
    <2>3. CASE u # t
        <3>1. \A i \in Indices : ~Runs(u, i)
            BY <2>1, <2>3, Others
        <3>2. QED
            BY <1>5, <2>1, <2>3, <3>1, TasksKept
    <2>4. CASE u = t
        <3>1. \A i \in Slots : ~Runs(t, i) /\ i \in Indices
            BY <1>6 DEF Runs, Slots, Indices
        <3>2. act[t][-1] = "live" /\ -1 \in Indices
            BY <1>1, <1>6 DEF Running, Indices
        <3>3. QED
            BY <1>4, <1>5, <1>6, <2>1, <2>2, <2>4, <3>1, <3>2 DEF Tasks
    <2>5. QED
        BY <2>3, <2>4
<1>12. QED
    BY <1>1, <1>7, <1>8, <1>9, <1>10, <1>11 DEF Proper

\* A thread that leaves, by any of the ways that lead to thread_exit().
LEMMA UnlinkKeeps ==
    ASSUME ThreadsInv, pc \in {"code", "dispatch"}, unlink, UNCHANGED client
    PROVE  ThreadsInv'
<1> USE DEF ThreadsInv
<1> DEFINE t == current_thread
           none == [i \in Slots |-> NoTask]
<1>1. PICK s \in Seq(Thr) : IsRing(s) /\ Len(s) > 0
    BY Here
<1>2. t \in heap /\ t \in Thr
    BY Here
<1>3. /\ heap' = heap \ {t} /\ ctx' = NoCtx
      /\ th' = [th EXCEPT ![t] = NewThread]
      /\ task' = [task EXCEPT ![t] = none]
      /\ act' = [act EXCEPT ![t] = NoActs]
      /\ top' = [top EXCEPT ![t] = Nil]
      /\ pc' \in {"dispatch", "exited"}
    BY DEF unlink
<1>4. /\ th'[t] = NewThread /\ task'[t] = none /\ act'[t] = NoActs
      /\ \A u \in Thr \ {t} : th'[u] = th[u] /\ task'[u] = task[u] /\ act'[u] = act[u]
    BY <1>2, <1>3 DEF TypeOK
<1>5. /\ NewThread.num_tasks = -1 /\ NewThread.thread_yield = 0 /\ NewThread.env = NoCtx
      /\ \A i \in Slots : none[i].env = NoCtx
    BY DEF NewThread, NoTask
<1>6. IsRing(Tail(s))' /\ Tail(s) \in Seq(Thr) /\ (pc' = "dispatch" => Len(s) # 1)
      /\ next'[t] = Nil /\ \A u \in Thr : next[u] = Nil => next'[u] = Nil
    BY <1>1, RingLeaves
<1>7. current_thread' \in Thr \cup {Nil} /\ (pc' = "dispatch" => current_thread' # Nil)
    <2>1. Len(Tail(s)) \in Nat /\ (Len(s) # 1 => Len(Tail(s)) > 0)
        <3>1. Len(Tail(s)) = Len(s) - 1 /\ Len(s) \in Nat
            BY <1>1
        <3>2. Len(s) > 0
            BY <1>1
        <3>3. \A k \in Nat : k > 0 => k - 1 \in Nat /\ (k # 1 => k - 1 > 0)
            OBVIOUS
        <3>4. QED
            BY <3>1, <3>2, <3>3
    <2>2. Len(Tail(s)) = 0 => current_thread' = Nil
        BY <1>6, <2>1 DEF IsRing
    <2>3. Len(Tail(s)) > 0 => current_thread' = Tail(s)[1] /\ 1 \in 1 .. Len(Tail(s))
        BY <1>6, <2>1 DEF IsRing
    <2>4. Len(Tail(s)) > 0 => current_thread' \in Thr
        BY <1>6, <2>3
    <2>5. QED
        BY <1>6, <2>1, <2>2, <2>4
<1>8. Ring'
    <2>1. \A u \in Thr \ heap' : next'[u] = Nil /\ th'[u].num_tasks = -1
        BY <1>3, <1>4, <1>5, <1>6 DEF Ring
    <2>2. QED
        BY <1>3, <1>6, <1>7, <2>1 DEF Ring
<1>9. TypeOK'
    <2>1. NewThread \in ThRec
        BY DEF NewThread, ThRec
    <2>2. none \in [Slots -> TaskRec]
        BY DEF NoTask, TaskRec
    <2>3. NoActs \in [-1 .. MAX_TASK - 1 -> {"none", "ready", "live"}]
        BY DEF NoActs
    <2>4. th' \in [Thr -> ThRec] /\ task' \in [Thr -> [Slots -> TaskRec]]
        BY <1>3, <2>1, <2>2, Types
    <2>5. next' \in [Thr -> Thr \cup {Nil}] /\ previous' \in [Thr -> Thr \cup {Nil}]
        <3>1. next[t] \in Thr \cup {Nil} /\ previous[t] \in Thr \cup {Nil}
            BY <1>2 DEF TypeOK
        <3>2. CASE next[t] = t
            <4>1. next' = [next EXCEPT ![t] = Nil] /\ previous' = [previous EXCEPT ![t] = Nil]
                BY <3>2 DEF unlink
            <4>2. QED
                BY <4>1 DEF TypeOK
        <3>3. CASE next[t] # t
            <4>1. /\ next' = [next EXCEPT ![previous[t]] = next[t], ![t] = Nil]
                  /\ previous' = [previous EXCEPT ![next[t]] = previous[t], ![t] = Nil]
                BY <3>3 DEF unlink
            <4>2. QED
                BY <3>1, <4>1 DEF TypeOK
        <3>4. QED
            BY <3>2, <3>3
    <2>6. act' \in [Thr -> [-1 .. MAX_TASK - 1 -> {"none", "ready", "live"}]]
          /\ top' \in [Thr -> Fn \cup {Nil}] /\ heap' \subseteq Thr
        BY <1>3, <2>3 DEF TypeOK
    <2>7. QED
        BY <1>3, <1>7, <2>4, <2>5, <2>6 DEF TypeOK, ThRec, TaskRec
<1>10. Running'
    BY <1>3 DEF Running
<1>11. Saved'
    <2>1. ASSUME NEW u \in Thr
          PROVE  th'[u].env \in {NoCtx, <<u, -1>>} /\ th'[u].thread_yield # 1
        <3>1. CASE u = t
            BY <1>4, <1>5, <3>1
        <3>2. CASE u # t
            <4>1. pc = "code" => ctx # <<u, -1>>
                BY <3>2 DEF Running
            <4>2. QED
                BY <1>4, <3>2, <4>1 DEF Saved
        <3>3. QED
            BY <3>1, <3>2
    <2>2. ASSUME NEW u \in Thr, NEW i \in Slots PROVE task'[u][i].env \in {NoCtx, <<u, i>>}
        BY <1>4, <1>5 DEF Saved
    <2>3. QED
        BY <2>1, <2>2 DEF Saved
<1>12. ASSUME Proper, NEW u \in heap' PROVE Tasks(u)'
    <2>1. u \in Thr /\ u # t /\ Tasks(u)
        BY <1>3, <1>12 DEF TypeOK
    <2>2. \A i \in Indices : ~Runs(u, i)
        BY <2>1, Others
    <2>3. QED
        BY <1>4, <2>1, <2>2, TasksKept
<1>13. QED
    BY <1>8, <1>9, <1>10, <1>11, <1>12 DEF Proper

LEMMA WildKeeps ==
    ASSUME ThreadsInv, pc \in {"code", "dispatch"}, thread_exit_frees_frames, UNCHANGED client
    PROVE  ThreadsInv'
<1> USE DEF ThreadsInv
<1>1. /\ ~Proper /\ pc' = "wild" /\ UNCHANGED <<ringVars, th, task, act, top, ctx>>
    BY DEF thread_exit_frees_frames, wild, Proper
<1>2. TypeOK' /\ Running' /\ Saved'
    BY <1>1 DEF TypeOK, Running, Saved, ringVars
<1>3. Ring'
    BY <1>1, RingKept
<1>4. QED
    BY <1>1, <1>2, <1>3 DEF Proper

LEMMA ReturnKeeps ==
    ASSUME ThreadsInv, task_return, UNCHANGED client
    PROVE  ThreadsInv'
<1> USE DEF ThreadsInv
<1> DEFINE t == current_thread
           i == ctx[2]
           n == th[t].num_tasks
           new == [th[t] EXCEPT !.num_tasks = n - 1]
<1>1. /\ pc = "code" /\ i >= 0 /\ pc' = "dispatch" /\ ctx' = NoCtx
      /\ act' = [act EXCEPT ![ctx[1]][ctx[2]] = "none"]
      /\ th' = [th EXCEPT ![t] = new]
      /\ UNCHANGED <<ringVars, task, top>>
    BY DEF task_return
<1>2. t \in heap /\ t \in Thr /\ ctx[1] = t /\ ctx = <<t, i>> /\ i \in Indices /\ t # Nil
    BY <1>1, Here, Context
<1>3. th[t] \in ThRec /\ n \in Indices /\ i <= n
    <2>1. th[t] \in ThRec
        BY <1>2, Types
    <2>2. QED
        BY <1>1, <2>1 DEF ThRec, Indices, Running
<1> HIDE DEF i, n
<1>4. /\ new \in ThRec /\ new.num_tasks = n - 1 /\ new.buf_set = th[t].buf_set /\ new.env = th[t].env
      /\ new.thread_yield = th[t].thread_yield
    BY <1>1, <1>2, <1>3 DEF ThRec, Indices
<1> HIDE DEF new
<1>5. /\ th'[t] = new /\ \A u \in Thr \ {t} : th'[u] = th[u] /\ act'[u] = act[u]
      /\ act'[t][i] = "none" /\ \A j \in Indices \ {i} : act'[t][j] = act[t][j]
    BY <1>1, <1>2, Types DEF TypeOK, i, Indices
<1>6. TypeOK'
    <2>1. th' \in [Thr -> ThRec]
        BY <1>1, <1>4, Types
    <2>2. act' \in [Thr -> [-1 .. MAX_TASK - 1 -> {"none", "ready", "live"}]]
        BY <1>1, <1>2 DEF TypeOK, Indices, i
    <2>3. QED
        BY <1>1, <2>1, <2>2 DEF TypeOK, ThRec, ringVars
<1>7. Ring'
    <2>1. \A u \in Thr \ heap : th'[u].num_tasks = th[u].num_tasks
        BY <1>2, <1>5
    <2>2. QED
        BY <1>1, <1>2, <2>1, RingKept
<1>8. Running'
    BY <1>1 DEF Running
<1>9. Saved'
    <2>1. ASSUME NEW u \in Thr
          PROVE  th'[u].env \in {NoCtx, <<u, -1>>} /\ th'[u].thread_yield # 1
        <3>1. th'[u].env = th[u].env /\ th'[u].thread_yield = th[u].thread_yield
            BY <1>4, <1>5
        <3>2. ctx # <<u, -1>>
            BY <1>1, <1>2
        <3>3. QED
            BY <1>1, <3>1, <3>2 DEF Saved
    <2>2. QED
        BY <1>1, <2>1 DEF Saved
<1>10. ASSUME Proper, NEW u \in heap PROVE Tasks(u)'
    <2>1. u \in Thr /\ Tasks(u) /\ task' = task
        BY <1>1, <1>10 DEF TypeOK
    <2>2. \A j \in Indices : ~Runs(u, j)'
        BY <1>1 DEF Runs
    <2>3. CASE u # t
        <3>1. \A j \in Indices : ~Runs(u, j)
            BY <2>1, <2>3, Others
        <3>2. QED
            BY <1>5, <2>1, <2>3, <3>1, TasksKept
    <2>4. CASE u = t
        <3>1. i = n
            BY <1>1, <1>10 DEF Running, i, n
        <3>2. \A j \in Indices : Runs(t, j) => j = i
            BY <1>2 DEF Runs
        <3>3. -1 \in Indices /\ Slots \subseteq Indices /\ -1 # i
            BY <1>1, <1>2 DEF Indices, Slots
        <3>4. /\ th'[t].buf_set = th[t].buf_set /\ th'[t].env = th[t].env
              /\ th'[t].num_tasks = n - 1
            BY <1>4, <1>5
        <3>5. ASSUME NEW j \in Slots
              PROVE  /\ act'[t][j] # "none" <=> j <= n - 1
                     /\ act'[t][j] = "ready" => task'[t][j].buf_set = -1
                     /\ act'[t][j] = "live" => task'[t][j].buf_set = 1 /\ task'[t][j].env = <<t, j>>
            <4>1. CASE j = i
                BY <1>2, <1>5, <3>1, <4>1 DEF Indices
            <4>2. CASE j # i
                <5>1. act'[t][j] = act[t][j] /\ ~Runs(t, j)
                    BY <1>5, <3>2, <3>3, <4>2
                <5>2. j <= n <=> j <= n - 1
                    BY <1>2, <3>1, <4>2 DEF Indices, Slots
                <5>3. QED
                    BY <2>1, <2>4, <5>1, <5>2 DEF Tasks, n
            <4>3. QED
                BY <4>1, <4>2
        <3>6. act'[t][-1] = act[t][-1] /\ ~Runs(t, -1)
            BY <1>5, <3>2, <3>3
        <3>7. QED
            BY <2>1, <2>2, <2>4, <3>4, <3>5, <3>6 DEF Tasks
    <2>5. QED
        BY <2>3, <2>4
<1>11. QED
    BY <1>1, <1>6, <1>7, <1>8, <1>9, <1>10 DEF Proper, ringVars

LEMMA ResumeTaskKeeps ==
    ASSUME ThreadsInv, dispatch_resume_task, UNCHANGED client
    PROVE  ThreadsInv' /\ (pc' = "wild" /\ Proper =>
               LET i == th[current_thread].num_tasks IN
               /\ i \in Slots /\ act[current_thread][i] = "live"
               /\ top[current_thread] # task[current_thread][i].fp)
<1> USE DEF ThreadsInv
<1> DEFINE t == current_thread
           i == th[t].num_tasks
           new == [th[t] EXCEPT !.current_task = i]
<1>1. /\ pc = "dispatch" /\ i >= 0 /\ task[t][i].buf_set = 1 /\ longjmp(task[t][i].env)
      /\ th' = [th EXCEPT ![t] = new] /\ UNCHANGED <<ringVars, task, act, top>>
    BY DEF dispatch_resume_task
<1>2. t \in heap /\ t \in Thr /\ t # Nil
    BY <1>1, Here
<1>3. th[t] \in ThRec /\ i \in Slots /\ i \in Indices
    <2>1. th[t] \in ThRec
        BY <1>2, Types
    <2>2. QED
        BY <1>1, <2>1 DEF ThRec, Indices, Slots
<1> HIDE DEF i
<1>4. /\ new \in ThRec /\ new.num_tasks = i /\ new.buf_set = th[t].buf_set /\ new.env = th[t].env
      /\ new.thread_yield = th[t].thread_yield /\ new.current_task = i
    BY <1>3 DEF ThRec, Slots, i
<1> HIDE DEF new
<1>5. th'[t] = new /\ \A u \in Thr \ {t} : th'[u] = th[u]
    BY <1>1, <1>2, Types
<1>6. /\ ctx' = task[t][i].env /\ pc' \in {"code", "wild"}
      /\ pc' = "code" => ctx' = <<t, i>> /\ act[t][i] = "live"
      /\ task[t][i].env = <<t, i>> /\ act[t][i] = "live" /\ top[t] = task[t][i].fp => pc' = "code"
    <2>1. task[t][i].env \in {NoCtx, <<t, i>>}
        BY <1>2, <1>3 DEF Saved
    <2>2. QED
        BY <1>1, <1>2, <1>3, <2>1, Longjmp
<1>7. TypeOK'
    <2>1. th' \in [Thr -> ThRec]
        BY <1>1, <1>4, Types
    <2>2. ctx' \in Ctx \cup {NoCtx}
        BY <1>2, <1>3, <1>6 DEF TypeOK
    <2>3. QED
        BY <1>1, <1>6, <2>1, <2>2 DEF TypeOK, ThRec, ringVars
<1>8. Ring'
    BY <1>1, <1>2, <1>5, RingKept
<1>9. Running'
    <2>1. CASE pc' = "code"
        <3>1. ctx' = <<t, i>>
            BY <1>6, <2>1
        <3>2. ctx'[1] = t /\ ctx'[2] = i /\ ctx' \in Ctx /\ i <= i
            BY <1>2, <1>3, <3>1 DEF Ctx, Indices
        <3>3. QED
            BY <1>1, <1>4, <1>5, <1>6, <2>1, <3>2 DEF Running, ringVars
    <2>2. CASE pc' = "wild"
        BY <2>2 DEF Running
    <2>3. QED
        BY <1>6, <2>1, <2>2
<1>10. Saved'
    <2>1. \A u \in Thr : th'[u].env = th[u].env /\ th'[u].thread_yield = th[u].thread_yield
        BY <1>4, <1>5
    <2>2. QED
        BY <1>1, <2>1 DEF Saved
<1>11. ASSUME Proper, NEW u \in heap PROVE Tasks(u)'
    <2>1. u \in Thr /\ Tasks(u) /\ act' = act /\ task' = task
        BY <1>1, <1>11 DEF TypeOK
    <2>2. \A j \in Indices : ~Runs(u, j)
        BY <1>1 DEF Runs
    <2>3. /\ th'[u].num_tasks = th[u].num_tasks /\ th'[u].buf_set = th[u].buf_set
          /\ th'[u].env = th[u].env
        BY <1>4, <1>5, <2>1 DEF i
    <2>4. QED
        BY <2>1, <2>2, <2>3, TasksKept
<1>12. ASSUME Proper, pc' = "wild"
       PROVE  act[t][i] = "live" /\ top[t] # task[t][i].fp
    <2>1. Tasks(t) /\ ~Runs(t, i) /\ i <= i
        BY <1>1, <1>2, <1>3, <1>12 DEF Runs, Slots
    <2>2. act[t][i] # "none" /\ act[t][i] # "ready"
        BY <1>1, <1>3, <2>1 DEF Tasks, i
    <2>3. act[t][i] = "live"
        BY <1>2, <1>3, <2>2 DEF TypeOK, Indices
    <2>4. task[t][i].env = <<t, i>>
        BY <1>3, <2>1, <2>3 DEF Tasks
    <2>5. QED
        BY <1>6, <1>12, <2>3, <2>4
<1>13. ThreadsInv'
    BY <1>1, <1>7, <1>8, <1>9, <1>10, <1>11 DEF Proper, ringVars
<1>14. QED
    BY <1>3, <1>12, <1>13 DEF i

LEMMA StartTaskKeeps ==
    ASSUME ThreadsInv, dispatch_start_task, UNCHANGED client
    PROVE  ThreadsInv'
<1> USE DEF ThreadsInv
<1> DEFINE t == current_thread
           i == th[t].num_tasks
           new == [th[t] EXCEPT !.current_task = i]
<1>1. /\ pc = "dispatch" /\ i >= 0 /\ pc' = "code" /\ ctx' = <<t, i>>
      /\ th' = [th EXCEPT ![t] = new]
      /\ task' = [task EXCEPT ![t][i].buf_set = 0]
      /\ act' = [act EXCEPT ![t][i] = "live"]
      /\ top' = [top EXCEPT ![t] = task[t][i].fp]
      /\ UNCHANGED ringVars
    BY DEF dispatch_start_task
<1>2. t \in heap /\ t \in Thr /\ t # Nil
    BY <1>1, Here
<1>3. th[t] \in ThRec /\ i \in Slots /\ i \in Indices
    <2>1. th[t] \in ThRec
        BY <1>2, Types
    <2>2. QED
        BY <1>1, <2>1 DEF ThRec, Indices, Slots
<1> HIDE DEF i
<1>4. /\ new \in ThRec /\ new.num_tasks = i /\ new.buf_set = th[t].buf_set /\ new.env = th[t].env
      /\ new.thread_yield = th[t].thread_yield /\ new.current_task = i
    BY <1>3 DEF ThRec, Slots, i
<1> HIDE DEF new
<1>5. /\ th'[t] = new /\ \A u \in Thr \ {t} : th'[u] = th[u] /\ act'[u] = act[u] /\ task'[u] = task[u]
      /\ act'[t][i] = "live" /\ \A j \in Indices \ {i} : act'[t][j] = act[t][j]
      /\ \A j \in Slots \ {i} : task'[t][j] = task[t][j]
      /\ task'[t][i].env = task[t][i].env
    <2>1. task[t] \in [Slots -> TaskRec] /\ act[t] \in [Indices -> {"none", "ready", "live"}]
        BY <1>2, Types DEF TypeOK, Indices
    <2>2. task'[t] = [task[t] EXCEPT ![i] = [task[t][i] EXCEPT !.buf_set = 0]]
          /\ act'[t] = [act[t] EXCEPT ![i] = "live"]
        BY <1>1, <1>2, Types DEF TypeOK
    <2>3. task[t][i] \in TaskRec
        BY <1>3, <2>1
    <2>4. [task[t][i] EXCEPT !.buf_set = 0].env = task[t][i].env
        BY <2>3 DEF TaskRec
    <2>5. QED
        BY <1>1, <1>2, <1>3, <2>1, <2>2, <2>4, Types DEF TypeOK
<1>6. TypeOK'
    <2>1. th' \in [Thr -> ThRec]
        BY <1>1, <1>4, Types
    <2>2. ctx' \in Ctx
        BY <1>1, <1>2, <1>3 DEF Ctx, Indices
    <2>3. task[t][i] \in TaskRec /\ task[t] \in [Slots -> TaskRec]
        BY <1>2, <1>3, Types
    <2>4. [task[t][i] EXCEPT !.buf_set = 0] \in TaskRec /\ task[t][i].fp \in Fn \cup {Nil}
        BY <2>3 DEF TaskRec
    <2>5. task' \in [Thr -> [Slots -> TaskRec]]
        <3>1. task' = [task EXCEPT ![t] = [task[t] EXCEPT ![i] = [task[t][i] EXCEPT !.buf_set = 0]]]
            BY <1>1
        <3>2. [task[t] EXCEPT ![i] = [task[t][i] EXCEPT !.buf_set = 0]] \in [Slots -> TaskRec]
            BY <2>3, <2>4
        <3>3. QED
            BY <3>1, <3>2, Types
    <2>6. /\ act' \in [Thr -> [-1 .. MAX_TASK - 1 -> {"none", "ready", "live"}]]
          /\ top' \in [Thr -> Fn \cup {Nil}]
        BY <1>1, <2>4 DEF TypeOK
    <2>7. QED
        BY <1>1, <2>1, <2>2, <2>5, <2>6 DEF TypeOK, ThRec, TaskRec, ringVars
<1>7. Ring'
    <2>1. \A u \in Thr \ heap : th'[u].num_tasks = th[u].num_tasks
        BY <1>2, <1>5
    <2>2. QED
        BY <1>1, <1>2, <2>1, RingKept
<1>8. Running'
    <2>1. ctx'[1] = t /\ ctx'[2] = i /\ ctx' \in Ctx /\ i <= i
        BY <1>1, <1>2, <1>3 DEF Ctx, Indices
    <2>2. QED
        BY <1>1, <1>4, <1>5, <2>1 DEF Running, ringVars
<1>9. Saved'
    <2>1. \A u \in Thr : th'[u].env = th[u].env /\ th'[u].thread_yield = th[u].thread_yield
        BY <1>4, <1>5
    <2>2. \A u \in Thr : \A j \in Slots : task'[u][j].env = task[u][j].env
        BY <1>5
    <2>3. QED
        BY <1>1, <2>1, <2>2 DEF Saved
<1>10. ASSUME Proper, NEW u \in heap PROVE Tasks(u)'
    <2>1. u \in Thr /\ Tasks(u)
        BY <1>10 DEF TypeOK
    <2>2. \A j \in Indices : ~Runs(u, j)
        BY <1>1 DEF Runs
    <2>3. CASE u # t
        BY <1>5, <2>1, <2>2, <2>3, TasksKept
    <2>4. CASE u = t
        <3>1. /\ th'[t].num_tasks = th[t].num_tasks /\ th'[t].buf_set = th[t].buf_set
              /\ th'[t].env = th[t].env
            BY <1>4, <1>5 DEF i
        <3>2. -1 \in Indices /\ Slots \subseteq Indices /\ -1 # i /\ i <= i
            BY <1>3 DEF Indices, Slots
        <3>7. i = th[t].num_tasks /\ pc' = "code" /\ ctx' = <<u, i>>
            BY <1>1, <2>4 DEF i
        <3>4. ASSUME NEW j \in Slots
              PROVE  /\ act'[t][j] # "none" <=> j <= th[t].num_tasks
                     /\ act'[t][j] = "ready" => task'[t][j].buf_set = -1
                     /\ act'[t][j] = "live" /\ ~Runs(u, j)' =>
                            task'[t][j].buf_set = 1 /\ task'[t][j].env = <<t, j>>
            <4>1. CASE j = i
                <5>1. Runs(u, j)'
                    BY <3>7, <4>1 DEF Runs
                <5>2. QED
                    BY <1>5, <3>2, <3>7, <4>1, <5>1
            <4>2. CASE j # i
                BY <1>5, <2>1, <2>2, <2>4, <3>2, <4>2 DEF Tasks
            <4>3. QED
                BY <4>1, <4>2
        <3>5. act'[u][-1] = act[u][-1] /\ ~Runs(u, -1)
            BY <1>5, <2>2, <2>4, <3>2
        <3>6. /\ th'[u].num_tasks = th[u].num_tasks /\ th'[u].buf_set = th[u].buf_set
              /\ th'[u].env = th[u].env
            BY <2>4, <3>1
        <3>8. \A j \in Slots :
                     /\ act'[u][j] # "none" <=> j <= th[u].num_tasks
                     /\ act'[u][j] = "ready" => task'[u][j].buf_set = -1
                     /\ act'[u][j] = "live" /\ ~Runs(u, j)' =>
                            task'[u][j].buf_set = 1 /\ task'[u][j].env = <<u, j>>
            BY <2>4, <3>4
        <3>9. QED
            BY <2>1, <3>5, <3>6, <3>8 DEF Tasks
    <2>5. QED
        BY <2>3, <2>4
<1>11. QED
    BY <1>1, <1>6, <1>7, <1>8, <1>9, <1>10 DEF Proper, ringVars

\* The loop of dispatch() meets no returned task of a proper client.
LEMMA SkipKeeps ==
    ASSUME ThreadsInv, dispatch_skip_task, UNCHANGED client
    PROVE  ThreadsInv' /\ ~Proper
<1> USE DEF ThreadsInv
<1> DEFINE t == current_thread
           i == th[t].num_tasks
           new == [th[t] EXCEPT !.current_task = i, !.num_tasks = i - 1]
<1>1. /\ pc = "dispatch" /\ i >= 0 /\ task[t][i].buf_set = 0
      /\ th' = [th EXCEPT ![t] = new] /\ UNCHANGED <<ringVars, task, act, top, pc, ctx>>
    BY DEF dispatch_skip_task
<1>2. t \in heap /\ t \in Thr /\ t # Nil
    BY <1>1, Here
<1>3. th[t] \in ThRec /\ i \in Slots /\ i \in Indices
    <2>1. th[t] \in ThRec
        BY <1>2, Types
    <2>2. QED
        BY <1>1, <2>1 DEF ThRec, Indices, Slots
<1>4. ~Proper
    <2>1. SUFFICES ASSUME Proper PROVE FALSE
        OBVIOUS
    <2>2. Tasks(t) /\ ~Runs(t, i) /\ i <= i
        BY <1>1, <1>2, <1>3, <2>1 DEF Runs, Slots
    <2>3. act[t][i] \in {"none", "ready", "live"}
        BY <1>2, <1>3 DEF TypeOK, Indices
    <2>4. QED
        BY <1>1, <1>3, <2>2, <2>3 DEF Tasks
<1> HIDE DEF i
<1>5. /\ new \in ThRec /\ new.env = th[t].env /\ new.thread_yield = th[t].thread_yield
    <2>1. i \in -1 .. MAX_TASK - 1 /\ i - 1 \in -1 .. MAX_TASK - 1
        BY <1>3 DEF Slots
    <2>2. QED
        BY <1>3, <2>1 DEF ThRec
<1> HIDE DEF new
<1>6. th'[t] = new /\ \A u \in Thr \ {t} : th'[u] = th[u]
    BY <1>1, <1>2, Types
<1>7. TypeOK'
    <2>1. th' \in [Thr -> ThRec]
        BY <1>1, <1>5, Types
    <2>2. QED
        BY <1>1, <2>1 DEF TypeOK, ThRec, ringVars
<1>8. Ring'
    BY <1>1, <1>2, <1>6, RingKept
<1>9. Running'
    BY <1>1 DEF Running
<1>10. Saved'
    <2>1. \A u \in Thr : th'[u].env = th[u].env /\ th'[u].thread_yield = th[u].thread_yield
        BY <1>5, <1>6
    <2>2. QED
        BY <1>1, <2>1 DEF Saved
<1>11. QED
    BY <1>4, <1>7, <1>8, <1>9, <1>10 DEF Proper

LEMMA RunRec ==
    ASSUME NEW r \in ThRec, NEW y \in {0, 1}
    PROVE  LET s == [r EXCEPT !.current_task = -1, !.buf_set = 0, !.task_yield = 0,
                              !.thread_yield = y]
           IN  s \in ThRec /\ s.num_tasks = r.num_tasks /\ s.env = r.env /\ s.current_task = -1
<1>1. -1 \in -1 .. MAX_TASK - 1
    OBVIOUS
<1>2. QED
    BY <1>1 DEF ThRec

LEMMA RunFlags ==
    ASSUME TypeOK, NEW t \in Thr
    PROVE  /\ FlagsOnRun(t) \in ThRec /\ FlagsOnRun(t).num_tasks = th[t].num_tasks
           /\ FlagsOnRun(t).env = th[t].env /\ FlagsOnRun(t).current_task = -1
<1> DEFINE y == IF th[t].task_yield = 1 THEN th[t].thread_yield ELSE 1
           r == [th[t] EXCEPT !.current_task = -1, !.buf_set = 0, !.task_yield = 0,
                              !.thread_yield = y]
<1>1. th[t] \in ThRec
    BY Types
<1>2. y \in {0, 1}
    BY <1>1 DEF ThRec
<1>3. FlagsOnRun(t) = r
    BY DEF FlagsOnRun
<1> HIDE DEF y
<1>4. r \in ThRec /\ r.num_tasks = th[t].num_tasks /\ r.env = th[t].env /\ r.current_task = -1
    BY <1>1, <1>2, RunRec
<1>5. QED
    BY <1>3, <1>4

LEMMA ResumeThreadKeeps ==
    ASSUME ThreadsInv, dispatch_resume_thread, UNCHANGED client
    PROVE  ThreadsInv' /\ (Proper => pc' = "code")
<1> USE DEF ThreadsInv
<1> DEFINE t == current_thread
           new == FlagsOnRun(t)
<1>1. /\ pc = "dispatch" /\ th[t].num_tasks < 0 /\ th[t].buf_set = 1 /\ longjmp(th[t].env)
      /\ th' = [th EXCEPT ![t] = new] /\ UNCHANGED <<ringVars, task, act, top>>
    BY DEF dispatch_resume_thread
<1>2. t \in heap /\ t \in Thr /\ t # Nil
    BY <1>1, Here
<1>3. th[t].num_tasks = -1 /\ -1 \in Indices
    <2>1. th[t] \in ThRec
        BY <1>2, Types
    <2>2. QED
        BY <1>1, <2>1 DEF ThRec, Indices
<1>4. new \in ThRec /\ new.num_tasks = -1 /\ new.env = th[t].env /\ new.current_task = -1
    BY <1>2, <1>3, RunFlags
<1> HIDE DEF new
<1>5. th'[t] = new /\ \A u \in Thr \ {t} : th'[u] = th[u]
    BY <1>1, <1>2, Types
<1>6. /\ ctx' = th[t].env /\ pc' \in {"code", "wild"}
      /\ pc' = "code" => ctx' = <<t, -1>> /\ act[t][-1] = "live"
      /\ th[t].env = <<t, -1>> /\ act[t][-1] = "live" => pc' = "code"
    <2>1. th[t].env \in {NoCtx, <<t, -1>>}
        BY <1>2 DEF Saved
    <2>2. ~(-1 >= 0)
        OBVIOUS
    <2>3. QED
        BY <1>1, <1>2, <1>3, <2>1, <2>2, Longjmp
<1>7. TypeOK'
    <2>1. th' \in [Thr -> ThRec]
        BY <1>1, <1>4, Types
    <2>2. th[t].env \in Ctx \cup {NoCtx}
        BY <1>2 DEF TypeOK
    <2>3. QED
        BY <1>1, <1>6, <2>1, <2>2 DEF TypeOK, ThRec, ringVars
<1>8. Ring'
    BY <1>1, <1>2, <1>5, RingKept
<1>9. Running'
    <2>1. CASE pc' = "code"
        <3>1. ctx' = <<t, -1>>
            BY <1>6, <2>1
        <3>2. ctx'[1] = t /\ ctx'[2] = -1 /\ ctx' \in Ctx /\ -1 <= -1
            BY <1>2, <1>3, <3>1 DEF Ctx, Indices
        <3>3. QED
            BY <1>1, <1>4, <1>5, <1>6, <2>1, <3>2 DEF Running, ringVars
    <2>2. CASE pc' = "wild"
        BY <2>2 DEF Running
    <2>3. QED
        BY <1>6, <2>1, <2>2
<1>10. Saved'
    <2>1. \A u \in Thr : th'[u].env = th[u].env
        BY <1>4, <1>5
    <2>2. \A u \in Thr \ {t} : th'[u].thread_yield # 1
        BY <1>1, <1>5 DEF Saved
    <2>3. pc' = "wild" \/ (pc' = "code" /\ ctx' = <<t, -1>>)
        BY <1>6
    <2>4. ASSUME NEW u \in Thr, th'[u].thread_yield = 1
          PROVE  pc' = "wild" \/ (pc' = "code" /\ ctx' = <<u, -1>>)
        BY <2>2, <2>3, <2>4
    <2>5. ASSUME NEW u \in Thr PROVE th'[u].env \in {NoCtx, <<u, -1>>}
        BY <2>1 DEF Saved
    <2>6. ASSUME NEW u \in Thr, NEW i \in Slots PROVE task'[u][i].env \in {NoCtx, <<u, i>>}
        BY <1>1 DEF Saved
    <2>7. QED
        BY <2>4, <2>5, <2>6 DEF Saved
<1>11. ASSUME Proper, NEW u \in heap, u = t PROVE pc' = "code" /\ Tasks(u)'
    <2>1. Tasks(u) /\ \A j \in Indices : ~Runs(u, j)
        BY <1>1, <1>2, <1>11 DEF Runs
    <2>2. act[u][-1] = "live" /\ th[u].env = <<u, -1>>
        BY <1>1, <1>3, <1>11, <2>1 DEF Tasks
    <2>3. pc' = "code" /\ ctx' = <<u, -1>>
        BY <1>6, <1>11, <2>2
    <2>4. Runs(u, -1)' /\ Slots \subseteq Indices
        BY <2>3 DEF Runs, Slots, Indices
    <2>5. th'[u].num_tasks = th[u].num_tasks
        BY <1>3, <1>4, <1>5, <1>11
    <2>6. QED
        BY <1>1, <2>1, <2>2, <2>3, <2>4, <2>5 DEF Tasks
<1>12. ASSUME Proper, NEW u \in heap, u # t PROVE Tasks(u)'
    <2>1. u \in Thr /\ Tasks(u) /\ act' = act /\ task' = task
        BY <1>1, <1>12 DEF TypeOK
    <2>2. \A j \in Indices : ~Runs(u, j)
        BY <1>1 DEF Runs
    <2>3. QED
        BY <1>5, <1>12, <2>1, <2>2, TasksKept
<1>13. Proper => \A u \in heap : Tasks(u)'
    BY <1>11, <1>12
<1>14. Proper => pc' = "code"
    BY <1>2, <1>11
<1>15. ThreadsInv'
    BY <1>1, <1>7, <1>8, <1>9, <1>10, <1>13 DEF Proper, ringVars
<1>16. QED
    BY <1>14, <1>15

LEMMA StartThreadKeeps ==
    ASSUME ThreadsInv, dispatch_start_thread, UNCHANGED client
    PROVE  ThreadsInv'
<1> USE DEF ThreadsInv
<1> DEFINE t == current_thread
           new == FlagsOnRun(t)
<1>1. /\ pc = "dispatch" /\ th[t].num_tasks < 0 /\ pc' = "code" /\ ctx' = <<t, -1>>
      /\ th' = [th EXCEPT ![t] = new] /\ act' = [act EXCEPT ![t][-1] = "live"]
      /\ UNCHANGED <<ringVars, task, top>>
    BY DEF dispatch_start_thread
<1>2. t \in heap /\ t \in Thr /\ t # Nil
    BY <1>1, Here
<1>3. th[t].num_tasks = -1 /\ -1 \in Indices
    <2>1. th[t] \in ThRec
        BY <1>2, Types
    <2>2. QED
        BY <1>1, <2>1 DEF ThRec, Indices
<1>4. new \in ThRec /\ new.num_tasks = -1 /\ new.env = th[t].env /\ new.current_task = -1
    BY <1>2, <1>3, RunFlags
<1> HIDE DEF new
<1>5. /\ th'[t] = new /\ \A u \in Thr \ {t} : th'[u] = th[u] /\ act'[u] = act[u]
      /\ act'[t][-1] = "live" /\ \A j \in Indices \ {-1} : act'[t][j] = act[t][j]
    BY <1>1, <1>2, <1>3, Types DEF TypeOK, Indices
<1>6. TypeOK'
    <2>1. th' \in [Thr -> ThRec]
        BY <1>1, <1>4, Types
    <2>2. ctx' \in Ctx
        BY <1>1, <1>2, <1>3 DEF Ctx, Indices
    <2>3. act' \in [Thr -> [-1 .. MAX_TASK - 1 -> {"none", "ready", "live"}]]
        BY <1>1 DEF TypeOK
    <2>4. QED
        BY <1>1, <2>1, <2>2, <2>3 DEF TypeOK, ThRec, ringVars
<1>7. Ring'
    BY <1>1, <1>2, <1>5, RingKept
<1>8. Running'
    <2>1. ctx'[1] = t /\ ctx'[2] = -1 /\ ctx' \in Ctx /\ -1 <= -1
        BY <1>1, <1>2, <1>3 DEF Ctx, Indices
    <2>2. QED
        BY <1>1, <1>4, <1>5, <2>1 DEF Running, ringVars
<1>9. Saved'
    <2>1. \A u \in Thr : th'[u].env = th[u].env
        BY <1>4, <1>5
    <2>2. \A u \in Thr \ {t} : th'[u].thread_yield # 1
        BY <1>1, <1>5 DEF Saved
    <2>3. QED
        BY <1>1, <2>1, <2>2 DEF Saved
<1>10. ASSUME Proper, NEW u \in heap PROVE Tasks(u)'
    <2>1. u \in Thr /\ Tasks(u) /\ task' = task
        BY <1>1, <1>10 DEF TypeOK
    <2>2. \A j \in Indices : ~Runs(u, j)
        BY <1>1 DEF Runs
    <2>3. CASE u # t
        BY <1>5, <2>1, <2>2, <2>3, TasksKept
    <2>4. CASE u = t
        <3>1. Runs(u, -1)' /\ th'[u].num_tasks = th[u].num_tasks
            BY <1>1, <1>3, <1>4, <1>5, <2>4 DEF Runs
        <3>2. \A j \in Slots : j \in Indices /\ act'[u][j] = act[u][j]
            BY <1>5, <2>4 DEF Slots, Indices
        <3>3. act'[u][-1] = "live"
            BY <1>5, <2>4
        <3>4. QED
            BY <2>1, <2>2, <3>1, <3>2, <3>3 DEF Tasks
    <2>5. QED
        BY <2>3, <2>4
<1>11. QED
    BY <1>1, <1>6, <1>7, <1>8, <1>9, <1>10 DEF Proper, ringVars

LEMMA InitInv == ThreadInit => ThreadsInv
<1> SUFFICES ASSUME ThreadInit PROVE ThreadsInv
    OBVIOUS
<1> USE DEF ThreadInit
<1>1. NewThread \in ThRec /\ NoTask \in TaskRec /\ NoActs \in [-1 .. MAX_TASK - 1 -> {"none", "ready", "live"}]
      /\ NewThread.num_tasks = -1 /\ NewThread.env = NoCtx /\ NewThread.thread_yield = 0
      /\ NoTask.env = NoCtx
    BY DEF NewThread, NoTask, NoActs, ThRec, TaskRec
<1>2. th \in [Thr -> ThRec] /\ task \in [Thr -> [Slots -> TaskRec]]
    BY <1>1
<1>3. TypeOK
    BY <1>1, <1>2 DEF TypeOK, ThRec, TaskRec
<1>4. IsRing(<<>>)
    <2>1. Len(<<>>) = 0 /\ <<>> \in Seq(Thr)
        OBVIOUS
    <2>2. \A t \in Thr : t \notin Queued
        BY DEF Queued
    <2>3. QED
        BY <2>1, <2>2 DEF IsRing
<1>5. Ring
    <2>1. <<>> \in Seq(Thr)
        OBVIOUS
    <2>2. QED
        BY <1>1, <1>4, <2>1 DEF Ring
<1>6. Running
    BY DEF Running
<1>7. Saved
    BY <1>1 DEF Saved
<1>8. QED
    BY <1>3, <1>5, <1>6, <1>7 DEF ThreadsInv

LEMMA NextInv == ThreadsInv /\ [ThreadNext]_threadVars => ThreadsInv'
<1> SUFFICES ASSUME ThreadsInv, [ThreadNext]_threadVars PROVE ThreadsInv'
    OBVIOUS
<1>1. CASE UNCHANGED threadVars
    <2>1. /\ UNCHANGED <<ringVars, th, task, act, top, pc, ctx, client>>
          /\ UNCHANGED <<current_thread, next, previous, heap>>
        BY <1>1 DEF threadVars, ringVars
    <2>2. TypeOK'
        BY <2>1 DEF ThreadsInv, TypeOK
    <2>3. Ring'
        BY <2>1, RingKept DEF ThreadsInv, Ring
    <2>4. Running'
        BY <2>1 DEF ThreadsInv, Running, Proper
    <2>5. Saved'
        BY <2>1 DEF ThreadsInv, Saved
    <2>6. ASSUME Proper, NEW u \in heap PROVE Tasks(u)'
        <3>1. u \in Thr /\ Tasks(u)
            BY <2>6 DEF ThreadsInv, TypeOK
        <3>2. QED
            BY <2>1, <3>1, TasksKept DEF Runs
    <2>7. QED
        BY <2>1, <2>2, <2>3, <2>4, <2>5, <2>6 DEF ThreadsInv, Proper
<1>2. CASE over
    <2>1. UNCHANGED threadVars
        BY <1>2 DEF over
    <2>2. QED
        BY <1>1, <2>1
<1>3. CASE unlink /\ pc \in {"code", "dispatch"} /\ UNCHANGED client
    BY <1>3, UnlinkKeeps
<1>4. SUFFICES ASSUME ThreadNext PROVE ThreadsInv'
    BY <1>1
<1>5. UNCHANGED client
    BY <1>4 DEF ThreadNext
<1>6. CASE \E t \in Thr : \/ thread_create(t) \/ thread_add_runqueue(t)
                          \/ thread_assign_task_full(t)
                          \/ \E f \in Fn : thread_assign_task(t, f)
    BY <1>5, <1>6, CreateKeeps, AddKeeps, FloodKeeps, AssignKeeps
<1>7. CASE thread_start_threading
    BY <1>5, <1>7, StartKeeps
<1>8. CASE thread_yield_task
    BY <1>5, <1>8, YieldTaskKeeps
<1>9. CASE thread_yield_thread
    BY <1>5, <1>9, YieldThreadKeeps
<1>10. CASE task_return
    BY <1>5, <1>10, ReturnKeeps
<1>11. CASE function_return \/ thread_exit \/ dispatch_exit
    BY <1>3, <1>5, <1>11 DEF function_return, thread_exit, dispatch_exit
<1>12. CASE thread_exit_frees_frames
    <2>1. pc = "code"
        BY <1>12 DEF thread_exit_frees_frames
    <2>2. QED
        BY <1>5, <1>12, <2>1, WildKeeps
<1>13. CASE dispatch_resume_task
    BY <1>5, <1>13, ResumeTaskKeeps
<1>14. CASE dispatch_start_task
    BY <1>5, <1>14, StartTaskKeeps
<1>15. CASE dispatch_skip_task
    BY <1>5, <1>15, SkipKeeps
<1>16. CASE dispatch_resume_thread
    BY <1>5, <1>16, ResumeThreadKeeps
<1>17. CASE dispatch_start_thread
    BY <1>5, <1>17, StartThreadKeeps
<1>18. QED
    BY <1>2, <1>4, <1>6, <1>7, <1>8, <1>9, <1>10, <1>11, <1>12, <1>13, <1>14, <1>15, <1>16, <1>17
       DEF ThreadNext

\* The invariant holds throughout, whatever the clients do (threads.c:51-208).
THEOREM ThreadsInvariant == ThreadSpec => []ThreadsInv
<1>1. ThreadInit => ThreadsInv
    BY InitInv
<1>2. ThreadsInv /\ [ThreadNext]_threadVars => ThreadsInv'
    BY NextInv
<1>3. QED
    BY <1>1, <1>2, PTL DEF ThreadSpec

-----------------------------------------------------------------------------
(* The properties.                                                         *)

LEMMA InvImpliesRingOK == ThreadsInv => RingOK
<1> SUFFICES ASSUME ThreadsInv PROVE RingOK
    OBVIOUS
<1> USE DEF ThreadsInv
<1> DEFINE n == Cardinality(Queued)
<1>1. PICK s \in Seq(Thr) : IsRing(s)
    BY DEF Ring
<1>2. n = Len(s) /\ n \in Nat /\ Round(n) = s
    BY <1>1, RingSize, RoundIsRing
<1> HIDE DEF n
<1>3. Queued \subseteq Thr
    BY DEF Queued, TypeOK
<1>4. {s[i] : i \in 1 .. n} = Queued
    <2>1. \A i \in 1 .. n : s[i] \in Thr
        BY <1>1, <1>2
    <2>2. \A t \in Thr : t \in Queued <=> \E i \in 1 .. n : s[i] = t
        BY <1>1, <1>2 DEF IsRing
    <2>3. QED
        BY <1>3, <2>1, <2>2
<1>5. (current_thread = Nil) <=> (Queued = {})
    <2>1. CASE n = 0
        BY <1>1, <1>2, <1>4, <2>1 DEF IsRing
    <2>2. CASE n > 0
        <3>1. 1 \in 1 .. n /\ current_thread = s[1] /\ s[1] \in Thr
            BY <1>1, <1>2, <2>2 DEF IsRing
        <3>2. QED
            BY <1>4, <3>1
    <2>3. QED
        BY <1>2, <2>1, <2>2
<1>6. n > 0 => next[s[n]] = current_thread
    BY <1>1, <1>2 DEF IsRing
<1>7. ASSUME NEW t \in Queued PROVE previous[next[t]] = t
    <2>1. PICK i \in 1 .. n : t = s[i]
        BY <1>4, <1>7
    <2>2. CASE i = n
        <3>1. n > 0
            BY <1>2, <2>1
        <3>2. next[s[n]] = s[1] /\ previous[s[1]] = s[n]
            BY <1>1, <1>2, <3>1 DEF IsRing
        <3>3. QED
            BY <2>1, <2>2, <3>2
    <2>3. CASE i # n
        <3>1. i \in 1 .. n - 1
            BY <1>2, <2>1, <2>3
        <3>2. QED
            BY <1>1, <1>2, <2>1, <3>1 DEF IsRing
    <2>4. QED
        BY <2>2, <2>3
<1>8. pc = "code" => ctx[1] = current_thread
    BY DEF Running
<1>9. QED
    BY <1>2, <1>4, <1>5, <1>6, <1>7, <1>8 DEF RingOK, n

LEMMA InvImpliesThreadsOK == ThreadsInv => ThreadsOK
<1> SUFFICES ASSUME ThreadsInv PROVE ThreadsOK
    OBVIOUS
<1>1. Proper => Kept
    BY DEF ThreadsInv, Tasks, Kept
<1>2. QED
    BY <1>1, InvImpliesRingOK DEF ThreadsInv, ThreadsOK

\* The run queue is one circle and no task is forgotten, whatever the clients
\* do and in any order: threads.c:36-49, 153-181, 193-208 (ThreadsOK).
THEOREM QueueWhole == ThreadSpec => []ThreadsOK
BY ThreadsInvariant, InvImpliesThreadsOK, PTL

\* A step leaves frames that are still needed on the stack.
LEMMA NextFrames ==
    ThreadsInv /\ Frames /\ SameFunction /\ [ThreadNext]_threadVars => Frames'
<1> SUFFICES ASSUME ThreadsInv, Frames, SameFunction, [ThreadNext]_threadVars, Proper
             PROVE  Frames'
    BY DEF Frames, Proper, threadVars, ThreadNext
<1> USE DEF ThreadsInv
<1> DEFINE Good(t) == \A i \in Slots : act[t][i] = "live" => top[t] = task[t][i].fp
<1>1. pc # "wild" /\ \A t \in heap : Good(t)
    BY DEF Frames
<1>2. SUFFICES pc' # "wild" /\ \A t \in heap' : Good(t)'
    BY DEF Frames
<1>3. \A t \in heap : t \in Thr /\ Tasks(t)
    BY DEF TypeOK
<1>4. Slots \subseteq Indices
    BY DEF Slots, Indices
<1>5. CASE UNCHANGED threadVars
    BY <1>1, <1>5 DEF threadVars
<1>6. CASE over
    BY <1>1, <1>6 DEF over, threadVars
<1>7. ASSUME NEW t \in Thr, thread_create(t) PROVE pc' # "wild" /\ \A u \in heap' : Good(u)'
    <2>1. /\ act' = [act EXCEPT ![t] = [NoActs EXCEPT ![-1] = "ready"]] /\ heap' = heap \cup {t}
          /\ UNCHANGED <<task, top, pc>>
        BY <1>7 DEF thread_create
    <2>2. \A i \in Slots : act'[t][i] = "none"
        BY <2>1 DEF TypeOK, NoActs, Slots
    <2>3. \A u \in Thr \ {t} : act'[u] = act[u]
        BY <2>1 DEF TypeOK
    <2>4. QED
        BY <1>1, <1>3, <2>1, <2>2, <2>3
<1>8. ASSUME NEW t \in Thr, thread_add_runqueue(t) PROVE pc' # "wild" /\ \A u \in heap' : Good(u)'
    BY <1>1, <1>8 DEF thread_add_runqueue
<1>9. ASSUME NEW t \in Thr, thread_assign_task_full(t) PROVE FALSE
    BY <1>9 DEF thread_assign_task_full, Proper
<1>10. ASSUME NEW t \in Thr, NEW f \in Fn, thread_assign_task(t, f)
       PROVE  pc' # "wild" /\ \A u \in heap' : Good(u)'
    <2> DEFINE n == th[t].num_tasks + 1
               new == [NoTask EXCEPT !.buf_set = -1, !.fp = f]
    <2>1. /\ n \in 0 .. Depth - 1
          /\ task' = [task EXCEPT ![t][n] = new] /\ act' = [act EXCEPT ![t][n] = "ready"]
          /\ UNCHANGED <<heap, top, pc>>
        BY <1>10 DEF thread_assign_task, ringVars
    <2> HIDE DEF n, new
    <2>2. n \in Slots
        BY <2>1 DEF Slots
    <2>3. \A u \in Thr : \A i \in Slots : u # t \/ i # n => act'[u][i] = act[u][i] /\ task'[u][i] = task[u][i]
        BY <1>4, <2>1 DEF TypeOK, Indices
    <2>4. act'[t][n] = "ready"
        BY <1>4, <2>1, <2>2 DEF TypeOK, Indices
    <2>5. QED
        BY <1>1, <1>3, <2>1, <2>3, <2>4
<1>11. CASE thread_start_threading
    BY <1>1, <1>11 DEF thread_start_threading, ringVars
<1>12. CASE thread_yield_task
    <2> DEFINE t == current_thread
               index == th[t].current_task
    <2>1. /\ task' = IF index < 0 THEN task
                     ELSE [task EXCEPT ![t][index].env = ctx, ![t][index].buf_set = 1]
          /\ pc' = "dispatch" /\ UNCHANGED <<heap, act, top>>
        BY <1>12 DEF thread_yield_task, schedule
    <2>2. ASSUME NEW u \in Thr, NEW i \in Slots PROVE task'[u][i].fp = task[u][i].fp
        <3> HIDE DEF index
        <3>1. task \in [Thr -> [Slots -> TaskRec]]
            BY Types
        <3>2. QED
            BY <2>1, <2>2, <3>1 DEF TaskRec
    <2>3. ASSUME NEW u \in heap', NEW i \in Slots, act'[u][i] = "live" PROVE top'[u] = task'[u][i].fp
        <3>1. u \in heap /\ u \in Thr /\ act[u][i] = "live" /\ top'[u] = top[u]
            BY <1>3, <2>1, <2>3
        <3>2. QED
            BY <1>1, <2>2, <3>1
    <2>4. QED
        BY <2>1, <2>3
<1>13. CASE thread_yield_thread
    BY <1>1, <1>13 DEF thread_yield_thread, schedule
<1>14. CASE task_return
    <2>1. /\ act' = [act EXCEPT ![ctx[1]][ctx[2]] = "none"]
          /\ pc' = "dispatch" /\ UNCHANGED <<heap, task, top>>
        BY <1>14 DEF task_return, ringVars
    <2>2. \A u \in Thr : \A i \in Slots : act'[u][i] = "live" => act[u][i] = "live"
        BY <1>4, <2>1 DEF TypeOK, Indices
    <2>3. QED
        BY <1>1, <1>3, <2>1, <2>2
<1>15. CASE function_return \/ thread_exit \/ dispatch_exit
    <2>1. unlink
        BY <1>15 DEF function_return, thread_exit, dispatch_exit
    <2>2. /\ heap' = heap \ {current_thread} /\ pc' # "wild"
          /\ task' = [task EXCEPT ![current_thread] = [i \in Slots |-> NoTask]]
          /\ act' = [act EXCEPT ![current_thread] = NoActs]
          /\ top' = [top EXCEPT ![current_thread] = Nil]
        BY <2>1 DEF unlink
    <2>3. \A u \in heap' : u \in heap /\ act'[u] = act[u] /\ task'[u] = task[u] /\ top'[u] = top[u]
        BY <1>3, <2>2 DEF TypeOK
    <2>4. QED
        BY <1>1, <2>2, <2>3
<1>16. CASE thread_exit_frees_frames
    BY <1>16 DEF thread_exit_frees_frames, Proper
<1>17. CASE dispatch_resume_task /\ UNCHANGED client
    <2>1. UNCHANGED <<heap, task, act, top>>
        BY <1>17 DEF dispatch_resume_task, ringVars
    <2>2. pc' # "wild"
        <3>1. pc = "dispatch"
            BY <1>17 DEF dispatch_resume_task
        <3>2. current_thread \in heap
            BY <3>1, Here
        <3>3. QED
            BY <1>1, <1>17, <3>2, ResumeTaskKeeps
    <2>3. QED
        BY <1>1, <2>1, <2>2
<1>18. CASE dispatch_start_task
    <2> DEFINE t == current_thread
               i == th[t].num_tasks
    <2>1. /\ pc = "dispatch" /\ i >= 0 /\ pc' = "code"
          /\ task' = [task EXCEPT ![t][i].buf_set = 0]
          /\ act' = [act EXCEPT ![t][i] = "live"]
          /\ top' = [top EXCEPT ![t] = task[t][i].fp]
          /\ UNCHANGED heap
        BY <1>18 DEF dispatch_start_task, ringVars
    <2>2. t \in heap /\ t \in Thr
        BY <2>1, Here
    <2>3. th[t] \in ThRec /\ i \in Slots
        <3>1. th[t] \in ThRec
            BY <2>2, Types
        <3>2. QED
            BY <2>1, <3>1 DEF ThRec, Slots
    <2>4. \A j \in Slots : j <= i => task[t][j].fp = task[t][i].fp
        BY <2>2, <2>3 DEF SameFunction, Slots
    <2>5. \A j \in Slots : act[t][j] # "none" => j <= i
        BY <1>3, <2>2 DEF Tasks
    <2> HIDE DEF i
    <2>6. ASSUME NEW u \in Thr, NEW j \in Slots PROVE task'[u][j].fp = task[u][j].fp
        <3>1. task \in [Thr -> [Slots -> TaskRec]]
            BY Types
        <3>2. QED
            BY <2>1, <2>6, <3>1 DEF TaskRec
    <2>7. top'[t] = task[t][i].fp /\ \A u \in Thr \ {t} : top'[u] = top[u] /\ act'[u] = act[u]
        BY <2>1, <2>2 DEF TypeOK
    <2>8. \A j \in Slots : j # i => act'[t][j] = act[t][j]
        BY <1>4, <2>1, <2>2 DEF TypeOK, Indices
    <2>9. ASSUME NEW u \in heap', NEW j \in Slots, act'[u][j] = "live" PROVE top'[u] = task'[u][j].fp
        <3>1. CASE u = t
            BY <2>2, <2>4, <2>5, <2>6, <2>7, <2>8, <2>9, <3>1
        <3>2. CASE u # t
            BY <1>1, <1>3, <2>1, <2>6, <2>7, <2>9, <3>2
        <3>3. QED
            BY <3>1, <3>2
    <2>10. QED
        BY <2>1, <2>9
<1>19. CASE dispatch_skip_task
    BY <1>1, <1>19 DEF dispatch_skip_task, ringVars
<1>20. CASE dispatch_resume_thread /\ UNCHANGED client
    <2>1. UNCHANGED <<heap, task, act, top>>
        BY <1>20 DEF dispatch_resume_thread, ringVars
    <2>2. pc' = "code"
        BY <1>20, ResumeThreadKeeps
    <2>3. QED
        BY <1>1, <2>1, <2>2
<1>21. CASE dispatch_start_thread
    <2>1. act' = [act EXCEPT ![current_thread][-1] = "live"] /\ pc' = "code" /\ UNCHANGED <<heap, task, top>>
        BY <1>21 DEF dispatch_start_thread, ringVars
    <2>2. \A u \in Thr : \A i \in Slots : act'[u][i] = act[u][i]
        BY <1>4, <2>1 DEF TypeOK, Slots, Indices
    <2>3. QED
        BY <1>1, <1>3, <2>1, <2>2
<1>22. QED
    BY <1>5, <1>6, <1>7, <1>8, <1>9, <1>10, <1>11, <1>12, <1>13, <1>14, <1>15, <1>16, <1>17, <1>18,
       <1>19, <1>20, <1>21 DEF ThreadNext

\* With one function per thread, the frames a task left are there when dispatch() goes
\* back to it: threads.c:84-97.
THEOREM FramesKept == ThreadSpec /\ []SameFunction => []Frames
<1>1. ThreadInit => Frames
    BY DEF ThreadInit, Frames
<1>2. ThreadsInv /\ Frames /\ SameFunction /\ [ThreadNext]_threadVars => Frames'
    BY NextFrames
<1>3. QED
    BY <1>1, <1>2, ThreadsInvariant, PTL DEF ThreadSpec

LEMMA InvImpliesContexts == ThreadsInv /\ Frames => ContextsKept
<1> SUFFICES ASSUME ThreadsInv, Frames, Proper PROVE Resumable /\ pc # "wild"
    BY DEF ContextsKept
<1>1. pc # "wild"
    BY DEF Frames
<1>2. ASSUME NEW t \in Queued, NEW i \in Indices, act[t][i] = "live", ~(pc = "code" /\ ctx = <<t, i>>)
      PROVE  IF i = -1 THEN th[t].buf_set = 1 /\ th[t].env = <<t, i>>
                       ELSE task[t][i].buf_set = 1 /\ task[t][i].env = <<t, i>>
    <2>1. Tasks(t) /\ ~Runs(t, i)
        BY <1>2 DEF Queued, ThreadsInv, Runs
    <2>2. i = -1 \/ i \in Slots
        BY <1>2 DEF Indices, Slots
    <2>3. QED
        BY <1>2, <2>1, <2>2 DEF Tasks
<1>3. Resumable
    BY <1>2 DEF Resumable, Indices
<1>4. QED
    BY <1>1, <1>3

\* Every yield returns, on frames that are still there, for proper clients that
\* give a thread tasks of one function: threads.c:51-140 (ContextsKept).
THEOREM ContextsSurvive == ThreadSpec /\ []SameFunction => []ContextsKept
BY ThreadsInvariant, FramesKept, InvImpliesContexts, PTL

-----------------------------------------------------------------------------
(* The library implements Coroutines: the queue is the circle, a thread's  *)
(* tasks are the slots up to num_tasks.  The four definitions are what     *)
(* Abstract substitutes for the variables of Coroutines.                   *)

runqV == IF Proper THEN Round(Cardinality(Queued)) ELSE <<>>
tasksV == [t \in Thr |-> IF ~Proper THEN <<>>
             ELSE [k \in 1 .. th[t].num_tasks + 1 |-> task[t][k - 1].fp]]
pcV == IF ~Proper THEN "main"
       ELSE CASE pc = "code" -> "run" [] pc = "dispatch" -> "pick" [] OTHER -> pc
levelV == IF Proper /\ pc = "code" THEN ctx[2] + 1 ELSE 0

RunqIsRing == TypeOK /\ Proper => \A s \in Seq(Thr) : IsRing(s) => runqV = s

LEMMA RunqRing == RunqIsRing
BY RoundIsRing DEF RunqIsRing, runqV

Fns == Fn \cup {Nil}
StackIsSeq ==
    TypeOK /\ Proper => \A t \in Thr :
        LET n == th[t].num_tasks + 1 IN
        /\ n \in 0 .. MAX_TASK /\ tasksV[t] \in Seq(Fns) /\ Len(tasksV[t]) = n
        /\ \A k \in 1 .. n : k - 1 \in Slots /\ tasksV[t][k] = task[t][k - 1].fp

LEMMA StackSeq == StackIsSeq
<1> SUFFICES ASSUME TypeOK, Proper, NEW t \in Thr
             PROVE  LET n == th[t].num_tasks + 1 IN
                    /\ n \in 0 .. MAX_TASK /\ tasksV[t] \in Seq(Fns) /\ Len(tasksV[t]) = n
                    /\ \A k \in 1 .. n : k - 1 \in Slots /\ tasksV[t][k] = task[t][k - 1].fp
    BY DEF StackIsSeq
<1> DEFINE n == th[t].num_tasks + 1
           q == [k \in 1 .. n |-> task[t][k - 1].fp]
<1>1. th[t] \in ThRec /\ task[t] \in [Slots -> TaskRec]
    BY Types
<1>2. n \in 0 .. MAX_TASK
    BY <1>1 DEF ThRec
<1>3. tasksV[t] = q
    BY DEF tasksV
<1> HIDE DEF n
<1>4. \A k \in 1 .. n : k - 1 \in Slots /\ task[t][k - 1].fp \in Fns
    <2>1. ASSUME NEW k \in 1 .. n PROVE k - 1 \in Slots
        BY <1>2 DEF Slots
    <2>2. QED
        BY <1>1, <2>1 DEF TaskRec, Fns
<1>5. q \in Seq(Fns) /\ Len(q) = n
    <2>1. n \in Nat
        BY <1>2
    <2>2. QED
        BY <1>4, <2>1
<1>6. QED
    BY <1>2, <1>3, <1>4, <1>5 DEF n

\* Steps that leave the tasks alone.
LEMMA TasksSame ==
    ASSUME UNCHANGED client, \A t \in Thr : th'[t].num_tasks = th[t].num_tasks,
           \A t \in Thr : \A i \in Slots : i <= th[t].num_tasks => task'[t][i].fp = task[t][i].fp,
           TypeOK
    PROVE  tasksV' = tasksV
<1>1. Proper' = Proper
    BY DEF Proper
<1>2. CASE ~Proper
    BY <1>1, <1>2 DEF tasksV
<1>3. CASE Proper
    <2>1. ASSUME NEW t \in Thr
          PROVE  [k \in 1 .. th'[t].num_tasks + 1 |-> task'[t][k - 1].fp] =
                 [k \in 1 .. th[t].num_tasks + 1 |-> task[t][k - 1].fp]
        <3>1. th'[t].num_tasks = th[t].num_tasks
            OBVIOUS
        <3>2. ASSUME NEW k \in 1 .. th[t].num_tasks + 1 PROVE task'[t][k - 1].fp = task[t][k - 1].fp
            <4>1. th[t] \in ThRec
                BY Types
            <4>2. k - 1 \in Slots /\ k - 1 <= th[t].num_tasks
                BY <4>1 DEF ThRec, Slots
            <4>3. QED
                BY <4>2
        <3>3. QED
            BY <3>1, <3>2
    <2>2. QED
        BY <1>1, <1>3, <2>1 DEF tasksV
<1>4. QED
    BY <1>2, <1>3

\* Steps that leave the circle alone.
LEMMA RunqSame ==
    ASSUME ThreadsInv, TypeOK', UNCHANGED <<current_thread, next, previous, client>>,
           heap' = heap \/ \E t \in Thr : (heap' = heap \cup {t} /\ next[t] = Nil)
    PROVE  runqV' = runqV
<1>1. Proper' = Proper
    BY DEF Proper
<1>2. CASE ~Proper
    BY <1>1, <1>2 DEF runqV
<1>3. CASE Proper
    <2>1. PICK s \in Seq(Thr) : IsRing(s)
        BY DEF ThreadsInv, Ring
    <2>2. IsRing(s)'
        BY <2>1, RingStays
    <2>3. RunqIsRing /\ RunqIsRing'
        BY RunqRing, PTL
    <2>4. QED
        BY <1>1, <1>3, <2>1, <2>2, <2>3 DEF RunqIsRing, ThreadsInv
<1>4. QED
    BY <1>2, <1>3

LEMMA AddMaps ==
    ASSUME ThreadsInv, ThreadsInv', Proper, UNCHANGED client, NEW t \in Thr, thread_add_runqueue(t)
    PROVE  Abstract!Add(t)
<1> USE DEF ThreadsInv
<1>1. PICK s \in Seq(Thr) : IsRing(s)
    BY DEF Ring
<1>2. Proper' /\ Client /\ UNCHANGED <<heap, th, task, act, top, pc, ctx>> /\ t \notin Queued
    BY DEF Proper, thread_add_runqueue
<1>3. IsRing(Append(s, t))' /\ Append(s, t) \in Seq(Thr)
    BY <1>1, RingAppends
<1>4. runqV = s
    BY <1>1, RunqRing DEF RunqIsRing
<1>5. runqV' = Append(s, t)
    <2>1. RunqIsRing'
        BY RunqRing, PTL
    <2>2. QED
        BY <1>2, <1>3, <2>1 DEF RunqIsRing
<1>6. ~Abstract!Contains(runqV, t)
    BY <1>1, <1>2, <1>4 DEF Abstract!Contains, IsRing
<1>7. tasksV' = tasksV
    BY <1>2, TasksSame
<1>8. pcV \in {"main", "run"} /\ pcV' = pcV /\ levelV' = levelV
    BY <1>2 DEF pcV, levelV, Client
<1>9. QED
    BY <1>4, <1>5, <1>6, <1>7, <1>8 DEF Abstract!Add, runqV, tasksV, pcV, levelV

LEMMA StackSame ==
    ASSUME TypeOK, TypeOK', Proper, UNCHANGED client, NEW t \in Thr,
           th'[t].num_tasks = th[t].num_tasks,
           \A i \in Slots : task'[t][i].fp = task[t][i].fp
    PROVE  tasksV'[t] = tasksV[t]
<1>1. Proper'
    BY DEF Proper
<1>2. StackIsSeq /\ StackIsSeq'
    BY StackSeq, PTL
<1> DEFINE n == th[t].num_tasks + 1
<1>3. /\ tasksV[t] \in Seq(Fns) /\ Len(tasksV[t]) = n
      /\ \A k \in 1 .. n : k - 1 \in Slots /\ tasksV[t][k] = task[t][k - 1].fp
    BY <1>2 DEF StackIsSeq
<1>4. /\ tasksV'[t] \in Seq(Fns) /\ Len(tasksV'[t]) = n
      /\ \A k \in 1 .. n : tasksV'[t][k] = task'[t][k - 1].fp
    BY <1>1, <1>2 DEF StackIsSeq, Fns
<1> HIDE DEF n
<1>5. \A k \in 1 .. n : tasksV'[t][k] = tasksV[t][k]
    BY <1>3, <1>4
<1>6. QED
    BY <1>3, <1>4, <1>5, SeqEqual

LEMMA AssignMaps ==
    ASSUME ThreadsInv, ThreadsInv', Proper, UNCHANGED client, NEW t \in Thr, NEW f \in Fn,
           thread_assign_task(t, f)
    PROVE  Abstract!Assign(t, f)
<1> USE DEF ThreadsInv
<1> DEFINE n == th[t].num_tasks + 1
           new == [NoTask EXCEPT !.buf_set = -1, !.fp = f]
           old == tasksV[t]
<1>1. /\ n \in 0 .. Depth - 1 /\ Client /\ Proper'
      /\ th' = [th EXCEPT ![t].num_tasks = n]
      /\ task' = [task EXCEPT ![t][n] = new]
      /\ UNCHANGED <<current_thread, next, previous, heap, pc, ctx>>
    BY DEF thread_assign_task, Proper, ringVars
<1>2. n \in Slots /\ new.fp = f /\ n \in Nat
    BY <1>1 DEF Slots, NoTask
<1>3. th[t] \in ThRec /\ task \in [Thr -> [Slots -> TaskRec]] /\ th \in [Thr -> ThRec]
    BY Types
<1>4. StackIsSeq /\ StackIsSeq'
    BY StackSeq, PTL
<1>5. /\ old \in Seq(Fns) /\ Len(old) = n
      /\ \A k \in 1 .. n : k - 1 \in Slots /\ old[k] = task[t][k - 1].fp
    BY <1>4 DEF StackIsSeq
<1>6. th'[t].num_tasks = n
    <2> HIDE DEF n
    <2>1. QED
        BY <1>1, <1>3 DEF ThRec
<1>7. /\ tasksV'[t] \in Seq(Fns) /\ Len(tasksV'[t]) = n + 1
      /\ \A k \in 1 .. n + 1 : tasksV'[t][k] = task'[t][k - 1].fp
    BY <1>1, <1>4, <1>6 DEF StackIsSeq, Fns
<1> HIDE DEF n, new, old
<1>8. \A u \in Thr \ {t} : th'[u] = th[u] /\ task'[u] = task[u]
    BY <1>1, <1>3
<1>9. task'[t][n] = new /\ \A i \in Slots \ {n} : task'[t][i] = task[t][i]
    BY <1>1, <1>2, <1>3
<1>10. tasksV'[t] = Append(old, f)
    <2>1. /\ Append(old, f) \in Seq(Fns) /\ Len(Append(old, f)) = n + 1
          /\ \A k \in 1 .. n : Append(old, f)[k] = old[k]
          /\ Append(old, f)[n + 1] = f
        BY <1>5 DEF Fns
    <2>2. ASSUME NEW k \in 1 .. n + 1 PROVE tasksV'[t][k] = Append(old, f)[k]
        <3>1. CASE k = n + 1
            <4>1. k - 1 = n
                BY <1>2, <3>1
            <4>2. QED
                BY <1>2, <1>7, <1>9, <2>1, <3>1, <4>1
        <3>2. CASE k # n + 1
            <4>1. k \in 1 .. n /\ k - 1 # n
                BY <1>2, <3>2
            <4>2. k - 1 \in Slots \ {n} /\ old[k] = task[t][k - 1].fp
                BY <1>5, <4>1
            <4>3. tasksV'[t][k] = task'[t][k - 1].fp /\ Append(old, f)[k] = old[k]
                BY <1>7, <2>1, <2>2, <4>1
            <4>4. QED
                BY <1>9, <4>2, <4>3
        <3>3. QED
            BY <3>1, <3>2
    <2>3. QED
        BY <1>7, <2>1, <2>2, SeqEqual
<1>11. \A u \in Thr \ {t} : tasksV'[u] = tasksV[u]
    <2>1. \A u \in Thr \ {t} : \A i \in Slots : task'[u][i].fp = task[u][i].fp
        BY <1>8
    <2>2. QED
        BY <1>8, <2>1, StackSame
<1>12. tasksV' = [tasksV EXCEPT ![t] = Append(old, f)]
    <2>1. tasksV = [u \in Thr |-> tasksV[u]] /\ tasksV' = [u \in Thr |-> tasksV'[u]]
        BY DEF tasksV
    <2>2. \A u \in Thr : tasksV'[u] = IF u = t THEN Append(old, f) ELSE tasksV[u]
        BY <1>10, <1>11
    <2> HIDE DEF tasksV
    <2>3. QED
        BY <2>1, <2>2
<1>13. runqV' = runqV
    BY <1>1, RunqSame
<1>14. pcV \in {"main", "run"} /\ pcV' = pcV /\ levelV' = levelV
    BY <1>1 DEF pcV, levelV, Client
<1>15. tasksV' = [tasksV EXCEPT ![t] = Append(@, f)]
    BY <1>12 DEF old
<1>16. QED
    BY <1>13, <1>14, <1>15 DEF Abstract!Assign, runqV, tasksV, pcV, levelV

LEMMA StartMaps ==
    ASSUME ThreadsInv, ThreadsInv', Proper, UNCHANGED client, thread_start_threading
    PROVE  Abstract!Start
<1> USE DEF ThreadsInv
<1>1. /\ pc = "main" /\ pc' = IF current_thread = Nil THEN "exited" ELSE "dispatch"
      /\ UNCHANGED <<current_thread, next, previous, heap, th, task, ctx>> /\ Proper'
    BY DEF thread_start_threading, ringVars, Proper
<1>2. runqV' = runqV /\ tasksV' = tasksV
    BY <1>1, RunqSame, TasksSame
<1>3. (runqV = <<>>) <=> (current_thread = Nil)
    <2>1. PICK s \in Seq(Thr) : IsRing(s)
        BY DEF Ring
    <2>2. runqV = s
        BY <2>1, RunqRing DEF RunqIsRing
    <2>3. CASE s = <<>>
        <3>1. Len(s) = 0
            BY <2>3
        <3>2. QED
            BY <2>1, <2>2, <2>3, <3>1 DEF IsRing
    <2>4. CASE s # <<>>
        <3>1. Len(s) > 0 /\ 1 \in 1 .. Len(s) /\ s[1] \in Thr
            BY <2>1, <2>4
        <3>2. QED
            BY <2>1, <2>2, <2>4, <3>1 DEF IsRing
    <2>5. QED
        BY <2>3, <2>4
<1>4. pcV = "main" /\ pcV' = (IF current_thread = Nil THEN "exited" ELSE "pick") /\ levelV' = levelV
    BY <1>1 DEF pcV, levelV
<1>5. QED
    BY <1>2, <1>3, <1>4 DEF Abstract!Start, runqV, tasksV, pcV, levelV

LEMMA YieldMaps ==
    ASSUME ThreadsInv, ThreadsInv', Proper, UNCHANGED client, pc = "code", schedule,
           \A t \in Thr : th'[t].num_tasks = th[t].num_tasks,
           \A t \in Thr : \A i \in Slots : task'[t][i].fp = task[t][i].fp
    PROVE  Abstract!Yield
<1> USE DEF ThreadsInv
<1>1. pc' = "dispatch" /\ Proper'
    BY DEF schedule, Proper
<1>2. PICK s \in Seq(Thr) : IsRing(s)
    BY DEF Ring
<1> DEFINE r == Append(Tail(s), Head(s))
<1>3. Len(s) > 0 /\ IsRing(r)'
    BY <1>2, ScheduleTurns
<1>4. r \in Seq(Thr)
    BY <1>3
<1> HIDE DEF r
<1>5. runqV = s /\ runqV' = r
    <2>1. RunqIsRing /\ RunqIsRing'
        BY RunqRing, PTL
    <2>2. QED
        BY <1>1, <1>2, <1>3, <1>4, <2>1 DEF RunqIsRing
<1>6. tasksV' = tasksV
    BY TasksSame
<1>7. pcV = "run" /\ pcV' = "pick" /\ levelV' = 0
    BY <1>1 DEF pcV, levelV
<1>8. runqV' = Append(Tail(runqV), Head(runqV))
    BY <1>5 DEF r
<1>9. QED
    BY <1>6, <1>7, <1>8 DEF Abstract!Yield, runqV, tasksV, pcV, levelV

LEMMA RemoveLast ==
    ASSUME NEW S, NEW q \in Seq(S), Len(q) > 0
    PROVE  LET r == Abstract!RemoveAt(q, Len(q)) IN
           r \in Seq(S) /\ Len(r) = Len(q) - 1 /\ \A k \in 1 .. Len(q) - 1 : r[k] = q[k]
<1> DEFINE n == Len(q)
           a == SubSeq(q, 1, n - 1)
           b == SubSeq(q, n + 1, n)
<1>1. n \in Nat /\ n > 0
    OBVIOUS
<1>2. a \in Seq(S) /\ Len(a) = n - 1 /\ \A k \in 1 .. n - 1 : a[k] = q[k]
    <2>1. 1 \in 1 .. n + 1 /\ n - 1 \in 1 - 1 .. n /\ (n - 1) - 1 + 1 = n - 1
        BY <1>1
    <2>2. \A k \in 1 .. n - 1 : a[k] = q[1 + k - 1] /\ 1 + k - 1 = k
        BY <1>1, <2>1, SubSeqProperties
    <2>3. a \in Seq(S) /\ Len(a) = n - 1
        BY <1>1, <2>1, SubSeqProperties
    <2>4. QED
        BY <2>2, <2>3
<1>3. b = <<>>
    BY <1>1
<1>4. Abstract!RemoveAt(q, n) = a \o b
    BY DEF Abstract!RemoveAt
<1> HIDE DEF a, b, n
<1>5. a \o b = a
    BY <1>2, <1>3
<1>6. QED
    BY <1>2, <1>4, <1>5 DEF n

LEMMA FinishMaps ==
    ASSUME ThreadsInv, ThreadsInv', Proper, UNCHANGED client, task_return
    PROVE  Abstract!Finish
<1> USE DEF ThreadsInv
<1> DEFINE t == current_thread
           n == th[t].num_tasks
           old == tasksV[t]
           rest == Abstract!RemoveAt(old, levelV)
<1>1. /\ pc = "code" /\ ctx[2] >= 0 /\ pc' = "dispatch" /\ Proper'
      /\ th' = [th EXCEPT ![t].num_tasks = n - 1]
      /\ UNCHANGED <<current_thread, next, previous, heap, task>>
    BY DEF task_return, Proper, ringVars
<1>2. t \in Thr /\ t \in heap /\ ctx[2] = n
    BY <1>1, Here DEF Running
<1>3. th[t] \in ThRec /\ task \in [Thr -> [Slots -> TaskRec]] /\ th \in [Thr -> ThRec] /\ n \in Nat
    BY <1>1, <1>2, Types DEF ThRec
<1>4. StackIsSeq /\ StackIsSeq'
    BY StackSeq, PTL
<1>5. /\ old \in Seq(Fns) /\ Len(old) = n + 1
      /\ \A k \in 1 .. n + 1 : k - 1 \in Slots /\ old[k] = task[t][k - 1].fp
    BY <1>2, <1>4 DEF StackIsSeq
<1>6. th'[t].num_tasks = n - 1 /\ \A u \in Thr \ {t} : th'[u] = th[u]
    <2> HIDE DEF n
    <2>1. QED
        BY <1>1, <1>2, <1>3 DEF ThRec
<1>7. /\ tasksV'[t] \in Seq(Fns) /\ Len(tasksV'[t]) = n
      /\ \A k \in 1 .. n : tasksV'[t][k] = task[t][k - 1].fp
    <2>1. n - 1 + 1 = n
        BY <1>3
    <2>2. QED
        BY <1>1, <1>2, <1>4, <1>6, <2>1 DEF StackIsSeq, Fns
<1>8. levelV = n + 1 /\ levelV > 0 /\ levelV' = 0 /\ pcV = "run" /\ pcV' = "pick"
    BY <1>1, <1>2, <1>3 DEF levelV, pcV
<1> HIDE DEF n, old
<1>9. tasksV'[t] = rest
    <2>1. rest \in Seq(Fns) /\ Len(rest) = n /\ \A k \in 1 .. n : rest[k] = old[k]
        <3>1. Len(old) = levelV /\ Len(old) > 0 /\ Len(old) - 1 = n
            BY <1>3, <1>5, <1>8
        <3>2. QED
            BY <1>5, <3>1, RemoveLast
    <2> HIDE DEF rest
    <2>2. \A k \in 1 .. n : tasksV'[t][k] = rest[k]
        <3>1. \A k \in 1 .. n : k \in 1 .. n + 1
            BY <1>3
        <3>2. QED
            BY <1>5, <1>7, <2>1, <3>1
    <2>3. QED
        BY <1>7, <2>1, <2>2, SeqEqual
<1>10. \A u \in Thr \ {t} : tasksV'[u] = tasksV[u]
    BY <1>1, <1>6, StackSame
<1> HIDE DEF rest
<1>11. tasksV' = [tasksV EXCEPT ![t] = rest]
    <2>1. tasksV = [u \in Thr |-> tasksV[u]] /\ tasksV' = [u \in Thr |-> tasksV'[u]]
        BY DEF tasksV
    <2>2. \A u \in Thr : tasksV'[u] = IF u = t THEN rest ELSE tasksV[u]
        BY <1>9, <1>10
    <2> HIDE DEF tasksV
    <2>3. QED
        BY <2>1, <2>2
<1>12. runqV' = runqV /\ t = Head(runqV)
    <2>1. runqV' = runqV
        BY <1>1, RunqSame
    <2>2. PICK s \in Seq(Thr) : IsRing(s) /\ Len(s) > 0
        BY <1>1, Here
    <2>3. runqV = s
        BY <2>2, RunqRing DEF RunqIsRing
    <2>4. QED
        BY <2>1, <2>2, <2>3 DEF IsRing
<1>13. tasksV' = [tasksV EXCEPT ![Head(runqV)] = Abstract!RemoveAt(@, levelV)]
    BY <1>11, <1>12 DEF old, rest
<1>14. QED
    BY <1>8, <1>12, <1>13 DEF Abstract!Finish, runqV, tasksV, pcV, levelV

LEMMA LeaveMaps ==
    ASSUME ThreadsInv, ThreadsInv', Proper, UNCHANGED client, pc = "code", unlink
    PROVE  Abstract!Leave
<1> USE DEF ThreadsInv
<1> DEFINE t == current_thread
<1>1. /\ th' = [th EXCEPT ![t] = NewThread]
      /\ task' = [task EXCEPT ![t] = [i \in Slots |-> NoTask]]
      /\ pc' \in {"dispatch", "exited"} /\ Proper'
    BY DEF unlink, Proper
<1>2. PICK s \in Seq(Thr) : IsRing(s) /\ Len(s) > 0
    BY Here
<1>3. t \in Thr /\ t = Head(s) /\ Tail(s) \in Seq(Thr)
    BY <1>2, Here DEF IsRing
<1>4. /\ IsRing(Tail(s))'
      /\ pc' = "dispatch" <=> Len(s) # 1
      /\ pc' = "exited" <=> Len(s) = 1
    BY <1>2, RingLeaves
<1>5. runqV = s /\ runqV' = Tail(s)
    <2>1. RunqIsRing /\ RunqIsRing'
        BY RunqRing, PTL
    <2>2. QED
        BY <1>1, <1>2, <1>3, <1>4, <2>1 DEF RunqIsRing
<1>6. th'[t].num_tasks = -1 /\ \A u \in Thr \ {t} : th'[u] = th[u] /\ task'[u] = task[u]
    BY <1>1, <1>3, Types DEF NewThread
<1>7. tasksV'[t] = <<>>
    <2>1. StackIsSeq'
        BY StackSeq, PTL
    <2>2. tasksV'[t] \in Seq(Fn' \cup {Nil}) /\ Len(tasksV'[t]) = 0
        BY <1>1, <1>3, <1>6, <2>1 DEF StackIsSeq, Fns
    <2>3. QED
        BY <2>2, EmptySeq
<1>8. \A u \in Thr \ {t} : tasksV'[u] = tasksV[u]
    BY <1>6, StackSame
<1>9. tasksV' = [tasksV EXCEPT ![t] = <<>>]
    <2>1. tasksV = [u \in Thr |-> tasksV[u]] /\ tasksV' = [u \in Thr |-> tasksV'[u]]
        BY DEF tasksV
    <2>2. \A u \in Thr : tasksV'[u] = IF u = t THEN <<>> ELSE tasksV[u]
        BY <1>7, <1>8
    <2> HIDE DEF tasksV
    <2>3. QED
        BY <2>1, <2>2
<1>10. /\ pcV = "run" /\ levelV' = 0
       /\ pcV' = IF Len(s) = 1 THEN "exited" ELSE "pick"
    BY <1>1, <1>4 DEF pcV, levelV
<1>11. runqV' = Tail(runqV) /\ tasksV' = [tasksV EXCEPT ![Head(runqV)] = <<>>]
       /\ pcV' = IF Len(runqV) = 1 THEN "exited" ELSE "pick"
    BY <1>3, <1>5, <1>9, <1>10
<1>12. QED
    BY <1>10, <1>11 DEF Abstract!Leave, runqV, tasksV, pcV, levelV

\* The branches of dispatch() that go to code.
LEMMA PickMaps ==
    ASSUME ThreadsInv, ThreadsInv', Proper, UNCHANGED <<current_thread, next, previous, heap, client>>,
           pc = "dispatch", pc' = "code",
           \A t \in Thr : th'[t].num_tasks = th[t].num_tasks,
           \A t \in Thr : \A i \in Slots : task'[t][i].fp = task[t][i].fp
    PROVE  Abstract!Pick
<1> USE DEF ThreadsInv
<1>1. Proper'
    BY DEF Proper
<1>2. runqV' = runqV /\ tasksV' = tasksV
    BY RunqSame, TasksSame
<1>3. PICK s \in Seq(Thr) : IsRing(s) /\ Len(s) > 0
    BY Here
<1>4. runqV = s /\ current_thread \in Thr /\ current_thread = Head(runqV)
    <2>1. runqV = s
        BY <1>3, RunqRing DEF RunqIsRing
    <2>2. QED
        BY <1>3, <2>1, Here DEF IsRing
<1>5. Len(tasksV[current_thread]) = th[current_thread].num_tasks + 1
    BY <1>4, StackSeq DEF StackIsSeq
<1>6. ctx'[2] = th[current_thread].num_tasks
    BY <1>1, <1>4 DEF Running
<1>7. pcV = "pick" /\ pcV' = "run" /\ levelV' = ctx'[2] + 1
    BY <1>1 DEF pcV, levelV
<1>8. levelV' = Len(tasksV[Head(runqV)])
    BY <1>4, <1>5, <1>6, <1>7
<1>9. QED
    BY <1>2, <1>7, <1>8 DEF Abstract!Pick, runqV, tasksV, pcV, levelV

\* dispatch() finds every context either ready or saved.
LEMMA NeverSkips ==
    ASSUME ThreadsInv, Proper
    PROVE  ~dispatch_skip_task /\ ~dispatch_exit
<1> USE DEF ThreadsInv
<1> SUFFICES ASSUME pc = "dispatch" PROVE ~dispatch_skip_task /\ ~dispatch_exit
    BY DEF dispatch_skip_task, dispatch_exit
<1>1. current_thread \in heap /\ current_thread \in Thr /\ Tasks(current_thread)
    BY Here
<1>2. th[current_thread] \in ThRec
    BY <1>1, Types
<1>3. \A i \in Indices : ~Runs(current_thread, i)
    BY DEF Runs
<1>4. -1 \in Indices /\ Slots \subseteq Indices
    BY DEF Indices, Slots
<1>5. th[current_thread].buf_set # 0
    BY <1>1, <1>3, <1>4 DEF Tasks
<1>6. ASSUME NEW i \in Slots, i <= th[current_thread].num_tasks PROVE task[current_thread][i].buf_set # 0
    <2>1. act[current_thread][i] \in {"none", "ready", "live"}
        BY <1>1, <1>4 DEF TypeOK, Indices
    <2>2. QED
        BY <1>1, <1>3, <1>4, <1>6, <2>1 DEF Tasks
<1>7. th[current_thread].num_tasks >= 0 => th[current_thread].num_tasks \in Slots
                                            /\ th[current_thread].num_tasks <= th[current_thread].num_tasks
    BY <1>2 DEF ThRec, Slots
<1>8. ~dispatch_skip_task
    BY <1>6, <1>7 DEF dispatch_skip_task
<1>9. QED
    BY <1>5, <1>8 DEF dispatch_exit

\* A task keeps its function while its context is saved or started.
LEMMA SameFp ==
    ASSUME TypeOK, NEW t \in Thr, NEW i \in Slots, NEW e, NEW b,
           \/ task' = task
           \/ task' = [task EXCEPT ![t][i].buf_set = b]
           \/ task' = [task EXCEPT ![t][i].env = e, ![t][i].buf_set = b]
    PROVE  \A u \in Thr : \A j \in Slots : task'[u][j].fp = task[u][j].fp
<1>1. task \in [Thr -> [Slots -> TaskRec]]
    BY Types
<1>2. CASE task' = task
    BY <1>2
<1>3. CASE task' = [task EXCEPT ![t][i].buf_set = b]
    BY <1>1, <1>3 DEF TaskRec
<1>4. CASE task' = [task EXCEPT ![t][i].env = e, ![t][i].buf_set = b]
    BY <1>1, <1>4 DEF TaskRec
<1>5. QED
    BY <1>2, <1>3, <1>4

LEMMA SameNumTasks ==
    ASSUME TypeOK, NEW r \in ThRec, NEW t \in Thr, th' = [th EXCEPT ![t] = r],
           r.num_tasks = th[t].num_tasks
    PROVE  \A u \in Thr : th'[u].num_tasks = th[u].num_tasks
BY DEF TypeOK

LEMMA LibraryMaps ==
    ASSUME ThreadsInv, ThreadsInv', Frames', Proper, ThreadNext
    PROVE  [Abstract!Next]_(Abstract!vars)
<1> USE DEF ThreadsInv
<1>1. UNCHANGED client /\ Proper'
    BY DEF ThreadNext, Proper
<1>2. pc' # "wild"
    BY <1>1 DEF Frames
<1>3. ASSUME UNCHANGED <<runqV, tasksV, pcV, levelV>> PROVE [Abstract!Next]_(Abstract!vars)
    BY <1>3 DEF Abstract!vars, runqV, tasksV, pcV, levelV
<1>4. ASSUME NEW t \in Thr, thread_create(t) PROVE [Abstract!Next]_(Abstract!vars)
    <2>1. /\ t \notin heap /\ heap' = heap \cup {t} /\ th' = [th EXCEPT ![t] = NewThread]
          /\ UNCHANGED <<current_thread, next, previous, task, pc, ctx>>
        BY <1>4 DEF thread_create
    <2>2. next[t] = Nil /\ th[t].num_tasks = -1
        BY <2>1 DEF Ring
    <2>3. runqV' = runqV
        BY <1>1, <2>1, <2>2, RunqSame
    <2>4. \A u \in Thr : th'[u].num_tasks = th[u].num_tasks
        BY <2>1, <2>2, Types DEF NewThread
    <2>5. tasksV' = tasksV
        BY <1>1, <2>1, <2>4, TasksSame
    <2>6. QED
        BY <1>1, <1>3, <2>1, <2>3, <2>5 DEF pcV, levelV
<1>5. ASSUME NEW t \in Thr, thread_add_runqueue(t) PROVE [Abstract!Next]_(Abstract!vars)
    BY <1>1, <1>5, AddMaps DEF Abstract!Next
<1>6. ASSUME NEW t \in Thr, thread_assign_task_full(t) PROVE FALSE
    BY <1>6 DEF thread_assign_task_full, Proper
<1>7. ASSUME NEW t \in Thr, NEW f \in Fn, thread_assign_task(t, f) PROVE [Abstract!Next]_(Abstract!vars)
    BY <1>1, <1>7, AssignMaps DEF Abstract!Next
<1>8. CASE thread_start_threading
    BY <1>1, <1>8, StartMaps DEF Abstract!Next
<1>9. CASE thread_yield_task
    <2> DEFINE t == current_thread
               index == th[t].current_task
               new == [th[t] EXCEPT !.task_yield = 1]
    <2>1. /\ pc = "code" /\ schedule
          /\ th' = [th EXCEPT ![t] = new]
          /\ task' = IF index < 0 THEN task
                     ELSE [task EXCEPT ![t][index].env = ctx, ![t][index].buf_set = 1]
        BY <1>9 DEF thread_yield_task
    <2>2. t \in Thr /\ th[t] \in ThRec
        BY <2>1, Here, Types
    <2>3. new \in ThRec /\ new.num_tasks = th[t].num_tasks
        BY <2>2 DEF ThRec
    <2>4. \A u \in Thr : th'[u].num_tasks = th[u].num_tasks
        <3> HIDE DEF new
        <3>1. QED
            BY <2>1, <2>2, <2>3, SameNumTasks
    <2>5. \A u \in Thr : \A j \in Slots : task'[u][j].fp = task[u][j].fp
        <3>1. CASE index < 0
            BY <2>1, <3>1
        <3>2. CASE ~(index < 0)
            <4>1. index \in Slots
                BY <2>2, <3>2 DEF ThRec, Slots
            <4>2. task' = [task EXCEPT ![t][index].env = ctx, ![t][index].buf_set = 1]
                BY <2>1, <3>2
            <4> HIDE DEF index
            <4>3. QED
                BY <2>2, <4>1, <4>2, SameFp
        <3>3. QED
            BY <3>1, <3>2
    <2>6. QED
        BY <1>1, <2>1, <2>4, <2>5, YieldMaps DEF Abstract!Next
<1>10. CASE thread_yield_thread
    <2> DEFINE t == current_thread
               new == [th[t] EXCEPT !.thread_yield = 0, !.env = ctx, !.buf_set = 1]
    <2>1. pc = "code" /\ schedule /\ th' = [th EXCEPT ![t] = new] /\ task' = task
        BY <1>10 DEF thread_yield_thread
    <2>2. t \in Thr /\ th[t] \in ThRec /\ ctx \in Ctx
        BY <2>1, Here, Types DEF Running
    <2>3. new \in ThRec /\ new.num_tasks = th[t].num_tasks
        BY <2>2 DEF ThRec
    <2>4. \A u \in Thr : th'[u].num_tasks = th[u].num_tasks
        <3> HIDE DEF new
        <3>1. QED
            BY <2>1, <2>2, <2>3, SameNumTasks
    <2>5. QED
        BY <1>1, <2>1, <2>4, YieldMaps DEF Abstract!Next
<1>11. CASE task_return
    BY <1>1, <1>11, FinishMaps DEF Abstract!Next
<1>12. CASE function_return \/ thread_exit
    BY <1>1, <1>12, LeaveMaps DEF function_return, thread_exit, Abstract!Next
<1>13. CASE thread_exit_frees_frames
    BY <1>13 DEF thread_exit_frees_frames, Proper
<1>14. CASE dispatch_resume_task
    <2> DEFINE t == current_thread
               i == th[t].num_tasks
               new == [th[t] EXCEPT !.current_task = i]
    <2>1. /\ pc = "dispatch" /\ i >= 0 /\ longjmp(task[t][i].env)
          /\ th' = [th EXCEPT ![t] = new]
          /\ UNCHANGED <<current_thread, next, previous, heap, task>>
        BY <1>14 DEF dispatch_resume_task, ringVars
    <2>2. pc' = "code"
        BY <1>2, <2>1 DEF longjmp
    <2>3. t \in Thr /\ th[t] \in ThRec
        BY <2>1, Here, Types
    <2>4. new \in ThRec /\ new.num_tasks = th[t].num_tasks
        BY <2>3 DEF ThRec
    <2>5. \A u \in Thr : th'[u].num_tasks = th[u].num_tasks
        <3> HIDE DEF new
        <3>1. QED
            BY <2>1, <2>3, <2>4, SameNumTasks
    <2>6. QED
        BY <1>1, <2>1, <2>2, <2>5, PickMaps DEF Abstract!Next
<1>15. CASE dispatch_start_task
    <2> DEFINE t == current_thread
               i == th[t].num_tasks
               new == [th[t] EXCEPT !.current_task = i]
    <2>1. /\ pc = "dispatch" /\ i >= 0 /\ pc' = "code"
          /\ th' = [th EXCEPT ![t] = new]
          /\ task' = [task EXCEPT ![t][i].buf_set = 0]
          /\ UNCHANGED <<current_thread, next, previous, heap>>
        BY <1>15 DEF dispatch_start_task, ringVars
    <2>2. t \in Thr /\ th[t] \in ThRec
        BY <2>1, Here, Types
    <2>3. new \in ThRec /\ new.num_tasks = th[t].num_tasks /\ i \in Slots
        BY <2>1, <2>2 DEF ThRec, Slots
    <2>4. \A u \in Thr : th'[u].num_tasks = th[u].num_tasks
        <3> HIDE DEF new
        <3>1. QED
            BY <2>1, <2>2, <2>3, SameNumTasks
    <2>5. \A u \in Thr : \A j \in Slots : task'[u][j].fp = task[u][j].fp
        <3> HIDE DEF i
        <3>1. QED
            BY <2>1, <2>2, <2>3, SameFp
    <2>6. QED
        BY <1>1, <2>1, <2>4, <2>5, PickMaps DEF Abstract!Next
<1>16. CASE dispatch_skip_task \/ dispatch_exit
    BY <1>16, NeverSkips
<1>17. CASE dispatch_resume_thread \/ dispatch_start_thread
    <2> DEFINE t == current_thread
    <2>1. /\ pc = "dispatch" /\ th' = [th EXCEPT ![t] = FlagsOnRun(t)]
          /\ UNCHANGED <<current_thread, next, previous, heap, task>>
        BY <1>17 DEF dispatch_resume_thread, dispatch_start_thread, ringVars
    <2>2. pc' = "code"
        BY <1>2, <1>17 DEF dispatch_resume_thread, dispatch_start_thread, longjmp
    <2>3. t \in Thr
        BY <2>1, Here
    <2>4. \A u \in Thr : th'[u].num_tasks = th[u].num_tasks
        BY <2>1, <2>3, RunFlags, SameNumTasks
    <2>5. QED
        BY <1>1, <2>1, <2>2, <2>4, PickMaps DEF Abstract!Next
<1>18. CASE over
    <2>1. UNCHANGED <<current_thread, next, previous, heap, th, task, pc, ctx>>
        BY <1>18 DEF over, threadVars
    <2>2. runqV' = runqV /\ tasksV' = tasksV
        BY <1>1, <2>1, RunqSame, TasksSame
    <2>3. QED
        BY <1>1, <1>3, <2>1, <2>2 DEF pcV, levelV
<1>19. QED
    BY <1>4, <1>5, <1>6, <1>7, <1>8, <1>9, <1>10, <1>11, <1>12, <1>13, <1>14, <1>15, <1>16, <1>17, <1>18
       DEF ThreadNext

LEMMA StepMaps ==
    ThreadsInv /\ ThreadsInv' /\ Frames' /\ [ThreadNext]_threadVars => [Abstract!Next]_(Abstract!vars)
<1> SUFFICES ASSUME ThreadsInv, ThreadsInv', Frames', [ThreadNext]_threadVars
             PROVE  [Abstract!Next]_(Abstract!vars)
    OBVIOUS
<1>1. ASSUME UNCHANGED <<runqV, tasksV, pcV, levelV>> PROVE [Abstract!Next]_(Abstract!vars)
    BY <1>1 DEF Abstract!vars, runqV, tasksV, pcV, levelV
<1>2. Proper' = Proper
    BY DEF Proper, threadVars, ThreadNext
<1>3. CASE ~Proper
    BY <1>1, <1>2, <1>3 DEF runqV, tasksV, pcV, levelV
<1>4. CASE UNCHANGED threadVars
    <2>1. UNCHANGED <<current_thread, next, previous, heap, th, task, pc, ctx, client>>
        BY <1>4 DEF threadVars
    <2>2. runqV' = runqV /\ tasksV' = tasksV
        BY <2>1, RunqSame, TasksSame DEF ThreadsInv
    <2>3. QED
        BY <1>1, <1>2, <2>1, <2>2 DEF pcV, levelV
<1>5. QED
    BY <1>3, <1>4, LibraryMaps

LEMMA InitMaps == ThreadInit => Abstract!Init
<1> SUFFICES ASSUME ThreadInit PROVE Abstract!Init
    OBVIOUS
<1>1. ThreadsInv
    BY InitInv
<1>2. runqV = <<>>
    <2>1. CASE Proper
        <3>1. PICK s \in Seq(Thr) : IsRing(s)
            BY <1>1 DEF ThreadsInv, Ring
        <3>2. Len(s) = 0
            <4>1. ~(Len(s) > 0)
                <5>1. current_thread = Nil
                    BY DEF ThreadInit
                <5>2. Len(s) > 0 => 1 \in 1 .. Len(s) /\ s[1] \in Thr
                    BY <3>1
                <5>3. QED
                    BY <3>1, <5>1, <5>2 DEF IsRing
            <4>2. QED
                BY <4>1
        <3>3. s = <<>>
            BY <3>2, EmptySeq
        <3>4. QED
            BY <1>1, <2>1, <3>1, <3>3, RunqRing DEF RunqIsRing, ThreadsInv
    <2>2. QED
        BY <2>1 DEF runqV
<1>3. tasksV = [t \in Thr |-> <<>>]
    <2>1. ASSUME NEW t \in Thr PROVE tasksV[t] = <<>>
        <3>1. CASE Proper
            <4>1. th[t].num_tasks = -1
                BY DEF ThreadInit, NewThread
            <4>2. tasksV[t] \in Seq(Fns) /\ Len(tasksV[t]) = 0
                BY <1>1, <3>1, <4>1, StackSeq DEF StackIsSeq, ThreadsInv
            <4>3. QED
                BY <4>2, EmptySeq
        <3>2. QED
            BY <3>1 DEF tasksV
    <2>2. tasksV = [t \in Thr |-> tasksV[t]]
        BY DEF tasksV
    <2> HIDE DEF tasksV
    <2>3. QED
        BY <2>1, <2>2
<1>4. pcV = "main" /\ levelV = 0
    BY DEF ThreadInit, pcV, levelV
<1>5. QED
    BY <1>2, <1>3, <1>4 DEF Abstract!Init, runqV, tasksV, pcV, levelV

\* Threads take turns in the order of the queue and serve the task assigned last first, for
\* proper clients that give a thread tasks of one function: threads.c:36-208 (LCFS).
THEOREM LibraryIsLCFS == ThreadSpec /\ []SameFunction => LCFS
<1>1. ThreadInit => Abstract!Init
    BY InitMaps
<1>2. ThreadsInv /\ ThreadsInv' /\ Frames' /\ [ThreadNext]_threadVars
          => [Abstract!Next]_(Abstract!vars)
    BY StepMaps
<1>3. QED
    BY <1>1, <1>2, ThreadsInvariant, FramesKept, PTL DEF ThreadSpec, Abstract!Spec, LCFS
=============================================================================
