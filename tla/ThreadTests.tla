----------------------------- MODULE ThreadTests -----------------------------
(***************************************************************************)
(* The test programs of the thread library of mp1, user/mp1-part*.c, as    *)
(* clients of module Threads.  A function is the sequence of statements it *)
(* executes, its loop unrolled; a statement is a call of the library or a  *)
(* printf(), whose line is a label and a number.                           *)
(***************************************************************************)
EXTENDS Threads, SequencesExt

VARIABLES
    test,   \* the program, "" for none
    code,   \* code[c]: what context c has still to do; main's under NoCtx
    locals, \* locals[c]: the local variable i of context c; the global cnt under NoCtx
    out     \* the lines that have been printed

testVars == <<test, code, locals, out>>

-----------------------------------------------------------------------------
(* Statements *)

Allocate(t) == [op |-> "create", t |-> t]
Add(t) == [op |-> "add", t |-> t]
Started(t) == <<Allocate(t), Add(t)>>
Assign(t, f) == [op |-> "assign", t |-> t, f |-> f]
Line(label, n) == [op |-> "print", label |-> label, n |-> n]
Yield == [op |-> "yield"]
ThreadExit == [op |-> "exit"]

\* while(1): print and count; leave before the next number, else yield.
Counts(label, first, last) ==
    FlattenSeq([k \in 1 .. last - first + 1 |->
        <<Line(label, first + k - 1), IF first + k - 1 = last THEN ThreadExit ELSE Yield>>])

-----------------------------------------------------------------------------
(* The programs: a function for each thread, by number, and for each task *)

part1_0 ==
    [f |-> <<Started(2) \o Started(3) \o Counts("thread 1", 100, 109),
             Counts("thread 2", 0, 9), Counts("thread 3", 10000, 10004)>>]

part1_1 ==
    [f |-> <<Started(2) \o Started(3) \o Counts("thread 1", 100, 104),
             Counts("thread 2", 0, 8),
             Started(4) \o Started(5) \o Counts("thread 3", 10000, 10002),
             Counts("thread 4", 1000, 1008), Counts("thread 5", 10, 16)>>]

\* The argument of task2 is the address of f1's i, which has gone on when the
\* task reads it.
part2_0 ==
    LET round(k) == <<Line("thread 1", k), [op |-> "i", n |-> k + 1]>>
                    \o (IF k = 105 THEN <<ThreadExit>>
                        ELSE IF k % 2 = 0 THEN <<Assign(2, "task2"), Yield>> ELSE <<Yield>>)
    IN [f |-> <<Started(2) \o FlattenSeq([k \in 1 .. 6 |-> round(99 + k)]),
                Counts("thread 2", 0, 4)>>,
        task2 |-> <<[op |-> "printarg", label |-> "task 2", from |-> <<1, -1>>],
                    [op |-> "yieldif", rest |-> 3]>>]

part2_1 ==
    LET round(k) == <<Line("thread 1", k), Assign(3, "task3"),
                      IF k = 109 THEN ThreadExit ELSE Yield>>
    IN [f |-> <<Started(2) \o Started(3) \o FlattenSeq([k \in 1 .. 10 |-> round(99 + k)]),
                Counts("thread 2", 0, 4), Counts("thread 3", 10000, 10004)>>,
        task3 |-> <<[op |-> "printcnt", first |-> "task 3", label |-> "task 3"], Yield>>]

part2_2 ==
    LET f1 == <<[op |-> "printcnt", first |-> "thread 1", label |-> "task 1"],
                [op |-> "assignif", below |-> 10, t |-> 1, f |-> "f1"], Yield>>
    IN [f |-> <<f1>>, f1 |-> f1]

Sources == ("mp1-part1-0" :> part1_0) @@ ("mp1-part1-1" :> part1_1) @@
           ("mp1-part2-0" :> part2_0) @@ ("mp1-part2-1" :> part2_1) @@
           ("mp1-part2-2" :> part2_2)

-----------------------------------------------------------------------------
TestInit(prog) ==
    /\ ThreadInit
    /\ test = prog
    /\ code = [c \in Ctx \cup {NoCtx} |->
                 IF c = NoCtx THEN Started(1) \o <<[op |-> "start"]>> ELSE <<>>]
    /\ locals = [c \in Ctx \cup {NoCtx} |-> 0]
    /\ out = <<>>

S == Head(code[ctx])
Doing(op) == Client /\ code[ctx] # <<>> /\ S.op = op
Advance == code' = [code EXCEPT ![ctx] = Tail(@)]

\* A function that is called begins with its first statement.
Begins(c, f) == code' = [code EXCEPT ![ctx] = Tail(@), ![c] = f]

create ==
    /\ Doing("create") /\ thread_create(S.t)
    /\ Begins(<<S.t, -1>>, Sources[test].f[S.t])
    /\ UNCHANGED <<locals, out>>

add == Doing("add") /\ thread_add_runqueue(S.t) /\ Advance /\ UNCHANGED <<locals, out>>
start == Doing("start") /\ thread_start_threading /\ Advance /\ UNCHANGED <<locals, out>>

yields == (thread_yield_task \/ thread_yield_thread) /\ Advance /\ UNCHANGED <<locals, out>>
yield == Doing("yield") /\ yields
leaves == Doing("exit") /\ thread_exit /\ Advance /\ UNCHANGED <<locals, out>>

assigns ==
    /\ thread_assign_task(S.t, S.f)
    /\ Begins(<<S.t, th[S.t].num_tasks + 1>>, Sources[test][S.f])
    /\ UNCHANGED <<locals, out>>
assign == Doing("assign") /\ assigns

\* The statements that leave the library alone.
own(line) == out' = out \o line /\ Advance /\ UNCHANGED <<threadVars, test>>
print == Doing("print") /\ own(<< <<S.label, S.n>> >>) /\ UNCHANGED locals
set_i == Doing("i") /\ own(<<>>) /\ locals' = [locals EXCEPT ![ctx] = S.n]
task_print ==
    /\ Doing("printarg") /\ own(<< <<S.label, locals[S.from]>> >>)
    /\ locals' = [locals EXCEPT ![ctx] = locals[S.from]]
print_cnt ==
    /\ Doing("printcnt")
    /\ own(<< <<IF locals[NoCtx] = 0 THEN S.first ELSE S.label, locals[NoCtx]>> >>)
    /\ locals' = [locals EXCEPT ![NoCtx] = @ + 1]

task_yield ==
    /\ Doing("yieldif")
    /\ \/ locals[ctx] % 4 = S.rest /\ yields
       \/ locals[ctx] % 4 # S.rest /\ own(<<>>) /\ UNCHANGED locals
assign_again ==
    /\ Doing("assignif")
    /\ \/ locals[NoCtx] < S.below /\ assigns
       \/ locals[NoCtx] >= S.below /\ own(<<>>) /\ UNCHANGED locals

returns == pc = "code" /\ code[ctx] = <<>> /\ (task_return \/ function_return)
           /\ UNCHANGED <<code, locals, out>>
dispatches == dispatch /\ UNCHANGED <<code, locals, out>>

TestNext ==
    /\ \/ create \/ add \/ start \/ yield \/ leaves \/ assign
       \/ print \/ set_i \/ task_print \/ print_cnt \/ task_yield \/ assign_again
       \/ returns \/ dispatches
    /\ UNCHANGED <<client, test>>
=============================================================================
