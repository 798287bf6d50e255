-------------------------------- MODULE Clock ---------------------------------
(***************************************************************************)
(* Timer interrupts, the count of ticks and sleep() (kernel/trap.c,        *)
(* kernel/sysproc.c).  tickslock makes each part between two calls of      *)
(* sleep() a step, but kill() does not take it.  ticks is a uint and has   *)
(* any value to begin with; the argument of sleep() is an int, converted   *)
(* to a uint in the comparison.                                            *)
(***************************************************************************)
EXTENDS Integers

CONSTANTS Sleeper, \* processes
          Cores,   \* harts; hart 0 counts the ticks
          WIDTH,   \* 2^32
          MaxArg   \* bound: arguments of sleep() are in -MaxArg .. MaxArg

ASSUME ClockAssumption == WIDTH \in Nat \ {0} /\ MaxArg \in Nat

VARIABLES
    ticks, \* ticks
    nap    \* nap[p]: where p is, ticks0, n, ticks since the call (a ghost), p->killed,
           \* and what the last call returned

clockvars == <<ticks, nap>>

Awake == [at |-> "user", from |-> 0, n |-> 0, slept |-> 0, killed |-> FALSE, result |-> 0]

ClockInit == ticks \in 0 .. WIDTH - 1 /\ nap = [p \in Sleeper |-> Awake]

\* Bound: no process is away for a whole turn of the counter, which takes
\* thirteen years.
Turning == \E p \in Sleeper : nap[p].at # "user" /\ nap[p].slept >= WIDTH - 1

\* A process between its test and sleep() has tickslock.
TicksLockFree == \A p \in Sleeper : nap[p].at # "drop"

\* devintr(): only hart 0 counts; clockintr() wakes whoever sleeps on ticks.
timer(h) ==
    /\ ~Turning /\ TicksLockFree
    /\ IF h = 0
          THEN /\ ticks' = (ticks + 1) % WIDTH
               /\ nap' = [p \in Sleeper |->
                            IF nap[p].at = "user" THEN nap[p]
                            ELSE [nap[p] EXCEPT !.slept = @ + 1, !.at = "check"]]
          ELSE UNCHANGED clockvars

\* Mutant: the end of the sleep is worked out at its start.
sys_sleep_until(p) ==
    /\ nap[p].at = "check" /\ TicksLockFree
    /\ nap' = [nap EXCEPT ![p] =
                 IF ticks < (nap[p].from + nap[p].n) % WIDTH
                 THEN IF nap[p].killed THEN [@ EXCEPT !.at = "user", !.result = -1]
                      ELSE [@ EXCEPT !.at = "drop"]
                 ELSE [@ EXCEPT !.at = "user", !.result = 0]]
    /\ UNCHANGED ticks

sleep(p, n) ==
    /\ nap[p].at = "user" /\ ~nap[p].killed /\ TicksLockFree
    /\ nap' = [nap EXCEPT ![p] = [at |-> "check", from |-> ticks, n |-> n, slept |-> 0,
                                  killed |-> FALSE, result |-> 0]]
    /\ UNCHANGED ticks

\* while(ticks - ticks0 < n): unsigned on both sides.
sys_sleep(p) ==
    /\ nap[p].at = "check" /\ TicksLockFree
    /\ nap' = [nap EXCEPT ![p] =
                 IF (ticks - nap[p].from) % WIDTH < nap[p].n % WIDTH
                 THEN IF nap[p].killed THEN [@ EXCEPT !.at = "user", !.result = -1]
                      ELSE [@ EXCEPT !.at = "drop"]
                 ELSE [@ EXCEPT !.at = "user", !.result = 0]]
    /\ UNCHANGED ticks

drop_off(p) ==
    /\ nap[p].at = "drop"
    /\ nap' = [nap EXCEPT ![p].at = "asleep"]
    /\ UNCHANGED ticks

kill_nap(p) ==
    /\ ~nap[p].killed
    /\ nap' = [nap EXCEPT ![p].killed = TRUE, ![p].at = IF @ = "asleep" THEN "check" ELSE @]
    /\ UNCHANGED ticks

ClockNext ==
    \/ \E h \in Cores : timer(h)
    \/ \E p \in Sleeper :
          sys_sleep(p) \/ drop_off(p) \/ kill_nap(p) \/ \E n \in -MaxArg .. MaxArg : sleep(p, n)

ClockSpec == ClockInit /\ [][ClockNext]_clockvars

-----------------------------------------------------------------------------
(* Properties.                                                             *)
Naps == [at : {"user", "check", "drop", "asleep"}, from : 0 .. WIDTH - 1, n : -MaxArg .. MaxArg,
         slept : 0 .. WIDTH - 1, killed : BOOLEAN, result : {-1, 0}]
ClockTypeOK == ticks \in 0 .. WIDTH - 1 /\ nap \in [Sleeper -> Naps]

\* The counter is as far from where the sleep began as it has gone since, or has
\* wrapped.
Counted(p) ==
    nap[p].at # "user" =>
        ticks - nap[p].from \in {nap[p].slept, nap[p].slept - WIDTH}

Answered(p) ==
    LET want == nap[p].n % WIDTH IN
    /\ nap[p].at = "user" /\ nap[p].result = 0 => nap[p].slept >= want
    /\ nap[p].at = "user" /\ nap[p].result = -1 => nap[p].killed /\ nap[p].slept < want
    /\ nap[p].at \in {"drop", "asleep"} => nap[p].slept < want

\* sleep(n) returns 0 after n ticks and not before, also when the counter wraps
\* in between; it sleeps on only while that many have not passed, and returns -1
\* only then and when killed.  A negative n is a very large one (trap.c:162-169,
\* sysproc.c:55-76).
ClockOK == ClockTypeOK /\ \A p \in Sleeper : Counted(p) /\ Answered(p)
=============================================================================
