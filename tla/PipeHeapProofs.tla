--------------------------- MODULE PipeHeapProofs ---------------------------
(***************************************************************************)
(* The pipe, for any number of processes, any size of the array and of the *)
(* counters: its bookkeeping (PipeOK), its wakeups (NobodyWaitsInVain),    *)
(* and that it implements Fifo (InOrder).  Then the heap of a user         *)
(* program, for any size of the memory, of the chunks and of the blocks    *)
(* (HeapOK), where malloc() returns the address behind the header.         *)
(***************************************************************************)
EXTENDS Pipe, Umalloc, SequenceTheorems, FiniteSetTheorems, WellFoundedInduction, TLAPS

USE PipeAssumption DEF PipeAssumption

-----------------------------------------------------------------------------
(* Remainders.                                                             *)

LEMMA DivMod ==
    ASSUME NEW x \in Int, NEW n \in Nat \ {0}
    PROVE  x \div n \in Int /\ x % n \in 0 .. n - 1 /\ x = n * (x \div n) + (x % n)
OBVIOUS

\* A remainder is determined by the number.
LEMMA OneRemainder ==
    ASSUME NEW n \in Nat \ {0}, NEW q \in Int, NEW r \in Int,
           NEW s \in 0 .. n - 1, NEW t \in 0 .. n - 1, n * q + s = n * r + t
    PROVE  s = t
<1>1. n * (q - r) = t - s
    OBVIOUS
<1>2. ASSUME NEW k \in Int, k >= 1 PROVE n * k >= n
    BY <1>2
<1>3. CASE q - r >= 1
    <2>1. n * (q - r) >= n
        BY <1>2, <1>3
    <2>2. QED
        BY <1>1, <2>1
<1>4. CASE r - q >= 1
    <2>1. n * (r - q) >= n
        BY <1>2, <1>4
    <2>2. n * (r - q) = s - t
        OBVIOUS
    <2>3. QED
        BY <2>1, <2>2
<1>5. CASE q = r
    BY <1>1, <1>5
<1>6. QED
    BY <1>3, <1>4, <1>5

\* A whole number of turns does not change a remainder.
LEMMA ModTurn ==
    ASSUME NEW x \in Int, NEW n \in Nat \ {0}, NEW u \in Int, u % n = 0
    PROVE  (x + u) % n = x % n
<1> DEFINE a == x \div n
           b == u \div n
           c == (x + u) \div n
           r == x % n
           s == (x + u) % n
<1>1. x + u \in Int
    OBVIOUS
<1>2. a \in Int /\ r \in 0 .. n - 1 /\ x = n * a + r
    BY DivMod
<1>3. b \in Int /\ u = n * b
    BY DivMod
<1>4. c \in Int /\ s \in 0 .. n - 1 /\ x + u = n * c + s
    BY DivMod, <1>1
<1>5. SUFFICES s = r
    OBVIOUS
<1> HIDE DEF a, b, c, r, s
<1>6. n * (a + b) = n * a + n * b
    BY <1>2, <1>3
<1>7. a + b \in Int /\ n * (a + b) + r = n * c + s
    BY <1>2, <1>3, <1>4, <1>6
<1>8. QED
    BY <1>2, <1>4, <1>7, OneRemainder

\* Less than a turn does change it.
LEMMA ModDiffers ==
    ASSUME NEW x \in Int, NEW n \in Nat \ {0}, NEW d \in 1 .. n - 1
    PROVE  (x + d) % n # x % n
<1> DEFINE a == x \div n
           c == (x + d) \div n
           r == x % n
           s == (x + d) % n
<1>1. x + d \in Int
    OBVIOUS
<1>2. a \in Int /\ r \in 0 .. n - 1 /\ x = n * a + r
    BY DivMod
<1>3. c \in Int /\ s \in 0 .. n - 1 /\ x + d = n * c + s
    BY DivMod, <1>1
<1>4. SUFFICES ASSUME s = r PROVE FALSE
    OBVIOUS
<1> HIDE DEF a, c, r, s
<1>5. n * a + d = n * c + 0
    BY <1>2, <1>3, <1>4
<1>6. d = 0
    BY <1>2, <1>3, <1>5, OneRemainder
<1>7. QED
    BY <1>6

\* A counter goes on by one, or wraps.
LEMMA ModNext ==
    ASSUME NEW n \in Nat \ {0}, NEW x \in 0 .. n - 1
    PROVE  (x + 1) % n = IF x = n - 1 THEN 0 ELSE x + 1
<1>1. CASE x = n - 1
    BY <1>1
<1>2. CASE x # n - 1
    <2>1. x + 1 \in 0 .. n - 1
        BY <1>2
    <2>2. QED
        BY <1>2, <2>1
<1>3. QED
    BY <1>1, <1>2

-----------------------------------------------------------------------------
(* The inductive invariant.                                                *)

WritePlaces == {"write", "write_sleep", "write_acquire"}
ReadPlaces == {"read_wait", "read_sleep", "read_acquire", "read"}
Closing(e) == IF e = "read" THEN "close_read" ELSE "close_write"

\* Whoever is inside read() or write() refers to the file it uses.
EndsHeld ==
    \A c \in Procs : /\ pc[c] \in WritePlaces => <<c, "write">> \in fds
                     /\ pc[c] \in ReadPlaces => <<c, "read">> \in fds

\* An end is open until the one process that dropped the last reference has
\* run pipeclose().
EndsClosed ==
    \A e \in Ends :
        /\ e \in open <=> \E c \in Procs : <<c, e>> \in fds \/ pc[c] = Closing(e)
        /\ \A c, q \in Procs : pc[c] = Closing(e) => /\ <<q, e>> \notin fds
                                                     /\ pc[q] = Closing(e) => c = q

Files == EndsHeld /\ EndsClosed /\ (allocated <=> open # {})

\* The places where pi->lock is held.
Held == {"write", "write_sleep", "read_wait", "read_sleep", "read"}

HeldAt(x) == lock # Nobody /\ pc[lock] = x

\* NobodyWaitsInVain is false while the holder of the lock has written or read
\* and not called wakeup() yet; and who is about to sleep has not lost its reason.
Wakeups ==
    /\ lock # Nobody => pc[lock] \in Held
    /\ WriterSleepsFull \/ HeldAt("read")
    /\ gaveup \/ ReaderSleepsEmpty \/ HeldAt("write")
    /\ HeldAt("write_sleep") => full /\ "read" \in open
    /\ HeldAt("read_sleep") => empty /\ "write" \in open

PipeInv == TypeOK /\ Files /\ Wakeups

-----------------------------------------------------------------------------
(* Files and references.                                                   *)

\* A step of c inside a system call, or into or out of one, that leaves the
\* references and the ends alone.
LEMMA FilesStay ==
    ASSUME TypeOK, Files, NEW c \in Procs, NEW x \in Places,
           UNCHANGED <<fds, open, allocated>>, pc' = [pc EXCEPT ![c] = x],
           \A e \in Ends : pc[c] # Closing(e) /\ x # Closing(e),
           x \in WritePlaces => <<c, "write">> \in fds,
           x \in ReadPlaces => <<c, "read">> \in fds
    PROVE  Files'
<1>1. pc \in [Procs -> Places]
    BY DEF TypeOK
<1>2. pc'[c] = x /\ \A q \in Procs \ {c} : pc'[q] = pc[q]
    BY <1>1
<1>3. EndsHeld'
    BY <1>2 DEF Files, EndsHeld
<1>4. ASSUME NEW e \in Ends, NEW q \in Procs PROVE pc'[q] = Closing(e) <=> pc[q] = Closing(e)
    BY <1>2, <1>4
<1>5. EndsClosed'
    <2>1. ASSUME NEW e \in Ends
          PROVE  e \in open <=> \E q \in Procs : <<q, e>> \in fds \/ pc'[q] = Closing(e)
        BY <1>4, <2>1 DEF Files, EndsClosed
    <2>2. ASSUME NEW e \in Ends, NEW q \in Procs, NEW r \in Procs, pc'[q] = Closing(e)
          PROVE  <<r, e>> \notin fds /\ (pc'[r] = Closing(e) => q = r)
        BY <1>4, <2>2 DEF Files, EndsClosed
    <2>3. QED
        BY <2>1, <2>2 DEF EndsClosed
<1>6. QED
    BY <1>3, <1>5 DEF Files

LEMMA FilesStep ==
    ASSUME TypeOK, Files, [Next]_vars
    PROVE  Files'
<1>1. CASE UNCHANGED vars
    BY <1>1 DEF vars, pipeVars, procVars, Files, EndsHeld, EndsClosed
<1>2. ASSUME NEW c \in Procs, pc[c] \in WritePlaces,
             \E x \in WritePlaces \cup {"user"} : pc' = [pc EXCEPT ![c] = x],
             UNCHANGED <<fds, open, allocated>>
      PROVE  Files'
    <2>1. PICK x \in WritePlaces \cup {"user"} : pc' = [pc EXCEPT ![c] = x]
        BY <1>2
    <2>2. x \in Places /\ \A e \in Ends : pc[c] # Closing(e) /\ x # Closing(e)
        BY <1>2 DEF Places, WritePlaces, Ends, Closing
    <2>3. /\ x \in WritePlaces => <<c, "write">> \in fds
          /\ x \notin ReadPlaces
        BY <1>2 DEF Files, EndsHeld, WritePlaces, ReadPlaces
    <2>4. QED
        BY <1>2, <2>1, <2>2, <2>3, FilesStay
<1>3. ASSUME NEW c \in Procs, pc[c] \in ReadPlaces,
             \E x \in ReadPlaces \cup {"user"} : pc' = [pc EXCEPT ![c] = x],
             UNCHANGED <<fds, open, allocated>>
      PROVE  Files'
    <2>1. PICK x \in ReadPlaces \cup {"user"} : pc' = [pc EXCEPT ![c] = x]
        BY <1>3
    <2>2. x \in Places /\ \A e \in Ends : pc[c] # Closing(e) /\ x # Closing(e)
        BY <1>3 DEF Places, ReadPlaces, Ends, Closing
    <2>3. /\ x \in ReadPlaces => <<c, "read">> \in fds
          /\ x \notin WritePlaces
        BY <1>3 DEF Files, EndsHeld, WritePlaces, ReadPlaces
    <2>4. QED
        BY <1>3, <2>1, <2>2, <2>3, FilesStay
<1> USE DEF Goto, Under, Return, sleep, Reacquire, pipeVars, procVars, WritePlaces, ReadPlaces
<1>4. ASSUME NEW c \in Procs, write_refused(c) PROVE Files'
    BY <1>2, <1>4 DEF write_refused
<1>5. ASSUME NEW c \in Procs, write_full(c) PROVE Files'
    BY <1>2, <1>5 DEF write_full
<1>6. ASSUME NEW c \in Procs, write_sleep(c) PROVE Files'
    BY <1>2, <1>6 DEF write_sleep
<1>7. ASSUME NEW c \in Procs, write_acquire(c) PROVE Files'
    BY <1>2, <1>7 DEF write_acquire
<1>8. ASSUME NEW c \in Procs, NEW b \in Bytes, write_byte(c, b) PROVE Files'
    BY <1>8 DEF write_byte, Files, EndsHeld, EndsClosed
<1>9. ASSUME NEW c \in Procs, write_done(c) PROVE Files'
    BY <1>2, <1>9 DEF write_done
<1>10. ASSUME NEW c \in Procs, read_refused(c) PROVE Files'
    BY <1>3, <1>10 DEF read_refused
<1>11. ASSUME NEW c \in Procs, read_empty(c) PROVE Files'
    BY <1>3, <1>11 DEF read_empty
<1>12. ASSUME NEW c \in Procs, read_sleep(c) PROVE Files'
    BY <1>3, <1>12 DEF read_sleep
<1>13. ASSUME NEW c \in Procs, read_acquire(c) PROVE Files'
    BY <1>3, <1>13 DEF read_acquire
<1>14. ASSUME NEW c \in Procs, read_start(c) PROVE Files'
    BY <1>3, <1>14 DEF read_start
<1>15. ASSUME NEW c \in Procs, read_byte(c) PROVE Files'
    BY <1>15 DEF read_byte, Files, EndsHeld, EndsClosed
<1>16. ASSUME NEW c \in Procs, read_fault(c) PROVE Files'
    BY <1>3, <1>16 DEF read_fault
<1>17. ASSUME NEW c \in Procs, read_done(c) PROVE Files'
    BY <1>3, <1>17 DEF read_done
<1>18. ASSUME NEW c \in Procs, NEW n \in Sizes, pipewrite(c, n) PROVE Files'
    BY <1>18, FilesStay DEF pipewrite, Enter, Places, Ends, Closing
<1>19. ASSUME NEW c \in Procs, NEW n \in Sizes, piperead(c, n) PROVE Files'
    BY <1>19, FilesStay DEF piperead, Enter, Places, Ends, Closing
<1>20. ASSUME NEW c \in Procs, kill(c) PROVE Files'
    BY <1>20 DEF kill, Files, EndsHeld, EndsClosed
<1>21. ASSUME NEW c \in Procs, NEW q \in Procs, fork(c, q) PROVE Files'
    <2>1. fds' = fds \cup {f \in {q} \X Ends : <<c, f[2]>> \in fds} /\ UNCHANGED <<pc, open, allocated>>
        BY <1>21 DEF fork
    <2>2. \A r \in Procs, e \in Ends : <<r, e>> \in fds' <=> <<r, e>> \in fds \/ (r = q /\ <<c, e>> \in fds)
        BY <2>1
    <2>3. QED
        <3>1. EndsHeld'
            BY <2>1, <2>2 DEF Files, EndsHeld, Ends
        <3>2. ASSUME NEW e \in Ends
              PROVE  (\E r \in Procs : <<r, e>> \in fds) <=> \E r \in Procs : <<r, e>> \in fds'
            BY <1>21, <2>2
        <3>3. ASSUME NEW e \in Ends, NEW r \in Procs, pc[r] = Closing(e)
              PROVE  \A q2 \in Procs : <<q2, e>> \notin fds'
            BY <1>21, <2>2, <3>3 DEF Files, EndsClosed
        <3>4. EndsClosed'
            <4>1. \A e \in Ends, r \in Procs : pc'[r] = Closing(e) <=> pc[r] = Closing(e)
                BY <2>1
            <4>2. ASSUME NEW e \in Ends
                  PROVE  e \in open' <=> \E r \in Procs : <<r, e>> \in fds' \/ pc'[r] = Closing(e)
                BY <2>1, <3>2, <4>1 DEF Files, EndsClosed
            <4>3. ASSUME NEW e \in Ends, NEW r \in Procs, pc'[r] = Closing(e), NEW t \in Procs
                  PROVE  <<t, e>> \notin fds' /\ (pc'[t] = Closing(e) => r = t)
                BY <3>3, <4>1, <4>3 DEF Files, EndsClosed
            <4>4. QED
                BY <4>2, <4>3 DEF EndsClosed, Closing
        <3>5. QED
            BY <2>1, <3>1, <3>4 DEF Files
<1>22. ASSUME NEW c \in Procs, NEW e \in Ends, fileclose(c, e) PROVE Files'
    <2>1. /\ pc \in [Procs -> Places] /\ pc[c] = "user"
          /\ fds' = fds \ {<<c, e>>} /\ <<c, e>> \in fds
          /\ UNCHANGED <<open, allocated>>
        BY <1>22 DEF fileclose, TypeOK
    <2>2. CASE \E q \in Procs \ {c} : <<q, e>> \in fds
        <3>1. UNCHANGED pc
            BY <1>22, <2>2 DEF fileclose
        <3>2. QED
            <4>1. \A f \in Ends, q \in Procs : <<q, f>> \in fds' <=> <<q, f>> \in fds /\ ~(q = c /\ f = e)
                BY <2>1
            <4>2. pc[c] \notin WritePlaces /\ pc[c] \notin ReadPlaces
                BY <2>1 DEF WritePlaces, ReadPlaces
            <4>3. EndsHeld'
                BY <2>1, <3>1, <4>1, <4>2 DEF Files, EndsHeld, Ends
            <4>4. ASSUME NEW f \in Ends
                  PROVE  (\E q \in Procs : <<q, f>> \in fds) <=> \E q \in Procs : <<q, f>> \in fds'
                BY <2>2, <4>1
            <4>5. EndsClosed'
                BY <2>1, <3>1, <4>1, <4>4 DEF Files, EndsClosed
            <4>6. QED
                BY <2>1, <4>3, <4>5 DEF Files
    <2>3. CASE ~ \E q \in Procs \ {c} : <<q, e>> \in fds
        <3>1. pc' = [pc EXCEPT ![c] = Closing(e)]
            BY <1>22, <2>3 DEF fileclose, Closing
        <3>2. \A q \in Procs : pc'[q] = IF q = c THEN Closing(e) ELSE pc[q]
            BY <2>1, <3>1
        <3>3. \A q \in Procs : <<q, e>> \notin fds'
            BY <2>1, <2>3
        <3>4. EndsHeld'
            BY <2>1, <2>3, <3>2 DEF Files, EndsHeld, Closing
        <3>5. ASSUME NEW f \in Ends, f # e, NEW q \in Procs
              PROVE  (<<q, f>> \in fds' <=> <<q, f>> \in fds) /\ (pc'[q] = Closing(f) <=> pc[q] = Closing(f))
            <4>1. Closing(f) # Closing(e) /\ Closing(f) # "user"
                BY <3>5 DEF Closing, Ends
            <4>2. <<q, f>> # <<c, e>>
                BY <3>5
            <4>3. QED
                BY <2>1, <3>2, <4>1, <4>2
        <3>6. EndsClosed'
            <4>1. \A q \in Procs : pc[q] # Closing(e)
                BY <2>1 DEF Files, EndsClosed
            <4>2. e \in open
                BY <2>1 DEF Files, EndsClosed
            <4>3. \A q \in Procs : pc'[q] = Closing(e) <=> q = c
                BY <3>2, <4>1
            <4>4. ASSUME NEW f \in Ends
                  PROVE  f \in open <=> \E q \in Procs : <<q, f>> \in fds' \/ pc'[q] = Closing(f)
                BY <3>5, <4>2, <4>3, SMTT(30) DEF Files, EndsClosed
            <4>5. ASSUME NEW f \in Ends, NEW q \in Procs, NEW r \in Procs, pc'[q] = Closing(f)
                  PROVE  <<r, f>> \notin fds' /\ (pc'[r] = Closing(f) => q = r)
                <5>1. CASE f = e
                    BY <3>3, <4>3, <4>5, <5>1
                <5>2. CASE f # e
                    <6>1. /\ pc[q] = Closing(f) /\ (pc'[r] = Closing(f) <=> pc[r] = Closing(f))
                          /\ (<<r, f>> \in fds' <=> <<r, f>> \in fds)
                        BY <3>5, <4>5, <5>2
                    <6>2. QED
                        BY <6>1 DEF Files, EndsClosed
                <5>3. QED
                    BY <5>1, <5>2
            <4>6. QED
                BY <2>1, <4>4, <4>5 DEF EndsClosed
        <3>7. QED
            BY <2>1, <3>4, <3>6 DEF Files
    <2>4. QED
        BY <2>2, <2>3
<1>23. ASSUME NEW c \in Procs, NEW e \in Ends, pipeclose(c, e) PROVE Files'
    <2>1. /\ pc \in [Procs -> Places] /\ pc[c] = Closing(e)
          /\ pc' = [pc EXCEPT ![c] = "user"]
          /\ open' = open \ {e} /\ UNCHANGED fds
          /\ allocated' = (allocated /\ open' # {})
        BY <1>23 DEF pipeclose, Closes, Closing, TypeOK
    <2>2. \A q \in Procs : pc'[q] = IF q = c THEN "user" ELSE pc[q]
        BY <2>1
    <2>3. e \in open /\ \A q \in Procs : <<q, e>> \notin fds /\ pc'[q] # Closing(e)
        BY <2>1, <2>2 DEF Files, EndsClosed, Closing
    <2>4. EndsHeld'
        BY <2>1, <2>2 DEF Files, EndsHeld
    <2>5. \A f \in Ends \ {e} : \A q \in Procs : pc'[q] = Closing(f) <=> pc[q] = Closing(f)
        BY <2>1, <2>2 DEF Closing, Ends
    <2>6. EndsClosed'
        <3>1. ASSUME NEW f \in Ends
              PROVE  f \in open' <=> \E q \in Procs : <<q, f>> \in fds' \/ pc'[q] = Closing(f)
            BY <2>1, <2>3, <2>5 DEF Files, EndsClosed
        <3>2. ASSUME NEW f \in Ends, NEW q \in Procs, NEW r \in Procs, pc'[q] = Closing(f)
              PROVE  <<r, f>> \notin fds' /\ (pc'[r] = Closing(f) => q = r)
            BY <2>1, <2>3, <2>5, <3>2 DEF Files, EndsClosed
        <3>3. QED
            BY <3>1, <3>2 DEF EndsClosed
    <2>7. QED
        BY <2>1, <2>3, <2>4, <2>6 DEF Files
<1>24. QED
    BY <1>1, <1>4, <1>5, <1>6, <1>7, <1>8, <1>9, <1>10, <1>11, <1>12, <1>13, <1>14, <1>15,
       <1>16, <1>17, <1>18, <1>19, <1>20, <1>21, <1>22, <1>23 DEF Next, InKernel

-----------------------------------------------------------------------------
(* Types.                                                                  *)

Lefts == {0} \cup UNION {0 .. n : n \in Sizes}

LEMMA LeftsDown == ASSUME NEW k \in Lefts, k > 0 PROVE k - 1 \in Lefts
<1>1. PICK n \in Sizes : k \in 0 .. n
    BY DEF Lefts
<1>2. k - 1 \in 0 .. n
    BY <1>1
<1>3. QED
    BY <1>2 DEF Lefts

\* The counters and the indices they give.
LEMMA Indices ==
    ASSUME TypeOK
    PROVE  /\ (nread + 1) % UINT \in 0 .. UINT - 1 /\ (nwrite + 1) % UINT \in 0 .. UINT - 1
           /\ nread % PIPESIZE \in 0 .. PIPESIZE - 1 /\ nwrite % PIPESIZE \in 0 .. PIPESIZE - 1
<1>1. nread + 1 \in Int /\ nwrite + 1 \in Int /\ nread \in Int /\ nwrite \in Int
    BY DEF TypeOK
<1>2. UINT \in Nat \ {0} /\ PIPESIZE \in Nat \ {0}
    OBVIOUS
<1>3. QED
    BY <1>1, <1>2, DivMod

LEMMA TypeInit == ASSUME Init PROVE TypeOK
<1>1. PICK c \in Procs : born = {c} /\ fds = {c} \X Ends
    BY DEF Init
<1>2. fds \subseteq born \X Ends /\ born \subseteq Procs
    BY <1>1
<1>3. data \in [0 .. PIPESIZE - 1 -> Bytes] /\ got \in Bytes
    BY DEF Init
<1>4. left \in [Procs -> Lefts]
    BY DEF Init, Lefts
<1>5. nread \in 0 .. UINT - 1 /\ nwrite \in 0 .. UINT - 1
    BY DEF Init
<1>6. QED
    BY <1>2, <1>3, <1>4, <1>5 DEF Init, TypeOK, Ends, Places, Lefts

LEMMA TypeStep == ASSUME TypeOK, [Next]_vars PROVE TypeOK'
<1> USE DEF TypeOK, pipeVars, procVars, Goto, Under, Return, sleep, Reacquire, Places
<1>1. CASE UNCHANGED vars
    BY <1>1 DEF vars
<1>2. ASSUME NEW c \in Procs, write_refused(c) PROVE TypeOK'
    BY <1>2 DEF write_refused, wakeup
<1>3. ASSUME NEW c \in Procs, write_full(c) PROVE TypeOK'
    BY <1>3 DEF write_full, wakeup
<1>4. ASSUME NEW c \in Procs, write_sleep(c) PROVE TypeOK'
    BY <1>4 DEF write_sleep, wakeup
<1>5. ASSUME NEW c \in Procs, write_acquire(c) PROVE TypeOK'
    BY <1>5 DEF write_acquire, wakeup
<1>6. ASSUME NEW c \in Procs, write_done(c) PROVE TypeOK'
    BY <1>6 DEF write_done, wakeup
<1>7. ASSUME NEW c \in Procs, read_refused(c) PROVE TypeOK'
    BY <1>7 DEF read_refused, wakeup
<1>8. ASSUME NEW c \in Procs, read_empty(c) PROVE TypeOK'
    BY <1>8 DEF read_empty, wakeup
<1>9. ASSUME NEW c \in Procs, read_sleep(c) PROVE TypeOK'
    BY <1>9 DEF read_sleep, wakeup
<1>10. ASSUME NEW c \in Procs, read_acquire(c) PROVE TypeOK'
    BY <1>10 DEF read_acquire, wakeup
<1>11. ASSUME NEW c \in Procs, read_start(c) PROVE TypeOK'
    BY <1>11 DEF read_start, wakeup
<1>12. ASSUME NEW c \in Procs, read_done(c) PROVE TypeOK'
    BY <1>12 DEF read_done, wakeup
<1>13. ASSUME NEW c \in Procs, NEW b \in Bytes, write_byte(c, b) PROVE TypeOK'
    <2>1. left' \in [Procs -> Lefts]
        BY <1>13, LeftsDown DEF write_byte, Lefts
    <2>2. nwrite' \in 0 .. UINT - 1
        BY <1>13, Indices DEF write_byte
    <2>3. QED
        BY <1>13, <2>1, <2>2 DEF write_byte, Lefts
<1>14. ASSUME NEW c \in Procs, read_byte(c) PROVE TypeOK'
    <2>1. left' \in [Procs -> Lefts]
        BY <1>14, LeftsDown DEF read_byte, Lefts
    <2>2. nread' \in 0 .. UINT - 1 /\ got' \in Bytes
        BY <1>14, Indices DEF read_byte
    <2>3. QED
        BY <1>14, <2>1, <2>2 DEF read_byte, Lefts
<1>15. ASSUME NEW c \in Procs, read_fault(c) PROVE TypeOK'
    <2>1. nread' \in 0 .. UINT - 1 /\ got' \in Bytes
        BY <1>15, Indices DEF read_fault
    <2>2. QED
        BY <1>15, <2>1 DEF read_fault, wakeup
<1>16. ASSUME NEW c \in Procs, NEW n \in Sizes, pipewrite(c, n) PROVE TypeOK'
    <2>1. n \in Lefts
        BY DEF Lefts
    <2>2. QED
        BY <1>16, <2>1 DEF pipewrite, Enter, Lefts
<1>17. ASSUME NEW c \in Procs, NEW n \in Sizes, piperead(c, n) PROVE TypeOK'
    <2>1. n \in Lefts
        BY DEF Lefts
    <2>2. QED
        BY <1>17, <2>1 DEF piperead, Enter, Lefts
<1>18. ASSUME NEW c \in Procs, NEW q \in Procs, fork(c, q) PROVE TypeOK'
    BY <1>18 DEF fork
<1>19. ASSUME NEW c \in Procs, NEW e \in Ends, fileclose(c, e) PROVE TypeOK'
    BY <1>19 DEF fileclose
<1>20. ASSUME NEW c \in Procs, NEW e \in Ends, pipeclose(c, e) PROVE TypeOK'
    BY <1>20 DEF pipeclose, Closes, wakeup
<1>21. ASSUME NEW c \in Procs, kill(c) PROVE TypeOK'
    BY <1>21 DEF kill
<1>22. QED
    BY <1>1, <1>2, <1>3, <1>4, <1>5, <1>6, <1>7, <1>8, <1>9, <1>10, <1>11, <1>12, <1>13, <1>14, <1>15, <1>16, <1>17, <1>18, <1>19, <1>20, <1>21 DEF Next, InKernel

-----------------------------------------------------------------------------
(* Wakeups.                                                                *)

LEMMA WakeupsStep ==
    ASSUME TypeOK, Wakeups, [Next]_vars
    PROVE  Wakeups'
<1> USE DEF pipeVars, procVars, Goto, Under, Return, sleep, Reacquire
<1>0. /\ pc \in [Procs -> Places] /\ chan \in [Procs -> {"awake", "nread", "nwrite"}]
      /\ lock \in Procs \cup {Nobody}
    BY DEF TypeOK
<1>1. CASE UNCHANGED vars
    BY <1>0, <1>1 DEF vars, WriterSleepsFull, ReaderSleepsEmpty, HeldAt, Wakeups, Held, full, empty
<1>2. ASSUME NEW c \in Procs, write_refused(c) PROVE Wakeups'
    BY <1>0, <1>2 DEF write_refused, WriterSleepsFull, ReaderSleepsEmpty, HeldAt, Wakeups, Held, full, empty, wakeup, Refused
<1>3. ASSUME NEW c \in Procs, write_full(c) PROVE Wakeups'
    BY <1>0, <1>3 DEF write_full, WriterSleepsFull, ReaderSleepsEmpty, HeldAt, Wakeups, Held, full, empty, wakeup, Refused
<1>4. ASSUME NEW c \in Procs, write_sleep(c) PROVE Wakeups'
    BY <1>0, <1>4 DEF write_sleep, WriterSleepsFull, ReaderSleepsEmpty, HeldAt, Wakeups, Held, full, empty, wakeup, Refused
<1>5. ASSUME NEW c \in Procs, write_acquire(c) PROVE Wakeups'
    BY <1>0, <1>5 DEF write_acquire, WriterSleepsFull, ReaderSleepsEmpty, HeldAt, Wakeups, Held, full, empty, wakeup, Refused
<1>6. ASSUME NEW c \in Procs, write_done(c) PROVE Wakeups'
    BY <1>0, <1>6 DEF write_done, WriterSleepsFull, ReaderSleepsEmpty, HeldAt, Wakeups, Held, full, empty, wakeup, Refused
<1>7. ASSUME NEW c \in Procs, read_refused(c) PROVE Wakeups'
    BY <1>0, <1>7 DEF read_refused, WriterSleepsFull, ReaderSleepsEmpty, HeldAt, Wakeups, Held, full, empty, wakeup, Refused
<1>8. ASSUME NEW c \in Procs, read_empty(c) PROVE Wakeups'
    BY <1>0, <1>8 DEF read_empty, WriterSleepsFull, ReaderSleepsEmpty, HeldAt, Wakeups, Held, full, empty, wakeup, Refused
<1>9. ASSUME NEW c \in Procs, read_sleep(c) PROVE Wakeups'
    BY <1>0, <1>9 DEF read_sleep, WriterSleepsFull, ReaderSleepsEmpty, HeldAt, Wakeups, Held, full, empty, wakeup, Refused
<1>10. ASSUME NEW c \in Procs, read_acquire(c) PROVE Wakeups'
    BY <1>0, <1>10 DEF read_acquire, WriterSleepsFull, ReaderSleepsEmpty, HeldAt, Wakeups, Held, full, empty, wakeup, Refused
<1>11. ASSUME NEW c \in Procs, read_start(c) PROVE Wakeups'
    BY <1>0, <1>11 DEF read_start, WriterSleepsFull, ReaderSleepsEmpty, HeldAt, Wakeups, Held, full, empty, wakeup, Refused
<1>12. ASSUME NEW c \in Procs, read_done(c) PROVE Wakeups'
    BY <1>0, <1>12 DEF read_done, WriterSleepsFull, ReaderSleepsEmpty, HeldAt, Wakeups, Held, full, empty, wakeup, Refused
<1>13. ASSUME NEW c \in Procs, read_byte(c) PROVE Wakeups'
    BY <1>0, <1>13 DEF read_byte, WriterSleepsFull, ReaderSleepsEmpty, HeldAt, Wakeups, Held, full, empty, wakeup, Refused
<1>14. ASSUME NEW c \in Procs, read_fault(c) PROVE Wakeups'
    BY <1>0, <1>14 DEF read_fault, WriterSleepsFull, ReaderSleepsEmpty, HeldAt, Wakeups, Held, full, empty, wakeup, Refused
<1>15. ASSUME NEW c \in Procs, NEW b \in Bytes, write_byte(c, b) PROVE Wakeups'
    BY <1>0, <1>15 DEF write_byte, WriterSleepsFull, ReaderSleepsEmpty, HeldAt, Wakeups, Held, full, empty
<1>16. ASSUME NEW c \in Procs, NEW n \in Sizes, pipewrite(c, n) PROVE Wakeups'
    BY <1>0, <1>16 DEF pipewrite, WriterSleepsFull, ReaderSleepsEmpty, HeldAt, Wakeups, Held, full, empty, Enter
<1>17. ASSUME NEW c \in Procs, NEW n \in Sizes, piperead(c, n) PROVE Wakeups'
    BY <1>0, <1>17 DEF piperead, WriterSleepsFull, ReaderSleepsEmpty, HeldAt, Wakeups, Held, full, empty, Enter
<1>18. ASSUME NEW c \in Procs, NEW q \in Procs, fork(c, q) PROVE Wakeups'
    BY <1>0, <1>18 DEF fork, WriterSleepsFull, ReaderSleepsEmpty, HeldAt, Wakeups, Held, full, empty
<1>19. ASSUME NEW c \in Procs, NEW e \in Ends, fileclose(c, e) PROVE Wakeups'
    BY <1>0, <1>19 DEF fileclose, WriterSleepsFull, ReaderSleepsEmpty, HeldAt, Wakeups, Held, full, empty
<1>20. ASSUME NEW c \in Procs, NEW e \in Ends, pipeclose(c, e) PROVE Wakeups'
    BY <1>0, <1>20 DEF pipeclose, WriterSleepsFull, ReaderSleepsEmpty, HeldAt, Wakeups, Held, full, empty, Closes, wakeup, Ends
<1>21. ASSUME NEW c \in Procs, kill(c) PROVE Wakeups'
    BY <1>0, <1>21 DEF kill, WriterSleepsFull, ReaderSleepsEmpty, HeldAt, Wakeups, Held, full, empty
<1>22. QED
    BY <1>1, <1>2, <1>3, <1>4, <1>5, <1>6, <1>7, <1>8, <1>9, <1>10, <1>11, <1>12, <1>13, <1>14, <1>15, <1>16, <1>17, <1>18, <1>19, <1>20, <1>21 DEF Next, InKernel

-----------------------------------------------------------------------------
(* The invariants.                                                         *)

LEMMA PipeInvInit == ASSUME Init PROVE PipeInv
<1>1. TypeOK
    BY TypeInit
<1>2. PICK c \in Procs : born = {c} /\ fds = {c} \X Ends
    BY DEF Init
<1>3. \A e \in Ends : <<c, e>> \in fds /\ e \in open
    BY <1>2 DEF Init
<1>4. \A q \in Procs : pc[q] = "user"
    BY DEF Init
<1>5. Files
    BY <1>3, <1>4 DEF Init, Files, EndsHeld, EndsClosed, WritePlaces, ReadPlaces, Closing, Ends
<1>6. Wakeups
    BY DEF Init, Wakeups, HeldAt, WriterSleepsFull, ReaderSleepsEmpty
<1>7. QED
    BY <1>1, <1>5, <1>6 DEF PipeInv

LEMMA PipeInvStep == ASSUME PipeInv, [Next]_vars PROVE PipeInv'
BY TypeStep, FilesStep, WakeupsStep DEF PipeInv

THEOREM PipeInvariant == Spec => []PipeInv
<1>1. Init => PipeInv
    BY PipeInvInit
<1>2. PipeInv /\ [Next]_vars => PipeInv'
    BY PipeInvStep
<1>3. QED
    BY <1>1, <1>2, PTL DEF Spec

\* The indices and counters stay in range, and the pipe is given to kfree() exactly
\* when both ends are closed and nobody is inside (pipe.c:58-75, file.c:58-83).
THEOREM PipeFreed == Spec => []PipeOK
<1>1. ASSUME PipeInv PROVE FreedOnce
    <2>1. allocated <=> \E e \in Ends : e \in open
        BY <1>1 DEF PipeInv, TypeOK, Files
    <2>2. \A e \in Ends : e \in open <=> \E c \in Procs : <<c, e>> \in fds \/ pc[c] = Closing(e)
        BY <1>1 DEF PipeInv, Files, EndsClosed
    <2>3. fds # {} <=> \E e \in Ends, c \in Procs : <<c, e>> \in fds
        <3>1. fds \subseteq Procs \X Ends
            BY <1>1 DEF PipeInv, TypeOK
        <3>2. ASSUME NEW f \in fds PROVE \E e \in Ends, c \in Procs : <<c, e>> \in fds
            BY <3>1
        <3>3. QED
            BY <3>2
    <2>4. \A c \in Procs : pc[c] \in {"close_read", "close_write"} <=> \E e \in Ends : pc[c] = Closing(e)
        BY DEF Closing, Ends
    <2>5. allocated <=> fds # {} \/ \E c \in Procs : pc[c] \in {"close_read", "close_write"}
        BY <2>1, <2>2, <2>3, <2>4
    <2>6. ASSUME ~allocated, NEW c \in Procs PROVE pc[c] = "user"
        <3>1. pc[c] \notin WritePlaces \cup ReadPlaces
            BY <1>1, <2>5, <2>6 DEF PipeInv, Files, EndsHeld
        <3>2. pc[c] \notin {"close_read", "close_write"}
            BY <2>5, <2>6
        <3>3. pc[c] \in Places
            BY <1>1 DEF PipeInv, TypeOK
        <3>4. QED
            BY <3>1, <3>2, <3>3 DEF Places, WritePlaces, ReadPlaces
    <2>7. QED
        BY <2>5, <2>6 DEF FreedOnce
<1>2. PipeInv => PipeOK
    BY <1>1 DEF PipeInv, PipeOK
<1>3. QED
    BY <1>2, PipeInvariant, PTL

\* No wakeup is lost but the one a pipewrite() that gives up owes.
THEOREM WakeupsKept == Spec => []NobodyWaitsInVain
<1>1. PipeInv => NobodyWaitsInVain
    BY DEF PipeInv, Wakeups, HeldAt, NobodyWaitsInVain
<1>2. QED
    BY <1>1, PipeInvariant, PTL

-----------------------------------------------------------------------------
(* The pipe implements Fifo.                                               *)

Count == (nwrite + UINT - nread) % UINT
At(k) == data[(nread + k - 1) % PIPESIZE]
Queue == [k \in 1 .. Count |-> At(k)]

\* The counters are never further apart than the array is long.
Within == TypeOK /\ Count <= PIPESIZE

LEMMA TurnsInt == UINT \in Int /\ PIPESIZE \in Nat \ {0} /\ UINT % PIPESIZE = 0
OBVIOUS

LEMMA CountIs ==
    ASSUME NEW r \in 0 .. UINT - 1, NEW w \in 0 .. UINT - 1
    PROVE  (w + UINT - r) % UINT = IF w >= r THEN w - r ELSE w + UINT - r
<1>1. UINT \in Nat \ {0}
    OBVIOUS
<1>2. CASE w >= r
    <2>1. w - r \in Int /\ w - r \in 0 .. UINT - 1 /\ w + UINT - r = (w - r) + UINT
        BY <1>2
    <2>2. UINT % UINT = 0
        BY <1>1
    <2>3. ((w - r) + UINT) % UINT = (w - r) % UINT
        <3>1. \A x \in Int : (x + UINT) % UINT = x % UINT
            BY <1>1, <2>2, TurnsInt, ModTurn, Zenon
        <3>2. QED
            BY <2>1, <3>1
    <2>4. QED
        BY <1>1, <1>2, <2>1, <2>3
<1>3. CASE w < r
    <2>1. w + UINT - r \in 0 .. UINT - 1
        BY <1>3
    <2>2. QED
        BY <1>1, <1>3, <2>1
<1>4. QED
    BY <1>2, <1>3

\* The code's tests compare the counters; what they mean is how much is in the queue.
LEMMA TestsCount ==
    ASSUME Within
    PROVE  /\ Count \in 0 .. PIPESIZE
           /\ full <=> Count = PIPESIZE
           /\ empty <=> Count = 0
<1>1. nread \in 0 .. UINT - 1 /\ nwrite \in 0 .. UINT - 1
    BY DEF Within, TypeOK
<1>2. Count = IF nwrite >= nread THEN nwrite - nread ELSE nwrite + UINT - nread
    BY <1>1, CountIs DEF Count
<1>3. (nread + PIPESIZE) % UINT = IF nread + PIPESIZE < UINT THEN nread + PIPESIZE
                                  ELSE nread + PIPESIZE - UINT
    <2>1. CASE nread + PIPESIZE < UINT
        <3>1. nread + PIPESIZE \in 0 .. UINT - 1
            BY <1>1, <2>1
        <3>2. QED
            BY <2>1, <3>1
    <2>2. CASE ~(nread + PIPESIZE < UINT)
        <3>1. nread + PIPESIZE - UINT \in 0 .. UINT - 1
            BY <1>1, <2>2
        <3>2. UINT % UINT = 0 /\ UINT \in Nat \ {0}
            OBVIOUS
        <3>3. ((nread + PIPESIZE - UINT) + UINT) % UINT = (nread + PIPESIZE - UINT) % UINT
            BY <3>1, <3>2, ModTurn
        <3>4. (nread + PIPESIZE - UINT) + UINT = nread + PIPESIZE
            BY <1>1
        <3>5. QED
            BY <2>2, <3>1, <3>3, <3>4
    <2>3. QED
        BY <2>1, <2>2
<1>4. QED
    BY <1>1, <1>2, <1>3 DEF Within, full, empty

\* The queue as a sequence.
QueueIsSeq ==
    /\ Queue \in Seq(Bytes) /\ Len(Queue) = Count
    /\ \A k \in 1 .. Count : Queue[k] = At(k) /\ At(k) \in Bytes

LEMMA QueueSeq == Within => QueueIsSeq
<1> SUFFICES ASSUME Within PROVE QueueIsSeq
    OBVIOUS
<1>1. Count \in Nat
    BY TestsCount
<1>2. ASSUME NEW k \in 1 .. Count PROVE At(k) \in Bytes
    <2>1. nread + k - 1 \in Int /\ PIPESIZE \in Nat \ {0}
        BY <1>1 DEF Within, TypeOK
    <2>2. (nread + k - 1) % PIPESIZE \in 0 .. PIPESIZE - 1
        BY <2>1, DivMod
    <2>3. QED
        BY <2>2 DEF Within, TypeOK, At
<1>3. Queue \in [1 .. Count -> Bytes]
    BY <1>2 DEF Queue
<1>4. QED
    BY <1>1, <1>2, <1>3 DEF Queue, QueueIsSeq

\* A byte in, a byte out: the distance of the counters, across their wrap.
LEMMA CountGoesUp ==
    ASSUME Within, ~full, UNCHANGED nread, nwrite' = (nwrite + 1) % UINT
    PROVE  Count \in 0 .. PIPESIZE - 1 /\ Count' = Count + 1
<1>1. nread \in 0 .. UINT - 1 /\ nwrite \in 0 .. UINT - 1
    BY DEF Within, TypeOK
<1>2. Count \in 0 .. PIPESIZE - 1
    BY TestsCount
<1>3. Count = IF nwrite >= nread THEN nwrite - nread ELSE nwrite + UINT - nread
    BY <1>1, CountIs DEF Count
<1>4. nwrite' = IF nwrite = UINT - 1 THEN 0 ELSE nwrite + 1
    BY <1>1, ModNext
<1>5. nwrite' \in 0 .. UINT - 1
    BY <1>1, <1>4
<1>6. Count' = IF nwrite' >= nread THEN nwrite' - nread ELSE nwrite' + UINT - nread
    BY <1>1, <1>5, CountIs DEF Count
<1>7. QED
    BY <1>1, <1>2, <1>3, <1>4, <1>6

LEMMA CountGoesDown ==
    ASSUME Within, ~empty, UNCHANGED nwrite, nread' = (nread + 1) % UINT
    PROVE  Count \in 1 .. PIPESIZE /\ Count' = Count - 1
<1>1. nread \in 0 .. UINT - 1 /\ nwrite \in 0 .. UINT - 1
    BY DEF Within, TypeOK
<1>2. Count \in 1 .. PIPESIZE
    BY TestsCount
<1>3. Count = IF nwrite >= nread THEN nwrite - nread ELSE nwrite + UINT - nread
    BY <1>1, CountIs DEF Count
<1>4. nread' = IF nread = UINT - 1 THEN 0 ELSE nread + 1
    BY <1>1, ModNext
<1>5. nread' \in 0 .. UINT - 1
    BY <1>1, <1>4
<1>6. Count' = IF nwrite >= nread' THEN nwrite - nread' ELSE nwrite + UINT - nread'
    BY <1>1, <1>5, CountIs DEF Count
<1>7. QED
    BY <1>1, <1>2, <1>3, <1>4, <1>6

\* write_byte() appends to the queue.
LEMMA ByteGoesIn ==
    ASSUME Within, Within', ~full, UNCHANGED nread, NEW b \in Bytes,
           nwrite' = (nwrite + 1) % UINT, data' = [data EXCEPT ![nwrite % PIPESIZE] = b]
    PROVE  Count < PIPESIZE /\ Count' = Count + 1 /\ Queue' = Append(Queue, b)
<1>1. nread \in 0 .. UINT - 1 /\ nwrite \in 0 .. UINT - 1
    BY DEF Within, TypeOK
<1>2. Count \in 0 .. PIPESIZE - 1 /\ Count' = Count + 1
    BY CountGoesUp
<1>3. Count = IF nwrite >= nread THEN nwrite - nread ELSE nwrite + UINT - nread
    BY <1>1, CountIs DEF Count
<1>7. (nread + Count) % PIPESIZE = nwrite % PIPESIZE
    <2>1. CASE nwrite >= nread
        <3>1. nread + Count = nwrite
            BY <1>1, <1>3, <2>1
        <3>2. QED
            BY <3>1
    <2>2. CASE nwrite < nread
        <3>1. nread + Count = nwrite + UINT
            BY <1>1, <1>3, <2>2
        <3>2. nwrite \in Int
            BY <1>1
        <3>3. (nwrite + UINT) % PIPESIZE = nwrite % PIPESIZE
            BY <3>2, TurnsInt, ModTurn, Zenon
        <3>4. QED
            BY <3>1, <3>3
    <2>3. QED
        BY <1>1, <2>1, <2>2
<1>8. ASSUME NEW k \in 1 .. Count + 1 PROVE At(k)' = IF k <= Count THEN At(k) ELSE b
    <2>1. nread + k - 1 \in Int /\ nwrite \in Int
        BY <1>1, <1>2
    <2>2. /\ (nread + k - 1) % PIPESIZE \in 0 .. PIPESIZE - 1
          /\ nwrite % PIPESIZE \in 0 .. PIPESIZE - 1
        BY <2>1, TurnsInt, DivMod, Zenon
    <2>3. data \in [0 .. PIPESIZE - 1 -> Bytes]
        BY DEF Within, TypeOK
    <2>4. At(k)' = data'[(nread + k - 1) % PIPESIZE]
        BY DEF At
    <2>5. CASE k = Count + 1
        <3>1. nread + k - 1 = nread + Count
            BY <1>1, <1>2, <2>5
        <3>2. (nread + k - 1) % PIPESIZE = nwrite % PIPESIZE
            BY <1>7, <3>1
        <3>3. At(k)' = b
            BY <2>2, <2>3, <2>4, <3>2
        <3>4. ~(k <= Count)
            BY <1>2, <2>5
        <3>5. QED
            BY <3>3, <3>4
    <2>6. CASE k <= Count
        <3>1. DEFINE d == Count - k + 1
        <3>2. d \in 1 .. PIPESIZE - 1 /\ (nread + k - 1) + d = nread + Count
            BY <1>1, <1>2, <2>6
        <3>3. ((nread + k - 1) + d) % PIPESIZE # (nread + k - 1) % PIPESIZE
            BY <2>1, <3>2, TurnsInt, ModDiffers
        <3>4. (nread + k - 1) % PIPESIZE # nwrite % PIPESIZE
            BY <1>7, <3>2, <3>3
        <3>5. At(k)' = At(k)
            BY <2>2, <2>3, <2>4, <3>4 DEF At
        <3>6. QED
            BY <2>6, <3>5
    <2>7. QED
        BY <1>2, <2>5, <2>6
<1>9. Queue \in Seq(Bytes) /\ Len(Queue) = Count /\ \A k \in 1 .. Count : Queue[k] = At(k)
    BY QueueSeq DEF QueueIsSeq
<1>10. Queue' \in Seq(Bytes) /\ Len(Queue') = Count + 1 /\ \A k \in 1 .. Count + 1 : Queue'[k] = At(k)'
    <2>1. QueueIsSeq'
        BY QueueSeq, PTL
    <2>2. QED
        BY <1>2, <2>1 DEF QueueIsSeq
<1>11. /\ Append(Queue, b) \in Seq(Bytes) /\ Len(Append(Queue, b)) = Count + 1
       /\ \A k \in 1 .. Count + 1 : Append(Queue, b)[k] = IF k <= Count THEN Queue[k] ELSE b
    BY <1>2, <1>9
<1>12. Queue' = Append(Queue, b)
    <2>1. \A k \in 1 .. Len(Queue') : Queue'[k] = Append(Queue, b)[k]
        BY <1>2, <1>8, <1>9, <1>10, <1>11
    <2>2. QED
        BY <1>10, <1>11, <2>1, SeqEqual
<1>13. QED
    BY <1>2, <1>12

\* read_byte(), and read_fault(), take the head of the queue.
LEMMA ByteComesOut ==
    ASSUME Within, Within', ~empty, UNCHANGED <<data, nwrite>>,
           nread' = (nread + 1) % UINT, got' = data[nread % PIPESIZE]
    PROVE  /\ Count' = Count - 1 /\ Queue # <<>>
           /\ got' = Head(Queue) /\ Queue' = Tail(Queue)
<1>1. nread \in 0 .. UINT - 1 /\ nwrite \in 0 .. UINT - 1
    BY DEF Within, TypeOK
<1>2. Count \in 1 .. PIPESIZE /\ Count' = Count - 1
    BY CountGoesDown
<1>5. nread' = IF nread = UINT - 1 THEN 0 ELSE nread + 1
    BY <1>1, ModNext
<1>7. ASSUME NEW k \in 1 .. Count - 1 PROVE At(k)' = At(k + 1)
    <2>1. At(k)' = data[(nread' + k - 1) % PIPESIZE]
        BY DEF At
    <2>2. At(k + 1) = data[(nread + (k + 1) - 1) % PIPESIZE]
        BY DEF At
    <2>3. nread + (k + 1) - 1 = nread + k
        BY <1>1, <1>2
    <2>4. (nread' + k - 1) % PIPESIZE = (nread + k) % PIPESIZE
        <3>1. CASE nread # UINT - 1
            <4>1. nread' + k - 1 = nread + k
                BY <1>1, <1>2, <1>5, <3>1
            <4>2. QED
                BY <4>1
        <3>2. CASE nread = UINT - 1
            <4>1. nread + k = (nread' + k - 1) + UINT /\ nread' + k - 1 \in Int
                BY <1>1, <1>2, <1>5, <3>2
            <4>2. ((nread' + k - 1) + UINT) % PIPESIZE = (nread' + k - 1) % PIPESIZE
                BY <4>1, ModTurn
            <4>3. QED
                BY <4>1, <4>2
        <3>3. QED
            BY <3>1, <3>2
    <2>5. QED
        BY <2>1, <2>2, <2>3, <2>4
<1>8. /\ Queue \in Seq(Bytes) /\ Len(Queue) = Count /\ Queue # <<>>
      /\ \A k \in 1 .. Count : Queue[k] = At(k)
    BY <1>2, QueueSeq DEF QueueIsSeq
<1>9. Queue' \in Seq(Bytes) /\ Len(Queue') = Count - 1 /\ \A k \in 1 .. Count - 1 : Queue'[k] = At(k)'
    <2>1. QueueIsSeq'
        BY QueueSeq, PTL
    <2>2. QED
        BY <1>2, <2>1 DEF QueueIsSeq
<1>10. /\ Tail(Queue) \in Seq(Bytes) /\ Len(Tail(Queue)) = Count - 1
       /\ \A k \in 1 .. Count - 1 : Tail(Queue)[k] = Queue[k + 1]
    BY <1>8, HeadTailProperties
<1>11. Queue' = Tail(Queue)
    <2>1. \A k \in 1 .. Count - 1 : Queue'[k] = Tail(Queue)[k]
        <3>1. TAKE k \in 1 .. Count - 1
        <3>2. k + 1 \in 1 .. Count
            BY <1>2
        <3>3. QED
            BY <1>7, <1>8, <1>9, <1>10, <3>2
    <2>2. QED
        BY <1>9, <1>10, <2>1, SeqEqual
<1>12. got' = Head(Queue)
    <2>1. Head(Queue) = Queue[1] /\ Queue[1] = At(1)
        BY <1>2, <1>8
    <2>2. nread + 1 - 1 = nread
        BY <1>1
    <2>3. QED
        BY <2>1, <2>2 DEF At
<1>13. QED
    BY <1>2, <1>8, <1>11, <1>12

\* Every step takes or gives a byte as Fifo does, or leaves the queue alone.
LEMMA FifoStep ==
    ASSUME Within, TypeOK', [Next]_vars
    PROVE  Count' <= PIPESIZE /\ [Stream!Put \/ Stream!Take]_<<Queue, got>>
<1>1. Count \in 0 .. PIPESIZE /\ (full <=> Count = PIPESIZE) /\ (empty <=> Count = 0)
    BY TestsCount
<1>2. ASSUME UNCHANGED <<data, nread, nwrite, got>>
      PROVE  Count' <= PIPESIZE /\ UNCHANGED <<Queue, got>>
    BY <1>1, <1>2 DEF Count, Queue, At
<1>3. ASSUME NEW c \in Procs, NEW b \in Bytes, write_byte(c, b)
      PROVE  Count' <= PIPESIZE /\ Stream!Put
    <2>1. /\ nwrite' = (nwrite + 1) % UINT /\ data' = [data EXCEPT ![nwrite % PIPESIZE] = b]
          /\ ~full /\ UNCHANGED <<nread, got>>
        BY <1>3 DEF write_byte
    <2>2. Within'
        BY <1>1, <2>1, CountGoesUp DEF Within
    <2>3. Count < PIPESIZE /\ Queue' = Append(Queue, b)
        BY <2>1, <2>2, ByteGoesIn
    <2>4. Len(Queue) = Count
        BY QueueSeq DEF QueueIsSeq
    <2>5. QED
        BY <2>1, <2>2, <2>3, <2>4 DEF Within, Stream!Put, Queue, Count, At
<1>4. ASSUME ~empty, UNCHANGED <<data, nwrite>>, nread' = (nread + 1) % UINT,
             got' = data[nread % PIPESIZE]
      PROVE  Count' <= PIPESIZE /\ Stream!Take
    <2>1. Within'
        BY <1>1, <1>4, CountGoesDown DEF Within
    <2>2. Queue # <<>> /\ got' = Head(Queue) /\ Queue' = Tail(Queue)
        BY <1>4, <2>1, ByteComesOut
    <2>3. QED
        BY <2>1, <2>2 DEF Within, Stream!Take, Queue, Count, At
<1>5. ASSUME NEW c \in Procs, read_byte(c) \/ read_fault(c)
      PROVE  Count' <= PIPESIZE /\ Stream!Take
    BY <1>4, <1>5 DEF read_byte, read_fault
<1>6. ASSUME NEW c \in Procs,
             \/ write_refused(c) \/ write_full(c) \/ write_sleep(c) \/ write_acquire(c)
             \/ write_done(c)
             \/ read_refused(c) \/ read_empty(c) \/ read_sleep(c) \/ read_acquire(c)
             \/ read_start(c) \/ read_done(c)
      PROVE  UNCHANGED <<data, nread, nwrite, got>>
    BY <1>6 DEF write_refused, write_full, write_sleep, write_acquire, write_done,
                read_refused, read_empty, read_sleep, read_acquire, read_start, read_done, pipeVars
<1>7. ASSUME NEW c \in Procs, NEW n, NEW q, NEW e,
             pipewrite(c, n) \/ piperead(c, n) \/ fork(c, q) \/ fileclose(c, e) \/ pipeclose(c, e) \/ kill(c)
      PROVE  UNCHANGED <<data, nread, nwrite, got>>
    BY <1>7 DEF pipewrite, piperead, fork, fileclose, pipeclose, kill, pipeVars
<1>8. CASE UNCHANGED vars
    BY <1>2, <1>8 DEF vars, pipeVars
<1>9. QED
    BY <1>2, <1>3, <1>5, <1>6, <1>7, <1>8 DEF Next, InKernel

\* The bytes come out in the order in which they went in, once each, and the array holds
\* those on the way: the pipe implements Fifo (pipe.c:77-127).
THEOREM PipeIsFifo == Spec => InOrder
<1>1. Init => Within /\ Stream!Init
    <2>1. SUFFICES ASSUME Init PROVE Within /\ Stream!Init
        OBVIOUS
    <2>2. TypeOK /\ nread = 0 /\ nwrite = 0
        BY <2>1, TypeInit DEF Init
    <2>3. Count = 0
        BY <2>2, CountIs DEF Count
    <2>4. Queue = <<>>
        BY <2>3 DEF Queue
    <2>5. Stream!Init
        BY <2>2, <2>4 DEF Stream!Init, Queue, Count, At, TypeOK
    <2>6. Within
        BY <2>2, <2>3 DEF Within
    <2>7. QED
        BY <2>5, <2>6
<1>2. Within /\ [Next]_vars => Within'
    BY TypeStep, FifoStep DEF Within
<1>3. Within /\ [Next]_vars => [Stream!Put \/ Stream!Take]_<<Queue, got>>
    BY TypeStep, FifoStep DEF Within
<1>4. QED
    BY <1>1, <1>2, <1>3, PTL DEF Spec, InOrder, Stream!Spec, Queue, Count, At

HIDE PipeAssumption DEF PipeAssumption

-----------------------------------------------------------------------------
(* The heap of a user program.  Its inductive invariant HeapInv says that  *)
(* there is a set of addresses, F, such that the list is the circle        *)
(* through F in ascending order, and the blocks of F, those in use and the *)
(* one on its way to the list tile the memory.                             *)

UnitType == {Junk} \cup [ptr : Addr, size : 0 .. HeapSize]

\* The free list in memory m: an ordered circle through the blocks of F, base first.
Follows(F, a, q) ==
    /\ q \in F
    /\ \/ a < q /\ \A x \in F : ~(a < x /\ x < q)
       \/ q = Base /\ \A x \in F : x <= a
Circle(F, m) == \A a \in F : Follows(F, a, m[a].ptr)

\* Where the blocks begin that are free, in use, or on their way to the free list.
Loose == IF loop \in {"free", "morecore"} THEN {bp} ELSE {}
Used == {b.at - 1 : b \in live}
Starts(F) == (F \ {Base}) \cup Used \cup Loose

\* The blocks that begin in A lie side by side and, with the units in mine, fill
\* the memory below top.
Inside(m, u, s) == s <= u /\ u < s + m[s].size
Tiling(A, m, top, mine) ==
    /\ A \subseteq Heap /\ top \in Int
    /\ \A s \in A : m[s].size \in Int /\ m[s].size >= 1 /\ s + m[s].size <= top
    /\ \A s, t \in A : s < t => s + m[s].size <= t
    /\ \A u \in mine : u < top /\ \A s \in A : ~Inside(m, u, s)
    /\ \A u \in Heap : u < top => u \in mine \/ \E s \in A : Inside(m, u, s)

Free(F) ==
    /\ F \subseteq Addr
    /\ IF freep = Null THEN F = {} /\ live = {} /\ loop = "idle"
                       ELSE Base \in F /\ freep \in F /\ unit[Base].size = 0
    /\ Circle(F, unit) /\ Tiling(Starts(F), unit, brk, own)
    /\ F \cap (Used \cup Loose) = {} /\ Used \cap Loose = {}
    /\ \A a \in F \ {Base} : a + unit[a].size \notin F
    /\ loop = "malloc" => prevp \in F /\ p = unit[prevp].ptr /\ nunits >= 1
    /\ loop \in {"free", "morecore"} => p \in F
    /\ loop = "morecore" => nunits >= 1

HeapInv == HeapTypeOK /\ HeaderKept /\ \E F \in SUBSET Addr : Free(F)

LEMMA HeapIs ==
    /\ HeapSize \in Nat /\ Addr = 0 .. HeapSize /\ Heap = 1 .. HeapSize /\ Heap \subseteq Addr /\ Base = 0
    /\ Base \in Addr /\ Addr \subseteq Int /\ Heap \subseteq Int /\ Base \notin Heap /\ Null = -1
    /\ Null \notin Addr
    /\ Chunk \in Nat /\ Chunk >= 1 /\ MaxUnits \in Nat
<1>1. HeapSize \in Nat /\ Chunk \in Nat \ {0} /\ MaxUnits \in Nat
    BY UmallocAssumption DEF UmallocAssumption
<1>2. Addr = 0 .. HeapSize
    BY <1>1 DEF Addr, Base, Heap
<1>3. QED
    BY <1>1, <1>2 DEF Base, Heap, Null

-----------------------------------------------------------------------------
(* Blocks are split, joined and added; the others stay.                    *)

LEMMA TilingStays ==
    ASSUME NEW A, NEW m, NEW n, NEW top, NEW mine, Tiling(A, m, top, mine),
           \A s \in A : n[s].size = m[s].size
    PROVE  Tiling(A, n, top, mine)
BY DEF Tiling, Inside

LEMMA TilingGrows ==
    ASSUME NEW A, NEW m, NEW n, NEW top, NEW mine, Tiling(A, m, top, mine),
           mine \subseteq Heap, top \in Heap,
           NEW k \in Int, k >= 1, n[top].size = k, \A s \in A : n[s].size = m[s].size,
           NEW B, B = A \cup {top}, NEW end, end = top + k
    PROVE  Tiling(B, n, end, mine) /\ top \notin A
<1>1. A \subseteq Int /\ Heap \subseteq Int /\ top \in Int /\ mine \subseteq Int
    BY HeapIs DEF Tiling
<1>2. \A s \in A : m[s].size \in Int /\ m[s].size >= 1 /\ s + m[s].size <= top
    BY DEF Tiling
<1>3. top \notin A
    BY <1>1, <1>2
<1>4. Tiling(A, n, top, mine)
    BY TilingStays
<1>5. A \cup {top} \subseteq Heap /\ top + k \in Int
    BY <1>1 DEF Tiling
<1>6. \A s \in A \cup {top} : n[s].size \in Int /\ n[s].size >= 1 /\ s + n[s].size <= top + k
    BY <1>1, <1>4 DEF Tiling
<1>7. \A s, t \in A \cup {top} : s < t => s + n[s].size <= t
    BY <1>1, <1>4 DEF Tiling
<1>8. \A u \in mine : u < top + k /\ \A s \in A \cup {top} : ~Inside(n, u, s)
    BY <1>1, <1>4 DEF Tiling, Inside
<1>9. ASSUME NEW u \in Heap, u < top + k PROVE u \in mine \/ \E s \in A \cup {top} : Inside(n, u, s)
    <2>1. CASE u < top
        BY <1>4, <2>1 DEF Tiling
    <2>2. CASE ~(u < top)
        BY <1>1, <1>9, <2>2 DEF Inside
    <2>3. QED
        BY <2>1, <2>2
<1>10. QED
    BY <1>3, <1>5, <1>6, <1>7, <1>8, <1>9 DEF Tiling

LEMMA TilingSplits ==
    ASSUME NEW A, NEW m, NEW n, NEW top, NEW mine, Tiling(A, m, top, mine), mine \subseteq Heap,
           top <= HeapSize + 1, NEW s \in A, NEW b, b = s + n[s].size,
           n[s].size \in Int, n[b].size \in Int, n[s].size >= 1, n[b].size >= 1,
           m[s].size = n[s].size + n[b].size, \A t \in A \ {s} : n[t].size = m[t].size,
           NEW B, B = A \cup {b}
    PROVE  Tiling(B, n, top, mine) /\ b \notin A
<1> DEFINE i == n[s].size
           j == n[b].size
<1>0. /\ i \in Int /\ j \in Int /\ i >= 1 /\ j >= 1 /\ m[s].size = i + j /\ b = s + i
      /\ B = A \cup {s + i} /\ n[s + i].size = j
    OBVIOUS
<1>a. n[s].size = i
    OBVIOUS
<1> HIDE DEF i, j
<1>1. /\ A \subseteq Int /\ Heap \subseteq Int /\ mine \subseteq Int /\ s \in Int /\ s \in Heap
      /\ top \in Int /\ HeapSize \in Int
    BY HeapIs DEF Tiling
<1>2. /\ \A t \in A : m[t].size \in Int /\ m[t].size >= 1 /\ t + m[t].size <= top
      /\ \A t, q \in A : t < q => t + m[t].size <= q
    BY DEF Tiling
<1>3. s + i \notin A
    BY <1>0, <1>a, <1>1, <1>2
<1>4. s + i \in Heap /\ s + i + j <= top
    <2>1. s + i + j <= top
        BY <1>0, <1>a, <1>1, <1>2
    <2>2. QED
        BY <1>0, <1>a, <1>1, <2>1, HeapIs
<1>5. \A t \in A \cup {s + i} : n[t].size \in Int /\ n[t].size >= 1 /\ t + n[t].size <= top
    <2>1. \A t \in A \ {s} : n[t].size \in Int /\ n[t].size >= 1 /\ t + n[t].size <= top
        BY <1>2
    <2>2. s + n[s].size <= top /\ s + i + n[s + i].size <= top
        BY <1>0, <1>a, <1>1, <1>4
    <2>3. QED
        BY <1>0, <1>a, <2>1, <2>2
<1>6. \A t \in A : t # s => t + m[t].size <= s \/ s + i + j <= t
    BY <1>0, <1>a, <1>1, <1>2
<1>7. \A t, q \in A \cup {s + i} : t < q => t + n[t].size <= q
    <2>8. \A t \in A \ {s} : n[t].size \in Int /\ n[t].size <= m[t].size
        BY <1>2
    <2>0. \A t \in A : n[t].size \in Int /\ n[t].size <= m[t].size
        BY <1>0, <1>a, <2>8
    <2>1. \A t, q \in A : t < q => t + n[t].size <= q
        BY <1>0, <1>a, <1>1, <1>2, <2>0
    <2>2. \A t \in A : t < s + i => t + n[t].size <= s + i
        BY <1>0, <1>a, <1>1, <1>2, <1>6
    <2>3. \A q \in A : s + i < q => s + i + n[s + i].size <= q
        BY <1>0, <1>a, <1>1, <1>2, <1>6
    <2>4. QED
        BY <1>0, <1>a, <1>1, <2>1, <2>2, <2>3
<1>8. ASSUME NEW u \in Heap PROVE (\E t \in A : Inside(m, u, t)) <=> \E t \in A \cup {s + i} : Inside(n, u, t)
    <2>1. ASSUME NEW t \in A \ {s} PROVE Inside(m, u, t) <=> Inside(n, u, t)
        BY <1>0, <1>a DEF Inside
    <2>2. Inside(m, u, s) <=> Inside(n, u, s) \/ Inside(n, u, s + i)
        BY <1>0, <1>a, <1>1 DEF Inside
    <2>3. QED
        BY <1>0, <1>a, <2>1, <2>2
<1>9. \A u \in mine : u < top /\ \A t \in A \cup {s + i} : ~Inside(n, u, t)
    BY <1>0, <1>a, <1>8 DEF Tiling
<1>10. \A u \in Heap : u < top => u \in mine \/ \E t \in A \cup {s + i} : Inside(n, u, t)
    BY <1>0, <1>a, <1>8 DEF Tiling
<1>11. A \cup {s + i} \subseteq Heap
    BY <1>0, <1>a, <1>4 DEF Tiling
<1>12. QED
    BY <1>0, <1>a, <1>1, <1>3, <1>5, <1>7, <1>9, <1>10, <1>11 DEF Tiling

\* In n the block s of m has taken over the block t behind it.
Joins(A, m, n, s, t) ==
    /\ s \in A /\ t \in A /\ s + m[s].size = t /\ n[s].size = m[s].size + m[t].size
    /\ \A q \in A \ {s, t} : n[q].size = m[q].size

LEMMA TilingJoins ==
    ASSUME NEW A, NEW m, NEW n, NEW top, NEW mine, Tiling(A, m, top, mine), mine \subseteq Heap,
           NEW s, NEW t, Joins(A, m, n, s, t), NEW B, B = A \ {t}
    PROVE  Tiling(B, n, top, mine)
<1>0. /\ s \in A /\ t \in A /\ s + m[s].size = t /\ n[s].size = m[s].size + m[t].size
      /\ \A q \in A \ {s, t} : n[q].size = m[q].size
    BY DEF Joins
<1>1. A \subseteq Int /\ Heap \subseteq Int /\ mine \subseteq Int /\ s \in Int /\ t \in Int /\ top \in Int
    BY <1>0, HeapIs DEF Tiling
<1>2. /\ \A q \in A : m[q].size \in Int /\ m[q].size >= 1 /\ q + m[q].size <= top
      /\ \A q, x \in A : q < x => q + m[q].size <= x
    BY DEF Tiling
<1>3. s < t /\ s + n[s].size = t + m[t].size /\ n[s].size \in Int /\ n[s].size >= 1
    BY <1>0, <1>1, <1>2
<1>4. \A q \in A \ {t} : n[q].size \in Int /\ n[q].size >= 1 /\ q + n[q].size <= top
    BY <1>0, <1>1, <1>2, <1>3
<1>5. ASSUME NEW q \in A \ {t}, NEW x \in A \ {t}, q < x PROVE q + n[q].size <= x
    <2>1. CASE q = s
        <3>1. t <= x
            BY <1>0, <1>2, <1>5, <2>1
        <3>2. t < x
            BY <1>1, <1>5, <3>1
        <3>3. t + m[t].size <= x
            BY <1>0, <1>2, <1>5, <3>2
        <3>4. QED
            BY <1>3, <2>1, <3>3
    <2>2. CASE q # s
        BY <1>0, <1>2, <1>5, <2>2
    <2>3. QED
        BY <2>1, <2>2
<1>6. ASSUME NEW u \in Heap PROVE (\E q \in A : Inside(m, u, q)) <=> \E q \in A \ {t} : Inside(n, u, q)
    <2>1. ASSUME NEW q \in A \ {s, t} PROVE Inside(m, u, q) <=> Inside(n, u, q)
        BY <1>0 DEF Inside
    <2>2. Inside(n, u, s) <=> Inside(m, u, s) \/ Inside(m, u, t)
        BY <1>0, <1>1, <1>2, <1>3 DEF Inside
    <2>3. s \in A \ {t}
        BY <1>0, <1>1, <1>3
    <2>4. QED
        BY <1>0, <2>1, <2>2, <2>3
<1>7. \A u \in mine : u < top /\ \A q \in A \ {t} : ~Inside(n, u, q)
    BY <1>6 DEF Tiling
<1>8. \A u \in Heap : u < top => u \in mine \/ \E q \in A \ {t} : Inside(n, u, q)
    BY <1>6 DEF Tiling
<1>9. A \ {t} \subseteq Heap
    BY DEF Tiling
<1>10. QED
    BY <1>1, <1>4, <1>5, <1>7, <1>8, <1>9 DEF Tiling

-----------------------------------------------------------------------------
(* The free list with a block more or less.                                *)

LEMMA CircleStays ==
    ASSUME NEW F, NEW m, NEW n, Circle(F, m), \A a \in F : n[a].ptr = m[a].ptr
    PROVE  Circle(F, n)
BY DEF Circle

LEMMA CircleDrops ==
    ASSUME NEW F, F \subseteq Addr, NEW m, NEW n, Circle(F, m), NEW a \in F, NEW q \in F, q # Base,
           m[a].ptr = q, n[a].ptr = m[q].ptr, \A x \in F \ {a, q} : n[x].ptr = m[x].ptr,
           NEW G, G = F \ {q}
    PROVE  Circle(G, n) /\ a \in G
<1>1. F \subseteq Int /\ Base = 0 /\ (\A x \in F : x >= 0)
    BY HeapIs
<1>2. Follows(F, a, q) /\ Follows(F, q, m[q].ptr)
    BY DEF Circle
<1>3. a < q /\ \A x \in F : ~(a < x /\ x < q)
    BY <1>2 DEF Follows
<1>4. a # q
    BY <1>1, <1>3
<1> DEFINE next == m[q].ptr
<1> HIDE DEF next
<1>5. Follows(F \ {q}, a, next)
    <2>1. Follows(F, q, next) /\ next \in F
        BY <1>2 DEF Follows, next
    <2>2. CASE q < next /\ \A x \in F : ~(q < x /\ x < next)
        <3>1. a < next /\ next # q
            BY <1>1, <1>3, <2>1, <2>2
        <3>2. ASSUME NEW x \in F \ {q} PROVE ~(a < x /\ x < next)
            BY <1>1, <1>3, <2>1, <2>2
        <3>3. QED
            BY <2>1, <3>1, <3>2 DEF Follows
    <2>3. CASE next = Base /\ \A x \in F : x <= q
        <3>1. ASSUME NEW x \in F \ {q} PROVE x <= a
            BY <1>1, <1>3, <2>3
        <3>2. QED
            BY <2>1, <2>3, <3>1 DEF Follows
    <2>4. QED
        BY <2>1, <2>2, <2>3 DEF Follows
<1>6. ASSUME NEW x \in F \ {a, q} PROVE Follows(F \ {q}, x, m[x].ptr)
    <2>1. Follows(F, x, m[x].ptr)
        BY DEF Circle
    <2>2. m[x].ptr # q
        <3>1. SUFFICES ASSUME m[x].ptr = q PROVE FALSE
            OBVIOUS
        <3>2. x < q /\ ~(x < a /\ a < q) /\ ~(a < x /\ x < q)
            BY <1>3, <2>1, <3>1 DEF Follows
        <3>3. QED
            BY <1>1, <1>3, <3>2
    <2>3. QED
        BY <2>1, <2>2 DEF Follows
<1>7. QED
    BY <1>4, <1>5, <1>6 DEF Circle, next

\* The block at b comes in behind a.
Fits(b, a, q) == (b > a /\ b < q) \/ (a >= q /\ (b > a \/ b < q))

LEMMA CirclePlaces ==
    ASSUME NEW F, F \subseteq Addr, NEW m, Circle(F, m), NEW a \in F, NEW b \in Heap, b \notin F,
           Fits(b, a, m[a].ptr), Base \in F
    PROVE  /\ a < b /\ \A x \in F : ~(a < x /\ x < b)
           /\ b < m[a].ptr \/ m[a].ptr = Base
           /\ \A x \in F : b < x => m[a].ptr <= x /\ m[a].ptr # Base
<1>1. F \subseteq Int /\ Base = 0 /\ (\A x \in F : x >= 0) /\ b \in Int /\ b >= 1
    BY HeapIs
<1>2. Follows(F, a, m[a].ptr) /\ m[a].ptr \in F
    BY DEF Circle, Follows
<1> DEFINE q == m[a].ptr
<1> HIDE DEF q
<1>3. Follows(F, a, q) /\ q \in F /\ q \in Int /\ q >= 0 /\ a \in Int /\ Fits(b, a, q)
    BY <1>1, <1>2 DEF q
<1>4. CASE a < q /\ \A x \in F : ~(a < x /\ x < q)
    <2>1. a < b /\ b < q /\ q # Base
        BY <1>1, <1>3, <1>4 DEF Fits
    <2>2. \A x \in F : ~(a < x /\ x < b) /\ (b < x => q <= x)
        BY <1>1, <1>3, <1>4, <2>1
    <2>3. QED
        BY <2>1, <2>2 DEF q
<1>5. CASE q = Base /\ \A x \in F : x <= a
    <2>1. a < b
        BY <1>1, <1>3, <1>5 DEF Fits
    <2>2. ASSUME NEW x \in F PROVE ~(a < x /\ x < b) /\ ~(b < x)
        <3>1. x <= a /\ x \in Int
            BY <1>1, <1>5
        <3>2. QED
            BY <1>1, <1>3, <2>1, <3>1
    <2>3. QED
        BY <1>5, <2>1, <2>2 DEF q
<1>6. QED
    BY <1>3, <1>4, <1>5 DEF Follows

\* In n block b stands behind the block a of the list m.
Adds(F, m, n, a, b) ==
    /\ a \in F /\ b \in Heap /\ b \notin F /\ Fits(b, a, m[a].ptr)
    /\ n[a].ptr = b /\ n[b].ptr = m[a].ptr /\ \A x \in F \ {a} : n[x].ptr = m[x].ptr

LEMMA CircleAdds ==
    ASSUME NEW F, F \subseteq Addr, NEW m, NEW n, Circle(F, m), Base \in F, NEW a, NEW b, Adds(F, m, n, a, b),
           NEW G, G = F \cup {b}
    PROVE  Circle(G, n)
<1>0. /\ a \in F /\ b \in Heap /\ b \notin F /\ Fits(b, a, m[a].ptr)
      /\ n[a].ptr = b /\ n[b].ptr = m[a].ptr /\ \A x \in F \ {a} : n[x].ptr = m[x].ptr
    BY DEF Adds
<1>1. F \subseteq Int /\ Base = 0 /\ (\A x \in F : x >= 0) /\ b \in Int /\ b >= 1
    BY <1>0, HeapIs
<1>2. /\ a < b /\ \A x \in F : ~(a < x /\ x < b)
      /\ b < m[a].ptr \/ m[a].ptr = Base
      /\ \A x \in F : b < x => m[a].ptr <= x /\ m[a].ptr # Base
    BY <1>0, CirclePlaces
<1>3. m[a].ptr \in F
    BY <1>0 DEF Circle, Follows
<1>4. Follows(F \cup {b}, a, b)
    BY <1>0, <1>1, <1>2 DEF Follows
<1>5. Follows(F \cup {b}, b, m[a].ptr)
    <2> DEFINE q == m[a].ptr
    <2> HIDE DEF q
    <2>1. q \in F /\ q \in Int /\ (b < q \/ q = Base) /\ \A x \in F : b < x => q <= x /\ q # Base
        BY <1>1, <1>2, <1>3 DEF q
    <2>2. CASE b < q
        <3>1. ASSUME NEW x \in F \cup {b} PROVE ~(b < x /\ x < q)
            BY <1>1, <2>1
        <3>2. QED
            BY <2>1, <2>2, <3>1 DEF Follows, q
    <2>3. CASE q = Base
        <3>1. ASSUME NEW x \in F \cup {b} PROVE x <= b
            BY <1>1, <2>1, <2>3
        <3>2. QED
            BY <2>1, <2>3, <3>1 DEF Follows, q
    <2>4. QED
        BY <2>1, <2>2, <2>3 DEF q
<1>6. ASSUME NEW x \in F \ {a} PROVE Follows(F \cup {b}, x, m[x].ptr)
    <2>1. Follows(F, x, m[x].ptr) /\ x \in F
        BY DEF Circle
    <2>2. CASE x < m[x].ptr /\ \A y \in F : ~(x < y /\ y < m[x].ptr)
        <3>1. ~(x < b /\ b < m[x].ptr)
            <4>1. SUFFICES ASSUME x < b, b < m[x].ptr PROVE FALSE
                OBVIOUS
            <4>2. m[x].ptr \in F
                BY <2>1 DEF Follows
            <4>3. ~(a < x /\ x < b) /\ ~(x < a /\ a < m[x].ptr)
                BY <1>0, <1>2, <2>2
            <4>4. x \in Int /\ a \in Int /\ b \in Int /\ m[x].ptr \in Int /\ a < b /\ a # x
                BY <1>0, <1>1, <1>2, <4>2
            <4>5. x < a
                BY <4>1, <4>3, <4>4
            <4>6. a < m[x].ptr
                BY <4>1, <4>4
            <4>7. QED
                BY <4>3, <4>5, <4>6
        <3>2. QED
            BY <2>1, <2>2, <3>1 DEF Follows
    <2>3. CASE m[x].ptr = Base /\ \A y \in F : y <= x
        <3>1. b <= x
            <4>1. a <= x /\ a # x
                BY <1>0, <2>3
            <4>2. ~(a < x /\ x < b)
                BY <1>2
            <4>3. QED
                BY <1>0, <1>1, <4>1, <4>2
        <3>2. QED
            BY <2>1, <2>3, <3>1 DEF Follows
    <2>4. QED
        BY <2>1, <2>2, <2>3 DEF Follows
<1>7. b # a
    BY <1>1, <1>2
<1>8. ASSUME NEW x \in F \cup {b} PROVE Follows(F \cup {b}, x, n[x].ptr)
    BY <1>0, <1>4, <1>5, <1>6, <1>7
<1>9. QED
    BY <1>8 DEF Circle

-----------------------------------------------------------------------------
(* What the invariant says of the header of every block.                   *)

LEMMA FreeIs ==
    ASSUME HeapTypeOK, NEW F, Free(F)
    PROVE  /\ unit \in [Addr -> UnitType] /\ F \subseteq Addr /\ Starts(F) \subseteq Heap
           /\ brk \in Int /\ brk <= HeapSize + 1 /\ brk >= 1 /\ own \subseteq Heap
           /\ \A a \in F \cup Starts(F) : unit[a] \in [ptr : Addr, size : 0 .. HeapSize]
           /\ \A a \in F : unit[a].ptr \in F
<1>1. unit \in [Addr -> UnitType] /\ own \subseteq Heap
    BY DEF HeapTypeOK, UnitType
<1>2. brk \in Int /\ brk <= HeapSize + 1 /\ brk >= 1
    BY HeapIs DEF HeapTypeOK
<1>3. F \subseteq Addr /\ Starts(F) \subseteq Heap
    BY DEF Free, Tiling
<1>4. ASSUME NEW a \in F \cup Starts(F) PROVE unit[a].size >= 0
    <2>1. CASE a \in Starts(F)
        BY <2>1 DEF Free, Tiling
    <2>2. CASE a \in F /\ a = Base
        BY <2>2 DEF Free
    <2>3. CASE a \in F /\ a # Base
        BY <2>1, <2>3 DEF Starts
    <2>4. QED
        BY <2>1, <2>2, <2>3
<1>5. ASSUME NEW a \in F \cup Starts(F) PROVE unit[a] \in [ptr : Addr, size : 0 .. HeapSize]
    <2>1. a \in Addr
        BY <1>3, HeapIs
    <2>2. Junk.size = -1
        BY DEF Junk
    <2>3. unit[a] # Junk
        BY <1>4, <2>2
    <2>4. QED
        BY <1>1, <2>1, <2>3 DEF UnitType
<1>6. \A a \in F : unit[a].ptr \in F
    BY DEF Free, Circle, Follows
<1>7. QED
    BY <1>1, <1>2, <1>3, <1>5, <1>6

\* A step that leaves the memory and the lists alone.
LEMMA ListStays ==
    ASSUME NEW F \in SUBSET Addr, Free(F), UNCHANGED <<unit, brk, freep, live, own>>, Loose' = Loose,
           freep = Null => loop' = "idle",
           loop' = "malloc" => prevp' \in F /\ p' = unit[prevp'].ptr /\ nunits' >= 1,
           loop' \in {"free", "morecore"} => p' \in F,
           loop' = "morecore" => nunits' >= 1
    PROVE  Free(F)'
<1>1. /\ Used' = Used /\ Starts(F)' = Starts(F) /\ unit' = unit /\ brk' = brk /\ own' = own
      /\ freep' = freep /\ live' = live
    BY DEF Used, Starts
<1>2. Circle(F, unit)' /\ Tiling(Starts(F), unit, brk, own)'
    BY <1>1 DEF Free
<1>3. QED
    BY <1>1, <1>2 DEF Free

LEMMA NextKeeps == ASSUME HeapInv, malloc_next PROVE HeapInv'
<1>1. PICK F \in SUBSET Addr : Free(F)
    BY DEF HeapInv
<1>2. /\ loop = "malloc" /\ prevp' = p /\ p' = unit[p].ptr
      /\ UNCHANGED <<unit, brk, freep, live, own, loop, nunits, bp>>
    BY DEF malloc_next
<1>3. prevp \in F /\ p = unit[prevp].ptr /\ nunits >= 1 /\ freep # Null
    BY <1>1, <1>2 DEF Free
<1>4. HeapTypeOK
    BY DEF HeapInv
<1>5. p \in F /\ p' \in F /\ F \subseteq Addr
    BY <1>1, <1>2, <1>3, <1>4, FreeIs
<1>6. HeapTypeOK'
    BY <1>2, <1>4, <1>5 DEF HeapTypeOK
<1>7. Loose' = Loose
    BY <1>2 DEF Loose
<1>8. Free(F)'
    BY <1>1, <1>2, <1>3, <1>5, <1>7, ListStays
<1>9. HeaderKept'
    BY <1>2 DEF HeapInv, HeaderKept
<1>10. Addr' = Addr
    BY DEF Addr, Heap, Base
<1>11. QED
    BY <1>6, <1>8, <1>9, <1>10 DEF HeapInv

LEMMA RoundKeeps == ASSUME HeapInv, free_next PROVE HeapInv'
<1>1. PICK F \in SUBSET Addr : Free(F)
    BY DEF HeapInv
<1>2. /\ loop \in {"free", "morecore"} /\ p' = unit[p].ptr
      /\ UNCHANGED <<unit, brk, freep, live, own, loop, prevp, nunits, bp>>
    BY DEF free_next
<1>3. p \in F /\ freep # Null /\ (loop = "morecore" => nunits >= 1)
    BY <1>1, <1>2 DEF Free
<1>4. HeapTypeOK
    BY DEF HeapInv
<1>5. p' \in F /\ F \subseteq Addr
    BY <1>1, <1>2, <1>3, <1>4, FreeIs
<1>6. HeapTypeOK'
    BY <1>2, <1>4, <1>5 DEF HeapTypeOK
<1>7. Loose' = Loose
    BY <1>2 DEF Loose
<1>8. Free(F)'
    BY <1>1, <1>2, <1>3, <1>5, <1>7, ListStays
<1>9. HeaderKept'
    BY <1>2 DEF HeapInv, HeaderKept
<1>10. QED
    BY <1>6, <1>8, <1>9 DEF HeapInv

LEMMA FailKeeps == ASSUME HeapInv, morecore_fails PROVE HeapInv'
<1>1. PICK F \in SUBSET Addr : Free(F)
    BY DEF HeapInv
<1>2. loop = "malloc" /\ CallOver /\ UNCHANGED <<unit, brk, freep, live, own>>
    BY DEF morecore_fails
<1>3. HeapTypeOK /\ loop' = "idle"
    BY <1>2 DEF HeapInv, CallOver
<1>4. HeapTypeOK'
    BY <1>2, <1>3, HeapIs DEF HeapTypeOK, CallOver
<1>5. Loose' = Loose
    BY <1>2, <1>3 DEF Loose
<1>6. Free(F)'
    BY <1>1, <1>2, <1>3, <1>5, ListStays
<1>7. HeaderKept'
    BY <1>2 DEF HeapInv, HeaderKept
<1>8. QED
    BY <1>4, <1>6, <1>7 DEF HeapInv

LEMMA MallocKeeps == ASSUME HeapInv, NEW n \in 0 .. MaxUnits, malloc(n) PROVE HeapInv'
<1>1. PICK F \in SUBSET Addr : Free(F)
    BY DEF HeapInv
<1>2. /\ loop = "idle" /\ loop' = "malloc" /\ nunits' = n + 1 /\ prevp' = freep' /\ p' = unit'[freep'].ptr
      /\ UNCHANGED <<brk, live, own, bp>>
    BY DEF malloc
<1>3. HeapTypeOK /\ nunits' \in 0 .. MaxUnits + 1 /\ nunits' >= 1
    BY <1>2, HeapIs DEF HeapInv
<1>4. Loose = {} /\ Loose' = {}
    BY <1>2 DEF Loose
<1>5. CASE freep # Null /\ UNCHANGED <<unit, freep>>
    <2>1. freep \in F /\ p' \in F /\ F \subseteq Addr
        BY <1>1, <1>2, <1>3, <1>5, FreeIs DEF Free
    <2>2. HeapTypeOK'
        BY <1>2, <1>3, <1>5, <2>1 DEF HeapTypeOK
    <2>3. Free(F)'
        BY <1>1, <1>2, <1>3, <1>4, <1>5, <2>1, ListStays
    <2>4. HeaderKept'
        BY <1>2, <1>5 DEF HeapInv, HeaderKept
    <2>5. QED
        BY <2>2, <2>3, <2>4 DEF HeapInv
<1>6. CASE freep = Null /\ unit' = [unit EXCEPT ![Base] = Header(Base, 0)] /\ freep' = Base
    <2>1. F = {} /\ live = {} /\ Used = {} /\ Used' = {} /\ live' = {}
        BY <1>1, <1>2, <1>6 DEF Free, Used
    <2>2. Starts(F) = {} /\ Starts({Base})' = {}
        BY <1>4, <2>1 DEF Starts
    <2>3. Tiling({}, unit, brk, own)
        BY <1>1, <2>2 DEF Free
    <2>4. Tiling(Starts({Base}), unit, brk, own)'
        BY <1>2, <2>2, <2>3 DEF Tiling
    <2>5. unit \in [Addr -> UnitType]
        BY <1>3 DEF HeapTypeOK, UnitType
    <2>6. unit'[Base] = [ptr |-> Base, size |-> 0]
        BY <1>6, <2>5, HeapIs DEF Header
    <2>7. p' = Base /\ prevp' = Base /\ freep' # Null
        BY <1>2, <1>6, <2>6, HeapIs
    <2>8. Circle({Base}, unit)'
        BY <2>6, HeapIs DEF Circle, Follows
    <2>9. \A a \in {Base} \ {Base} : a + unit'[a].size \notin {Base}
        OBVIOUS
    <2>10. Free({Base})'
        BY <1>2, <1>3, <1>4, <1>6, <2>1, <2>4, <2>6, <2>7, <2>8, <2>9, HeapIs DEF Free
    <2>11. unit' \in [Addr -> UnitType]
        BY <1>6, <2>5, HeapIs DEF Header, UnitType
    <2>12. HeapTypeOK'
        BY <1>2, <1>3, <1>6, <2>7, <2>11, HeapIs DEF HeapTypeOK, UnitType
    <2>13. HeaderKept'
        BY <2>1 DEF HeaderKept
    <2>14. {Base} \in SUBSET Addr
        BY HeapIs
    <2>15. QED
        BY <2>10, <2>12, <2>13, <2>14 DEF HeapInv
<1>7. QED
    BY <1>5, <1>6 DEF malloc

LEMMA SbrkKeeps == ASSUME HeapInv, sbrk PROVE HeapInv'
<1>1. PICK F \in SUBSET Addr : Free(F)
    BY DEF HeapInv
<1>2. /\ loop = "idle" /\ own = {} /\ brk <= HeapSize /\ own' = {brk} /\ brk' = brk + 1
      /\ UNCHANGED <<unit, freep, live, loop, p, prevp, nunits, bp>>
    BY DEF sbrk
<1>3. HeapTypeOK /\ Starts(F)' = Starts(F) /\ Used' = Used /\ Loose' = Loose
    BY <1>2 DEF HeapInv, Starts, Used, Loose
<1>4. /\ unit \in [Addr -> UnitType] /\ brk \in Int /\ brk \in Heap /\ Starts(F) \subseteq Int
      /\ Heap \subseteq Int /\ brk + 1 \in 1 .. HeapSize + 1
    BY <1>1, <1>2, <1>3, FreeIs, HeapIs
<1>5. HeapTypeOK'
    BY <1>2, <1>3, <1>4 DEF HeapTypeOK
<1>6. Tiling(Starts(F), unit, brk, own)
    BY <1>1 DEF Free
<1>7. Tiling(Starts(F), unit, brk + 1, {brk})
    <2>1. \A s \in Starts(F) : unit[s].size \in Int /\ unit[s].size >= 1 /\ s + unit[s].size <= brk + 1 /\ ~Inside(unit, brk, s)
        BY <1>4, <1>6 DEF Tiling, Inside
    <2>2. \A u \in Heap : u < brk + 1 => u < brk \/ u = brk
        BY <1>4
    <2>3. \A u \in Heap : u < brk + 1 => u \in {brk} \/ \E s \in Starts(F) : Inside(unit, u, s)
        BY <1>2, <1>6, <2>2 DEF Tiling
    <2>4. brk + 1 \in Int /\ brk < brk + 1
        BY <1>4
    <2>5. QED
        BY <1>6, <2>1, <2>3, <2>4 DEF Tiling
<1>8. Tiling(Starts(F), unit, brk, own)' /\ Circle(F, unit)'
    BY <1>1, <1>2, <1>3, <1>7 DEF Free
<1>9. Free(F)'
    BY <1>1, <1>2, <1>3, <1>8 DEF Free
<1>10. HeaderKept'
    BY <1>2 DEF HeapInv, HeaderKept
<1>11. QED
    BY <1>5, <1>9, <1>10 DEF HeapInv

\* The program stores into its blocks, which begin behind their headers.
LEMMA StoreKeeps == ASSUME HeapInv, Offset = 1, NEW b \in live, store(b) PROVE HeapInv'
<1>1. PICK F \in SUBSET Addr : Free(F)
    BY DEF HeapInv
<1>2. /\ loop = "idle" /\ unit' = [a \in Addr |-> IF a \in b.at .. b.at + b.units - 1 THEN Junk ELSE unit[a]]
      /\ UNCHANGED <<brk, freep, live, own, loop, p, prevp, nunits, bp>>
    BY DEF store
<1>3. HeapTypeOK /\ HeaderKept /\ Starts(F)' = Starts(F) /\ Used' = Used /\ Loose' = Loose
    BY <1>2 DEF HeapInv, Starts, Used, Loose
<1>4. /\ unit \in [Addr -> UnitType] /\ brk \in Int /\ Starts(F) \subseteq Heap /\ F \subseteq Addr
      /\ Heap \subseteq Int /\ Heap \subseteq Addr
    BY <1>1, <1>3, FreeIs, HeapIs
<1>5. /\ b.at - 1 \in Starts(F) /\ b.at \in Int /\ b.units \in Int /\ b.at - 1 >= 1
      /\ unit[b.at - 1].size = b.units + 1 /\ b.at - 1 \in Used
    <2>1. b \in [at : Addr \cup {HeapSize + 1}, units : 0 .. MaxUnits]
        BY <1>3 DEF HeapTypeOK
    <2>2. b.at \in Int /\ b.units \in Int
        BY <2>1, HeapIs
    <2>3. b.at - 1 \in Used /\ b.at - 1 \in Starts(F)
        BY DEF Used, Starts
    <2>4. b.at - 1 >= 1
        BY <1>4, <2>3, HeapIs
    <2>5. QED
        BY <1>3, <2>2, <2>3, <2>4 DEF HeaderKept
<1>6. Tiling(Starts(F), unit, brk, own) /\ Circle(F, unit)
    BY <1>1 DEF Free
<1>7. \A s \in Starts(F) : s \notin b.at .. b.at + b.units - 1
    <2>1. ASSUME NEW s \in Starts(F), b.at <= s, s <= b.at + b.units - 1 PROVE FALSE
        <3>0. s \in Int
            BY <1>4
        <3>1. s \in Int /\ b.at - 1 < s
            BY <1>5, <2>1, <3>0
        <3>2. b.at - 1 + unit[b.at - 1].size <= s
            BY <1>5, <1>6, <3>1 DEF Tiling
        <3>3. QED
            BY <1>5, <2>1, <3>1, <3>2
    <2>2. QED
        BY <2>1
<1>8. Base \notin b.at .. b.at + b.units - 1
    BY <1>5, HeapIs
<1>9. \A s \in F \cup Starts(F) : unit'[s] = unit[s]
    <2>1. \A s \in F \cup Starts(F) : s \in Addr /\ s \notin b.at .. b.at + b.units - 1
        BY <1>4, <1>7, <1>8 DEF Starts
    <2>2. QED
        BY <1>2, <2>1
<1>10. Tiling(Starts(F), unit', brk, own) /\ Circle(F, unit')
    BY <1>6, <1>9, TilingStays, CircleStays
<1>11. Tiling(Starts(F), unit, brk, own)' /\ Circle(F, unit)'
    BY <1>2, <1>3, <1>10
<1>12. Free(F)'
    BY <1>1, <1>2, <1>3, <1>9, <1>11 DEF Free
<1>13. unit' \in [Addr -> UnitType]
    BY <1>2, <1>4 DEF UnitType
<1>14. HeapTypeOK'
    BY <1>2, <1>3, <1>13 DEF HeapTypeOK, UnitType
<1>15. HeaderKept'
    <2>1. ASSUME NEW c \in live PROVE unit'[c.at - 1].size = c.units + 1
        <3>1. c.at - 1 \in Starts(F)
            BY DEF Starts, Used
        <3>2. QED
            BY <1>3, <1>9, <3>1 DEF HeaderKept
    <2>2. QED
        BY <1>2, <2>1 DEF HeaderKept
<1>16. QED
    BY <1>12, <1>14, <1>15 DEF HeapInv

\* Two blocks of the program begin at different places.
LEMMA LiveApart ==
    ASSUME HeapTypeOK, HeaderKept, NEW b \in live, NEW c \in live, b.at - 1 = c.at - 1
    PROVE  b = c
<1>1. /\ b \in [at : Addr \cup {HeapSize + 1}, units : 0 .. MaxUnits]
      /\ c \in [at : Addr \cup {HeapSize + 1}, units : 0 .. MaxUnits]
    BY DEF HeapTypeOK
<1>2. b.at \in Int /\ c.at \in Int /\ b.units \in Int /\ c.units \in Int
    BY <1>1, HeapIs
<1>3. b.units + 1 = c.units + 1
    BY DEF HeaderKept
<1>4. b.at = c.at /\ b.units = c.units
    BY <1>2, <1>3
<1>5. QED
    BY <1>1, <1>4

LEMMA FreeKeeps == ASSUME HeapInv, Offset = 1, NEW b \in live, free(b) PROVE HeapInv'
<1>1. PICK F \in SUBSET Addr : Free(F)
    BY DEF HeapInv
<1>2. /\ loop = "idle" /\ live' = live \ {b} /\ bp' = b.at - 1 /\ p' = freep /\ loop' = "free"
      /\ UNCHANGED <<unit, brk, freep, own, prevp, nunits>>
    BY DEF free
<1>3. HeapTypeOK /\ HeaderKept
    BY DEF HeapInv
<1>4. Loose = {} /\ Loose' = {b.at - 1}
    BY <1>2 DEF Loose
<1>5. Used' = Used \ {b.at - 1} /\ b.at - 1 \in Used
    <2>1. ASSUME NEW c \in live, c # b PROVE c.at - 1 # b.at - 1
        BY <1>3, <2>1, LiveApart
    <2>2. QED
        BY <1>2, <2>1 DEF Used
<1>6. Starts(F)' = Starts(F)
    BY <1>4, <1>5 DEF Starts
<1>7. freep # Null /\ freep \in F /\ F \subseteq Addr
    BY <1>1 DEF Free
<1>8. Tiling(Starts(F), unit, brk, own)' /\ Circle(F, unit)'
    BY <1>1, <1>2, <1>6 DEF Free
<1>9. Free(F)'
    BY <1>1, <1>2, <1>4, <1>5, <1>7, <1>8 DEF Free
<1>10. b.at - 1 \in Addr
    <2>1. b.at - 1 \in Heap
        BY <1>1, <1>5 DEF Starts, Free, Tiling
    <2>2. QED
        BY <2>1, HeapIs
<1>11. HeapTypeOK'
    BY <1>2, <1>3, <1>7, <1>10 DEF HeapTypeOK
<1>12. HeaderKept'
    BY <1>2, <1>3 DEF HeaderKept
<1>13. QED
    BY <1>9, <1>11, <1>12 DEF HeapInv

LEMMA GrowKeeps == ASSUME HeapInv, morecore PROVE HeapInv'
<1>1. PICK F \in SUBSET Addr : Free(F)
    BY DEF HeapInv
<1>2. /\ loop = "malloc" /\ p = freep /\ brk + Chunks <= HeapSize + 1
      /\ unit' = [unit EXCEPT ![brk] = Header(Base, Chunks)] /\ bp' = brk /\ brk' = brk + Chunks
      /\ p' = freep /\ loop' = "morecore" /\ UNCHANGED <<freep, live, own, prevp, nunits>>
    BY DEF morecore
<1>3. HeapTypeOK /\ HeaderKept
    BY DEF HeapInv
<1>4. /\ unit \in [Addr -> UnitType] /\ brk \in Int /\ brk >= 1 /\ Starts(F) \subseteq Heap
      /\ own \subseteq Heap /\ F \subseteq Addr
      /\ nunits \in Int /\ nunits >= 1
    <2>1. nunits \in 0 .. MaxUnits + 1
        BY <1>3 DEF HeapTypeOK
    <2>2. nunits \in Int
        BY <2>1, HeapIs
    <2>3. nunits >= 1
        BY <1>1, <1>2 DEF Free
    <2>4. QED
        BY <1>1, <1>3, <2>2, <2>3, FreeIs
<1>5. Chunks \in Int /\ Chunks >= 1
    BY <1>4, HeapIs DEF Chunks
<1>6. brk \in Heap /\ brk \in Addr /\ brk + Chunks \in 1 .. HeapSize + 1 /\ Chunks \in 0 .. HeapSize
    BY <1>2, <1>4, <1>5, HeapIs
<1>7. Tiling(Starts(F), unit, brk, own) /\ Circle(F, unit) /\ freep # Null /\ Base \in F /\ freep \in F
    BY <1>1, <1>2 DEF Free
<1>8. brk \notin Starts(F)
    BY <1>4, <1>7, HeapIs DEF Tiling
<1>9. brk \notin F /\ brk # Base
    BY <1>6, <1>8, HeapIs DEF Starts
<1>10. unit'[brk].size = Chunks /\ unit'[brk].ptr = Base /\ \A a \in Addr \ {brk} : unit'[a] = unit[a]
    BY <1>2, <1>4, <1>6 DEF Header
<1>11. \A a \in F \cup Starts(F) : unit'[a] = unit[a]
    BY <1>4, <1>8, <1>9, <1>10, HeapIs
<1>12. Tiling(Starts(F) \cup {brk}, unit', brk + Chunks, own)
    <2>1. \A s \in Starts(F) : unit'[s].size = unit[s].size
        BY <1>11
    <2>2. Tiling(Starts(F), unit, brk, own) /\ own \subseteq Heap /\ brk \in Heap /\ unit'[brk].size = Chunks
        BY <1>4, <1>6, <1>7, <1>10
    <2> HIDE DEF Chunks
    <2>3. QED
        BY <1>5, <2>1, <2>2, TilingGrows
<1>13. Circle(F, unit')
    BY <1>7, <1>11, CircleStays
<1>14. Used' = Used /\ Loose = {} /\ Loose' = {brk} /\ Starts(F)' = Starts(F) \cup {brk}
    BY <1>2 DEF Used, Loose, Starts
<1>15. Tiling(Starts(F), unit, brk, own)' /\ Circle(F, unit)'
    BY <1>2, <1>12, <1>13, <1>14
<1>16. brk \notin Used
    BY <1>8 DEF Starts
<1>17. \A a \in F \ {Base} : a + unit'[a].size \notin F
    BY <1>1, <1>11 DEF Free
<1>18. Free(F)'
    <2>1. F \subseteq Addr /\ Base \in F /\ freep' \in F /\ freep' # Null /\ unit'[Base].size = 0
        BY <1>1, <1>2, <1>4, <1>7, <1>11 DEF Free
    <2>2. F \cap (Used' \cup Loose') = {} /\ Used' \cap Loose' = {}
        BY <1>1, <1>9, <1>14, <1>16 DEF Free
    <2>3. p' \in F /\ nunits' >= 1
        BY <1>2, <1>4, <1>7
    <2>4. QED
        BY <1>2, <1>15, <1>17, <2>1, <2>2, <2>3 DEF Free
<1>19. unit' \in [Addr -> UnitType]
    BY <1>2, <1>4, <1>6, HeapIs DEF Header, UnitType
<1>20. HeapTypeOK'
    BY <1>2, <1>3, <1>4, <1>6, <1>7, <1>19 DEF HeapTypeOK, UnitType
<1>21. HeaderKept'
    <2>1. ASSUME NEW c \in live PROVE unit'[c.at - 1].size = c.units + 1
        <3>1. c.at - 1 \in Starts(F)
            BY DEF Starts, Used
        <3>2. QED
            BY <1>3, <1>11, <3>1 DEF HeaderKept
    <2>2. QED
        BY <1>2, <2>1 DEF HeaderKept
<1>22. QED
    BY <1>18, <1>20, <1>21 DEF HeapInv

LEMMA TakeKeeps == ASSUME HeapInv, Offset = 1, malloc_take PROVE HeapInv'
<1> DEFINE rest == unit[p].size - nunits
           b == p + rest
           new == [at |-> b + Offset, units |-> nunits - 1]
<1>1. PICK F \in SUBSET Addr : Free(F)
    BY DEF HeapInv
<1>2. /\ loop = "malloc" /\ unit[p].size >= nunits /\ live' = live \cup {new} /\ freep' = prevp /\ CallOver
      /\ UNCHANGED <<brk, own>>
      /\ unit' = IF rest = 0
                 THEN [unit EXCEPT ![prevp].ptr = unit[p].ptr, ![p].ptr = Base]
                 ELSE [unit EXCEPT ![p].size = rest, ![b] = Header(Base, nunits)]
    BY DEF malloc_take
<1>3. HeapTypeOK /\ HeaderKept
    BY DEF HeapInv
<1>4. /\ prevp \in F /\ p = unit[prevp].ptr /\ nunits >= 1 /\ freep # Null /\ Base \in F
      /\ unit[Base].size = 0
      /\ Circle(F, unit) /\ Tiling(Starts(F), unit, brk, own) /\ F \cap (Used \cup Loose) = {}
      /\ \A a \in F \ {Base} : a + unit[a].size \notin F
    BY <1>1, <1>2 DEF Free
<1>5. /\ unit \in [Addr -> UnitType] /\ brk \in Int /\ brk <= HeapSize + 1 /\ Starts(F) \subseteq Heap
      /\ own \subseteq Heap /\ F \subseteq Addr /\ p \in F
      /\ \A a \in F \cup Starts(F) : unit[a] \in [ptr : Addr, size : 0 .. HeapSize]
      /\ \A a \in F : unit[a].ptr \in F
    BY <1>1, <1>3, <1>4, FreeIs
<1>6. nunits \in 0 .. MaxUnits + 1 /\ nunits \in Int /\ nunits - 1 \in 0 .. MaxUnits /\ nunits >= 0
    <2>1. nunits \in 0 .. MaxUnits + 1
        BY <1>3 DEF HeapTypeOK
    <2>2. QED
        BY <1>4, <2>1, HeapIs
<1>7. p # Base /\ unit[p].size \in Int /\ p \in Int /\ p \in Heap /\ p \in Starts(F) /\ p \in Addr
    <2>1. unit[p] \in [ptr : Addr, size : 0 .. HeapSize]
        BY <1>5
    <2>2. unit[p].size \in Int
        BY <2>1, HeapIs
    <2>3. p # Base
        BY <1>2, <1>4, <1>6
    <2>4. p \in Starts(F)
        BY <1>5, <2>3 DEF Starts
    <2>5. QED
        BY <1>5, <2>2, <2>3, <2>4, HeapIs
<1>8. rest \in Int /\ rest >= 0 /\ unit[p].size = rest + nunits /\ b \in Int /\ b - 0 = b
    BY <1>2, <1>6, <1>7
<1>9. p + unit[p].size <= brk
    BY <1>4, <1>7 DEF Tiling
<1>10. b >= 1 /\ b + nunits <= brk /\ b \in Heap /\ b \in Addr /\ nunits <= HeapSize /\ rest <= HeapSize
    <2>1. b + nunits = p + unit[p].size
        BY <1>6, <1>7, <1>8
    <2>2. p >= 1 /\ HeapSize \in Int
        BY <1>7, HeapIs
    <2>3. b >= 1 /\ b + nunits <= brk /\ b <= HeapSize
        BY <1>4, <1>5, <1>6, <1>7, <1>8, <1>9, <2>1, <2>2
    <2>4. nunits <= HeapSize /\ rest <= HeapSize
        BY <1>4, <1>5, <1>6, <1>7, <1>8, <1>9, <2>2
    <2>5. b \in Heap /\ b \in Addr
        BY <1>8, <2>3, HeapIs
    <2>6. QED
        BY <2>3, <2>4, <2>5
<1>11. Loose = {} /\ Loose' = {} /\ loop' = "idle"
    BY <1>2 DEF CallOver, Loose
<1>12. /\ new.at - 1 = b /\ new.units + 1 = nunits
       /\ new \in [at : Addr \cup {HeapSize + 1}, units : 0 .. MaxUnits]
    <2>1. b + 1 \in Addr \cup {HeapSize + 1} /\ (b + 1) - 1 = b /\ (nunits - 1) + 1 = nunits
        <3>1. b + 1 \in Addr \cup {HeapSize + 1}
            BY <1>8, <1>10, HeapIs
        <3>2. (b + 1) - 1 = b /\ (nunits - 1) + 1 = nunits
            BY <1>6, <1>8
        <3>3. QED
            BY <3>1, <3>2
    <2>2. QED
        BY <1>6, <2>1
<1> HIDE DEF new
<1>13. Used' = Used \cup {b}
    BY <1>2, <1>12 DEF Used
<1>14. live' \subseteq [at : Addr \cup {HeapSize + 1}, units : 0 .. MaxUnits]
    BY <1>2, <1>3, <1>12 DEF HeapTypeOK
<1> HIDE DEF b, rest
<1>15. ASSUME unit' \in [Addr -> UnitType] PROVE HeapTypeOK'
    <2>1. prevp \in Addr
        BY <1>4, <1>5
    <2>2. QED
        <3>1. 0 \in 0 .. MaxUnits + 1
            BY HeapIs
        <3>2. QED
            BY <1>2, <1>3, <1>14, <1>15, <2>1, <3>1 DEF HeapTypeOK, CallOver, UnitType
<1>16. ASSUME unit'[b].size = nunits, \A a \in Used : unit'[a].size = unit[a].size PROVE HeaderKept'
    <2>1. ASSUME NEW c \in live' PROVE unit'[c.at - 1].size = c.units + 1
        <3>1. CASE c = new
            BY <1>12, <1>16, <3>1
        <3>2. CASE c \in live
            <4>1. c.at - 1 \in Used
                BY <3>2 DEF Used
            <4>2. QED
                BY <1>3, <1>16, <3>2, <4>1 DEF HeaderKept
        <3>3. QED
            BY <1>2, <2>1, <3>1, <3>2
    <2>2. QED
        BY <2>1 DEF HeaderKept
<1>17. CASE rest = 0
    <2>1. b = p /\ unit[p].size = nunits
        BY <1>6, <1>7, <1>8, <1>17 DEF b
    <2>2. unit' = [unit EXCEPT ![prevp].ptr = unit[p].ptr, ![p].ptr = Base]
        BY <1>2, <1>17
    <2>3. prevp # p
        <3>1. Follows(F, prevp, p)
            BY <1>4 DEF Circle
        <3>2. QED
            BY <1>7, <3>1 DEF Follows
    <2>4. /\ unit'[prevp].ptr = unit[p].ptr /\ unit'[prevp].size = unit[prevp].size
          /\ unit'[p].size = unit[p].size /\ \A a \in Addr \ {prevp, p} : unit'[a] = unit[a]
        <3>1. prevp \in Addr /\ p \in Addr
            BY <1>4, <1>5
        <3>2. /\ unit[prevp] \in [ptr : Addr, size : 0 .. HeapSize]
              /\ unit[p] \in [ptr : Addr, size : 0 .. HeapSize]
            BY <1>4, <1>5
        <3>3. QED
            BY <1>5, <2>2, <2>3, <3>1, <3>2
    <2>5. unit' \in [Addr -> UnitType]
        <3>1. prevp \in Addr /\ p \in Addr /\ unit[p].ptr \in Addr /\ Base \in Addr
            BY <1>4, <1>5, HeapIs
        <3>2. /\ unit[prevp] \in [ptr : Addr, size : 0 .. HeapSize]
              /\ unit[p] \in [ptr : Addr, size : 0 .. HeapSize]
            BY <1>4, <1>5
        <3>3. /\ [unit[prevp] EXCEPT !.ptr = unit[p].ptr] \in UnitType
              /\ [unit[p] EXCEPT !.ptr = Base] \in UnitType
            BY <3>1, <3>2 DEF UnitType
        <3>4. unit' = [unit EXCEPT ![prevp] = [unit[prevp] EXCEPT !.ptr = unit[p].ptr], ![p] = [unit[p] EXCEPT !.ptr = Base]]
            BY <1>5, <2>2, <2>3, <3>1
        <3>5. QED
            BY <1>5, <3>1, <3>3, <3>4
    <2>6. \A a \in Addr : unit'[a].size = unit[a].size
        BY <2>4
    <2>7. ASSUME NEW G, G = F \ {p} PROVE Starts(G)' = Starts(F)
        BY <1>4, <1>7, <1>11, <1>13, <2>1, <2>7 DEF Starts
    <2>8. Starts(F) \subseteq Addr /\ Used \subseteq Addr
        BY <1>5, HeapIs DEF Starts
    <2>9. Tiling(Starts(F), unit', brk, own)
        BY <1>4, <2>6, <2>8, TilingStays
    <2>10. Circle(F \ {p}, unit') /\ prevp \in F \ {p}
        <3>1. /\ unit[prevp].ptr = p /\ unit'[prevp].ptr = unit[p].ptr
              /\ \A x \in F \ {prevp, p} : unit'[x].ptr = unit[x].ptr
            BY <1>4, <1>5, <2>4
        <3>2. QED
            BY <1>4, <1>5, <1>7, <3>1, CircleDrops
    <2>11. \A a \in (F \ {p}) \ {Base} : a + unit'[a].size \notin F \ {p}
        BY <1>4, <1>5, <2>6
    <2>12. prevp # Null
        BY <1>4, <1>5, HeapIs
    <2>13. Base \in F \ {p} /\ unit'[Base].size = 0 /\ F \ {p} \subseteq Addr
        BY <1>4, <1>5, <1>7, <2>6, HeapIs
    <2>15. (F \ {p}) \cap (Used' \cup Loose') = {} /\ Used' \cap Loose' = {}
        BY <1>4, <1>11, <1>13, <2>1
    <2>16. \E G \in SUBSET Addr : Free(G)'
        <3>1. ASSUME NEW G, G = F \ {p} PROVE Free(G)'
            <4>0. Starts(G)' = Starts(F)
                BY <2>7, <3>1
            <4>1. Tiling(Starts(G), unit, brk, own)' /\ Circle(G, unit)'
                BY <1>2, <2>9, <2>10, <3>1, <4>0
            <4>2. G \subseteq Addr /\ Base \in G /\ freep' \in G /\ freep' # Null /\ unit'[Base].size = 0
                BY <1>2, <2>10, <2>12, <2>13, <3>1
            <4>3. /\ G \cap (Used' \cup Loose') = {} /\ Used' \cap Loose' = {}
                  /\ \A a \in G \ {Base} : a + unit'[a].size \notin G
                BY <2>11, <2>15, <3>1
            <4>4. QED
                BY <1>11, <4>1, <4>2, <4>3 DEF Free
        <3>2. F \ {p} \in SUBSET Addr
            BY <2>13
        <3>3. QED
            BY <3>1, <3>2
    <2>17. HeapTypeOK' /\ HeaderKept'
        <3>1. unit'[b].size = nunits /\ \A a \in Used : unit'[a].size = unit[a].size
            BY <1>7, <2>1, <2>6, <2>8
        <3>2. QED
            BY <1>15, <1>16, <2>5, <3>1
    <2>18. QED
        BY <2>16, <2>17 DEF HeapInv
<1>18. CASE rest # 0
    <2>1. rest >= 1
        BY <1>8, <1>18
    <2>2. unit' = [unit EXCEPT ![p].size = rest, ![b] = Header(Base, nunits)]
        BY <1>2, <1>18
    <2>3. b = p + rest /\ b # p
        BY <1>7, <1>8, <2>1 DEF b
    <2>4. unit[p] \in [ptr : Addr, size : 0 .. HeapSize] /\ rest \in 0 .. HeapSize /\ nunits \in 0 .. HeapSize
        BY <1>5, <1>6, <1>8, <1>10, HeapIs
    <2>5. unit' = [unit EXCEPT ![p] = [unit[p] EXCEPT !.size = rest], ![b] = Header(Base, nunits)]
        BY <1>5, <1>7, <1>10, <2>2, <2>3
    <2>6. /\ unit'[p].size = rest /\ unit'[p].ptr = unit[p].ptr /\ unit'[b].size = nunits
          /\ \A a \in Addr \ {b, p} : unit'[a] = unit[a]
        BY <1>5, <1>7, <1>10, <2>3, <2>4, <2>5 DEF Header
    <2>7. unit' \in [Addr -> UnitType]
        <3>1. [unit[p] EXCEPT !.size = rest] \in UnitType /\ Header(Base, nunits) \in UnitType
            BY <2>4, HeapIs DEF Header, UnitType
        <3>2. QED
            BY <1>5, <1>7, <1>10, <2>5, <3>1
    <2>8. b \notin Starts(F)
        <3>1. ASSUME b \in Starts(F) PROVE FALSE
            <4>1. p + unit[p].size <= b
                BY <1>4, <1>7, <1>8, <2>1, <2>3, <3>1 DEF Tiling
            <4>2. QED
                BY <1>4, <1>6, <1>7, <1>8, <2>3, <4>1
        <3>2. QED
            BY <3>1
    <2>9. Starts(F) \subseteq Addr /\ Used \subseteq Starts(F) /\ p \notin Used /\ b \notin Used /\ b \notin F
        BY <1>4, <1>5, <1>10, <2>8, HeapIs DEF Starts
    <2>10. \A a \in Starts(F) \ {p} : unit'[a] = unit[a]
        BY <2>6, <2>8, <2>9
    <2>11. Tiling(Starts(F) \cup {b}, unit', brk, own)
        <3>1. \A a \in Starts(F) \ {p} : unit'[a].size = unit[a].size
            BY <2>10
        <3>2. /\ b = p + unit'[p].size /\ unit'[p].size \in Int /\ unit'[b].size \in Int
              /\ unit'[p].size >= 1 /\ unit'[b].size >= 1 /\ unit[p].size = unit'[p].size + unit'[b].size
            BY <1>4, <1>6, <1>8, <2>1, <2>3, <2>6
        <3>3. /\ Tiling(Starts(F), unit, brk, own) /\ own \subseteq Heap /\ brk <= HeapSize + 1
              /\ p \in Starts(F)
            BY <1>4, <1>5, <1>7
        <3>4. QED
            BY <3>1, <3>2, <3>3, TilingSplits
    <2>12. Starts(F)' = Starts(F) \cup {b}
        BY <1>11, <1>13 DEF Starts
    <2>13. \A a \in F : unit'[a].ptr = unit[a].ptr
        BY <1>5, <2>6, <2>9
    <2>14. Circle(F, unit')
        BY <1>4, <2>13, CircleStays
    <2>15. Tiling(Starts(F), unit, brk, own)' /\ Circle(F, unit)'
        BY <1>2, <2>3, <2>11, <2>12, <2>14
    <2>16. \A a \in F \ {Base} : a + unit'[a].size \notin F
        <3>1. \A a \in F \ {p} : unit'[a] = unit[a]
            BY <1>5, <2>6, <2>9
        <3>2. p + unit'[p].size \notin F
            BY <2>3, <2>6, <2>9
        <3>3. QED
            BY <1>4, <3>1, <3>2
    <2>17. F \cap (Used' \cup Loose') = {} /\ Used' \cap Loose' = {}
        BY <1>4, <1>11, <1>13, <2>9
    <2>18. Base \in F /\ freep' \in F /\ freep' # Null /\ unit'[Base].size = 0 /\ F \subseteq Addr
        <3>1. Base \in Addr \ {b, p}
            BY <1>7, <1>10, HeapIs
        <3>2. prevp # Null
            BY <1>4, <1>5, HeapIs
        <3>3. QED
            BY <1>2, <1>4, <1>5, <2>6, <3>1, <3>2
    <2>19. Free(F)'
        BY <1>11, <2>15, <2>16, <2>17, <2>18 DEF Free
    <2>20. HeapTypeOK' /\ HeaderKept'
        <3>1. \A a \in Used : unit'[a].size = unit[a].size
            BY <2>9, <2>10
        <3>2. QED
            BY <1>15, <1>16, <2>6, <2>7, <3>1
    <2>21. QED
        BY <2>19, <2>20 DEF HeapInv
<1>19. QED
    BY <1>17, <1>18

-----------------------------------------------------------------------------
(* The block at bp comes into the list, joined with its neighbours.        *)

\* The only blocks that may touch one of the list, once bp is in it: p and bp.
LEMMA Touching ==
    ASSUME HeapTypeOK, NEW F, Free(F), loop \in {"free", "morecore"}, InPlace
    PROVE  /\ bp \in Heap /\ bp \in Starts(F) /\ bp \notin F /\ bp \notin Used /\ p \in F /\ Base \in F
           /\ unit[p].ptr \in F /\ Fits(bp, p, unit[p].ptr) /\ p < bp /\ unit[p].ptr # bp
           /\ unit[p].ptr \in Starts(F) \/ unit[p].ptr = Base
           /\ p \in Starts(F) \/ p = Base
           /\ bp + unit[bp].size = unit[p].ptr => unit[p].ptr # p /\ unit[p].ptr # Base
           /\ \A a \in (F \cup {bp}) \ {Base} : a + unit[a].size \in F \cup {bp} =>
                 \/ a = p /\ a + unit[a].size = bp
                 \/ a = bp /\ a + unit[a].size = unit[p].ptr
<1> DEFINE q == unit[p].ptr
<1>1. /\ p \in F /\ Circle(F, unit) /\ Tiling(Starts(F), unit, brk, own)
      /\ F \cap (Used \cup Loose) = {} /\ Used \cap Loose = {}
      /\ Base \in F /\ \A a \in F \ {Base} : a + unit[a].size \notin F
    BY DEF Free
<1>2. Loose = {bp} /\ bp \notin F /\ bp \notin Used /\ bp \in Starts(F)
    BY <1>1 DEF Loose, Starts
<1>3. F \subseteq Addr /\ Starts(F) \subseteq Heap /\ q \in F /\ bp \in Heap
    BY <1>1, <1>2, FreeIs
<1>4. F \subseteq Int /\ bp \in Int /\ bp >= 1 /\ Base = 0 /\ (\A x \in F : x >= 0) /\ q \in Int /\ p \in Int
    <2> HIDE DEF q
    <2>1. F \subseteq Int /\ Base = 0 /\ \A x \in F : x >= 0
        BY <1>3, HeapIs
    <2>2. bp \in Int /\ bp >= 1
        BY <1>3, HeapIs
    <2>3. QED
        BY <1>1, <1>3, <2>1, <2>2
<1>5. Fits(bp, p, q)
    BY DEF Fits, InPlace
<1>6. /\ p < bp /\ \A x \in F : ~(p < x /\ x < bp)
      /\ \A x \in F : bp < x => q <= x /\ q # Base
    BY <1>1, <1>2, <1>3, <1>5, CirclePlaces
<1>7. \A x \in F : x # Base => x \in Starts(F)
    BY DEF Starts
<1>8. /\ \A s \in Starts(F) : unit[s].size \in Int /\ unit[s].size >= 1
      /\ \A s, t \in Starts(F) : s < t => s + unit[s].size <= t
    BY <1>1 DEF Tiling
<1> HIDE DEF q
<1>9. ASSUME NEW a \in F \ {Base}, a + unit[a].size = bp PROVE a = p
    <2>1. a \in Starts(F) /\ a < bp
        <3>1. a \in Starts(F) /\ a \in Int
            BY <1>4, <1>7
        <3>2. unit[a].size \in Int /\ unit[a].size >= 1
            BY <1>8, <3>1
        <3>3. QED
            BY <1>4, <1>9, <3>1, <3>2
    <2>2. a <= p
        BY <1>4, <1>6, <2>1
    <2>3. CASE a < p
        <3>1. p \in Starts(F)
            BY <1>1, <1>4, <1>7, <2>3
        <3>2. a + unit[a].size <= p
            BY <1>8, <2>1, <2>3, <3>1
        <3>3. QED
            BY <1>4, <1>6, <1>9, <3>2
    <2>4. QED
        BY <1>4, <2>2, <2>3
<1>10. ASSUME bp + unit[bp].size \in F PROVE bp + unit[bp].size = q
    <2>1. unit[bp].size \in Int /\ bp < bp + unit[bp].size
        BY <1>2, <1>4, <1>8
    <2>2. q <= bp + unit[bp].size /\ q # Base
        BY <1>6, <1>10, <2>1
    <2>3. CASE q < bp + unit[bp].size
        <3>1. q \in Starts(F)
            BY <1>3, <1>7, <2>2
        <3>2. q # bp
            BY <1>2, <1>3
        <3>3. CASE bp < q
            <4>1. bp + unit[bp].size <= q
                BY <1>2, <1>8, <3>1, <3>3
            <4>2. QED
                BY <1>4, <2>1, <2>3, <4>1
        <3>4. CASE q < bp
            <4>1. Follows(F, p, q)
                BY <1>1 DEF Circle, q
            <4>2. p < q
                BY <2>2, <4>1 DEF Follows
            <4>3. QED
                BY <1>3, <1>6, <3>4, <4>2
        <3>5. QED
            BY <1>4, <3>2, <3>3, <3>4
    <2>4. QED
        BY <1>4, <2>1, <2>2, <2>3
<1>11. bp + unit[bp].size # bp /\ (bp + unit[bp].size = q => q # p /\ q # Base)
    <2>1. unit[bp].size \in Int /\ unit[bp].size >= 1
        BY <1>2, <1>8
    <2>2. bp + unit[bp].size > bp
        BY <1>4, <2>1
    <2>3. QED
        BY <1>4, <1>6, <2>2
<1>12. ASSUME NEW a \in (F \cup {bp}) \ {Base}, a + unit[a].size \in F \cup {bp}
       PROVE  (a = p /\ a + unit[a].size = bp) \/ (a = bp /\ a + unit[a].size = q)
    <2>1. CASE a = bp
        BY <1>10, <1>11, <1>12, <2>1
    <2>2. CASE a \in F
        <3>1. a + unit[a].size = bp
            BY <1>1, <1>12, <2>2
        <3>2. QED
            BY <1>9, <1>12, <2>2, <3>1
    <2>3. QED
        BY <1>12, <2>1, <2>2
<1>13. q # bp
    BY <1>2, <1>3
<1>14. QED
    BY <1>1, <1>2, <1>3, <1>5, <1>6, <1>7, <1>11, <1>12, <1>13 DEF q

\* The list of memory m, with the blocks of G: what free_link and morecore_return leave.
Whole(G, m) ==
    /\ G \subseteq Addr /\ Base \in G /\ p \in G /\ m[Base].size = 0
    /\ Circle(G, m) /\ Tiling((G \ {Base}) \cup Used, m, brk, own) /\ G \cap Used = {}
    /\ \A a \in G \ {Base} : a + m[a].size \notin G
    /\ \A a \in Used : m[a].size = unit[a].size

\* First with bp in front of p's successor, joined with it if they touch; p points to bp.
Above == Joining(unit, bp, unit[p].ptr, unit[bp].size)
Half(m) ==
    /\ m[p].ptr = bp
    /\ \A a \in Addr : m[a].size = Above[a].size /\ (a # p => m[a].ptr = Above[a].ptr)
HalfWhole(G, m) ==
    /\ bp \in G /\ Base \in G /\ p \in G /\ m[Base].size = 0 /\ bp \notin Used
    /\ Circle(G, m) /\ Tiling((G \ {Base}) \cup Used, m, brk, own) /\ G \cap Used = {}
    /\ \A a \in G \ {Base} : a + m[a].size \in G => a = p /\ a + m[a].size = bp
    /\ \A a \in Used : m[a].size = unit[a].size

LEMMA AboveIs ==
    ASSUME HeapTypeOK, NEW F, Free(F), loop \in {"free", "morecore"}, InPlace, NEW m, Half(m)
    PROVE  \E G \in SUBSET Addr : HalfWhole(G, m)
<1> DEFINE q == unit[p].ptr
           b == bp
           above == Above
<1>1. /\ b \in Heap /\ b \in Starts(F) /\ b \notin F /\ b \notin Used /\ p \in F /\ Base \in F
      /\ q \in F /\ Fits(b, p, q) /\ p < b /\ q # b
      /\ q \in Starts(F) \/ q = Base
      /\ b + unit[b].size = q => q # p /\ q # Base
      /\ \A a \in (F \cup {b}) \ {Base} : a + unit[a].size \in F \cup {b} =>
            (a = p /\ a + unit[a].size = b) \/ (a = b /\ a + unit[a].size = q)
    BY Touching
<1>2. /\ unit \in [Addr -> UnitType] /\ F \subseteq Addr /\ Starts(F) \subseteq Heap /\ own \subseteq Heap
      /\ \A a \in F \cup Starts(F) : unit[a] \in [ptr : Addr, size : 0 .. HeapSize]
    BY FreeIs
<1>3. /\ Circle(F, unit) /\ Tiling(Starts(F), unit, brk, own) /\ F \cap Used = {} /\ unit[Base].size = 0
      /\ Starts(F) = (F \ {Base}) \cup Used \cup {b} /\ \A a \in F \ {Base} : a + unit[a].size \notin F
    BY <1>1 DEF Free, Starts, Loose
<1>4. /\ Heap \subseteq Addr /\ Addr \subseteq Int /\ Base \notin Heap /\ b \in Addr /\ b # Base
      /\ b # p /\ Used \subseteq Addr /\ q \in Addr /\ p \in Addr
    BY <1>1, <1>2, <1>3, HeapIs
<1>0. above = Joining(unit, b, q, unit[b].size) /\ m[p].ptr = b
    BY DEF Above, Half
<1>a. \A a \in Addr : m[a].size = above[a].size /\ (a # p => m[a].ptr = above[a].ptr)
    BY DEF Half
<1> HIDE DEF q, b, above
<1> DEFINE one == [unit EXCEPT ![b] = Header(q, unit[b].size), ![p] = Header(b, unit[p].size)]
<1>5. /\ one[b].ptr = q /\ one[p].ptr = b /\ \A x \in Addr \ {b, p} : one[x] = unit[x]
      /\ \A x \in Addr : one[x].size = unit[x].size
    BY <1>2, <1>4 DEF Header
<1>6. Circle(F \cup {b}, one)
    <2> HIDE DEF one
    <2>1. \A x \in F \ {p} : one[x].ptr = unit[x].ptr
        BY <1>1, <1>2, <1>5
    <2>2. one[b].ptr = unit[p].ptr /\ Fits(b, p, unit[p].ptr)
        BY <1>1, <1>5 DEF q
    <2>3. \A x \in F \ {p} : one[x].ptr = unit[x].ptr
        BY <2>1
    <2>4. /\ F \subseteq Addr /\ Circle(F, unit) /\ p \in F /\ b \in Heap /\ b \notin F /\ Base \in F
          /\ one[p].ptr = b
        BY <1>1, <1>2, <1>3, <1>5
    <2>5. Adds(F, unit, one, p, b)
        BY <2>2, <2>3, <2>4 DEF Adds
    <2>6. QED
        BY <2>4, <2>5, CircleAdds
<1>7. Tiling(Starts(F), one, brk, own)
    <2> HIDE DEF one
    <2>1. \A s \in Starts(F) : one[s].size = unit[s].size
        BY <1>2, <1>4, <1>5
    <2>2. QED
        BY <1>3, <2>1, TilingStays
<1> HIDE DEF one
<1>8. CASE b + unit[b].size = q
    <2>1. above = [unit EXCEPT ![b] = Header(unit[q].ptr, unit[b].size + unit[q].size), ![q] = Junk]
        BY <1>0, <1>8 DEF Joining
    <2>2. /\ above[b].ptr = unit[q].ptr /\ above[b].size = unit[b].size + unit[q].size
          /\ \A x \in Addr \ {b, q} : above[x] = unit[x]
        BY <1>1, <1>2, <1>4, <2>1 DEF Header
    <2>3. q # p /\ q # Base /\ q \in Starts(F)
        BY <1>1, <1>8
    <2>4. ASSUME NEW G, G = (F \cup {b}) \ {q} PROVE Circle(G, m)
        <3>1. m[b].ptr = one[q].ptr
            BY <1>1, <1>4, <1>5, <1>a, <2>2, <2>3
        <3>2. \A x \in (F \cup {b}) \ {b, q} : m[x].ptr = one[x].ptr
            <4>1. SUFFICES ASSUME NEW x \in F \ {b, q} PROVE m[x].ptr = one[x].ptr
                BY <4>1
            <4>2. x \in Addr
                BY <1>2
            <4>3. x # p => m[x].ptr = unit[x].ptr /\ one[x] = unit[x]
                BY <1>5, <1>a, <2>2, <4>2
            <4>4. QED
                BY <1>0, <1>5, <4>3
        <3>3. one[b].ptr = q /\ b \in F \cup {b} /\ q \in F \cup {b} /\ F \cup {b} \subseteq Addr
            BY <1>1, <1>2, <1>4, <1>5
        <3>4. QED
            BY <1>6, <2>3, <2>4, <3>1, <3>2, <3>3, CircleDrops
    <2>5. ASSUME NEW B, B = Starts(F) \ {q} PROVE Tiling(B, m, brk, own)
        <3>1. m[b].size = one[b].size + one[q].size /\ b + one[b].size = q
            BY <1>4, <1>5, <1>8, <1>a, <2>2
        <3>2. \A x \in Starts(F) \ {b, q} : m[x].size = one[x].size
            <4>1. SUFFICES ASSUME NEW x \in Starts(F) \ {b, q} PROVE m[x].size = one[x].size
                BY <4>1
            <4>2. x \in Addr
                BY <1>2, <1>4
            <4>3. QED
                BY <1>5, <1>a, <2>2, <4>2
        <3>3. b \in Starts(F) /\ q \in Starts(F) /\ own \subseteq Heap
            BY <1>1, <1>2, <2>3
        <3>4. Joins(Starts(F), one, m, b, q)
            BY <3>1, <3>2, <3>3 DEF Joins
        <3>5. QED
            BY <1>7, <2>5, <3>3, <3>4, TilingJoins
    <2>6. \A x \in Addr \ {b, q} : m[x].size = unit[x].size
        BY <1>a, <2>2
    <2>7. q \notin Used /\ \A a \in Used : m[a].size = unit[a].size
        BY <1>1, <1>3, <1>4, <2>6
    <2>8. m[Base].size = 0
        BY <1>3, <1>4, <2>3, <2>6, HeapIs
    <2>9. b + m[b].size = q + unit[q].size /\ q + unit[q].size \notin F /\ q + unit[q].size # b
        <3>1. b + m[b].size = q + unit[q].size
            <4>1. unit[b].size \in Int /\ unit[q].size \in Int /\ b \in Int
                BY <1>1, <1>2, <1>4, HeapIs
            <4>2. m[b].size = unit[b].size + unit[q].size
                BY <1>4, <1>a, <2>2
            <4>3. QED
                BY <1>8, <4>1, <4>2
        <3>2. q + unit[q].size \notin F
            BY <1>1, <1>3, <2>3
        <3>3. q + unit[q].size # b
            BY <1>1, <2>3
        <3>4. QED
            BY <3>1, <3>2, <3>3
    <2>10. ASSUME NEW G, G = (F \cup {b}) \ {q}, NEW a \in G \ {Base}, a + m[a].size \in G
           PROVE  a = p /\ a + m[a].size = b
        <3>1. a # b
            BY <2>9, <2>10
        <3>2. a \in F /\ a \in Addr \ {b, q}
            BY <1>2, <2>10, <3>1
        <3>3. m[a].size = unit[a].size
            BY <2>6, <3>2
        <3>4. QED
            BY <1>1, <2>10, <3>1, <3>2, <3>3
    <2>11. ASSUME NEW G, G = (F \cup {b}) \ {q}
           PROVE  /\ b \in G /\ Base \in G /\ p \in G /\ G \subseteq Addr
                  /\ (G \ {Base}) \cup Used = Starts(F) \ {q} /\ G \cap Used = {}
        BY <1>1, <1>2, <1>3, <1>4, <2>3, <2>7, <2>11
    <2>12. ASSUME NEW G, G = (F \cup {b}) \ {q}
           PROVE  /\ b \in G /\ Base \in G /\ p \in G /\ m[Base].size = 0 /\ b \notin Used /\ G \in SUBSET Addr
                  /\ Circle(G, m) /\ Tiling((G \ {Base}) \cup Used, m, brk, own) /\ G \cap Used = {}
                  /\ \A a \in G \ {Base} : a + m[a].size \in G => a = p /\ a + m[a].size = b
                  /\ \A a \in Used : m[a].size = unit[a].size
        BY <1>1, <2>4, <2>5, <2>7, <2>8, <2>10, <2>11, <2>12
    <2>13. QED
        BY <2>12 DEF b, HalfWhole
<1>9. CASE b + unit[b].size # q
    <2>1. above = [unit EXCEPT ![b] = Header(q, unit[b].size)]
        BY <1>0, <1>9 DEF Joining
    <2>2. above[b].ptr = q /\ above[b].size = unit[b].size /\ \A x \in Addr \ {b} : above[x] = unit[x]
        BY <1>2, <1>4, <2>1 DEF Header
    <2>3. \A x \in Addr : m[x].size = unit[x].size
        BY <1>a, <2>2
    <2>4. Circle(F \cup {b}, m)
        <3>1. \A x \in F \cup {b} : m[x].ptr = one[x].ptr
            <4>1. SUFFICES ASSUME NEW x \in F \cup {b} PROVE m[x].ptr = one[x].ptr
                BY <4>1
            <4>2. x \in Addr
                BY <1>2, <1>4
            <4>3. x \notin {p, b} => m[x].ptr = unit[x].ptr /\ one[x] = unit[x]
                BY <1>5, <1>a, <2>2, <4>2
            <4>4. m[b].ptr = q
                BY <1>4, <1>a, <2>2
            <4>5. QED
                BY <1>0, <1>5, <4>3, <4>4
        <3>2. QED
            BY <1>6, <3>1, CircleStays
    <2>5. Tiling(Starts(F), m, brk, own)
        <3>1. \A s \in Starts(F) : m[s].size = unit[s].size
            BY <1>2, <1>4, <2>3
        <3>2. QED
            BY <1>3, <3>1, TilingStays
    <2>6. ASSUME NEW G, G = F \cup {b}
          PROVE  /\ b \in G /\ Base \in G /\ p \in G /\ m[Base].size = 0 /\ b \notin Used /\ G \in SUBSET Addr
                 /\ Circle(G, m) /\ Tiling((G \ {Base}) \cup Used, m, brk, own) /\ G \cap Used = {}
                 /\ \A a \in G \ {Base} : a + m[a].size \in G => a = p /\ a + m[a].size = b
                 /\ \A a \in Used : m[a].size = unit[a].size
        <3>1. (G \ {Base}) \cup Used = Starts(F) /\ G \cap Used = {} /\ G \subseteq Addr
            BY <1>1, <1>2, <1>3, <1>4, <2>6
        <3>2. ASSUME NEW a \in G \ {Base}, a + m[a].size \in G PROVE a = p /\ a + m[a].size = b
            <4>1. m[a].size = unit[a].size
                BY <2>3, <3>1, <3>2
            <4>2. QED
                BY <1>1, <1>9, <2>6, <3>2, <4>1
        <3>3. m[Base].size = 0 /\ \A a \in Used : m[a].size = unit[a].size
            BY <1>3, <1>4, <2>3, HeapIs
        <3>4. QED
            BY <1>1, <2>4, <2>5, <2>6, <3>1, <3>2, <3>3
    <2>7. QED
        BY <2>6 DEF b, HalfWhole
<1>10. QED
    BY <1>8, <1>9

\* Then joined with p if they touch: the list is whole again.
LEMMA LinkIs ==
    ASSUME HeapTypeOK, NEW F, Free(F), loop \in {"free", "morecore"}, InPlace
    PROVE  /\ \E G \in SUBSET Addr : Whole(G, Linked)
           /\ Linked \in [Addr -> UnitType] /\ bp \notin Used /\ p \in Addr
<1> DEFINE q == unit[p].ptr
           above == Joining(unit, bp, q, unit[bp].size)
           n == Linked
<1>1. /\ bp \in Heap /\ bp \notin Used /\ p \in F /\ p < bp /\ q # bp
      /\ bp + unit[bp].size = q => q # p /\ q # Base
      /\ q \in F
    BY Touching
<1>2. /\ unit \in [Addr -> UnitType] /\ F \subseteq Addr /\ Starts(F) \subseteq Heap /\ own \subseteq Heap
      /\ brk <= HeapSize + 1 /\ unit[Base].size = 0 /\ brk \in Int
    BY FreeIs, <1>1 DEF Free
<1>3. Addr \subseteq Int /\ bp \in Addr /\ p \in Addr /\ p # bp /\ bp # Base /\ Base = 0
    BY <1>1, <1>2, HeapIs
<1>4. n = Joining(above, p, bp, unit[p].size) /\ above = Joining(unit, bp, q, unit[bp].size)
    BY DEF Linked
<1>a. above = Above
    BY DEF Above
<1>b. q \in Addr
    BY <1>1, <1>2
<1> HIDE DEF n, q, above
<1>5. /\ DOMAIN above = Addr /\ above[p] = unit[p] /\ \A a \in Addr \ {bp, q} : above[a] = unit[a]
      /\ above[q] \in {Junk, unit[q]}
    <2>1. CASE bp + unit[bp].size = q
        <3>1. above = [unit EXCEPT ![bp] = Header(unit[q].ptr, unit[bp].size + unit[q].size), ![q] = Junk]
            BY <1>4, <2>1 DEF Joining
        <3>2. QED
            BY <1>1, <1>2, <1>3, <1>b, <2>1, <3>1
    <2>2. CASE bp + unit[bp].size # q
        <3>1. above = [unit EXCEPT ![bp] = Header(q, unit[bp].size)]
            BY <1>4, <2>2 DEF Joining
        <3>2. QED
            BY <1>1, <1>2, <1>3, <1>b, <3>1
    <2>3. QED
        BY <2>1, <2>2
<1> DEFINE m == [above EXCEPT ![p] = Header(bp, unit[p].size)]
<1>6. m[p].ptr = bp /\ m[p].size = unit[p].size /\ \A a \in Addr \ {p} : m[a] = above[a]
    BY <1>3, <1>5 DEF Header
<1>7. m[p].ptr = bp /\ \A a \in Addr : m[a].size = above[a].size /\ (a # p => m[a].ptr = above[a].ptr)
    BY <1>5, <1>6
<1> HIDE DEF m
<1>8. PICK G \in SUBSET Addr :
          /\ bp \in G /\ Base \in G /\ p \in G /\ m[Base].size = 0 /\ bp \notin Used
          /\ Circle(G, m) /\ Tiling((G \ {Base}) \cup Used, m, brk, own) /\ G \cap Used = {}
          /\ \A a \in G \ {Base} : a + m[a].size \in G => a = p /\ a + m[a].size = bp
          /\ \A a \in Used : m[a].size = unit[a].size
    <2>1. Half(m)
        BY <1>7, <1>a DEF Half
    <2>2. \E G \in SUBSET Addr : HalfWhole(G, m)
        BY <2>1, AboveIs
    <2>3. QED
        BY <2>2 DEF HalfWhole
<1> DEFINE Result(H) ==
        /\ Whole(H, n) /\ DOMAIN n = Addr
        /\ \A a \in {p, bp} : n[a] = Junk \/ (a \in H /\ n[a] = Header(n[a].ptr, n[a].size))
        /\ \A a \in Addr \ {p, bp} : n[a] = above[a]
<1>9. ASSUME p + unit[p].size = bp PROVE \E H \in SUBSET Addr : Result(H)
    <2>1. n = [above EXCEPT ![p] = Header(above[bp].ptr, unit[p].size + above[bp].size), ![bp] = Junk]
        BY <1>4, <1>9 DEF Joining
    <2>2. /\ n[p].ptr = m[bp].ptr /\ n[p].size = m[p].size + m[bp].size /\ n[bp] = Junk
          /\ \A a \in Addr \ {p, bp} : n[a] = m[a]
        BY <1>3, <1>5, <1>6, <2>1 DEF Header
    <2>3. p # Base /\ p + m[p].size = bp
        BY <1>2, <1>3, <1>6, <1>9
    <2>4. \A a \in G \ {p, bp} : n[a] = m[a]
        BY <2>2
    <2>5. ASSUME NEW H, H = G \ {bp} PROVE Circle(H, n)
        <3>1. G \subseteq Addr /\ Circle(G, m) /\ p \in G /\ bp \in G /\ bp # Base /\ m[p].ptr = bp
            BY <1>3, <1>6, <1>8
        <3>2. n[p].ptr = m[bp].ptr /\ \A x \in G \ {p, bp} : n[x].ptr = m[x].ptr
            BY <2>2, <2>4
        <3>3. QED
            BY <2>5, <3>1, <3>2, CircleDrops
    <2>6. ASSUME NEW A, A = (G \ {Base}) \cup Used, NEW B, B = A \ {bp} PROVE Tiling(B, n, brk, own)
        <3>1. \A a \in A \ {p, bp} : n[a] = m[a]
            <4>1. A \subseteq Addr
                BY <1>8, <2>6, HeapIs DEF Tiling
            <4>2. QED
                BY <2>2, <4>1
        <3>2. Joins(A, m, n, p, bp)
            BY <1>3, <1>8, <2>2, <2>3, <2>6, <3>1 DEF Joins
        <3>3. Tiling(A, m, brk, own)
            BY <1>8, <2>6
        <3>4. QED
            BY <1>2, <2>6, <3>2, <3>3, TilingJoins
    <2>7. ASSUME NEW H, H = G \ {bp}, NEW a \in H \ {Base} PROVE a + n[a].size \notin H
        <3>1. CASE a = p
            <4>1. m[p].size \in Int /\ m[bp].size \in Int /\ p \in Int /\ bp \in Int
                BY <1>3, <1>8, <2>3 DEF Tiling
            <4>2. p + n[p].size = bp + m[bp].size
                BY <2>2, <2>3, <4>1
            <4>3. bp + m[bp].size \notin G
                BY <1>3, <1>8
            <4>4. QED
                BY <2>7, <3>1, <4>2, <4>3
        <3>2. CASE a # p
            BY <1>8, <2>4, <2>7, <3>2
        <3>3. QED
            BY <3>1, <3>2
    <2>8. n[Base].size = 0 /\ \A a \in Used : n[a].size = unit[a].size
        <3>1. Used \subseteq Addr
            BY <1>8, HeapIs DEF Tiling
        <3>2. \A a \in Used : n[a] = m[a]
            BY <1>8, <2>2, <3>1
        <3>3. n[Base] = m[Base]
            BY <1>3, <1>8, <2>2, <2>3
        <3>4. QED
            BY <1>8, <3>2, <3>3
    <2>9. ASSUME NEW H, H = G \ {bp} PROVE Whole(H, n)
        <3>1. (H \ {Base}) \cup Used = ((G \ {Base}) \cup Used) \ {bp}
            BY <1>8, <2>9
        <3>2. Tiling((H \ {Base}) \cup Used, n, brk, own)
            BY <2>6, <3>1
        <3>3. H \subseteq Addr /\ Base \in H /\ p \in H /\ H \cap Used = {}
            BY <1>3, <1>8, <2>9
        <3>4. QED
            BY <2>5, <2>7, <2>8, <2>9, <3>2, <3>3 DEF Whole
    <2>10. \E H \in SUBSET Addr : Whole(H, n)
        BY <2>9
    <2>11. DOMAIN n = Addr /\ n[p] = Header(n[p].ptr, n[p].size) /\ \A a \in Addr \ {p, bp} : n[a] = above[a]
        BY <1>3, <1>5, <2>1 DEF Header
    <2>12. PICK H \in SUBSET Addr : Whole(H, n)
        BY <2>10
    <2>13. p \in H
        BY <2>12 DEF Whole
    <2>14. QED
        BY <2>2, <2>11, <2>12, <2>13
<1>10. ASSUME p + unit[p].size # bp PROVE \E H \in SUBSET Addr : Result(H)
    <2>1. n = m
        BY <1>4, <1>10 DEF Joining, m
    <2>2. \A a \in G \ {Base} : a + m[a].size \notin G
        BY <1>6, <1>8, <1>10
    <2>3. Whole(G, n)
        BY <1>8, <2>1, <2>2 DEF Whole
    <2>4. DOMAIN n = Addr /\ n[p] = Header(n[p].ptr, n[p].size) /\ \A a \in Addr \ {p} : n[a] = above[a]
        BY <1>3, <1>5, <1>6, <2>1 DEF Header, m
    <2>5. n[bp] = Header(n[bp].ptr, n[bp].size)
        <3>1. n[bp] = above[bp]
            BY <1>3, <2>4
        <3>2. above[bp] = Header(above[bp].ptr, above[bp].size)
            BY <1>b, <1>1, <1>2, <1>3, <1>4 DEF Joining, Header
        <3>3. QED
            BY <3>1, <3>2
    <2>6. QED
        BY <1>8, <2>3, <2>4, <2>5
<1>11. PICK H \in SUBSET Addr : Result(H)
    BY <1>9, <1>10
<1>12. ASSUME NEW a \in H PROVE n[a].ptr \in Addr /\ n[a].size \in 0 .. HeapSize
    <2>1. n[a].ptr \in Addr
        BY <1>11 DEF Whole, Circle, Follows
    <2>2. CASE a = Base
        <3>1. n[a].size = 0
            BY <1>11, <2>2 DEF Whole
        <3>2. QED
            BY <2>1, <3>1, HeapIs
    <2>3. CASE a # Base
        <3>1. a \in Heap /\ n[a].size \in Int /\ n[a].size >= 1 /\ a + n[a].size <= brk
            BY <1>11, <2>3 DEF Whole, Tiling
        <3>2. a \in Int /\ a >= 1 /\ HeapSize \in Nat
            BY <3>1, HeapIs
        <3>3. n[a].size <= HeapSize
            BY <1>2, <3>1, <3>2
        <3>4. QED
            BY <2>1, <3>1, <3>2, <3>3
    <2>4. QED
        BY <2>1, <2>2, <2>3
<1>13. \A a \in Addr \ {p, bp} : n[a] = Junk \/ n[a] = unit[a]
    BY <1>5, <1>11
<1>14. \A a \in Addr : n[a] \in UnitType
    <2>1. SUFFICES ASSUME NEW a \in Addr PROVE n[a] \in UnitType
        BY <2>1
    <2>2. CASE a \in {p, bp}
        BY <1>11, <1>12, <2>2 DEF UnitType, Header
    <2>3. CASE a \notin {p, bp}
        BY <1>2, <1>13, <2>3 DEF UnitType
    <2>4. QED
        BY <2>2, <2>3
<1>15. n = [a \in Addr |-> n[a]]
    <2>1. unit = [a \in Addr |-> unit[a]]
        BY <1>2
    <2>2. above = [a \in Addr |-> above[a]]
        <3>1. CASE bp + unit[bp].size = q
            BY <1>4, <2>1, <3>1 DEF Joining
        <3>2. CASE bp + unit[bp].size # q
            BY <1>4, <2>1, <3>2 DEF Joining
        <3>3. QED
            BY <3>1, <3>2
    <2>3. CASE p + unit[p].size = bp
        <3>1. n = [above EXCEPT ![p] = Header(above[bp].ptr, unit[p].size + above[bp].size), ![bp] = Junk]
            BY <1>4, <2>3 DEF Joining
        <3>2. PICK x, y : n = [above EXCEPT ![p] = x, ![bp] = y]
            BY <3>1
        <3>3. QED
            BY <2>2, <3>2
    <2>4. CASE p + unit[p].size # bp
        BY <1>4, <2>2, <2>4 DEF Joining
    <2>5. QED
        BY <2>3, <2>4
<1>16. QED
    BY <1>1, <1>3, <1>11, <1>14, <1>15 DEF n

\* free(), also the one of morecore(), comes to its end.
LEMMA LinkKeeps ==
    ASSUME HeapInv, InPlace, unit' = Linked, freep' = p, UNCHANGED <<brk, live, own>>, loop \in {"free", "morecore"},
           \/ CallOver
           \/ prevp' = p /\ p' = unit'[p].ptr /\ bp' = Null /\ loop' = "malloc" /\ UNCHANGED nunits /\ loop = "morecore"
    PROVE  HeapInv'
<1>1. PICK F \in SUBSET Addr : Free(F)
    BY DEF HeapInv
<1>2. HeapTypeOK /\ HeaderKept
    BY DEF HeapInv
<1>3. (\E G \in SUBSET Addr : Whole(G, unit')) /\ unit' \in [Addr -> UnitType] /\ p \in Addr
    BY <1>1, <1>2, LinkIs
<1>4. PICK G \in SUBSET Addr : Whole(G, unit')
    BY <1>3
<1>5. /\ G \subseteq Addr /\ Base \in G /\ p \in G /\ unit'[Base].size = 0 /\ Circle(G, unit')
      /\ Tiling((G \ {Base}) \cup Used, unit', brk, own) /\ G \cap Used = {}
      /\ \A a \in G \ {Base} : a + unit'[a].size \notin G
      /\ \A a \in Used : unit'[a].size = unit[a].size
    BY <1>4 DEF Whole
<1>6. Used' = Used /\ Loose' = {}
    BY DEF Used, Loose, CallOver
<1>7. \A A : A = (G \ {Base}) \cup Used => Tiling(A, unit', brk', own')
    BY <1>5
<1>9. Starts(G)' = (G \ {Base}) \cup Used
    BY <1>6 DEF Starts
<1>10. Tiling(Starts(G), unit, brk, own)'
    BY <1>7, <1>9
<1>11. unit'[p].ptr \in G
    BY <1>5 DEF Circle, Follows
<1>12. /\ freep' \in G /\ freep' # Null
       /\ loop' = "idle" \/ (loop' = "malloc" /\ prevp' = p /\ p' = unit'[p].ptr /\ nunits' = nunits /\ nunits >= 1)
    BY <1>1, <1>3, <1>5, HeapIs DEF CallOver, Free
<1>13. Free(G)'
    BY <1>5, <1>6, <1>10, <1>11, <1>12 DEF Free
<1>14. HeaderKept'
    <2>1. SUFFICES ASSUME NEW b \in live PROVE unit'[b.at - 1].size = b.units + 1
        BY <2>1 DEF HeaderKept
    <2>2. b.at - 1 \in Used
        BY DEF Used
    <2>3. QED
        BY <1>2, <1>5, <2>2 DEF HeaderKept
<1>15. HeapTypeOK'
    <2>1. /\ {p', prevp', bp'} \subseteq Addr \cup {Null} /\ nunits' \in 0 .. MaxUnits + 1
          /\ loop' \in {"idle", "malloc"}
        <3>1. /\ {p, prevp, bp} \subseteq Addr \cup {Null} /\ nunits \in 0 .. MaxUnits + 1
              /\ 0 \in 0 .. MaxUnits + 1
            BY <1>2, HeapIs DEF HeapTypeOK
        <3>2. unit'[p].ptr \in Addr
            BY <1>5, <1>11
        <3>3. CASE CallOver
            BY <3>1, <3>3 DEF CallOver
        <3>4. CASE prevp' = p /\ p' = unit'[p].ptr /\ bp' = Null /\ loop' = "malloc" /\ nunits' = nunits
            BY <1>3, <3>1, <3>2, <3>4
        <3>5. QED
            BY <3>3, <3>4
    <2>2. QED
        BY <1>2, <1>3, <2>1 DEF HeapTypeOK, UnitType
<1>16. QED
    BY <1>13, <1>14, <1>15 DEF HeapInv

LEMMA HeapStarts == HeapInit => HeapInv
<1>1. SUFFICES ASSUME HeapInit PROVE HeapInv
    OBVIOUS
<1>2. HeapTypeOK
    BY <1>1, HeapIs DEF HeapTypeOK, HeapInit
<1>3. HeaderKept
    BY <1>1 DEF HeapInit, HeaderKept
<1>4. Starts({}) = {} /\ Used = {} /\ Loose = {}
    BY <1>1 DEF HeapInit, Starts, Used, Loose
<1>5. Tiling({}, unit, brk, own)
    BY <1>1, HeapIs DEF HeapInit, Tiling
<1>6. Circle({}, unit)
    BY DEF Circle
<1>7. Free({})
    BY <1>1, <1>4, <1>5, <1>6 DEF Free, HeapInit
<1>8. QED
    BY <1>2, <1>3, <1>7 DEF HeapInv

LEMMA HeapStep == ASSUME Offset = 1, HeapInv, [HeapNext]_heapvars PROVE HeapInv'
<1>1. CASE malloc_take
    BY <1>1, TakeKeeps
<1>2. CASE malloc_next
    BY <1>2, NextKeeps
<1>3. CASE morecore
    BY <1>3, GrowKeeps
<1>4. CASE morecore_fails
    BY <1>4, FailKeeps
<1>5. CASE morecore_return
    <2>1. /\ InPlace /\ unit' = Linked /\ freep' = p /\ UNCHANGED <<brk, live, own>>
          /\ loop \in {"free", "morecore"}
          /\ prevp' = p /\ p' = unit'[p].ptr /\ bp' = Null /\ loop' = "malloc" /\ UNCHANGED nunits
          /\ loop = "morecore"
        BY <1>5 DEF morecore_return
    <2>2. QED
        BY <2>1, LinkKeeps
<1>6. CASE free_next
    BY <1>6, RoundKeeps
<1>7. CASE free_link
    <2>1. /\ InPlace /\ unit' = Linked /\ freep' = p /\ UNCHANGED <<brk, live, own>>
          /\ loop \in {"free", "morecore"}
          /\ CallOver
        BY <1>7 DEF free_link
    <2>2. QED
        BY <2>1, LinkKeeps
<1>8. ASSUME NEW n \in 0 .. MaxUnits, malloc(n) PROVE HeapInv'
    BY <1>8, MallocKeeps
<1>9. ASSUME NEW b \in live, free(b) \/ store(b) PROVE HeapInv'
    BY <1>9, FreeKeeps, StoreKeeps
<1>10. CASE sbrk
    BY <1>10, SbrkKeeps
<1>11. CASE UNCHANGED heapvars
    <2>1. unit' = unit /\ live' = live /\ HeapTypeOK' /\ HeaderKept'
        BY <1>11 DEF heapvars, HeapInv, HeapTypeOK, HeaderKept
    <2>2. PICK F \in SUBSET Addr : Free(F)
        BY DEF HeapInv
    <2>3. Free(F)'
        BY <1>11, <2>2 DEF heapvars, Free, Starts, Used, Loose
    <2>4. QED
        BY <2>1, <2>3 DEF HeapInv
<1>12. QED
    BY <1>1, <1>2, <1>3, <1>4, <1>5, <1>6, <1>7, <1>8, <1>9, <1>10, <1>11 DEF HeapNext, Allocator

LEMMA Least ==
    ASSUME NEW S, S \subseteq Nat, S # {}
    PROVE  \E i \in S : \A j \in S : i <= j
<1> DEFINE R == {ss \in Nat \X Nat : ss[1] < ss[2]}
<1>1. IsWellFoundedOn(R, Nat)
    BY NatLessThanWellFounded DEF OpToRel
<1> HIDE DEF R
<1>2. PICK i \in S : \A j \in S : ~(<<j, i>> \in R)
    BY <1>1, WFMin
<1>3. ASSUME NEW j \in S PROVE i <= j
    <2>1. i \in Nat /\ j \in Nat /\ ~(<<j, i>> \in R)
        BY <1>2
    <2>2. QED
        BY <2>1 DEF R
<1>4. QED
    BY <1>3

-----------------------------------------------------------------------------
(* The blocks met on the way round are those of the list.                  *)

Last == HeapSize + 1
Hops(F, h) ==
    /\ h \in [0 .. Last -> F]
    /\ h[0] = freep
    /\ \A k \in 1 .. Last : h[k] = unit[h[k - 1]].ptr

\* The walk of FreeBlocks exists, and stays in the list.
LEMMA HopsExist ==
    ASSUME HeapTypeOK, NEW F, Free(F), freep # Null
    PROVE  \E h : Hops(F, h)
<1> DEFINE Upto(h, n) == \A k \in 1 .. n : h[k] = unit[h[k - 1]].ptr
           S == {n \in 0 .. Last : ~ \E h \in [0 .. Last -> F] : h[0] = freep /\ Upto(h, n)}
<1>1. freep \in F /\ (\A a \in F : unit[a].ptr \in F) /\ Last \in Nat
    <2>1. freep \in F
        BY DEF Free
    <2>2. Last \in Nat
        BY HeapIs DEF Last
    <2>3. QED
        BY <2>1, <2>2, FreeIs
<1> HIDE DEF Last
<1>2. S = {}
    <2>1. SUFFICES ASSUME S # {} PROVE FALSE
        OBVIOUS
    <2>2. S \subseteq Nat
        BY <1>1
    <2>3. PICK i \in S : \A j \in S : i <= j
        <3> HIDE DEF S
        <3>1. QED
            BY <2>1, <2>2, Least
    <2>4. i \in 0 .. Last /\ ~ \E h \in [0 .. Last -> F] : h[0] = freep /\ Upto(h, i)
        BY <2>3
    <2>5. i # 0
        <3>1. SUFFICES ASSUME i = 0 PROVE FALSE
            OBVIOUS
        <3> DEFINE h == [k \in 0 .. Last |-> freep]
        <3>2. h \in [0 .. Last -> F] /\ h[0] = freep /\ Upto(h, i)
            BY <1>1, <3>1
        <3>3. QED
            BY <2>4, <3>2
    <2>6. i - 1 \in 0 .. Last /\ ~(i <= i - 1) /\ i \in Int
        BY <1>1, <2>4, <2>5
    <2>7. i - 1 \notin S
        BY <2>3, <2>6
    <2>8. PICK h \in [0 .. Last -> F] : h[0] = freep /\ Upto(h, i - 1)
        BY <2>6, <2>7
    <2> DEFINE g == [h EXCEPT ![i] = unit[h[i - 1]].ptr]
    <2>9. h[i - 1] \in F
        BY <2>6
    <2>10. g \in [0 .. Last -> F] /\ g[0] = freep
        BY <1>1, <2>4, <2>5, <2>8, <2>9
    <2>11. ASSUME NEW k \in 1 .. i PROVE g[k] = unit[g[k - 1]].ptr
        <3>1. k \in 0 .. Last /\ k - 1 \in 0 .. Last /\ k - 1 # i /\ (k # i => k \in 1 .. i - 1)
            BY <1>1, <2>4
        <3>2. g[k - 1] = h[k - 1]
            BY <3>1
        <3>3. CASE k = i
            BY <2>4, <3>2, <3>3
        <3>4. CASE k # i
            BY <2>8, <3>1, <3>2, <3>4
        <3>5. QED
            BY <3>3, <3>4
    <2>12. QED
        BY <2>4, <2>10, <2>11
<1>3. Last \in 0 .. Last
    BY <1>1
<1>4. PICK h \in [0 .. Last -> F] : h[0] = freep /\ Upto(h, Last)
    BY <1>2, <1>3
<1>5. QED
    BY <1>4 DEF Hops

\* From a block of the list the walk comes to every later one, an address at a time at most.
LEMMA HopsReach ==
    ASSUME HeapTypeOK, NEW F, Free(F), NEW h, Hops(F, h), NEW s \in 0 .. Last, NEW a \in F,
           h[s] <= a, s + (a - h[s]) <= Last
    PROVE  \E k \in 0 .. Last : h[k] = a
<1> DEFINE x == h[s]
           S == {i \in 0 .. a - x : ~(h[s + i] >= x + i /\ h[s + i] < a)}
<1>1. SUFFICES ASSUME \A k \in 0 .. Last : h[k] # a PROVE FALSE
    OBVIOUS
<1>2. /\ F \subseteq Int /\ Base = 0 /\ Last \in Nat /\ h \in [0 .. Last -> F] /\ Circle(F, unit) /\ s \in Int
      /\ \A k \in 1 .. Last : h[k] = unit[h[k - 1]].ptr
    BY FreeIs, HeapIs DEF Hops, Last, Free
<1>3. x \in F /\ x \in Int /\ a \in Int /\ x <= a /\ s + (a - x) <= Last /\ x # a
    BY <1>1, <1>2
<1> HIDE DEF x, Last
<1>4. S = {}
    <2>1. SUFFICES ASSUME S # {} PROVE FALSE
        OBVIOUS
    <2>2. S \subseteq Nat
        BY <1>3
    <2>3. PICK i \in S : \A j \in S : i <= j
        <3> HIDE DEF S
        <3>1. QED
            BY <2>1, <2>2, Least
    <2>4. i \in 0 .. a - x /\ i \in Int /\ ~(h[s + i] >= x + i /\ h[s + i] < a)
        BY <2>3
    <2>5. i # 0
        BY <1>2, <1>3, <2>4 DEF x
    <2>6. /\ i - 1 \in 0 .. a - x /\ ~(i <= i - 1) /\ s + i \in 1 .. Last
          /\ (s + i) - 1 = s + (i - 1) /\ s + (i - 1) \in 0 .. Last
        BY <1>2, <1>3, <2>4, <2>5
    <2>7. i - 1 \notin S
        BY <2>3, <2>6
    <2> DEFINE y == h[s + (i - 1)]
               z == h[s + i]
    <2>8. y >= x + (i - 1) /\ y < a /\ y \in F
        BY <1>2, <2>6, <2>7
    <2>9. z = unit[y].ptr /\ z # a
        <3>1. h[s + i] = unit[h[(s + i) - 1]].ptr
            BY <1>2, <2>6
        <3>2. s + i \in 0 .. Last
            BY <1>2, <2>6
        <3>3. QED
            BY <1>1, <2>6, <3>1, <3>2
    <2> HIDE DEF y, z
    <2>10. Follows(F, y, z)
        BY <1>2, <2>8, <2>9 DEF Circle
    <2>11. z \in F /\ y < z /\ ~(y < a /\ a < z)
        BY <1>2, <1>3, <2>8, <2>10 DEF Follows
    <2>12. z < a /\ z >= x + i
        BY <1>2, <1>3, <2>4, <2>8, <2>9, <2>11
    <2>13. QED
        BY <2>4, <2>12 DEF z
<1>5. a - x \in 0 .. a - x /\ x + (a - x) = a
    BY <1>3
<1>6. h[s + (a - x)] >= a /\ h[s + (a - x)] < a
    BY <1>4, <1>5
<1>7. s + (a - x) \in 0 .. Last
    BY <1>2, <1>3
<1>8. h[s + (a - x)] \in Int
    BY <1>2, <1>7
<1>9. QED
    BY <1>3, <1>6, <1>8

\* And to base, before it has passed every address.
LEMMA HopsReturn ==
    ASSUME HeapTypeOK, NEW F, Free(F), NEW h, Hops(F, h)
    PROVE  \E k \in 0 .. Last - freep : h[k] = Base
<1> DEFINE S == {i \in 0 .. Last - freep : ~(h[i] >= freep + i)}
<1>1. SUFFICES ASSUME \A k \in 0 .. Last - freep : h[k] # Base PROVE FALSE
    OBVIOUS
<1>2. /\ F \subseteq 0 .. HeapSize /\ F \subseteq Int /\ Base = 0 /\ Last = HeapSize + 1 /\ HeapSize \in Nat
      /\ h \in [0 .. Last -> F] /\ Circle(F, unit) /\ h[0] = freep
      /\ \A k \in 1 .. Last : h[k] = unit[h[k - 1]].ptr
    BY FreeIs, HeapIs DEF Hops, Last, Free
<1>3. freep \in F /\ freep \in 0 .. HeapSize /\ 0 \in 0 .. Last
    <2>1. 0 \in 0 .. Last
        BY <1>2
    <2>2. h[0] \in F
        BY <1>2, <2>1
    <2>3. QED
        BY <1>2, <2>1, <2>2
<1>4. S = {}
    <2>1. SUFFICES ASSUME S # {} PROVE FALSE
        OBVIOUS
    <2>2. S \subseteq Nat
        BY <1>2, <1>3
    <2>3. PICK i \in S : \A j \in S : i <= j
        <3> HIDE DEF S
        <3>1. QED
            BY <2>1, <2>2, Least
    <2>4. i \in 0 .. Last - freep /\ i \in Int /\ ~(h[i] >= freep + i)
        BY <2>3
    <2>5. i # 0
        BY <1>2, <1>3, <2>4
    <2>6. /\ i - 1 \in 0 .. Last - freep /\ ~(i <= i - 1) /\ i \in 1 .. Last /\ i - 1 \in 0 .. Last
          /\ i \in 0 .. Last
        BY <1>2, <1>3, <2>4, <2>5
    <2>7. i - 1 \notin S
        BY <2>3, <2>6
    <2> DEFINE y == h[i - 1]
               z == h[i]
    <2>8. y >= freep + (i - 1) /\ y \in F /\ z \in F
        BY <1>2, <2>6, <2>7
    <2>9. z = unit[y].ptr /\ z # Base
        BY <1>1, <1>2, <2>4, <2>6
    <2> HIDE DEF y, z
    <2>10. Follows(F, y, z)
        BY <1>2, <2>8, <2>9 DEF Circle
    <2>11. y < z
        BY <2>9, <2>10 DEF Follows
    <2>12. z >= freep + i
        <3>1. y \in Int /\ z \in Int /\ freep \in Int
            BY <1>2, <1>3, <2>8
        <3>2. QED
            BY <2>4, <2>8, <2>11, <3>1
    <2>13. QED
        BY <2>4, <2>12 DEF z
<1>5. Last - freep \in 0 .. Last - freep /\ Last - freep \in 0 .. Last /\ freep + (Last - freep) = Last
    BY <1>2, <1>3
<1>6. h[Last - freep] >= Last
    BY <1>4, <1>5
<1>7. h[Last - freep] \in 0 .. HeapSize
    BY <1>2, <1>5
<1>8. QED
    BY <1>2, <1>6, <1>7

LEMMA BlocksAre ==
    ASSUME HeapTypeOK, NEW F, Free(F), freep # Null
    PROVE  FreeBlocks = F
<1> DEFINE hop == CHOOSE h : h = [k \in 0 .. Last |-> IF k = 0 THEN freep ELSE unit[h[k - 1]].ptr]
<1>1. /\ Last \in Nat /\ Base = 0 /\ F \subseteq Int /\ freep \in F
      /\ (\A a \in F : unit[a].ptr \in F) /\ F \subseteq 0 .. HeapSize
    <2>1. freep \in F
        BY DEF Free
    <2>2. Last \in Nat /\ Base = 0 /\ Addr = 0 .. HeapSize /\ Addr \subseteq Int
        BY HeapIs DEF Last
    <2>3. F \subseteq Addr /\ \A a \in F : unit[a].ptr \in F
        BY FreeIs
    <2>4. QED
        BY <2>1, <2>2, <2>3
<1>2. FreeBlocks = {hop[k] : k \in 0 .. Last}
    BY DEF FreeBlocks, Last
<1>3. PICK h : Hops(F, h)
    BY HopsExist
<1> HIDE DEF Last
<1>4. h = [k \in 0 .. Last |-> IF k = 0 THEN freep ELSE unit[h[k - 1]].ptr]
    <2>1. ASSUME NEW k \in 0 .. Last PROVE h[k] = IF k = 0 THEN freep ELSE unit[h[k - 1]].ptr
        <3>1. k # 0 => k \in 1 .. Last
            BY <1>1
        <3>2. QED
            BY <1>3, <3>1 DEF Hops
    <2>2. h = [k \in 0 .. Last |-> h[k]]
        BY <1>3 DEF Hops
    <2>3. QED
        BY <2>1, <2>2
<1>5. hop = [k \in 0 .. Last |-> IF k = 0 THEN freep ELSE unit[hop[k - 1]].ptr]
    BY <1>4
<1> HIDE DEF hop
<1>6. ASSUME NEW k \in 0 .. Last PROVE hop[k] = IF k = 0 THEN freep ELSE unit[hop[k - 1]].ptr
    BY <1>5
<1>7. \A k \in 0 .. Last : hop[k] = h[k]
    <2> DEFINE S == {k \in 0 .. Last : hop[k] # h[k]}
    <2>1. SUFFICES ASSUME S # {} PROVE FALSE
        OBVIOUS
    <2>2. S \subseteq Nat
        BY <1>1
    <2>3. PICK i \in S : \A j \in S : i <= j
        <3> HIDE DEF S
        <3>1. QED
            BY <2>1, <2>2, Least
    <2>4. i \in 0 .. Last /\ hop[i] # h[i]
        BY <2>3
    <2>5. i # 0
        BY <1>3, <1>6, <2>4 DEF Hops
    <2>6. i - 1 \in 0 .. Last /\ ~(i <= i - 1) /\ i \in 1 .. Last
        BY <1>1, <2>4, <2>5
    <2>7. hop[i - 1] = h[i - 1]
        BY <2>3, <2>6
    <2>8. hop[i] = unit[hop[i - 1]].ptr /\ h[i] = unit[h[i - 1]].ptr
        BY <1>3, <1>6, <2>4, <2>5, <2>6 DEF Hops
    <2>9. QED
        BY <2>4, <2>7, <2>8
<1>8. FreeBlocks = {h[k] : k \in 0 .. Last} /\ h \in [0 .. Last -> F] /\ h[0] = freep
    BY <1>2, <1>3, <1>7 DEF Hops
<1>9. ASSUME NEW a \in F PROVE \E k \in 0 .. Last : h[k] = a
    <2>1. a \in Int /\ a >= 0 /\ a <= Last /\ freep \in Int /\ freep >= 0 /\ freep <= Last
        <3>1. a \in 0 .. HeapSize /\ freep \in 0 .. HeapSize /\ HeapSize \in Nat /\ Last = HeapSize + 1
            BY <1>1, HeapIs DEF Last
        <3>2. QED
            BY <3>1
    <2>2. CASE freep <= a
        <3>1. 0 \in 0 .. Last /\ h[0] <= a /\ 0 + (a - h[0]) <= Last
            BY <1>1, <1>8, <2>1, <2>2
        <3>2. QED
            BY <1>3, <3>1, HopsReach
    <2>3. CASE a < freep
        <3>1. PICK j \in 0 .. Last - freep : h[j] = Base
            BY <1>3, HopsReturn
        <3>2. j \in 0 .. Last /\ h[j] <= a /\ j + (a - h[j]) <= Last
            BY <1>1, <2>1, <2>3, <3>1
        <3>3. QED
            BY <1>3, <3>2, HopsReach
    <2>4. QED
        BY <2>1, <2>2, <2>3
<1>10. QED
    BY <1>8, <1>9

-----------------------------------------------------------------------------
(* The blocks are a partition of the memory.                               *)

LEMMA InsideIs ==
    ASSUME NEW s \in Int, NEW m, m[s].size \in Int, NEW u
    PROVE  u \in Units(s, m[s].size) <=> u \in Int /\ Inside(m, u, s)
BY DEF Units, Inside

\* The blocks of the program are as many as their memories.
LEMMA LiveCounts ==
    ASSUME HeapTypeOK, HeaderKept, Used \subseteq Heap, \A s \in Used : unit[s].size >= 1
    PROVE  Cardinality({Units(b.at - 1, b.units + 1) : b \in live}) = Cardinality(live)
<1> DEFINE U == {Units(b.at - 1, b.units + 1) : b \in live}
           f == [b \in live |-> b.at - 1]
           g == [b \in live |-> Units(b.at - 1, b.units + 1)]
<1>1. IsFiniteSet(Heap) /\ Heap \subseteq Int
    BY HeapIs, FS_Interval
<1>2. ASSUME NEW b \in live, NEW c \in live, f[b] = f[c] PROVE b = c
    BY <1>2, LiveApart
<1>3. f \in Injection(live, Heap)
    <2>1. f \in [live -> Heap]
        BY DEF Used
    <2>2. QED
        BY <1>2, <2>1 DEF Injection, IsInjective
<1>4. IsFiniteSet(live)
    BY <1>1, <1>3, FS_Injection
<1>5. ASSUME NEW b \in live, NEW c \in live, g[b] = g[c] PROVE b = c
    <2>1. b.at - 1 \in Used /\ c.at - 1 \in Used
        BY DEF Used
    <2>2. /\ b.at - 1 \in Int /\ c.at - 1 \in Int /\ b.units + 1 >= 1 /\ c.units + 1 >= 1
        BY <1>1, <2>1 DEF HeaderKept
    <2>3. b.units + 1 \in Int /\ c.units + 1 \in Int
        BY HeapIs DEF HeapTypeOK
    <2>4. Units(b.at - 1, b.units + 1) = Units(c.at - 1, c.units + 1)
        BY <1>5
    <2>5. ASSUME NEW s \in Int, NEW n \in Int, NEW t \in Int, NEW k \in Int, n >= 1, k >= 1, Units(s, n) = Units(t, k)
          PROVE  s = t
        <3>1. s \in Units(s, n) /\ t \in Units(t, k)
            BY <2>5 DEF Units
        <3>2. s \in Units(t, k) /\ t \in Units(s, n)
            BY <2>5, <3>1
        <3>3. QED
            BY <2>5, <3>2 DEF Units
    <2>6. b.at - 1 = c.at - 1
        BY <2>2, <2>3, <2>4, <2>5
    <2>7. QED
        BY <2>6, LiveApart
<1>6. g \in Bijection(live, U)
    <2>1. g \in [live -> U] /\ \A u \in U : \E b \in live : g[b] = u
        OBVIOUS
    <2> HIDE DEF g, U
    <2>2. QED
        BY <1>5, <2>1 DEF Bijection, Injection, IsInjective, Surjection
<1>7. ExistsBijection(live, U)
    BY <1>6 DEF ExistsBijection
<1>8. QED
    BY <1>4, <1>7, FS_Bijection

\* What the invariant says between calls.
LEMMA HeapHolds == ASSUME HeapInv, loop = "idle", freep # Null PROVE Partition /\ Joined
<1>1. PICK F \in SUBSET Addr : Free(F)
    BY DEF HeapInv
<1>2. HeapTypeOK /\ HeaderKept /\ FreeBlocks = F
    BY <1>1, BlocksAre DEF HeapInv
<1>3. /\ Base \in F /\ Starts(F) = (F \ {Base}) \cup Used /\ F \cap Used = {}
      /\ Tiling(Starts(F), unit, brk, own)
    BY <1>1 DEF Free, Starts, Loose
<1> DEFINE A == Starts(F)
           Blk(s) == Units(s, unit[s].size)
           free_units == {Blk(a) : a \in F \ {Base}}
           live_units == {Units(b.at - 1, b.units + 1) : b \in live}
<1>4. /\ A \subseteq Heap /\ A \subseteq Int /\ brk \in Int /\ own \subseteq Heap
      /\ \A s \in A : unit[s].size \in Int /\ unit[s].size >= 1 /\ s + unit[s].size <= brk
      /\ \A s, t \in A : s < t => s + unit[s].size <= t
      /\ \A u \in own : u < brk /\ \A s \in A : ~Inside(unit, u, s)
      /\ \A u \in Heap : u < brk => u \in own \/ \E s \in A : Inside(unit, u, s)
    BY <1>1, <1>2, <1>3, FreeIs, HeapIs DEF Tiling
<1>5. live_units = {Blk(s) : s \in Used}
    BY <1>2 DEF Used, HeaderKept
<1>6. Used \subseteq A /\ F \ {Base} \subseteq A
    BY <1>3
<1> HIDE DEF A
<1>7. ASSUME NEW s \in A, NEW u PROVE u \in Blk(s) <=> u \in Int /\ Inside(unit, u, s)
    BY <1>4, InsideIs
<1>8. ASSUME NEW s \in A, NEW t \in A, s # t PROVE Blk(s) \cap Blk(t) = {} /\ Blk(s) # {}
    <2>1. s \in Blk(s)
        BY <1>4 DEF Units
    <2>2. s \in Int /\ t \in Int /\ unit[s].size \in Int /\ unit[t].size \in Int
        BY <1>4
    <2>3. s + unit[s].size <= t \/ t + unit[t].size <= s
        BY <1>4, <1>8, <2>2
    <2>4. ASSUME NEW u, u \in Blk(s), u \in Blk(t) PROVE FALSE
        BY <2>2, <2>3, <2>4 DEF Units
    <2>5. QED
        BY <2>1, <2>4
<1> HIDE DEF Blk
<1>9. Cardinality(live_units) = Cardinality(live)
    BY <1>2, <1>4, <1>6, LiveCounts
<1>10. free_units \cup live_units = {Blk(s) : s \in A}
    BY <1>3, <1>5 DEF A
<1>11. \A x, y \in free_units \cup live_units : x = y \/ x \cap y = {}
    BY <1>8, <1>10
<1>12. free_units \cap live_units = {}
    <2>1. ASSUME NEW s \in F \ {Base}, NEW t \in Used PROVE Blk(s) # Blk(t)
        <3>1. s \in A /\ t \in A /\ s # t
            BY <1>3, <1>6
        <3>2. QED
            BY <1>8, <3>1
    <2>2. QED
        BY <1>5, <2>1
<1>13. UNION (free_units \cup live_units) = (1 .. brk - 1) \ own
    <2>1. \A u : u \in UNION (free_units \cup live_units) <=> \E s \in A : u \in Blk(s)
        BY <1>10
    <2>2. ASSUME NEW s \in A, NEW u \in Blk(s) PROVE u \in (1 .. brk - 1) \ own
        <3>1. u \in Int /\ s <= u /\ u < s + unit[s].size
            BY <1>7 DEF Inside
        <3>2. u \notin own
            BY <1>4, <1>7
        <3>3. s \in Int /\ s >= 1 /\ unit[s].size \in Int /\ s + unit[s].size <= brk
            BY <1>4, HeapIs
        <3>4. 1 <= u /\ u <= brk - 1
            BY <1>4, <3>1, <3>3
        <3>5. QED
            BY <1>4, <3>1, <3>2, <3>4
    <2>3. ASSUME NEW u \in (1 .. brk - 1) \ own PROVE \E s \in A : u \in Blk(s)
        <3>1. u \in Heap /\ u < brk /\ u \in Int
            <4>1. brk <= HeapSize + 1
                BY <1>1, <1>2, FreeIs
            <4>2. QED
                BY <1>4, <4>1, HeapIs
        <3>2. PICK s \in A : Inside(unit, u, s)
            BY <1>4, <3>1
        <3>3. QED
            BY <1>7, <3>1, <3>2
    <2>4. QED
        BY <2>1, <2>2, <2>3
<1>14. Partition
    BY <1>2, <1>3, <1>9, <1>11, <1>12, <1>13 DEF Partition, Blk
<1>15. Joined
    BY <1>1, <1>2 DEF Joined, Free
<1>16. QED
    BY <1>14, <1>15

\* With the malloc() of MP0 and mp1, which returns the address behind the header, no call
\* of malloc() or free() loses a unit, hands one out twice, leaves two free blocks that
\* touch or meets a header that is not the one malloc() made (umalloc.c:16-90).
THEOREM HeapSound == ASSUME Offset = 1 PROVE HeapSpec => []HeapOK
<1>1. HeapInit => HeapInv
    BY HeapStarts
<1>2. HeapInv /\ [HeapNext]_heapvars => HeapInv'
    BY HeapStep
<1>3. HeapInv => HeapOK
    <2>1. SUFFICES ASSUME HeapInv PROVE HeapOK
        OBVIOUS
    <2>2. CASE loop = "idle" /\ freep # Null
        BY <2>1, <2>2, HeapHolds DEF HeapOK, HeapInv
    <2>3. CASE ~(loop = "idle" /\ freep # Null)
        BY <2>1, <2>3 DEF HeapOK, HeapInv, Partition, Joined
    <2>4. QED
        BY <2>2, <2>3
<1>4. QED
    BY <1>1, <1>2, <1>3, PTL DEF HeapSpec

=============================================================================
