-------------------------------- MODULE Pipe --------------------------------
(***************************************************************************)
(* A pipe (kernel/pipe.c), the two files that refer to it, and the         *)
(* processes that hold them: pipewrite(), piperead(), pipeclose(), and of  *)
(* kernel/file.c the reference counts that decide when an end is closed.   *)
(*                                                                         *)
(* pi->lock is in the state, and each round of a loop under it is a step,  *)
(* because kill() does not take it and may strike between two rounds.      *)
(* sleep() releases the lock and falls asleep in one step; that the code   *)
(* implements this, with p->lock, is what SleepLock shows.                 *)
(***************************************************************************)
EXTENDS Naturals, Sequences, FiniteSets

CONSTANTS Procs,       \* the processes; one of them calls pipe()
          Bytes,       \* the values of a byte
          PIPESIZE,    \* size of pi->data
          UINT,        \* nread and nwrite count modulo this
          Sizes,       \* bound: the values of n in read() and write()
          Victims,     \* bound: the processes that may be killed
          Copies,      \* the copies of pipewrite(): in "mp2" it looks at
                       \* readopen and killed in every round, in "mp1" (and
                       \* MP0) only when the pipe is full
          Nobody       \* no process

ASSUME PipeAssumption ==
    /\ PIPESIZE \in Nat \ {0}
    /\ UINT \in Nat
    /\ UINT % PIPESIZE = 0
    /\ UINT > PIPESIZE
    /\ Sizes \subseteq Nat
    /\ Victims \subseteq Procs
    /\ Nobody \notin Procs
    /\ Copies \subseteq {"mp1", "mp2"}

Ends == {"read", "write"}

VARIABLES
    copy,      \* the kernel's copy of pipe.c
    data,      \* pi->data
    nread,     \* pi->nread
    nwrite,    \* pi->nwrite
    open,      \* the ends whose flag, pi->readopen or pi->writeopen, is set
    allocated, \* pi has not been given to kfree()
    lock,      \* who holds pi->lock
    fds,       \* <<p, e>>: p holds a reference to the file of end e
    born,      \* the processes that exist
    killed,    \* the processes whose p->killed is set
    chan,      \* chan[p]: the counter p sleeps on, or "awake"
    pc,        \* pc[p]: where p is
    left,      \* left[p]: n - i, the bytes p has still to copy
    got,       \* the byte piperead() took last
    gaveup     \* history: a pipewrite() has returned -1 and no reader has
               \* been woken since

pipeVars == <<data, nread, nwrite, open, allocated>>
procVars == <<copy, fds, born, killed>>
vars == <<pipeVars, procVars, lock, chan, pc, left, got, gaveup>>

Places == {"user", "write", "write_sleep", "write_acquire",
           "read_wait", "read_sleep", "read_acquire", "read",
           "close_read", "close_write"}

(* Indices stay below the array's and the counters' sizes.                 *)
TypeOK ==
    /\ copy \in Copies
    /\ data \in [0 .. PIPESIZE - 1 -> Bytes]
    /\ nread \in 0 .. UINT - 1
    /\ nwrite \in 0 .. UINT - 1
    /\ open \subseteq Ends
    /\ allocated \in BOOLEAN
    /\ lock \in Procs \cup {Nobody}
    /\ fds \subseteq born \X Ends
    /\ born \subseteq Procs
    /\ killed \subseteq Procs
    /\ chan \in [Procs -> {"awake", "nread", "nwrite"}]
    /\ pc \in [Procs -> Places]
    /\ left \in [Procs -> {0} \cup UNION {0 .. n : n \in Sizes}]
    /\ got \in Bytes
    /\ gaveup \in BOOLEAN

\* After pipealloc(), called by sys_pipe() of one process; kalloc() has filled
\* the page with one value.
Init ==
    /\ copy \in Copies
    /\ \E b \in Bytes : data = [i \in 0 .. PIPESIZE - 1 |-> b] /\ got = b
    /\ nread = 0
    /\ nwrite = 0
    /\ open = Ends
    /\ allocated = TRUE
    /\ lock = Nobody
    /\ \E p \in Procs : born = {p} /\ fds = {p} \X Ends
    /\ killed = {}
    /\ chan = [p \in Procs |-> "awake"]
    /\ pc = [p \in Procs |-> "user"]
    /\ left = [p \in Procs |-> 0]
    /\ gaveup = FALSE

-----------------------------------------------------------------------------
(* Parts of the actions.                                                   *)

Goto(p, x) == pc' = [pc EXCEPT ![p] = x]

Under(p, x) == pc[p] = x /\ lock = p

\* wakeup() of everyone who sleeps on counter c.
wakeup(c) ==
    /\ chan' = [q \in Procs |-> IF chan[q] = c THEN "awake" ELSE chan[q]]
    /\ gaveup' = (gaveup /\ c # "nread")

\* release(&pi->lock) and return to the program.
Return(p) ==
    /\ lock' = Nobody
    /\ Goto(p, "user")
    /\ left' = [left EXCEPT ![p] = 0]

\* A system call on end e by a process that is not killed takes the lock.
Enter(p, e, n, x) ==
    /\ pc[p] = "user"
    /\ <<p, e>> \in fds
    /\ p \notin killed
    /\ lock = Nobody
    /\ lock' = p
    /\ left' = [left EXCEPT ![p] = n]
    /\ Goto(p, x)

\* sleep(&pi->c, &pi->lock)
sleep(p, c, x) ==
    /\ chan' = [chan EXCEPT ![p] = c]
    /\ lock' = Nobody
    /\ Goto(p, x)

\* The end of sleep().
Reacquire(p, x) ==
    /\ chan[p] = "awake"
    /\ lock = Nobody
    /\ lock' = p
    /\ Goto(p, x)

full == nwrite = (nread + PIPESIZE) % UINT

empty == nread = nwrite

-----------------------------------------------------------------------------
(* pipewrite().                                                            *)

pipewrite(p, n) ==
    /\ Enter(p, "write", n, "write")
    /\ UNCHANGED <<pipeVars, procVars, chan, got, gaveup>>

\* Nobody will read, or the writer is killed.
Refused(p) == /\ "read" \notin open \/ p \in killed
              /\ copy = "mp2" \/ full

\* pipewrite() returns -1.
write_refused(p) ==
    /\ Under(p, "write")
    /\ left[p] > 0
    /\ Refused(p)
    /\ Return(p)
    /\ gaveup' = TRUE
    /\ UNCHANGED <<pipeVars, procVars, chan, got>>

\* Mutant: a writer that finds the pipe full wakes no reader.
write_full_silent(p) ==
    /\ Under(p, "write")
    /\ left[p] > 0
    /\ ~Refused(p)
    /\ full
    /\ Goto(p, "write_sleep")
    /\ UNCHANGED <<pipeVars, procVars, chan, lock, left, got, gaveup>>

write_full(p) ==
    /\ Under(p, "write")
    /\ left[p] > 0
    /\ ~Refused(p)
    /\ full
    /\ wakeup("nread")
    /\ Goto(p, "write_sleep")
    /\ UNCHANGED <<pipeVars, procVars, lock, left, got>>

write_sleep(p) ==
    /\ Under(p, "write_sleep")
    /\ sleep(p, "nwrite", "write_acquire")
    /\ UNCHANGED <<pipeVars, procVars, left, got, gaveup>>

write_acquire(p) ==
    /\ pc[p] = "write_acquire"
    /\ Reacquire(p, "write")
    /\ UNCHANGED <<pipeVars, procVars, chan, left, got, gaveup>>

\* Mutant: nwrite is advanced before it is used as an index.
write_byte_early(p, b) ==
    /\ Under(p, "write")
    /\ left[p] > 0
    /\ ~Refused(p)
    /\ ~full
    /\ nwrite' = (nwrite + 1) % UINT
    /\ data' = [data EXCEPT ![nwrite' % PIPESIZE] = b]
    /\ left' = [left EXCEPT ![p] = @ - 1]
    /\ UNCHANGED <<nread, open, allocated, procVars, chan, lock, pc, got,
                   gaveup>>

write_byte(p, b) ==
    /\ Under(p, "write")
    /\ left[p] > 0
    /\ ~Refused(p)
    /\ ~full
    /\ data' = [data EXCEPT ![nwrite % PIPESIZE] = b]
    /\ nwrite' = (nwrite + 1) % UINT
    /\ left' = [left EXCEPT ![p] = @ - 1]
    /\ UNCHANGED <<nread, open, allocated, procVars, chan, lock, pc, got,
                   gaveup>>

\* All is written, or copyin() fails at the next byte.
write_done(p) ==
    /\ Under(p, "write")
    /\ left[p] > 0 => ~Refused(p) /\ ~full
    /\ wakeup("nread")
    /\ Return(p)
    /\ UNCHANGED <<pipeVars, procVars, got>>

-----------------------------------------------------------------------------
(* piperead().                                                             *)

piperead(p, n) ==
    /\ Enter(p, "read", n, "read_wait")
    /\ UNCHANGED <<pipeVars, procVars, chan, got, gaveup>>

\* A killed reader of an empty pipe gets -1.
read_refused(p) ==
    /\ Under(p, "read_wait")
    /\ empty /\ "write" \in open
    /\ p \in killed
    /\ Return(p)
    /\ UNCHANGED <<pipeVars, procVars, chan, got, gaveup>>

read_empty(p) ==
    /\ Under(p, "read_wait")
    /\ empty /\ "write" \in open
    /\ p \notin killed
    /\ Goto(p, "read_sleep")
    /\ UNCHANGED <<pipeVars, procVars, chan, lock, left, got, gaveup>>

read_sleep(p) ==
    /\ Under(p, "read_sleep")
    /\ sleep(p, "nread", "read_acquire")
    /\ UNCHANGED <<pipeVars, procVars, left, got, gaveup>>

read_acquire(p) ==
    /\ pc[p] = "read_acquire"
    /\ Reacquire(p, "read_wait")
    /\ UNCHANGED <<pipeVars, procVars, chan, left, got, gaveup>>

read_start(p) ==
    /\ Under(p, "read_wait")
    /\ ~empty \/ "write" \notin open
    /\ Goto(p, "read")
    /\ UNCHANGED <<pipeVars, procVars, chan, lock, left, got, gaveup>>

read_byte(p) ==
    /\ Under(p, "read")
    /\ left[p] > 0 /\ ~empty
    /\ got' = data[nread % PIPESIZE]
    /\ nread' = (nread + 1) % UINT
    /\ left' = [left EXCEPT ![p] = @ - 1]
    /\ UNCHANGED <<data, nwrite, open, allocated, procVars, chan, lock, pc,
                   gaveup>>

\* copyout() fails: the byte has left the pipe and is lost.
read_fault(p) ==
    /\ Under(p, "read")
    /\ left[p] > 0 /\ ~empty
    /\ got' = data[nread % PIPESIZE]
    /\ nread' = (nread + 1) % UINT
    /\ wakeup("nwrite")
    /\ Return(p)
    /\ UNCHANGED <<data, nwrite, open, allocated, procVars>>

read_done(p) ==
    /\ Under(p, "read")
    /\ left[p] = 0 \/ empty
    /\ wakeup("nwrite")
    /\ Return(p)
    /\ UNCHANGED <<pipeVars, procVars, got>>

-----------------------------------------------------------------------------
(* Processes and files.                                                    *)

\* fork() and filedup(): the child gets a reference to every open file.
fork(p, q) ==
    /\ pc[p] = "user"
    /\ p \in born \ killed
    /\ q \notin born
    /\ born' = born \cup {q}
    /\ fds' = fds \cup {f \in {q} \X Ends : <<p, f[2]>> \in fds}
    /\ UNCHANGED <<copy, pipeVars, lock, killed, chan, pc, left, got, gaveup>>

\* close(), or the closing of all files in exit(): fileclose() calls
\* pipeclose() when the last reference is gone.
fileclose(p, e) ==
    /\ pc[p] = "user"
    /\ <<p, e>> \in fds
    /\ fds' = fds \ {<<p, e>>}
    /\ IF \E q \in Procs \ {p} : <<q, e>> \in fds
       THEN UNCHANGED pc
       ELSE Goto(p, IF e = "read" THEN "close_read" ELSE "close_write")
    /\ UNCHANGED <<copy, pipeVars, lock, born, killed, chan, left, got, gaveup>>

Closes(p, e) ==
    /\ pc[p] = (IF e = "read" THEN "close_read" ELSE "close_write")
    /\ lock = Nobody
    /\ open' = open \ {e}
    /\ Goto(p, "user")

\* Mutant: the end that is closed last is not noticed.
pipeclose_frees_early(p, e) ==
    /\ Closes(p, e)
    /\ IF e = "write" THEN wakeup("nread") ELSE wakeup("nwrite")
    /\ allocated' = (allocated /\ "write" \in open')
    /\ UNCHANGED <<data, nread, nwrite, procVars, lock, left, got>>

pipeclose(p, e) ==
    /\ Closes(p, e)
    /\ IF e = "write" THEN wakeup("nread") ELSE wakeup("nwrite")
    /\ allocated' = (allocated /\ open' # {})
    /\ UNCHANGED <<data, nread, nwrite, procVars, lock, left, got>>

\* kill(): pi->lock is not taken.
kill(p) ==
    /\ p \in born \cap Victims
    /\ p \notin killed
    /\ killed' = killed \cup {p}
    /\ chan' = [chan EXCEPT ![p] = "awake"]
    /\ UNCHANGED <<copy, pipeVars, lock, fds, born, pc, left, got, gaveup>>

-----------------------------------------------------------------------------
\* The steps of p inside read(), write() and close().
InKernel(p) ==
    \/ write_refused(p) \/ write_full(p) \/ write_sleep(p) \/ write_acquire(p)
    \/ \E b \in Bytes : write_byte(p, b)
    \/ write_done(p)
    \/ read_refused(p) \/ read_empty(p) \/ read_sleep(p) \/ read_acquire(p)
    \/ read_start(p) \/ read_byte(p) \/ read_fault(p) \/ read_done(p)
    \/ \E e \in Ends : pipeclose(p, e)

Next ==
    \E p \in Procs :
        \/ InKernel(p)
        \/ \E n \in Sizes : pipewrite(p, n) \/ piperead(p, n)
        \/ \E q \in Procs : fork(p, q)
        \/ \E e \in Ends : fileclose(p, e)
        \/ kill(p)

Spec == Init /\ [][Next]_vars

\* A thread inside the kernel goes on and gets a spin lock it waits for.
FairSpec == Spec /\ \A p \in Procs : SF_vars(InKernel(p))

-----------------------------------------------------------------------------
(* Properties.                                                             *)

\* The counters and the array are a queue of at most PIPESIZE bytes, across
\* the wrap of the counters and of the index, with several readers and
\* writers blocking half-way: bytes come out once each and in order.
Stream == INSTANCE Fifo WITH
    Capacity <- PIPESIZE,
    queue <- [k \in 1 .. (nwrite + UINT - nread) % UINT |->
                 data[(nread + k - 1) % PIPESIZE]]
InOrder == Stream!Spec

\* While nobody holds pi->lock, a writer asleep has found the pipe full and
\* somebody may still read, a reader asleep has found it empty and somebody may
\* still write.
WriterSleepsFull == \A p \in Procs : chan[p] = "nwrite" => full /\ "read" \in open
ReaderSleepsEmpty == \A p \in Procs : chan[p] = "nread" => empty /\ "write" \in open

\* No wakeup of piperead(), pipewrite() or pipeclose() is lost, but for one
\* case: a pipewrite() that gives up after some bytes returns without waking
\* anybody, and the readers wait until a later pipewrite() or the pipeclose()
\* of the write end (pipe.c:58-127).
NobodyWaitsInVain == lock = Nobody => WriterSleepsFull /\ (gaveup \/ ReaderSleepsEmpty)

\* kfree() comes exactly when the last reference of both files is gone and
\* both pipeclose() are through; nobody is inside a pipe operation then.
FreedOnce ==
    /\ allocated <=> \/ fds # {}
                     \/ \E p \in Procs : pc[p] \in {"close_read", "close_write"}
    /\ ~allocated => \A p \in Procs : pc[p] = "user"

\* The pipe as an object: indices and counters in range, freed in time.
PipeOK == TypeOK /\ FreedOnce

=============================================================================
