--------------------------------- MODULE Log ---------------------------------
(***************************************************************************)
(* The redo log of the file system (kernel/log.c) on top of the buffer     *)
(* cache and the disk, with crashes at any moment and recovery at boot.    *)
(*                                                                         *)
(* Processes run file system calls: begin_op(), some blocks read, changed, *)
(* passed to log_write() and released, then end_op().  log.lock makes      *)
(* begin_op(), log_write() and the two halves of end_op() atomic; between  *)
(* them, and between any two disk writes of commit(), other processes run  *)
(* and the machine may stop.  A bwrite() of one block is atomic and        *)
(* synchronous.  That sleep(&log, &log.lock) loses no wakeup is the        *)
(* subject of SleepLock.                                                   *)
(***************************************************************************)
EXTENDS Integers, Sequences, FiniteSets

CONSTANTS Procs, Blocks, Vals,
          None,           \* no buffer, no cached contents
          MAXOPBLOCKS,    \* blocks begin_op() reserves for one system call
          LOGSIZE,        \* entries of struct logheader
          NLOG,           \* sb->nlog: blocks of the on-disk log, header included
          OpWrites,       \* bound: block changes of one system call
          UINT,           \* bound: width of b->refcnt, an unsigned int
          RecoverUnpins,  \* install_trans() unpins when recovering too (MP0)
          UseLog          \* file system functions call log_write() (not in mp2)

ASSUME LogAssumption ==
    /\ MAXOPBLOCKS \in Nat \ {0} /\ LOGSIZE \in Nat /\ NLOG \in Nat
    /\ OpWrites \in 0 .. MAXOPBLOCKS
    /\ MAXOPBLOCKS <= LOGSIZE
    /\ UINT \in Nat /\ UINT > 2
    /\ None \notin Blocks /\ None \notin Vals
    /\ RecoverUnpins \in BOOLEAN /\ UseLog \in BOOLEAN
    /\ IsFiniteSet(Procs)

VARIABLES
    disk,         \* disk[b]: home location of block b on the disk
    dlog,         \* dlog[i]: data block i of the on-disk log
    head,         \* the on-disk header: the first n entries of block[]
    cache,        \* cache[b]: b->data of the buffer of block b, None: no buffer
    refcnt,       \* refcnt[b]: b->refcnt
    lh,           \* log.lh: the first n entries of block[]
    outstanding,  \* log.outstanding
    committing,   \* log.committing
    tail,         \* loop variable of write_log() and install_trans()
    boot,         \* where initlog() is; "up" once it has returned
    pc,           \* pc[p]: where process p is
    buf,          \* buf[p]: block whose buffer p has locked, or None
    nw,           \* nw[p]: blocks p has changed in this system call
    panicked      \* a panic() has been reached

diskVars == <<disk, dlog, head>>
bufVars  == <<cache, refcnt>>
logVars  == <<lh, outstanding, committing>>
opVars   == <<buf, nw>>
vars == <<disk, dlog, head, cache, refcnt, lh, outstanding, committing, tail,
          boot, pc, buf, nw, panicked>>

OpPCs     == {"op", "dirty", "logged"}
CommitPCs == {"write_log", "write_head", "install", "clear", "done"}
PCs       == {"idle", "begin", "sleeping"} \cup OpPCs \cup CommitPCs

Goto(p, l) == pc' = [pc EXCEPT ![p] = l]

\* What bread(b) returns: the cached data, read from the disk if there is none.
bread(b) == IF cache[b] # None THEN cache[b] ELSE disk[b]

\* wakeup(&log), by p, which goes on at l.
wakeup_log(p, l) ==
    pc' = [q \in Procs |-> IF q = p THEN l
                           ELSE IF pc[q] = "sleeping" THEN "begin" ELSE pc[q]]

Plus(n, k) == (n + k) % UINT
-----------------------------------------------------------------------------
log_full == Len(lh) + (outstanding + 1) * MAXOPBLOCKS > LOGSIZE

\* begin_op() waits: a commit is running, or this call might exhaust the log.
begin_op_sleep(p) ==
    /\ boot = "up" /\ pc[p] \in {"idle", "begin"}
    /\ committing \/ log_full
    /\ Goto(p, "sleeping")
    /\ UNCHANGED <<diskVars, bufVars, logVars, tail, boot, opVars, panicked>>

begin_op(p) ==
    /\ boot = "up" /\ pc[p] \in {"idle", "begin"}
    /\ ~committing /\ ~log_full
    /\ outstanding' = outstanding + 1
    /\ nw' = [nw EXCEPT ![p] = 0]
    /\ Goto(p, "op")
    /\ UNCHANGED <<diskVars, bufVars, lh, committing, tail, boot, buf, panicked>>

\* A file system function reads block b, locks its buffer and changes it.
modify(p, b, v) ==
    /\ pc[p] = "op" /\ nw[p] < OpWrites
    /\ \A q \in Procs : buf[q] # b
    /\ cache' = [cache EXCEPT ![b] = v]
    /\ refcnt' = [refcnt EXCEPT ![b] = Plus(@, 1)]
    /\ buf' = [buf EXCEPT ![p] = b]
    /\ nw' = [nw EXCEPT ![p] = @ + 1]
    /\ Goto(p, "dirty")
    /\ UNCHANGED <<diskVars, logVars, tail, boot, panicked>>

Logged(b) == \E i \in 1 .. Len(lh) : lh[i] = b

log_write_panics ==
    Len(lh) >= LOGSIZE \/ Len(lh) >= NLOG - 1 \/ outstanding < 1

\* Mutant: log_write() pins the buffer again when the block is absorbed.
log_write_repins(p) ==
    LET b == buf[p] IN
    /\ pc[p] = "dirty"
    /\ lh' = IF Logged(b) THEN lh ELSE Append(lh, b)
    /\ refcnt' = [refcnt EXCEPT ![b] = Plus(@, 1)]
    /\ Goto(p, "logged")
    /\ UNCHANGED <<diskVars, cache, outstanding, committing, tail, boot,
                   opVars, panicked>>

\* log_write(): a block already in the log is absorbed, a new one is pinned.
log_write(p) ==
    LET b == buf[p] IN
    /\ pc[p] = "dirty" /\ UseLog
    /\ panicked' = (panicked \/ log_write_panics)
    /\ lh' = IF Logged(b) THEN lh ELSE Append(lh, b)
    /\ refcnt' = [refcnt EXCEPT ![b] = IF Logged(b) THEN @ ELSE Plus(@, 1)]
    /\ Goto(p, "logged")
    /\ UNCHANGED <<diskVars, cache, outstanding, committing, tail, boot, opVars>>

\* brelse(): after log_write(), or right after the change where fs.c has its
\* calls of log_write() commented out.
brelse(p) ==
    /\ pc[p] = IF UseLog THEN "logged" ELSE "dirty"
    /\ refcnt' = [refcnt EXCEPT ![buf[p]] = Plus(@, -1)]
    /\ buf' = [buf EXCEPT ![p] = None]
    /\ Goto(p, "op")
    /\ UNCHANGED <<diskVars, cache, logVars, tail, boot, nw, panicked>>

\* Mutant: end_op() commits as soon as one system call ends.
end_op_eager(p) ==
    /\ pc[p] = "op"
    /\ outstanding' = outstanding - 1
    /\ panicked' = (panicked \/ committing)
    /\ committing' = TRUE
    /\ Goto(p, IF Len(lh) > 0 THEN "write_log" ELSE "done")
    /\ tail' = 1
    /\ UNCHANGED <<diskVars, bufVars, lh, boot, opVars>>

\* Mutant: commit() skips a transaction of one block.
end_op_skips(p) ==
    /\ pc[p] = "op"
    /\ outstanding' = outstanding - 1
    /\ panicked' = (panicked \/ committing)
    /\ \/ /\ outstanding = 1
          /\ committing' = TRUE
          /\ Goto(p, IF Len(lh) > 1 THEN "write_log" ELSE "done")
          /\ tail' = 1
       \/ /\ outstanding # 1
          /\ wakeup_log(p, "idle")
          /\ UNCHANGED <<committing, tail>>
    /\ UNCHANGED <<diskVars, bufVars, lh, boot, opVars>>

\* Mutant: a system call that is not the last to end wakes nobody.
end_op_silent(p) ==
    /\ pc[p] = "op"
    /\ outstanding' = outstanding - 1
    /\ panicked' = (panicked \/ committing)
    /\ IF outstanding = 1
       THEN /\ committing' = TRUE
            /\ Goto(p, IF Len(lh) > 0 THEN "write_log" ELSE "done")
            /\ tail' = 1
       ELSE Goto(p, "idle") /\ UNCHANGED <<committing, tail>>
    /\ UNCHANGED <<diskVars, bufVars, lh, boot, opVars>>

\* end_op(): the last system call to end commits, the others wake waiters.
end_op(p) ==
    /\ pc[p] = "op"
    /\ outstanding' = outstanding - 1
    /\ panicked' = (panicked \/ committing)
    /\ \/ /\ outstanding = 1
          /\ committing' = TRUE
          /\ Goto(p, IF Len(lh) > 0 THEN "write_log" ELSE "done")
          /\ tail' = 1
       \/ /\ outstanding # 1
          /\ wakeup_log(p, "idle")
          /\ UNCHANGED <<committing, tail>>
    /\ UNCHANGED <<diskVars, bufVars, lh, boot, opVars>>

\* One disk write of write_log(): cached block lh[tail] to log block tail.
write_log(p) ==
    LET last == tail = Len(lh) IN
    /\ pc[p] = "write_log"
    /\ dlog' = [dlog EXCEPT ![tail] = bread(lh[tail])]
    /\ cache' = [cache EXCEPT ![lh[tail]] = bread(lh[tail])]
    /\ tail' = IF last THEN 1 ELSE tail + 1
    /\ Goto(p, IF last THEN "write_head" ELSE "write_log")
    /\ UNCHANGED <<disk, head, refcnt, logVars, boot, opVars, panicked>>

\* One iteration of install_trans(): log block tail to its home location; the
\* buffer is unpinned if unpin.
install_block(unpin) ==
    LET b == lh[tail] IN
    /\ disk' = [disk EXCEPT ![b] = dlog[tail]]
    /\ cache' = [cache EXCEPT ![b] = dlog[tail]]
    /\ refcnt' = [refcnt EXCEPT ![b] = IF unpin THEN Plus(@, -1) ELSE @]

\* write_head(): the transaction is committed.
write_head(p) ==
    /\ pc[p] = "write_head"
    /\ head' = lh
    /\ Goto(p, "install")
    /\ UNCHANGED <<disk, dlog, bufVars, logVars, tail, boot, opVars, panicked>>

install_trans(p) ==
    /\ pc[p] = "install"
    /\ install_block(TRUE)
    /\ tail' = tail + 1
    /\ Goto(p, IF tail = Len(lh) THEN "clear" ELSE "install")
    /\ UNCHANGED <<dlog, head, logVars, boot, opVars, panicked>>

\* log.lh.n = 0; write_head(): the transaction is erased from the log.
clear(p) ==
    /\ pc[p] = "clear"
    /\ lh' = <<>>
    /\ head' = <<>>
    /\ tail' = 1
    /\ Goto(p, "done")
    /\ UNCHANGED <<disk, dlog, bufVars, outstanding, committing, boot, opVars,
                   panicked>>

end_op_done(p) ==
    /\ pc[p] = "done"
    /\ committing' = FALSE
    /\ wakeup_log(p, "idle")
    /\ UNCHANGED <<diskVars, bufVars, lh, outstanding, tail, boot, opVars,
                   panicked>>
-----------------------------------------------------------------------------
\* A reader outside any transaction: bread(b); brelse(b).
read_block(b) ==
    /\ boot = "up" /\ cache[b] = None
    /\ cache' = [cache EXCEPT ![b] = disk[b]]
    /\ UNCHANGED <<diskVars, refcnt, logVars, tail, boot, pc, opVars, panicked>>

\* bget() recycles an unused buffer for some other block.
recycle(b) ==
    /\ boot = "up" /\ cache[b] # None /\ refcnt[b] = 0
    /\ cache' = [cache EXCEPT ![b] = None]
    /\ UNCHANGED <<diskVars, refcnt, logVars, tail, boot, pc, opVars, panicked>>

\* The machine stops: everything but the disk is lost.
crash ==
    /\ boot' = "read_head"
    /\ cache' = [b \in Blocks |-> None]
    /\ refcnt' = [b \in Blocks |-> 0]
    /\ lh' = <<>> /\ outstanding' = 0 /\ committing' = FALSE /\ tail' = 1
    /\ pc' = [p \in Procs |-> "idle"]
    /\ buf' = [p \in Procs |-> None]
    /\ nw' = [p \in Procs |-> 0]
    /\ UNCHANGED <<diskVars, panicked>>

\* recover_from_log(): read_head()
read_head ==
    /\ boot = "read_head"
    /\ lh' = head
    /\ tail' = 1
    /\ boot' = IF Len(head) > 0 THEN "install" ELSE "clear"
    /\ UNCHANGED <<diskVars, bufVars, outstanding, committing, pc, opVars,
                   panicked>>

\* recover_from_log(): install_trans(1)
recover_install ==
    /\ boot = "install"
    /\ install_block(RecoverUnpins)
    /\ tail' = tail + 1
    /\ boot' = IF tail = Len(lh) THEN "clear" ELSE "install"
    /\ UNCHANGED <<dlog, head, logVars, pc, opVars, panicked>>

\* recover_from_log(): log.lh.n = 0; write_head()
recover_clear ==
    /\ boot = "clear"
    /\ lh' = <<>>
    /\ head' = <<>>
    /\ tail' = 1
    /\ boot' = "up"
    /\ UNCHANGED <<disk, dlog, bufVars, outstanding, committing, pc, opVars,
                   panicked>>
-----------------------------------------------------------------------------
Init ==
    /\ disk \in [Blocks -> Vals]
    /\ dlog = [i \in 1 .. LOGSIZE |-> None]
    /\ head = <<>>
    /\ cache = [b \in Blocks |-> None]
    /\ refcnt = [b \in Blocks |-> 0]
    /\ lh = <<>> /\ outstanding = 0 /\ committing = FALSE /\ tail = 1
    /\ boot = "read_head"
    /\ pc = [p \in Procs |-> "idle"]
    /\ buf = [p \in Procs |-> None]
    /\ nw = [p \in Procs |-> 0]
    /\ panicked = FALSE

commit(p) == write_log(p) \/ write_head(p) \/ install_trans(p) \/ clear(p)

recover_from_log == read_head \/ recover_install \/ recover_clear

Next ==
    \/ \E p \in Procs :
          \/ begin_op_sleep(p) \/ begin_op(p)
          \/ \E b \in Blocks, v \in Vals : modify(p, b, v)
          \/ log_write(p) \/ brelse(p) \/ end_op(p)
          \/ commit(p) \/ end_op_done(p)
    \/ \E b \in Blocks : read_block(b) \/ recycle(b)
    \/ crash
    \/ recover_from_log

Spec == Init /\ [][Next]_vars

(***************************************************************************)
(* Fairness: a process inside a system call goes on and finishes it, and a *)
(* boot finishes its recovery.  Nobody has to start a system call, to read *)
(* or to crash.                                                            *)
(***************************************************************************)
Fairness ==
    /\ \A p \in Procs :
          WF_vars(\/ log_write(p) \/ brelse(p) \/ end_op(p)
                  \/ commit(p) \/ end_op_done(p))
    /\ WF_vars(recover_from_log)

FairSpec == Spec /\ Fairness
-----------------------------------------------------------------------------
\* Every variable has the type its declaration in the source gives it.
TypeOK ==
    /\ disk \in [Blocks -> Vals]
    /\ dlog \in [1 .. LOGSIZE -> Vals \cup {None}]
    /\ head \in Seq(Blocks) /\ Len(head) <= LOGSIZE
    /\ cache \in [Blocks -> Vals \cup {None}]
    /\ refcnt \in [Blocks -> 0 .. UINT - 1]
    /\ lh \in Seq(Blocks) /\ Len(lh) <= LOGSIZE
    /\ outstanding \in Nat
    /\ committing \in BOOLEAN
    /\ tail \in 1 .. LOGSIZE + 1
    /\ boot \in {"read_head", "install", "clear", "up"}
    /\ pc \in [Procs -> PCs]
    /\ buf \in [Procs -> Blocks \cup {None}]
    /\ nw \in [Procs -> 0 .. OpWrites]
    /\ panicked \in BOOLEAN

Active == {p \in Procs : pc[p] \in OpPCs}

\* What a recovery would leave on the disk if the machine stopped now.
Durable ==
    [b \in Blocks |->
        IF \E i \in 1 .. Len(head) : head[i] = b
        THEN dlog[CHOOSE i \in 1 .. Len(head) : head[i] = b]
        ELSE disk[b]]

View == IF boot = "up" THEN [b \in Blocks |-> bread(b)] ELSE Durable

TD == INSTANCE TxnDisk WITH durable <- Durable, view <- View, active <- Active

\* log.c implements TxnDisk: a crash at any point, during a commit or during
\* a recovery too, followed by recover_from_log() yields exactly what the last
\* commit made durable, and no commit happens inside a system call.
Atomicity == TD!Spec

\* A buffer's reference count is one for the process that has it locked and
\* one for its entry in a transaction that is not installed yet: pins and
\* unpins of log_write() and install_trans() match, across recoveries too.
PinsMatch ==
    \A b \in Blocks :
        refcnt[b] =
            Cardinality({p \in Procs : buf[p] = b})
            + (IF /\ boot = "up"
                  /\ \E i \in 1 .. Len(lh) :
                        /\ lh[i] = b
                        /\ \A p \in Procs :
                              pc[p] \in {"install", "clear"} => i >= tail
               THEN 1 ELSE 0)

\* At most one process is in commit(), and then no system call is active;
\* log.outstanding counts the active ones.
CommitAlone ==
    /\ outstanding = Cardinality(Active)
    /\ \A p \in Procs : pc[p] \in CommitPCs =>
          /\ committing /\ outstanding = 0
          /\ \A q \in Procs : pc[q] \in CommitPCs => q = p

\* The log's bookkeeping (log.c:125-234): pins, calls and commits agree, and "too
\* big a transaction", "log_write outside of trans" and "log.committing" are
\* unreachable: what begin_op() reserves covers every log_write().
LogOK == TypeOK /\ PinsMatch /\ CommitAlone /\ ~panicked

\* When no system call is outstanding and no commit runs, all that was written
\* is durable.
QuietIsDurable ==
    boot = "up" /\ outstanding = 0 /\ ~committing => Durable = View

\* A process that sleeps in begin_op() is woken (or the machine stops).
WaiterWakes ==
    \A p \in Procs : (pc[p] = "sleeping") ~> (pc[p] # "sleeping")
=============================================================================
