# A TLA+ verification of the operating system course repository

The repository holds three copies of xv6 for RISC-V, each with the work of one
assignment in it, and this directory holds models of their parts, the runs
that check them and proofs about them:

- `MP0/mp0/xv6`: the oldest copy, with a directory tree command (`user/mp0.c`);
- `mp1/xv6`: with a library of user-level threads (`user/threads.c`);
- `mp2`: a newer kernel with page faults on demand, swapping, `madvise()` and a
  page replacement buffer (`kernel/vm.c`, `paging.c`, `fifo.c`, `lru.c`).

Much of the kernel is the same in two or three of them; a module says which copy
it models, and where copies differ in something that matters, a constant or an
initial choice selects the copy.

Run a check with `tlc -workers 2 -config X.cfg MCModule` (the module of each `.cfg` is
in `PROJECT.json`), the proofs with `tlapm M.tla` for each module `M` whose name ends in `Proofs`.
`PROJECT.json` lists the runs, the line of source behind every definition, the
mutants that show that each property can fail, the disagreements between code and
comments that were met, and the hazards the properties are for.

## Inventory

| Part | State | Operations | Interacts with | What is hard | What makes it correct | Modules |
|---|---|---|---|---|---|---|
| Spin locks, scheduler, sleep/wakeup, sleep locks (`spinlock.c`, `proc.c`, `sleeplock.c`) | lock words, `noff`, `intena`, process states, channels | `acquire`, `release`, `sched`, `yield`, `scheduler`, `sleep`, `wakeup`, `kill`, `acquiresleep`, `releasesleep` | everything | harts, timer interrupts, a thread that changes hart | exclusion, one hart per stack, no lost wakeup, no panic | SleepLock |
| Process life cycle (`proc.c`) | process table, `wait_lock`, `nextpid` | `fork`, `exit`, `wait`, `kill` | locks, memory, files | table scans one lock at a time, whole families that exit at once | a whole family tree, no missed child, no slot reused too early, no ring of locks | Proc, ParentLocks |
| Redo log (`log.c`) | log header in memory and on disk, pins, outstanding calls | `begin_op`, `log_write`, `end_op`, `commit`, recovery | disk, file system calls | crashes between writes, group commit, log space | atomic and durable calls | Log, TxnDisk |
| Buffer cache and disk driver (`bio.c`, `virtio_disk.c`) | LRU list, reference counts, descriptors, used ring | `bread`, `bwrite`, `brelse`, `write_page_to_disk`, `virtio_disk_rw`, `virtio_disk_intr` | log, sleep, device | two misses at once, interrupts that cover several requests or none | one buffer per block, every request answered, descriptors kept | BlockIO |
| Inodes, directories, file calls (`fs.c`, `file.c`, `sysfile.c`) | inode cache, inodes and bitmap on disk, directories, descriptors | `iget`, `ilock`, `iput`, `namex`, `create`, `link`, `unlink`, `mkdir`, `chdir`, `read`, `write`, `close` | log, sleep locks | calls that race on one name, the last reference, failure half-way | counts match what there is, open files stay, no unexpected panic | Inode, Syscalls |
| User memory and swapping (`mp2/kernel/vm.c`, `paging.c`) | page tables, free pages, swap blocks | page fault, `sbrk`, `madvise`, `fork`'s copy, freeing | process life cycle, disk | running out half-way, swapped pages meeting old code | one owner per page, no block with two, blocks lost only where the code gives them up, no foreign data | Paging |
| Page replacement buffer (`vm.c`, `lru.c`, `fifo.c`) | a global array | every `walk()`, `madvise()`, `vmprint()` | user memory | walkers that interleave without a lock, stale indices, removal in mid-scan | order of replacement and valid indices, as long as lookups do not overlap | PrBuffer |
| Pipes (`pipe.c`) | ring, counters, open ends | read, write, close | sleep, files, kill | several readers and writers that block half-way, counters that wrap | a FIFO, freed once, nobody asleep in vain | Pipe, Fifo |
| Console and UART (`console.c`, `uart.c`) | two rings and their indices | keys, line editing, echo, read, write, transmitter | sleep, interrupts | indices that wrap, two ways to the transmitter | typed lines and output arrive in order | Terminal |
| Clock (`trap.c`, `sysproc.c`) | `ticks` | timer interrupt, `sleep()` | sleep, kill | unsigned arithmetic that wraps | sleeps of the right length | Clock |
| User threads (`mp1/xv6/user/threads.c`) | run queue, task arrays, saved contexts | `thread_create`, `thread_yield`, `thread_exit`, `thread_assign_task`, dispatch | `setjmp`/`longjmp`, malloc | long sequences of yields, tasks and returns | round robin, last come first served, contexts kept | Threads, Coroutines, ThreadTests |
| User allocator (`umalloc.c`) | circular free list | `malloc`, `free` | `sbrk` | joining neighbours in any order | every unit has one owner | Umalloc |
| System calls as programs see them, `exec()` (`mp1/xv6/kernel`) | processes, descriptors, memory, files | every call | all of the kernel | failure half-way, each with its own undoing | what `usertests` asserts; whatever a call took before it failed is given back; nothing left over at the end | Syscalls |
| Programs (`sh.c`, `grep.c`, `usertests.c`, `mp0.c`, ...) | variables, lines | main programs, parser, matcher | system calls | descriptors in the processes of a pipeline, buffer ends | what they mean to write | Script, Text, Shell, Programs, Grind, Tree, UserTests |
| Boot, interrupt controller, kernel page table, `mkfs`, graders | | | | | | see "Not modelled" |

## Modules

**SleepLock** is the synchronisation core.  Its variables are the fields of
`struct cpu`, `struct proc`, `struct spinlock` and `struct sleeplock` that the
code uses, plus where each kernel thread is.  Every acquisition of a lock that
overlaps another one is a step; timer interrupts (`yield`) come wherever
interrupts are enabled; `kill()` comes at any time.  A panic is a state.

**Log** models `log.c` with the buffers it works on and the disk.  Between any
two block writes of `commit()` and of recovery there may be a crash, which keeps
the disk only.  `RecoverUnpins` selects MP0's `install_trans()`, `UseLog` mp2's
file system with its `log_write()` calls commented out.  **TxnDisk** is what the
log promises: a disk whose durable contents change by whole transactions.
`Log!Atomicity` is the refinement.

**Threads** models all of `threads.c`; **Coroutines** is the abstract scheduler
(round robin over threads, the newest unfinished task of a thread first) and
`LCFS` the refinement.  Clients are groups of threads with habits: what they do
beyond what the test programs do.  `Proper` clients are those whose calls stay
within what the library is written for, and `ContextsKept` and `LCFS` speak of
them.  **ThreadTests** has the five test programs of mp1 as clients of Threads.

**Paging** models user memory of mp2 page by page, with the loops of `uvmcopy()`,
`uvmfree()` and `madvise()` running one page per step.  A swapped page table entry has
its block until something is mapped over it or its table is freed; what is still
allocated then belongs to nobody, as in the code.  **PrBuffer** models the
page replacement buffer call by call of `lru.c` and `fifo.c`, with any number of
walkers: no lock protects the buffer, so they interleave between any two of these calls.
`raced` is a history variable: two walkers have been between a find and the use of what it
returned at the same time.  The two modules meet only in the flags of page table
entries, which PrBuffer lets change as `madvise()`, faults and unmapping change them.

**Proc** models `fork()`, `exit()`, `wait()` and `kill()` of mp2 slot by slot, with the
locks of the slots and `wait_lock`.  `condemned` is a history variable.
**ParentLocks** extends it with the protocol of MP0 and mp1, which have no
`wait_lock`: `wait()` keeps its own lock over the scan and in `sleep()`, and `exit()`
locks its copy of `p->parent` and then itself.

**Pipe** models `pipe.c` round by round, both versions of `pipewrite()`
(`copy`), and the reference counts of the two files.  **Fifo** is what it
promises, `InOrder` the refinement.

**BlockIO** models `bio.c` on top of `virtio_disk.c`, with the device as an external
actor that does requests in any order and reports them in the used ring; one
interrupt may find several reports or none.  Lengths of the descriptor queue
differ (`Queues`), so that one or two requests fit.

**Inode** models MP0's inodes and the calls on them.  A step ends wherever a call
takes another lock or may give up the last reference to an inode.  An inode is
`dinode` on disk and `icache` in memory; `gen`, `lost` and `leaked` are history variables
that say which life of an inode a file was opened in, and what the code is known
to forget.

**Terminal**, **Clock** and **Umalloc** model the console with its serial port, the
ticks with `sys_sleep()`, and `malloc()` with `free()`; `Umalloc!Offset` selects what
`malloc()` returns in each copy.

**Script** is a notation for user programs: a statement is one system call, or one
step of the program's own, with what the program does about each result.
**Text**, **Shell**, **Programs**, **Grind**, **Tree** and **UserTests** are the programs of
the user directory in it, and **Syscalls** is the kernel under them, one call a step
except where the kernel lets other processes in between.  A call that can fail half-way
is a sequence of kernels, each made from the one before by one call in the code, and
a failure goes on with the cleanup of the code: `uvmalloc()` page by page with its
`uvmdealloc()`, `uvmcopy()` with its `err:`, `exec()` with its `bad:`, `fork()`, `open()`,
`pipe()` and `link()` with theirs.  Nothing says that the kernel is then as before:
`KernelOK` would find what is left over.  A page table is one page; nobody passes `MAXARG`
arguments to `exec()`.  `init` starts one of the
programs, or the shell with a line typed into it; `greedy`, which is not in the repository,
asks for more than there is: with all descriptors in use or all but one, no open file left,
0 to 5 pages left, addresses that hold one of two descriptors or none, and arguments that do
not fit.

The parts of an invariant are definitions of their own (`TypeOK`, `PinsMatch`,
`RingOK`, `Kept`, `PageOwnership`, `FamilyTree`, `FreedOnce`, `Partition` and so on);
`LogOK`, `ThreadsOK`, `Ownership`, `BufferOK`, `TableOK`, `PipeOK`, `HeapOK`, `InodeOK`
and the other names of the runs put together what describes one data structure.

Modules build on each other's results rather than on each other's state: Log,
Pipe, BlockIO, Terminal and Clock take `sleep()` as one step because SleepLock shows
that no wakeup is lost between its two locks; Inode and BlockIO take a sleep lock as
an owner for the same reason; Proc leaves the switch between threads to
SleepLock and memory to Paging; Syscalls takes as one step what Inode, Pipe, Proc and
Log take apart.

Four MC modules put parts beside each other that share no state: MCMemory (Paging and
PrBuffer), MCFiles (Inode and Terminal), MCDevices (BlockIO, Clock, Umalloc) and MCProc
(Proc and ParentLocks, the same table under either protocol).  A behaviour
is of one part, chosen at the start, and the others keep their first state; so
each property is checked on its own part exactly as if it ran alone.

## Runs, bounds, results

| Run | Instance | States | Shows |
|---|---|---|---|
| sleeplock | 2 processes, 2 harts, 1 sleep lock, one may be killed | 43 thousand | exclusion, stacks, wakeups, masking, no panic; a sleeper is woken |
| log | 2 processes, 3 blocks, 2 values, crashes anywhere, room for two calls; 3 processes, 2 blocks, 1 value, no crash | 249 thousand | refinement of TxnDisk, write-ahead, pins match, room never runs out; whoever waits in `begin_op()` is woken |
| threads | up to 3 threads with up to two tasks each, coming and going; 2 threads with every habit but `self` | | run queue whole, contexts and tasks kept, refinement of Coroutines, no starvation |
| memory | 2 processes, 6 physical pages, 1 swap slot, 4 user pages, with advice about swapping from both, or with pins from the first; 2 walkers, 3 entries, a buffer of 2, both policies | 2.5 million | ownership of pages and blocks, where blocks are lost and where not, isolation, why the kernel panics; order and eviction until two walkers overlap, and a buffer left by one entry at most even then |
| paging_swap | 1 process | | counterexample |
| proc | 3 slots, pids up to 4 | 97 thousand | family tree, locks as the code takes them, no missed child or wakeup, stacks, orphans reaped |
| parent_locks | 4 slots without `wait_lock`, no `kill()` | | counterexample |
| pipe | 3 processes, both copies, 2 bytes, counters modulo 4, reads and writes of 1 or 3 bytes | | refinement of Fifo, who sleeps and why, freeing |
| files | 2 processes with 3 calls each on five trees of up to 5 inodes; a console with lines of 2 keys, a reader or two writers | 782 thousand | counts and references, open files, panics; lines and output |
| inode_leak | 2 processes on the same trees | | counterexample |
| devices | 2 processes, 1 or 2 buffers, 2 blocks, 5 or 6 descriptors; 2 sleepers, a clock of 4 ticks; a heap of 7 units | 361 thousand | coherent blocks, answers, lengths of sleeps, every unit owned once |
| userland | 99 scenarios of a program or a session at the shell | 278 thousand | what the programs and tests assert; what a call took is given back when it fails, and nothing is left over |

The bounds are chosen so that the hard cases happen: a third process to sneak in
between two others; a buffer, cache, queue or log smaller than what is asked for;
counters that wrap at twice the ring's size, which is the least that keeps full
and empty apart, and a clock that wraps within one sleep; a table with room for a
parent and a child beside init, so that a family exits together; pids beyond the
number of slots, so that slots are reused; chunks smaller than the largest block;
trees on which two calls meet in one directory, on one inode, on its last name
and on its last reference, or find no inode, block or entry left; files, pipes and
lines longer than one block, one page, one transaction or one buffer of the
program that reads them.  In `userland` each scenario runs in every interleaving of
the system calls of its processes; the sizes are those of `MCUserland.cfg`, chosen so
that the limits the tests push against (`NPROC`, `NOFILE`, pages, blocks, `MAXFILE`)
are reached.  Symmetry is used in the pipe run, over processes and bytes, and in the memory
run, over walkers, which the models do not order; neither run has a liveness property.

Three processes in the log run tell the two wakeups of `end_op()` apart: with
two, whoever waits in `begin_op()` waits for a commit; with three, a call can also end while
another is outstanding, and must then wake the third for the reservation it gave back.
At the page replacement buffer there are pins in the FIFO build only, the one that looks at
them; nothing is swapped out before the first pin, or swapped out or unmapped after it; one
page is unmapped at a time, and one walker at a time does more than map.  Walkers that
have raced end what they are doing and begin nothing new, as the properties claim little
of them.

Where the proofs below hold for every size, the instance only has to be large enough
to find the mutants: two processes are for SleepLock and BlockIO, and one swap slot and
two processes for Paging, where a behaviour that mixes swapping by both processes with
pins would be too many states.  Likewise a reader and a writer at one console share only
the interrupt handler, whose echoes go to the transmitter and whose keys to the ring; a
run sees it with a reader and with two writers, and `ConsoleSound` is for any number of both.

Deadlock is checked except where the system really may stop: in the pipe run a
program that reads from a pipe of which it holds the only write end; in `proc` and
`parent_locks` a family without `wait_lock` (below).  In `userland` the only state that
may stop is one in which every program has ended, so that the absence of deadlock
says that every scenario comes to its end or goes on for ever.  That says nothing of the
lost `kill()` below: a killed process always gets to exit there.

### Where code and comments disagree

Three runs end in a counterexample, with a finding in `PROJECT.json` each:

- `paging_swap`: a page that was swapped out comes back as zeros, because nothing
  reads it back from disk (`Integrity`);
- `parent_locks`: in MP0 and mp1 an `exit()` locks the slot of a parent that has
  meanwhile exited, been reaped and given its slot to the process's own grandchild;
  with the child's `exit()` it closes a circle of two processes that spin for each
  other's locks (`NoCircle`), where the comment at `proc.c:367` expects no more than a
  spurious wakeup;
- `inode_leak`: an inode that `iput()` has freed on disk, but not yet let go of, is
  allocated again, unlinked and put by its new owner, and nobody frees it any more
  (`Reclaimed`).

### What the code does otherwise

The passing runs keep out, by a constant, by a precondition or in the wording of a
property, what else the models show to go wrong.  Changing the constant gives the
trace:

| Module | Set | Then fails | Because |
|---|---|---|---|
| Log | `NLOG = LOGSIZE = 3`, `MAXOPBLOCKS = 1` | `LogOK` | mkfs lays out LOGSIZE blocks, header included, while `begin_op()` counts on LOGSIZE data blocks |
| Log | `RecoverUnpins = TRUE` (MP0) | `LogOK` | recovery unpins buffers that nobody pinned; mp1 and mp2 fix it |
| Log | `UseLog = FALSE` (mp2) | `QuietIsDurable` | the calls of `log_write()` in `fs.c` are commented out |
| Threads | two functions in `Fn` | `ContextsKept` | all tasks of a thread start on the same memory, `threads.c:94` |
| Proc | `KillZero = TRUE` | `WaitLockSound` | `kill(0)` matches a free slot, whose next process is born killed |
| Umalloc | `Offset = 0` (mp2) | `HeapOK` | `malloc()` returns the address of the header |
| Paging | check `BlocksHeld`, with the configuration of `paging_swap` | | a page that was swapped out is touched again, and its block stays allocated for ever |
| PrBuffer | check `IndexInBounds` of `PrSpec`, with two walkers and the sizes of the memory run | | a walker finds an entry, another one pops the oldest, and the first pops at an index out of bounds: the panic of `lru.c:34` or `fifo.c:45` |
| Pipe | check `ReaderSleepsEmpty` | | a `pipewrite()` that gives up half-way wakes no reader: `NobodyWaitsInVain` names it as the only case |

And, in words:

- Threads: a thread that assigns the same function as its own (the habit `"self"`) meets
  flags that take a function for a task (`threads.c:53`) or drop the wrong task on return
  (line 102); one that assigns more tasks than `MAX_TASK` (`"flood"`) meets no bound
  check.  `ContextsKept` and `LCFS` are therefore stated for `Proper` clients.
- Paging: `PanicCauses` names the ways in which a program that uses memory beyond
  `p->sz`, or forks with swapped pages, stops the kernel; touching the stack guard page
  is another (`handle_pgfault()`, panic in `mappages()`).
- A pinned page is paged out by `MADV_DONTNEED`, LRU evicts it, and FIFO does too in some
  states; `MADV_DONTNEED` leaves all but the last page of its range in the buffer.  No
  property about pins holds of the code, so none is stated; that the last page does
  leave is proved (`LastTrimmed`).
- Paging: `bfree_page()` is called nowhere.  `uvmunmap()` passes over swapped pages, so exit, a
  failed `fork()` and shrinking leave their blocks behind; a fault, `MADV_WILLNEED` and growing
  again map over a swapped entry.  `BlocksKept` says that blocks are lost there and
  nowhere else, `SwapOwnership` that a block has never two owners; nothing says that every
  allocated block has one, since that is false.
- Nothing protects the page replacement buffer.  Once two walkers have overlapped
  (`raced`) an index may be out of bounds, as above, or in bounds and of another
  entry; an entry may be there twice, and FIFO may write one entry past its array, onto
  the field `pin` behind it.  `BufferOK`, `LeastRecentEvicted` and `LastTrimmed` speak of
  the time before; only the bounds of `PrTypeOK` are claimed after it.
- The buffer may also keep entries of page tables that have been freed: `uvmunmap()` and
  `freewalk()` do not remove them, and `pgprint()` prints them.  PrBuffer gives entries no
  life of their own, and no property speaks of it.
- A `kill()` between the last test of `p->killed` in `wait()`, `piperead()` or `consoleread()` and
  the `sleep()` that follows leaves its victim asleep until it is woken for another reason,
  so "a killed process exits" is not claimed.
- In MP0 and mp1, `allocproc()` that finds no page for a trapframe leaves its pid in the
  free slot, so a `kill()` of that pid marks a process to come (`proc.c:111`); and `init` may
  fall asleep beside a zombie that was handed to it in mid-scan, until its next wakeup.
  `WaitLockSound` and `Reaped` speak of mp2.
- Inode: a path through `..` of a directory that has been removed may reach an inode that
  is another one by now (`PanicCauses`, "stray").
- Terminal: a `^D` that is not at the start of a line is read again on the next call; output
  is claimed to be in order, not to arrive: an echo for ever may keep the transmitter
  busy, and the handler of a key busy-waits in `uartputc_sync()`.
- BlockIO is the driver of mp1 and mp2.  `virtio_disk_intr()` of MP0 acknowledges the interrupt
  after its loop and not before it (`MP0/mp0/xv6/kernel/virtio_disk.c:268`), so that a
  request that completes between the last test and the acknowledgement waits for the
  interrupt of another.  `NobodyStuck` does not speak of MP0.
- Clock: a negative argument of `sleep()` is a very large one in the unsigned comparison.
- `mp0`: nothing orders the totals that the parent prints and the empty line of the child
  (`mp0.c:153-164`), where `grade-mp0.py:34-52` expects one order; `ProgramsOK` accepts any.
- `grep` does not print a last line that has no newline, and reads no further than a line
  longer than its buffer (`LinesOf`).

### Fairness

- A kernel thread that can run goes on (weak fairness), and a spin lock that is
  free again and again is obtained (strong fairness): `acquire()` spins on an atomic
  swap, critical sections are short and every hart keeps running.  The scheduler
  visits every slot in turn, so a process that is RUNNABLE again and again is run
  (strong fairness of `scheduler_run`).
- Log assumes that a call that has begun goes on to `end_op()` and that recovery
  finishes; nothing is assumed of crashes.
- Threads are cooperative: clients are assumed to yield, return or exit in the end,
  as the library needs.
- In Proc a killed process meets a timer interrupt, and `init` calls `wait()` again
  and again (`user/init.c`); other programs may run for ever.  The bound on pids
  keeps children of init in lower slots from overtaking for ever.  Nothing is
  assumed, or claimed, of progress without `wait_lock`, where the kernel may spin.
- In BlockIO the device does every request it is given (weak fairness of each), its
  handler goes on, and a process that has been woken gets a lock that is free again and
  again (strong fairness of `Wait`).  Nothing is assumed of the processes outside a
  request.
- Umalloc is sequential: a call goes on.
- No fairness is assumed in `userland`, `files`, `memory` and `pipe`, which check safety.

## Proofs

The runs check small instances; these theorems hold for every value of the constants.

| Module | Theorems, and the properties they state | Assumes |
|---|---|---|
| SleepProofs | `Soundness` (`KernelSound`), `MutualExclusion`, `StacksOwned`, `WakeupsKept`, `MaskingNests`; `SleepsCount` (`ClockOK`); `ConsoleSound` (`TerminalOK`) | `SleepLockAssumption`: at least one slot; the null pointer is no hart, lock or number; for the clock `ClockAssumption`: a counter of at least one bit; for the console `TerminalAssumption`: the range of the indices is a multiple of the ring's size |
| InodeProofs | `InodeSound` (`InodeOK`) | `InodeAssumption`: finitely many processes, inodes and blocks, and trees whose entries name inodes (`Tree`) |
| PipeHeapProofs | `PipeFreed` (`PipeOK`), `WakeupsKept` (`NobodyWaitsInVain`), `PipeIsFifo` (`InOrder`); `HeapSound` (`HeapOK`) | `PipeAssumption`; for the heap `UmallocAssumption` and `Offset = 1` |
| LogProofs | `LogBookkeeping` (`LogOK`), `QuietDurable`, `LogIsAtomic` (`Atomicity`) | `LogAssumption`, and `InUse` |
| PagingProofs | `PagesOwned` (`Ownership`), `BlocksLost` (`BlocksKept`), `PagesIsolated` (`Isolation`), `PanicsExplained` (`PanicCauses`); `BufferSound` (`BufferOK`), `BufferKeepsRecent` (`LeastRecentEvicted`), `BufferForgetsLast` (`LastTrimmed`) | `PagingAssumption`; for the buffer `PrBufferAssumption` (room for two entries) |
| ProcProofs | `FamilyIsATree` (`TableOK`), `StacksRetired`, `WaitLockSuffices` (`WaitLockSound`), `ParentLocksSuffice` (`FamilyOK`) | `ProcAssumption`; `WaitLockSuffices` also `~KillZero` |
| BlockProofs | `CacheCoherent` (`BlockOK`) | `BlockIOAssumption`: a buffer, finitely many processes, queue lengths with a greatest one |
| ThreadsProofs | `QueueWhole` (`ThreadsOK`), `ContextsSurvive` (`ContextsKept`), `LibraryIsLCFS` (`LCFS`) | `ThreadsAssumption`; the last two also `[]SameFunction` |

The assumptions on constants are in the modules that declare them.  Some theorems have a
hypothesis of their own.  `InUse` is the log as the file system of MP0 and mp1 uses it,
with mp1's recovery, on a disk that mkfs made with room for a whole log, under
system calls that leave one of their `MAXOPBLOCKS` blocks alone: `log_write()` panics one
block before the log is full (`log.c:219`), so calls that took every block would meet
that panic, and `filewrite()` keeps below by its own margin.  `~KillZero` leaves out
`kill(0)`, which the table above shows to break `WaitLockSound`.  `SameFunction` says that
the unfinished tasks of a thread run the same function, as at the three places where
mp1's test programs assign tasks; two functions break `ContextsKept`, as the table shows.
The three theorems about the buffer are for any number of walkers; what they say of its
order and of indices, they say until `raced`, since it is false afterwards (above).
`Offset = 1` is the `malloc()` of MP0 and mp1; mp2's returns the address of the header,
and the program's first store breaks `HeapOK`, as the table shows.

None of these invariants but `ClockOK` is inductive.  Each module states an inductive
invariant in named parts, has a lemma for every action, then that the first states
satisfy it and every step keeps it, and derives the properties from it alone.

**SleepLock.**  Exclusion holds because whoever tests
`lk->locked` holds the spin lock inside, which holds because `sleep()` gave it
back and took it again, which it could do because a hart runs one thread.  The
invariant `IInv` says this once for every program point: which locks
the thread at that point holds and on which hart (`PLockInv`, `LkInv`), how deep
`noff` is and whether interrupts may be on (`OffInv`), that a hart's `c->proc` is the
thread it executes and no two harts have the same (`HartInv`), what the thread has
learnt of the sleep lock (`ProcInv`, `OwnerInv`), and for every sleeper who is
going to wake it: an owner that has yet to release, or a `wakeup()` scan that has
not passed the sleeper's slot.

**Inodes.**  `InodeInv` says what each of a process's variables may name at each point of a
call (`Shape`; an `iput()` counts as part of what follows it), that counts and locks agree with
those variables (`RefsCounted`, `LocksHeld`), that what is locked is valid and what is valid is
allocated and as on the disk (`CopyOK`), and who owns the blocks (`BlocksOwned`).  The lemmas
change one entry of the cache, or two, and one process's variables at a time: a step that
moves a reference from one variable to another leaves the count (`RefStep`, `InodeStep`), which is
why `iget()` before the lock is enough to keep an inode.  That `iput()` finds the last inode unlocked
is then counting: with one reference, its own, nobody else has the inode to lock it (`LastUnlocked`).
`create()` may find its new directory written: a stray `..` leads another process to it first.
Its blocks stay then, since `bmap()` allocates only what is missing.

**Clock.**  `ClockOK` says between calls of
`sys_sleep()`'s test what the counter has gone since the call: as far as the ghost
`slept` says, or a turn less (`Counted`).  `Elapsed` turns that, by the arithmetic of
remainders, into what the unsigned subtraction yields.

**Console.**  The induction needs besides `TerminalOK` who has
`cons.lock` (`Calls`): one call at most between its sleeps, and only one that still has a byte
to get, who found the ring empty if it is about to sleep.  The ring between two indices that wrap is
seen as a sequence, and putting a byte at its end, taking one from either end and joining
two of them are lemmas (`ViewPut`, `ViewTail`, `ViewFront`, `ViewJoin`); they need the range of
the indices to be a multiple of the ring's size.  The bytes of a writer in the transmitter and its ring are
always those after the last one sent, in order (`Kept`).

**Pipe.**  `PipeInv` adds to the types which open end each process still stands for
(`Files`), so that the page is freed by the last of them, and who has to
be awake whenever another sleeps (`Wakeups`).  The two counters wrap; that the ring and
the abstract queue agree across the wrap is the arithmetic of remainders (`ModTurn`,
`ModDiffers`), which needs the counters to wrap at a multiple of the ring's size.

**Heap.**  `HeapOK` speaks of the states between calls, and of the list as the walk
`FreeBlocks`.  `HeapInv` holds in the middle of a call too: there is a set of addresses, `F`, through
which the list is the circle in ascending order (`Circle`), and the blocks of `F`, those in use
and the one on its way to the list tile the memory (`Tiling`).  Splitting, joining and
adding a block are lemmas about these two (`TilingSplits`, `TilingJoins`, `CircleDrops`,
`CircleAdds`, ...).  When the search of `free()` stops, the block lies between `p` and its successor
(`CirclePlaces`), so these are the only two it can touch (`Touching`); that is why one look in
each direction keeps free blocks apart.  The walk of `FreeBlocks`, a recursive function, exists and meets
exactly `F`, by a least counterexample: every hop goes up an address at least, until base
(`HopsReach`, `HopsReturn`).

**Log.**  `LogInv` says who may do what (`Phases`), where the loops of `commit()` and of recovery
are in the header (`Headers`), that a block's copies in the cache, in the log and in
place agree as far as the loop has come (`Copies`), that a buffer is pinned exactly while
the log needs it (`Pins`), and that the blocks reserved for calls under way are still
there (`Reservations`, a cardinality).  From it each step is a step of `TxnDisk` or a
stutter: what is durable changes when the header is written, at once, and at no other
step, crashes included.

**Paging.**  `Ownership` counts owners, which no step can be shown to keep; `Owners`
says the same as a bijection: every page is at one place of the free list or under one page
table entry.  `Families` and `Spaces` tell how far `fork()`'s copy, its undoing, a shrinking
`sbrk()` and `exit()` have come, without which the page that a loop takes next might be
unmapped; `Isolation` needs them because a page that is freed is filled with junk, and one
that is handed out is filled by its new owner before it is seen.  `BlocksLost` goes through the
same actions: each one that changes an entry either leaves its block number alone, or is one of
those that `Kept` names.

**Page replacement buffer.**  `BufferInv` has a part that no race can disturb, the types
(`PrTypeOK`: `lru_push()` refuses a full buffer, `q_push()` one that is more than full), and a part that
holds until one, `~raced => PrInv /\ ~Overlap`.  Then
between two lookups the buffer has no entry twice and is in the
order of the policy.  During one, `PrInv` says where its walker stands (`Replacing`): at `lru_pop()`
the entry is at the index found and all the others are in order; at `lru_push()` or `q_push()` there is room and
the entry is not there; in LRU it is the latest of all that have been looked up (`Latest`),
and what was evicted before is older than all that is left (`Gone`).  A walker in that window is the
only one (`Solo`), so what the others do before and after theirs leaves what it has found
as it was (`Alone`).

**Proc.**  With `wait_lock` (`ProcInv`): whoever scans the table for children, hands them
over or is about to sleep holds it, and nobody changes a parent or becomes a zombie
without it; so what a loop has seen below its slot is still so (`Exits`, `Waits`).
`freeproc()` meets only zombies whose lock is free, and the dying thread keeps that lock
until it has left its stack (`Threads`, `Locks`).  Without `wait_lock` (`FamilyInv`): a process
becomes a zombie and wakes its parent under the lock of the parent that it had when
`exit()` looked; that one is its parent still, or has handed it to init; and
a parent scans under its own lock, so the two exclude each other.  That is enough
for `FamilyOK`, in any number of slots, although `NoCircle` fails.

**BlockIO.**  Who sleeps in `virtio_disk_rw()` holds the lock of its buffer and has the only
chain for it (`Holders`, `Waiters`), so a report that clears `b->disk` means that very request
(`Reports`), and what the buffer has from then on is what the disk has, until its holder
writes to it (`Contents`).  A buffer that is recycled has nobody who uses it
(`Counted`), and a miss gives a block to a buffer only when no other has it (`OneCopy`).
No descriptor is lost or shared (`Descriptors`), also when `alloc3_desc()` fails half-way.

**Threads.**  The run queue is at any time the circle of one sequence of threads (`Ring`), to
which `thread_add_runqueue()` appends, which `schedule()` rotates and of which `thread_exit()`
takes the head off; `RoundIsRing` shows that the walk of `RingOK` is that sequence, so it holds
whatever the clients do, in a queue of any length.  The context that runs is the one
`current_task` names (`Running`), so what `thread_yield()` saves is found under the same
index (`Saved`), and the flags tell for every task up to `num_tasks` whether it is to be
started or resumed (`Tasks`): `dispatch()` never has to skip one (`NeverSkips`).
`ContextsKept` needs, besides, that what the newest task left on the common task stack
suits the older ones (`Frames`).  From these every library call and every branch of
`dispatch()` is one step of Coroutines or a stutter: Append for a new thread, a rotation
for a yield, and the newest task first because `num_tasks` is the top of the stack.

Outside this prover's reach, and left to TLC: liveness under fairness (`SleeperWakes`,
`WaiterWakes`, `Served`, `Reaped`, `NobodyStuck`), and what a
recursive operator computes for every input (the parser of the shell, the matcher of grep,
the kernel of Syscalls; so `TestsPass`, `KernelOK` and `ProgramsOK`).  Model-checked only, because
their inductive invariant has not been found: `NamesCounted`, `OpenKept` and `PanicCauses` of
Inode, which speak of link counts; the stray `..` of a removed directory and the link that is
forgotten (above) are in the way of an invariant that counts names.

## Not modelled

- Boot (`start.c`, `main.c`, `entry.S`), the interrupt controller, the kernel's own page
  table and page-table pages: straight-line set-up that runs before there is
  concurrency, or memory that one process owns.
- Register saving in `trampoline.S`, `kernelvec.S`, `swtch.S` and `setjmp.S`: each is taken as
  saving and restoring a context.
- The layout of descriptors and memory-mapped registers of the virtio device, and the
  set-up of its queue; MP0's copy of the driver (above).
- Bytes: sectors and the packing of inodes in them, the block map (a file is its set
  of blocks, or a short sequence of bytes in Syscalls), ELF headers, string handling in
  C, `nulterminate()` of the shell.  `NINODE` is large enough in every instance.
- `mkfs` beyond the tree it makes; `ramdisk.c`, which is not linked; generated files.
- `fsfull()` of usertests, which runs for ever until the disk is full by design; `test1`
  of `testgen.c`, whose tree differs in size only; the graders themselves, whose expected
  output is stated in `ProgramsOK` and `TestsPass`.
- Scheduling in `userland` is of system calls; what runs inside one is the subject of the
  kernel modules.  Liveness there is the absence of deadlock; a temporal property over
  99 scenarios is out of TLC's reach.
