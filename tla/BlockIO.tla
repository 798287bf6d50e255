------------------------------- MODULE BlockIO -------------------------------
(***************************************************************************)
(* The buffer cache (kernel/bio.c) over the disk driver                    *)
(* (kernel/virtio_disk.c).  Processes read a block, write it back, or      *)
(* write one without reading it (write_page_to_disk()); the device does    *)
(* the requests it has been given in any order and reports them in the     *)
(* used ring; one interrupt may find several reports, or none.             *)
(*                                                                         *)
(* What happens under bcache.lock is a step, and so is what                *)
(* virtio_disk_rw() does between taking vdisk_lock and giving it back,     *)
(* also inside sleep().  The handler holds vdisk_lock over its whole loop, *)
(* while the device goes on.  A buffer's sleep lock is modelled by its     *)
(* owner (SleepLock).                                                      *)
(***************************************************************************)
EXTENDS Integers, Sequences, FiniteSets, FiniteSetsExt, SequencesExt

CONSTANTS IOProc,   \* processes
          NBUF,     \* the largest number of buffers in the cache
          Sector,   \* bound: the blocks in use
          Queues,   \* the numbers of descriptors (NUM) to look at
          Nothing   \* the null pointer, no block

Bufs == 1 .. NBUF
Descs == 0 .. Max(Queues) - 1
Requested == [descs : SUBSET Descs, b : Bufs, write : BOOLEAN] \* struct info and the descriptors

ASSUME BlockIOAssumption ==
    /\ NBUF \in Nat \ {0} /\ IsFiniteSet(IOProc)
    /\ Queues \subseteq Nat \ {0} /\ \E n \in Queues : \A NUM \in Queues : NUM <= n
    /\ Nothing \notin Sector \cup IOProc \cup Requested

VARIABLES
    buf,      \* buf[b]: blockno, valid, refcnt, disk, data, and who has its lock
    lru,      \* the buffers, the most recently used first
    platter,  \* what the disk holds
    unused,   \* descriptors with free[i] = 1
    chain,    \* chain[i]: the request whose first descriptor is i, or Nothing
    posted,   \* requests the device has not done yet, by first descriptor
    used,     \* the reports of the used ring that the driver has not seen
    irq,      \* the device has raised an interrupt
    handling, \* virtio_disk_intr() runs
    io,       \* io[p]: where p is, what it wants the buffer for until it has put
              \* something into it, the buffer, the first descriptor
    nobuffers \* bget() has panicked

biovars == <<buf, lru, platter, unused, chain, posted, used, irq, handling, io, nobuffers>>
diskvars == <<platter, unused, chain, posted, used, irq, handling>>

Value == {0, 1}
Away == [at |-> "user", op |-> "bread", b |-> 1, head |-> 0]

BioInit ==
    /\ buf = [b \in Bufs |-> [blk |-> Nothing, valid |-> FALSE, ref |-> 0, disk |-> FALSE,
                              data |-> 0, owner |-> Nothing]]
    /\ \E k \in Bufs : lru = [i \in 1 .. k |-> k + 1 - i]
    /\ platter = [s \in Sector |-> 0]
    /\ \E NUM \in Queues : unused = 0 .. NUM - 1
    /\ chain = [i \in Descs |-> Nothing]
    /\ posted = {} /\ used = <<>> /\ irq = FALSE /\ handling = FALSE
    /\ io = [p \in IOProc |-> Away]
    /\ nobuffers = FALSE

At(p, place) == io[p].at = place /\ ~nobuffers
Go(p, place) == io' = [io EXCEPT ![p].at = place]

-----------------------------------------------------------------------------
(* bget(): the buffer that has the block, or the one that nobody uses and  *)
(* that has been used least recently.                                      *)
Cached(s) == {b \in Bufs : buf[b].blk = s}
Recyclable == {i \in DOMAIN lru : buf[lru[i]].ref = 0}

bget_hit(p, op, s) ==
    /\ At(p, "user")
    /\ \E b \in Cached(s) :
          /\ buf' = [buf EXCEPT ![b].ref = @ + 1]
          /\ io' = [io EXCEPT ![p] = [Away EXCEPT !.at = "lock", !.op = op, !.b = b]]
    /\ UNCHANGED <<lru, diskvars, nobuffers>>

\* Mutant: b->valid = 0 is missing.
bget_recycle_valid(p, op, s) ==
    /\ At(p, "user") /\ Cached(s) = {} /\ Recyclable # {}
    /\ LET b == lru[Max(Recyclable)] IN
          /\ buf' = [buf EXCEPT ![b].blk = s, ![b].ref = 1]
          /\ io' = [io EXCEPT ![p] = [Away EXCEPT !.at = "lock", !.op = op, !.b = b]]
    /\ UNCHANGED <<lru, diskvars, nobuffers>>

bget_recycle(p, op, s) ==
    /\ At(p, "user") /\ Cached(s) = {} /\ Recyclable # {}
    /\ LET b == lru[Max(Recyclable)] IN
          /\ buf' = [buf EXCEPT ![b].blk = s, ![b].valid = FALSE, ![b].ref = 1]
          /\ io' = [io EXCEPT ![p] = [Away EXCEPT !.at = "lock", !.op = op, !.b = b]]
    /\ UNCHANGED <<lru, diskvars, nobuffers>>

bget_panics(p, s) ==
    /\ At(p, "user") /\ Cached(s) = {} /\ Recyclable = {}
    /\ nobuffers' = TRUE
    /\ UNCHANGED <<buf, lru, diskvars, io>>

\* acquiresleep(&b->lock), and what bread() does next; write_page_to_disk()
\* takes the buffer as it is.
bget_lock(p) ==
    LET b == io[p].b IN
    /\ At(p, "lock") /\ buf[b].owner = Nothing
    /\ buf' = [buf EXCEPT ![b].owner = p]
    /\ Go(p, IF io[p].op = "page" \/ buf[b].valid THEN "have" ELSE "read")
    /\ UNCHANGED <<lru, diskvars, nobuffers>>

\* The holder has what it came for, or puts something else into the buffer and
\* writes it back.
use(p) ==
    LET b == io[p].b IN
    /\ At(p, "have")
    /\ \/ io[p].op = "bread" /\ Go(p, "brelse") /\ UNCHANGED buf
       \/ /\ io' = [io EXCEPT ![p].at = "write", ![p].op = "bread"]
          /\ buf' = [buf EXCEPT ![b].data = 1 - platter[buf[b].blk]]
    /\ UNCHANGED <<lru, diskvars, nobuffers>>

-----------------------------------------------------------------------------
(* virtio_disk_rw().                                                       *)
Woken(place, there, S) ==
    [p \in IOProc |-> IF p \in S /\ io[p].at = place THEN [io[p] EXCEPT !.at = there] ELSE io[p]]

\* A process asleep for descriptors goes back to look for three.
Retry(at) == IF at = "rdesc" THEN "read" ELSE IF at = "wdesc" THEN "write" ELSE at
Alerted == [p \in IOProc |-> [io[p] EXCEPT !.at = Retry(@)]]

\* The three that are found first.
alloc3_desc ==
    CHOOSE t \in SUBSET unused : Cardinality(t) = 3 /\ \A i \in t, j \in unused \ t : i < j

\* alloc3_desc() succeeds: the request is posted, and the process sleeps on b.
rw_post(p) ==
    LET b == io[p].b
        head == Min(alloc3_desc) IN
    /\ At(p, "read") \/ At(p, "write")
    /\ ~handling /\ Cardinality(unused) >= 3
    /\ unused' = unused \ alloc3_desc
    /\ chain' = [chain EXCEPT ![head] = [descs |-> alloc3_desc, b |-> b, write |-> io[p].at = "write"]]
    /\ posted' = posted \cup {head}
    /\ buf' = [buf EXCEPT ![b].disk = TRUE]
    /\ io' = [io EXCEPT ![p].at = "asleep", ![p].head = head]
    /\ UNCHANGED <<lru, platter, used, irq, handling, nobuffers>>

\* It fails: what it got is freed again, which wakes the others that wait for
\* descriptors, and it sleeps.
rw_full(p) ==
    /\ At(p, "read") \/ At(p, "write")
    /\ ~handling /\ Cardinality(unused) < 3
    /\ io' = [(IF unused = {} THEN io ELSE Alerted)
                 EXCEPT ![p].at = IF @ = "read" THEN "rdesc" ELSE "wdesc"]
    /\ UNCHANGED <<buf, lru, diskvars, nobuffers>>

\* while(b->disk == 1) sleep(b, ...)
rw_again(p) ==
    /\ At(p, "woken") /\ ~handling /\ buf[io[p].b].disk
    /\ Go(p, "asleep")
    /\ UNCHANGED <<buf, lru, diskvars, nobuffers>>

\* The request is done: free_chain(); bread() sets b->valid.
rw_finish(p) ==
    LET b == io[p].b
        req == chain[io[p].head] IN
    /\ At(p, "woken") /\ ~handling /\ ~buf[b].disk
    /\ chain' = [chain EXCEPT ![io[p].head] = Nothing]
    /\ unused' = unused \cup req.descs
    /\ buf' = [buf EXCEPT ![b].valid = @ \/ ~req.write]
    /\ io' = [Alerted EXCEPT ![p].at = IF req.write THEN "brelse" ELSE "have", ![p].head = 0]
    /\ UNCHANGED <<lru, platter, posted, used, irq, handling, nobuffers>>

\* kill() wakes a sleeper before its time.
kill_sleeper(p) ==
    /\ At(p, "asleep") \/ At(p, "rdesc") \/ At(p, "wdesc")
    /\ io' = [io EXCEPT ![p].at = IF @ = "asleep" THEN "woken" ELSE Retry(@)]
    /\ UNCHANGED <<buf, lru, diskvars, nobuffers>>

-----------------------------------------------------------------------------
(* The device does a request, reports it and raises its interrupt.         *)
device(i) ==
    LET b == chain[i].b
        s == buf[b].blk IN
    /\ ~nobuffers /\ i \in posted
    /\ IF chain[i].write
          THEN platter' = [platter EXCEPT ![s] = buf[b].data] /\ UNCHANGED buf
          ELSE buf' = [buf EXCEPT ![b].data = platter[s]] /\ UNCHANGED platter
    /\ posted' = posted \ {i}
    /\ used' = Append(used, i)
    /\ irq' = TRUE
    /\ UNCHANGED <<lru, unused, chain, handling, io, nobuffers>>

\* virtio_disk_intr(): the acknowledgement, a round of the loop, the end.
intr_ack ==
    /\ ~nobuffers /\ irq /\ ~handling
    /\ irq' = FALSE /\ handling' = TRUE
    /\ UNCHANGED <<buf, lru, platter, unused, chain, posted, used, io, nobuffers>>

\* Mutant: one interrupt, one report.
intr_report_one ==
    LET b == chain[Head(used)].b IN
    /\ ~nobuffers /\ handling /\ used # <<>>
    /\ buf' = [buf EXCEPT ![b].disk = FALSE]
    /\ io' = Woken("asleep", "woken", {p \in IOProc : io[p].b = b})
    /\ used' = <<>>
    /\ UNCHANGED <<lru, platter, unused, chain, posted, irq, handling, nobuffers>>

intr_report ==
    LET b == chain[Head(used)].b IN
    /\ ~nobuffers /\ handling /\ used # <<>>
    /\ buf' = [buf EXCEPT ![b].disk = FALSE]
    /\ io' = Woken("asleep", "woken", {p \in IOProc : io[p].b = b})
    /\ used' = Tail(used)
    /\ UNCHANGED <<lru, platter, unused, chain, posted, irq, handling, nobuffers>>

intr_end ==
    /\ ~nobuffers /\ handling /\ used = <<>>
    /\ handling' = FALSE
    /\ UNCHANGED <<buf, lru, platter, unused, chain, posted, used, irq, io, nobuffers>>

-----------------------------------------------------------------------------
(* brelse(): releasesleep(), and then under bcache.lock the count.         *)
brelse(p) ==
    /\ At(p, "brelse")
    /\ buf' = [buf EXCEPT ![io[p].b].owner = Nothing]
    /\ Go(p, "unref")
    /\ UNCHANGED <<lru, diskvars, nobuffers>>

\* The list with b moved to its head.
MostRecent(b) ==
    [i \in DOMAIN lru |-> IF i = 1 THEN b
                         ELSE IF \E j \in 1 .. i - 1 : lru[j] = b THEN lru[i] ELSE lru[i - 1]]

brelse_unref(p) ==
    LET b == io[p].b IN
    /\ At(p, "unref")
    /\ buf' = [buf EXCEPT ![b].ref = @ - 1]
    /\ lru' = IF buf[b].ref = 1 THEN MostRecent(b) ELSE lru
    /\ io' = [io EXCEPT ![p] = Away]
    /\ UNCHANGED <<diskvars, nobuffers>>

\* The kernel stops when it has panicked.
BioHalted == nobuffers /\ UNCHANGED biovars

Wait(p) == rw_again(p) \/ rw_finish(p)
Device == \E i \in Descs : device(i)
Handler == intr_ack \/ intr_report \/ intr_end

BioNext ==
    \/ \E p \in IOProc :
        \/ \E s \in Sector :
              \/ \E op \in {"bread", "page"} : bget_hit(p, op, s) \/ bget_recycle(p, op, s)
              \/ bget_panics(p, s)
        \/ bget_lock(p) \/ use(p) \/ rw_post(p) \/ rw_full(p) \/ Wait(p) \/ kill_sleeper(p)
        \/ brelse(p) \/ brelse_unref(p)
    \/ Device \/ Handler
    \/ BioHalted

BioSpec == BioInit /\ [][BioNext]_biovars

-----------------------------------------------------------------------------
(* Properties.                                                             *)
BioTypeOK ==
    /\ buf \in [Bufs -> [blk : Sector \cup {Nothing}, valid : BOOLEAN, ref : Nat, disk : BOOLEAN,
                         data : Value, owner : IOProc \cup {Nothing}]]
    /\ lru \in Seq(Bufs) /\ Cardinality(ToSet(lru)) = Len(lru)
    /\ platter \in [Sector -> Value]
    /\ unused \subseteq Descs /\ posted \subseteq Descs /\ used \in Seq(Descs)

\* A block has one buffer, and a buffer counts the processes that have got it.
OneBuffer ==
    /\ \A b, c \in Bufs : buf[b].blk = buf[c].blk /\ buf[b].blk # Nothing => b = c
    /\ \A b \in Bufs :
          buf[b].ref = Cardinality({p \in IOProc : io[p].at # "user" /\ io[p].b = b})

\* What a buffer that nobody writes to holds is what the disk holds.
Coherent ==
    /\ \A b \in Bufs : buf[b].valid /\ buf[b].owner = Nothing => buf[b].data = platter[buf[b].blk]
    /\ \A p \in IOProc : io[p].at = "have" /\ io[p].op # "page" =>
          buf[io[p].b].data = platter[buf[io[p].b].blk]

\* A descriptor is free or in one chain; a process that sleeps on a buffer has
\* a request the driver has not seen the report of, and one that sleeps for
\* descriptors finds no three of them.
Chains == {i \in Descs : chain[i] # Nothing}
Requests ==
    /\ \A i \in Chains : /\ chain[i].descs \cap unused = {}
                         /\ \A j \in Chains \ {i} : chain[i].descs \cap chain[j].descs = {}
    /\ \E NUM \in Queues : unused \cup UNION {chain[i].descs : i \in Chains} = 0 .. NUM - 1
    /\ \A b \in Bufs : buf[b].disk <=> \E i \in posted \cup ToSet(used) : chain[i].b = b
    /\ \A p \in IOProc : /\ io[p].at = "asleep" => buf[io[p].b].disk
                         /\ io[p].at \in {"rdesc", "wdesc"} => Cardinality(unused) < 3

\* The cache has one copy of a block and hands out what is on the disk, however
\* misses of the same block, evictions, completions and early wakeups fall
\* together (bio.c:58-137, virtio_disk.c:129-315).
BlockOK == BioTypeOK /\ OneBuffer /\ Coherent /\ Requests
=============================================================================
