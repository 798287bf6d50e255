------------------------------ MODULE PrBuffer ------------------------------
(***************************************************************************)
(* The page replacement buffer of mp2: a global array of up to PG_BUF_SIZE *)
(* page table entries that walk() updates on every lookup and madvise()    *)
(* trims, with the LRU policy (lru.c) or the FIFO policy (fifo.c).         *)
(*                                                                         *)
(* No lock protects the buffer.  A walker is a process inside the kernel:  *)
(* walk() runs on several harts at once, and on one hart it can be         *)
(* preempted.  Each call into lru.c or fifo.c is one step, the three       *)
(* lru_find() of one lookup together, so walkers interleave between        *)
(* finding an entry and removing it, and the index one of them holds goes  *)
(* stale when another one pops.  The variable raced remembers that two     *)
(* walkers have been in that window together: what the buffer promises, it *)
(* promises until then, and IndexInBounds is what breaks afterwards.       *)
(*                                                                         *)
(* The early return for the entries vmprint() has put in first_three[] is  *)
(* a choice: entries are compared by value there and values change with    *)
(* every flag.  The test of bucket[0] against the value of an entry        *)
(* compares an address with a value and never holds; the one of pinned     *)
(* holds for an entry that is 0 while pinned still is 0.                   *)
(***************************************************************************)
EXTENDS Integers, Sequences, FiniteSets, SequencesExt

CONSTANTS NPTE,          \* bound: page table entries 1 .. NPTE
          Walkers,
          PG_BUF_SIZE,
          Policies,      \* the builds: "LRU", "FIFO" (a macro)
          Ops            \* bound: why walkers call walk()

Ptes == 1 .. NPTE

ASSUME PrBufferAssumption ==
    /\ NPTE \in Nat \ {0} /\ PG_BUF_SIZE \in Nat \ {0, 1}
    /\ Policies \subseteq {"LRU", "FIFO"}
    /\ Ops \subseteq {"lookup", "fault", "map", "unmap", "willneed", "dontneed",
                    "pin", "unpin", "vmprint"}

VARIABLES
    policy,      \* the build
    bucket,      \* pr_buffer: its first size entries
    fifo_flag,
    pinned,      \* vmprint() has stored the address of a pinned entry; this and
                 \*   fifo_flag only count in the FIFO build, the one that reads them
    V, P, S,     \* entries with PTE_V, with PTE_P, with PTE_S
    walks,       \* walks[x]: what walker x does
    seen,        \* history: the entries looked up (LRU), or put into the buffer (FIFO)
    older,       \* history: pairs of them, last looked up or put in before the other
    dropped,     \* history, LRU: entries removed by madvise() since they were
                 \*   last added
    overrun,     \* lru_pop() or q_pop_idx() has panicked on an index out of bounds
    raced        \* history: two walkers have been between a find and the use of
                 \*   what it returned at the same time

pteVars == <<V, P, S>>
prvars == <<policy, bucket, fifo_flag, pinned, V, P, S, walks, seen, older, dropped, overrun,
            raced>>

Idle == [op |-> "idle", at |-> "", pte |-> 1, last |-> 1, idx |-> -1]

\* lru_find(), q_find()
find(e) == IF Contains(bucket, e) THEN SelectInSeq(bucket, LAMBDA x : x = e) - 1 ELSE -1
full    == Len(bucket) >= PG_BUF_SIZE
StandsAt(x, here) == ~overrun /\ walks[x].op # "idle" /\ walks[x].at = here
Goto(x, there) == walks' = [walks EXCEPT ![x].at = there]

\* x has looked for an entry and not yet used what it found, or is putting it back.
Mid(x)  == walks[x].op # "idle" /\ walks[x].at \in {"evict", "pop", "push", "trim"}
Overlap == \E x, y \in Walkers : x # y /\ Mid(x) /\ Mid(y)

PrInit ==
    /\ policy \in Policies
    /\ bucket = <<>> /\ fifo_flag = 0 /\ pinned = FALSE
    /\ V = {} /\ P = {} /\ S = {}
    /\ walks = [x \in Walkers |-> Idle]
    /\ seen = {} /\ older = {} /\ dropped = {}
    /\ overrun = FALSE /\ raced = FALSE

-----------------------------------------------------------------------------
(* walk() *)

\* e is the newest now.
Newest(e) ==
    /\ seen' = seen \cup {e}
    /\ older' = {d \in older : e \notin {d[1], d[2]}} \cup {<<d, e>> : d \in seen \ {e}}

\* A system call or page fault that looks up the entries b .. l, those of one
\* process: no two walkers have an entry in common.
enter(x, op, b, l) ==
    /\ ~overrun /\ walks[x].op = "idle"
    /\ \A y \in Walkers : walks[y].op = "idle" \/ l < walks[y].pte \/ walks[y].last < b
    /\ b <= l /\ (op = "lookup" => b = l)
    /\ op \in {"fault", "map"} => b = l /\ b \notin V
    /\ walks' = [walks EXCEPT ![x] = [op |-> op, at |-> "find", pte |-> b, last |-> l, idx |-> -1]]
    /\ fifo_flag' = IF op = "pin" /\ policy = "FIFO" THEN 1 ELSE fifo_flag
    /\ UNCHANGED <<bucket, pinned, pteVars, seen, older, dropped, overrun>>

\* Mutant: an entry that is found stays where it is.
find_leaves(x) ==
    /\ StandsAt(x, "find")
    /\ LET i == find(walks[x].pte) IN
       walks' = [walks EXCEPT ![x].idx = i,
                      ![x].at = CASE i = -1 /\ full  -> "evict"
                                  [] i = -1 /\ ~full -> "push"
                                  [] OTHER           -> "apply"]
    /\ IF policy = "LRU" THEN Newest(walks[x].pte) ELSE UNCHANGED <<seen, older>>
    /\ UNCHANGED <<bucket, fifo_flag, pinned, pteVars, dropped, overrun>>

\* Where walk() goes after lru_find() or q_find(), and lru_full() or q_full().
walk_find(x) ==
    /\ StandsAt(x, "find")
    /\ LET i == find(walks[x].pte) IN
       walks' = [walks EXCEPT ![x].idx = IF policy = "LRU" THEN i ELSE -1,
                      ![x].at = CASE i = -1 /\ full  -> "evict"
                                  [] i = -1 /\ ~full -> "push"
                                  [] i >= 0 /\ policy = "LRU"  -> "pop"
                                  [] i >= 0 /\ policy = "FIFO" -> "apply"]
    /\ IF policy = "LRU" THEN Newest(walks[x].pte) ELSE UNCHANGED <<seen, older>>
    /\ UNCHANGED <<bucket, fifo_flag, pinned, pteVars, dropped, overrun>>

\* The entry is one of first_three[].
walk_skip(x) ==
    /\ StandsAt(x, "find")
    /\ Goto(x, "apply")
    /\ UNCHANGED <<bucket, fifo_flag, pinned, pteVars, seen, older, dropped, overrun>>

\* lru_pop(), q_pop_idx(): panic on an index out of bounds.
pop(i) ==
    \/ /\ i \in 0 .. Len(bucket) - 1
       /\ bucket' = RemoveAt(bucket, i + 1)
       /\ UNCHANGED overrun
    \/ /\ i \notin 0 .. Len(bucket) - 1
       /\ overrun' = TRUE
       /\ UNCHANGED bucket

\* Mutant: the newest entry makes room.
evict_newest(x) ==
    /\ StandsAt(x, "evict")
    /\ pop(Len(bucket) - 1)
    /\ Goto(x, IF policy = "FIFO" /\ fifo_flag = 1 THEN "apply" ELSE "push")
    /\ UNCHANGED <<fifo_flag, pinned, pteVars, seen, older, dropped>>

IsZero(e) == e \notin V \cup P \cup S

\* The buffer is full: the oldest entry goes.  In FIFO the second oldest goes
\* for an entry that equals pinned, and once any page has been pinned, when the
\* new entry is not added.
walk_evict(x) ==
    /\ StandsAt(x, "evict")
    /\ CASE policy = "FIFO" /\ IsZero(walks[x].pte) /\ ~pinned -> pop(1) /\ Goto(x, "push")
         [] policy = "FIFO" /\ ~(IsZero(walks[x].pte) /\ ~pinned) /\ fifo_flag = 1 ->
                pop(1) /\ Goto(x, "apply")
         [] OTHER -> pop(0) /\ Goto(x, "push")
    /\ UNCHANGED <<fifo_flag, pinned, pteVars, seen, older, dropped>>

walk_pop(x) ==
    /\ StandsAt(x, "pop")
    /\ pop(walks[x].idx)
    /\ walks' = [walks EXCEPT ![x].at = "push", ![x].idx = -1]
    /\ UNCHANGED <<fifo_flag, pinned, pteVars, seen, older, dropped>>

\* lru_push() refuses when full, q_push() only when more than full: the entry it
\* writes past bucket[] lies on q->pin, which it clears next.  The stores have different
\* types, their order is the compiler's: the entry reads as itself or as 0.
walk_push(x) ==
    /\ StandsAt(x, "push")
    /\ \/ /\ ~full
          /\ bucket' = Append(bucket, walks[x].pte)
       \/ /\ policy = "FIFO" /\ Len(bucket) = PG_BUF_SIZE
          /\ \E w \in {0, walks[x].pte} : bucket' = Append(bucket, w)
       \/ /\ full /\ (policy = "LRU" \/ Len(bucket) > PG_BUF_SIZE)
          /\ UNCHANGED bucket
    /\ IF policy = "FIFO" THEN Newest(walks[x].pte) ELSE UNCHANGED <<seen, older>>
    /\ dropped' = dropped \ {walks[x].pte}
    /\ Goto(x, "apply")
    /\ UNCHANGED <<fifo_flag, pinned, pteVars, overrun>>

-----------------------------------------------------------------------------
(* What the caller of walk() does with the entry, and its loop *)

\* handle_pgfault() looks the entry up twice, itself and in mappages(), which
\* overwrites it; MADV_WILLNEED overwrites the entries that are not valid;
\* uvmunmap() clears the valid ones and passes over the swapped ones.
apply(x) ==
    LET e  == walks[x].pte
        op == walks[x].op
        maps   == op = "map" \/ (op = "willneed" /\ e \notin V)
        swaps  == op = "dontneed" /\ e \in V
        clears == op = "unmap" /\ e \in V \ S IN
    /\ StandsAt(x, "apply")
    /\ V' = IF maps THEN V \cup {e} ELSE IF swaps \/ clears THEN V \ {e} ELSE V
    /\ P' = IF op = "pin" THEN P \cup {e}
            ELSE IF op = "unpin" \/ maps \/ clears THEN P \ {e} ELSE P
    /\ S' = IF swaps THEN S \cup {e} ELSE IF maps THEN S \ {e} ELSE S
    /\ walks' = CASE op = "fault" -> [walks EXCEPT ![x].op = "map", ![x].at = "find"]
              [] op # "fault" /\ e < walks[x].last -> [walks EXCEPT ![x].at = "find", ![x].pte = e + 1]
              [] e = walks[x].last /\ op = "dontneed" ->
                    [walks EXCEPT ![x].at = "trim", ![x].idx = find(e)]
              [] OTHER -> [walks EXCEPT ![x] = Idle]
    /\ UNCHANGED <<bucket, fifo_flag, pinned, seen, older, dropped, overrun>>

\* The second loop of MADV_DONTNEED: its variable pte is still the last entry,
\* so that entry is removed and the other rounds find nothing.
dontneed_trim(x) ==
    /\ StandsAt(x, "trim")
    /\ IF walks[x].idx = -1 THEN UNCHANGED <<bucket, overrun>> ELSE pop(walks[x].idx)
    /\ dropped' = IF policy = "LRU" THEN dropped \cup {walks[x].pte} ELSE dropped
    /\ walks' = [walks EXCEPT ![x] = Idle]
    /\ UNCHANGED <<fifo_flag, pinned, pteVars, seen, older>>

\* vmprint() remembers the address of a valid pinned entry it has printed.
vmprint ==
    /\ ~overrun /\ policy = "FIFO" /\ "vmprint" \in Ops /\ V \cap P # {} /\ ~pinned
    /\ pinned' = TRUE
    /\ UNCHANGED <<bucket, fifo_flag, pteVars, walks, seen, older, dropped, overrun>>

-----------------------------------------------------------------------------
stopped == overrun /\ UNCHANGED <<bucket, fifo_flag, pinned, pteVars, walks, seen, older, dropped, overrun>>

PrStep ==
    \/ \E x \in Walkers :
        \/ \E op \in Ops \ {"vmprint"}, b, l \in Ptes : enter(x, op, b, l)
        \/ walk_find(x) \/ walk_skip(x) \/ walk_evict(x) \/ walk_pop(x)
        \/ walk_push(x) \/ apply(x) \/ dontneed_trim(x)
    \/ vmprint
    \/ stopped

PrNext == PrStep /\ UNCHANGED policy /\ raced' = (raced \/ Overlap')

PrSpec == PrInit /\ [][PrNext]_prvars

-----------------------------------------------------------------------------
(* Properties *)

\* Every variable has its type.  However many walkers race, the LRU buffer stays in its
\* array; the FIFO one may reach one entry past it.
PrTypeOK ==
    /\ policy \in Policies
    /\ bucket \in BoundedSeq(Ptes \cup {0}, PG_BUF_SIZE + 1)
    /\ policy = "LRU" => Len(bucket) <= PG_BUF_SIZE
    /\ fifo_flag \in {0, 1}
    /\ pinned \in BOOLEAN
    /\ V \subseteq Ptes /\ P \subseteq Ptes /\ S \subseteq Ptes
    /\ walks \in [Walkers -> [op : Ops \cup {"idle", "map"}, pte : Ptes, last : Ptes,
                          at : {"", "find", "evict", "pop", "push", "apply", "trim"},
                          idx : -1 .. PG_BUF_SIZE]]
    /\ seen \subseteq Ptes /\ older \subseteq seen \X seen
    /\ dropped \subseteq Ptes
    /\ overrun \in BOOLEAN /\ raced \in BOOLEAN

\* The order of the buffer is the order of the policy: an entry is there once,
\* and behind every entry that was looked up (LRU) or entered (FIFO) before it.
PolicyOrder ==
    (\A x \in Walkers : ~Mid(x)) =>
        \A i, j \in DOMAIN bucket : i < j => <<bucket[i], bucket[j]>> \in older

\* The buffer as a data structure, for walkers that interleave anywhere but in one
\* another's window between a find and the use of its result: within its array, in
\* order, and every index that lru_find() or q_find() returned still valid in
\* lru_pop() or q_pop_idx() (lru.c:31-43, fifo.c:37-54), whatever madvise() and page
\* faults of the others did to the entries meanwhile.
BufferOK ==
    /\ PrTypeOK
    /\ ~raced => Len(bucket) <= PG_BUF_SIZE /\ PolicyOrder /\ ~overrun

\* lru_pop() and q_pop_idx() are never given an index out of bounds: what their panics
\* assert (lru.c:34, fifo.c:45) of walk() and madvise().
IndexInBounds == ~overrun

\* LRU keeps the right entries: one that is not in the buffer, though it was
\* not removed by madvise(), was looked up before all that are.
LeastRecentEvicted ==
    policy = "LRU" /\ ~raced /\ (\A x \in Walkers : ~Mid(x)) =>
        \A e \in seen \ (ToSet(bucket) \cup dropped) :
            \A i \in DOMAIN bucket : <<e, bucket[i]>> \in older

\* A page that MADV_DONTNEED swaps out leaves the buffer, when it is the last
\* of its range (the code forgets the others).
LastTrimmed ==
    [][\A x \in Walkers : ~raced' /\ StandsAt(x, "trim") /\ walks'[x].op = "idle" =>
          walks[x].pte \notin ToSet(bucket')]_prvars
=============================================================================
