------------------------------- MODULE Paging -------------------------------
(***************************************************************************)
(* User memory in mp2: page tables, physical pages and swap space, as      *)
(* kernel/vm.c, paging.c and fs.c manage them for sbrk(), fork(), exit(),  *)
(* madvise() and page faults.                                              *)
(*                                                                         *)
(* A user address is its page number; every page lies under one leaf table *)
(* page, which exists once the process has been set up.  Only a process    *)
(* itself walks its page table, so what the kernel does to one page is one *)
(* step; between two pages of a loop other processes run.  balloc_page()   *)
(* returns any free group of eight blocks.                                 *)
(* A page holds one value; kfree() fills a page with junk.                 *)
(*                                                                         *)
(* Nothing calls bfree_page(): a group of blocks that has been taken never *)
(* returns to freeb.                                                       *)
(***************************************************************************)
EXTENDS Integers, Sequences, FiniteSets

CONSTANTS Proc, First,   \* processes, and the one that exists at boot
          NPAGE, Blk,    \* number of physical pages; groups of eight disk blocks
          Val,           \* what programs store in a page
          Zero, Junk,    \* a cleared page, a page filled by kfree()
          Nil,
          TextPages,     \* exec(): pages of text, then guard page and stack
          MaxPages,      \* bound: pages of user addresses a program touches
          Advised,       \* bound: user pages programs store to, pass to madvise()
          Advice         \* bound: which advice programs give

Guard == TextPages
Stack == TextPages + 1
VA    == 0 .. MaxPages - 1
Page  == 1 .. NPAGE

ASSUME PagingAssumption ==
    /\ First \in Proc /\ Nil \notin Blk /\ Nil \notin Proc
    /\ NPAGE \in Nat /\ Blk \cap Page = {} /\ Nil \notin Page
    /\ Zero \notin Val /\ Junk \notin Val /\ Zero # Junk
    /\ TextPages \in Nat /\ MaxPages \in Nat /\ Stack < MaxPages
    /\ Stack < NPAGE
    /\ Advised \subseteq VA
    /\ Advice \subseteq {"willneed", "dontneed", "pin", "unpin"}

VARIABLES
    pt,        \* pt[p][v]: the pte, its flags V, S, U, P and its address
    sz,        \* sz[p]: p->sz in pages
    freep,     \* kmem.freelist, a list the last page freed heads
    mem,       \* mem[g]: contents of physical page g
    freeb,     \* groups of blocks the bitmap has free
    swap,      \* swap[b]: contents of block group b
    job,       \* job[p]: what p does: the loop it is in, next and last page
    child,     \* child[p]: the process fork() is filling
    user,      \* user[p][v]: what the program stored there last
    panicked   \* message of the panic() reached, or ""

memVars == <<freep, mem>>
blkVars == <<freeb, swap>>
vars == <<pt, sz, freep, mem, freeb, swap, job, child, user, panicked>>

Pte  == [V : BOOLEAN, S : BOOLEAN, U : BOOLEAN, P : BOOLEAN, a : Page \cup Blk \cup {Nil}]
NoPte == [V |-> FALSE, S |-> FALSE, U |-> FALSE, P |-> FALSE, a |-> Nil]
MapTo(g) == [V |-> TRUE, S |-> FALSE, U |-> TRUE, P |-> FALSE, a |-> g]

Data == Val \cup {Zero, Junk}

kalloc(g) == freep # <<>> /\ g = Head(freep) /\ freep' = Tail(freep)
kfree(g)  == freep' = <<g>> \o freep /\ mem' = [mem EXCEPT ![g] = Junk]

NoJob == [op |-> "user", va |-> 0, last |-> 0]
Dead  == [op |-> "unused", va |-> 0, last |-> 0]
Job   == [op : {"unused", "embryo", "user", "fork", "unfork", "exit", "shrink"} \cup Advice,
          va : 0 .. MaxPages, last : -1 .. MaxPages - 1]

Doing(p, op) == panicked = "" /\ job[p].op = op
Step(p) == job' = [job EXCEPT ![p].va = @ + 1]
panic(why) == panicked' = why /\ UNCHANGED <<pt, sz, memVars, blkVars, job, child, user>>

\* exec() has built the first process: text, guard page (uvmclear()), stack.
Init ==
    /\ pt = [p \in Proc |-> [v \in VA |->
                IF p = First /\ v <= Stack THEN [MapTo(v + 1) EXCEPT !.U = (v # Guard)]
                                           ELSE NoPte]]
    /\ freep = [i \in 1 .. NPAGE - Stack - 1 |-> i + Stack + 1]
    /\ sz = [p \in Proc |-> IF p = First THEN Stack + 1 ELSE 0]
    /\ mem = [g \in Page |-> IF g > Stack + 1 THEN Junk ELSE Zero]
    /\ freeb = Blk /\ swap = [b \in Blk |-> Zero]
    /\ job = [p \in Proc |-> IF p = First THEN NoJob ELSE Dead]
    /\ child = [p \in Proc |-> Nil]
    /\ user = [p \in Proc |-> [v \in VA |-> Zero]]
    /\ panicked = ""

-----------------------------------------------------------------------------
(* Loads and stores of the program, and the page faults they cause *)

store(p, v, x) ==
    /\ Doing(p, "user") /\ pt[p][v].V /\ pt[p][v].U
    /\ mem' = [mem EXCEPT ![pt[p][v].a] = x]
    /\ user' = [user EXCEPT ![p][v] = x]
    /\ UNCHANGED <<pt, sz, freep, blkVars, job, child, panicked>>

\* Mutant: the new page is not cleared.
fault_uncleared(p, v) ==
    /\ Doing(p, "user") /\ ~(pt[p][v].V /\ pt[p][v].U)
    /\ \/ freep = <<>> /\ panic("handle_page_fault: kalloc failed")
       \/ freep # <<>> /\ pt[p][v].V /\ panic("mappages: remap")
       \/ /\ ~pt[p][v].V
          /\ \E g \in Page :
                /\ kalloc(g)
                /\ pt' = [pt EXCEPT ![p][v] = MapTo(g)]
          /\ UNCHANGED <<sz, mem, blkVars, job, child, user, panicked>>

\* A load or store that faults, any address below MAXVA: a zeroed page is
\* mapped there whatever the pte held, unless it is valid (the guard page).
handle_pgfault(p, v) ==
    /\ Doing(p, "user") /\ ~(pt[p][v].V /\ pt[p][v].U)
    /\ \/ freep = <<>> /\ panic("handle_page_fault: kalloc failed")
       \/ freep # <<>> /\ pt[p][v].V /\ panic("mappages: remap")
       \/ /\ ~pt[p][v].V
          /\ \E g \in Page :
                /\ kalloc(g)
                /\ mem' = [mem EXCEPT ![g] = Zero]
                /\ pt' = [pt EXCEPT ![p][v] = MapTo(g)]
          /\ UNCHANGED <<sz, blkVars, job, child, user, panicked>>

-----------------------------------------------------------------------------
(* sbrk(): growproc() with uvmalloc() and uvmdealloc(), one page at a time *)

sbrk_grow(p) ==
    /\ Doing(p, "user") /\ sz[p] < MaxPages
    /\ \/ /\ pt[p][sz[p]].V /\ freep # <<>>
          /\ panic("mappages: remap")
       \/ /\ ~pt[p][sz[p]].V
          /\ \E g \in Page :
                /\ kalloc(g)
                /\ mem' = [mem EXCEPT ![g] = Zero]
                /\ pt' = [pt EXCEPT ![p][sz[p]] = MapTo(g)]
          /\ user' = [user EXCEPT ![p][sz[p]] = Zero]
          /\ sz' = [sz EXCEPT ![p] = @ + 1]
          /\ UNCHANGED <<blkVars, job, child, panicked>>

sbrk_shrink(p) ==
    /\ Doing(p, "user") /\ sz[p] > Stack + 1
    /\ job' = [job EXCEPT ![p] = [op |-> "shrink", va |-> sz[p] - 1, last |-> sz[p] - 1]]
    /\ UNCHANGED <<pt, sz, memVars, blkVars, child, user, panicked>>

\* Mutant: the pte of a page that is freed stays valid.
uvmunmap_keeps(p, v) ==
    \/ /\ pt[p][v].S \/ ~pt[p][v].V
       /\ UNCHANGED <<pt, memVars>>
    \/ /\ ~pt[p][v].S /\ pt[p][v].V
       /\ kfree(pt[p][v].a)
       /\ UNCHANGED pt

\* Mutant: the pte of a swapped page is cleared, and its blocks are not given back.
uvmunmap_clears(p, v) ==
    /\ pt' = [pt EXCEPT ![p][v] = NoPte]
    /\ IF pt[p][v].V THEN kfree(pt[p][v].a) ELSE UNCHANGED memVars

\* One page of uvmunmap() with do_free: a swapped page is passed over.
uvmunmap(p, v) ==
    \/ /\ pt[p][v].S \/ ~pt[p][v].V
       /\ UNCHANGED <<pt, memVars>>
    \/ /\ ~pt[p][v].S /\ pt[p][v].V
       /\ kfree(pt[p][v].a)
       /\ pt' = [pt EXCEPT ![p][v] = NoPte]

shrink_page(p) ==
    /\ Doing(p, "shrink")
    /\ uvmunmap(p, job[p].va)
    /\ sz' = [sz EXCEPT ![p] = job[p].va]
    /\ job' = [job EXCEPT ![p] = NoJob]
    /\ UNCHANGED <<blkVars, child, user, panicked>>

-----------------------------------------------------------------------------
(* madvise() *)

\* Arguments outside p->sz return -1, MADV_NORMAL and len = 0 return 0: no
\* change.
madvise(p, begin, last, advice) ==
    /\ Doing(p, "user")
    /\ begin <= last /\ last < sz[p]
    /\ job' = [job EXCEPT ![p] = [op |-> advice, va |-> begin, last |-> last]]
    /\ UNCHANGED <<pt, sz, memVars, blkVars, child, user, panicked>>

madvise_return(p) ==
    /\ panicked = "" /\ job[p].op \in Advice /\ job[p].va > job[p].last
    /\ job' = [job EXCEPT ![p] = NoJob]
    /\ UNCHANGED <<pt, sz, memVars, blkVars, child, user, panicked>>

willneed_page(p) ==
    LET v == job[p].va IN
    /\ Doing(p, "willneed") /\ v <= job[p].last
    /\ \/ /\ pt[p][v].V
          /\ Step(p) /\ UNCHANGED <<pt, memVars>>
       \/ /\ ~pt[p][v].V
          /\ \E g \in Page :
                /\ kalloc(g)
                /\ mem' = [mem EXCEPT ![g] = Zero]
                /\ pt' = [pt EXCEPT ![p][v] = MapTo(g)]
          /\ Step(p)
       \/ /\ ~pt[p][v].V /\ freep = <<>>
          /\ job' = [job EXCEPT ![p] = NoJob]
          /\ UNCHANGED <<pt, memVars>>
    /\ UNCHANGED <<sz, blkVars, child, user, panicked>>

\* swap_page_from_pte() and the kfree() that follows it: the flags are kept,
\* PTE_S set, PTE_V cleared.
swap_page_from_pte(p, v, b) ==
    /\ freeb' = freeb \ {b}
    /\ swap' = [swap EXCEPT ![b] = mem[pt[p][v].a]]
    /\ pt' = [pt EXCEPT ![p][v].V = FALSE, ![p][v].S = TRUE, ![p][v].a = b]
    /\ kfree(pt[p][v].a)

dontneed_page(p) ==
    LET v == job[p].va IN
    /\ Doing(p, "dontneed") /\ v <= job[p].last
    /\ \/ /\ ~pt[p][v].V
          /\ Step(p) /\ UNCHANGED <<pt, memVars, blkVars, panicked>>
       \/ /\ pt[p][v].V
          /\ \E b \in freeb : swap_page_from_pte(p, v, b)
          /\ Step(p) /\ UNCHANGED panicked
       \/ /\ pt[p][v].V /\ freeb = {}
          /\ panicked' = "balloc_page: out of blocks"
          /\ UNCHANGED <<pt, memVars, blkVars, job>>
    /\ UNCHANGED <<sz, child, user>>

pin_page(p) ==
    /\ \/ Doing(p, "pin") \/ Doing(p, "unpin")
    /\ job[p].va <= job[p].last
    /\ pt' = [pt EXCEPT ![p][job[p].va].P = (job[p].op = "pin")]
    /\ Step(p)
    /\ UNCHANGED <<sz, memVars, blkVars, child, user, panicked>>

-----------------------------------------------------------------------------
(* fork() with uvmcopy(), exit() with uvmfree() *)

fork(p, c) ==
    /\ Doing(p, "user") /\ job[c].op = "unused"
    /\ job' = [job EXCEPT ![p] = [op |-> "fork", va |-> 0, last |-> sz[p] - 1],
                          ![c] = [op |-> "embryo", va |-> 0, last |-> -1]]
    /\ child' = [child EXCEPT ![p] = c]
    /\ UNCHANGED <<pt, sz, memVars, blkVars, user, panicked>>

\* Mutant: the child's page table gets the parent's page.
copy_shares(p) ==
    LET v == job[p].va
        c == child[p] IN
    /\ Doing(p, "fork") /\ v <= job[p].last
    /\ pt[p][v].V /\ freep # <<>>
    /\ pt' = [pt EXCEPT ![c][v] = pt[p][v]]
    /\ user' = [user EXCEPT ![c][v] = user[p][v]]
    /\ Step(p)
    /\ UNCHANGED <<sz, memVars, blkVars, child, panicked>>

\* One page of uvmcopy(): flags and contents are copied; when kalloc() fails
\* the pages copied so far are unmapped and fork() returns -1.
uvmcopy_page(p) ==
    LET v == job[p].va
        c == child[p] IN
    /\ Doing(p, "fork") /\ v <= job[p].last
    /\ \/ /\ ~pt[p][v].V
          /\ panic("uvmcopy: page not present")
       \/ /\ pt[p][v].V
          /\ \E g \in Page :
                /\ kalloc(g)
                /\ mem' = [mem EXCEPT ![g] = mem[pt[p][v].a]]
                /\ pt' = [pt EXCEPT ![c][v] = [pt[p][v] EXCEPT !.a = g]]
          /\ user' = [user EXCEPT ![c][v] = user[p][v]]
          /\ Step(p)
          /\ UNCHANGED <<sz, blkVars, child, panicked>>
       \/ /\ pt[p][v].V /\ freep = <<>>
          /\ job' = [job EXCEPT ![p] = [op |-> "unfork", va |-> 0, last |-> v - 1]]
          /\ UNCHANGED <<pt, sz, memVars, blkVars, child, user, panicked>>

fork_return(p) ==
    /\ Doing(p, "fork") /\ job[p].va > job[p].last
    /\ sz' = [sz EXCEPT ![child[p]] = sz[p]]
    /\ job' = [job EXCEPT ![p] = NoJob, ![child[p]] = NoJob]
    /\ child' = [child EXCEPT ![p] = Nil]
    /\ UNCHANGED <<pt, memVars, blkVars, user, panicked>>

unfork_page(p) ==
    /\ Doing(p, "unfork") /\ job[p].va <= job[p].last
    /\ uvmunmap(child[p], job[p].va)
    /\ Step(p)
    /\ UNCHANGED <<sz, blkVars, child, user, panicked>>

\* freeproc(np): its page table is empty, np->sz is 0.
unfork_return(p) ==
    /\ Doing(p, "unfork") /\ job[p].va > job[p].last
    /\ job' = [job EXCEPT ![p] = NoJob, ![child[p]] = Dead]
    /\ child' = [child EXCEPT ![p] = Nil]
    /\ pt' = [pt EXCEPT ![child[p]] = [v \in VA |-> NoPte]]
    /\ user' = [user EXCEPT ![child[p]] = [v \in VA |-> Zero]]
    /\ UNCHANGED <<sz, memVars, blkVars, panicked>>

\* init never exits; exit() ends in a zombie that wait() frees.
exit(p) ==
    /\ Doing(p, "user") /\ p # First
    /\ job' = [job EXCEPT ![p] = [op |-> "exit", va |-> 0, last |-> sz[p] - 1]]
    /\ UNCHANGED <<pt, sz, memVars, blkVars, child, user, panicked>>

exit_page(p) ==
    /\ Doing(p, "exit") /\ job[p].va <= job[p].last
    /\ uvmunmap(p, job[p].va)
    /\ Step(p)
    /\ UNCHANGED <<sz, blkVars, child, user, panicked>>

\* freewalk() frees the table pages; a swapped pte is not valid and goes unseen.
freewalk(p) ==
    /\ Doing(p, "exit") /\ job[p].va > job[p].last
    /\ \/ /\ \E v \in VA : pt[p][v].V
          /\ panic("freewalk: leaf")
       \/ /\ \A v \in VA : ~pt[p][v].V
          /\ pt' = [pt EXCEPT ![p] = [v \in VA |-> NoPte]]
          /\ user' = [user EXCEPT ![p] = [v \in VA |-> Zero]]
          /\ sz' = [sz EXCEPT ![p] = 0]
          /\ job' = [job EXCEPT ![p] = Dead]
          /\ UNCHANGED <<memVars, blkVars, child, panicked>>

-----------------------------------------------------------------------------
halted == panicked # "" /\ UNCHANGED vars

Next ==
    \/ \E p \in Proc :
        \/ \E v \in Advised, x \in Val : store(p, v, x)
        \/ \E v \in VA : handle_pgfault(p, v)
        \/ sbrk_grow(p) \/ sbrk_shrink(p) \/ shrink_page(p)
        \/ \E b, l \in Advised, a \in Advice : madvise(p, b, l, a)
        \/ willneed_page(p) \/ dontneed_page(p) \/ pin_page(p) \/ madvise_return(p)
        \/ \E c \in Proc : fork(p, c)
        \/ uvmcopy_page(p) \/ fork_return(p) \/ unfork_page(p) \/ unfork_return(p)
        \/ exit(p) \/ exit_page(p) \/ freewalk(p)
    \/ halted

Spec == Init /\ [][Next]_vars

-----------------------------------------------------------------------------
(* Properties *)

\* Every variable has its type.
TypeOK ==
    /\ pt \in [Proc -> [VA -> Pte]]
    /\ sz \in [Proc -> 0 .. MaxPages]
    /\ freep \in Seq(Page) /\ mem \in [Page -> Data]
    /\ freeb \subseteq Blk /\ swap \in [Blk -> Data]
    /\ job \in [Proc -> Job]
    /\ child \in [Proc -> Proc \cup {Nil}]
    /\ user \in [Proc -> [VA -> Data]]

FreeAt(g) == {i \in DOMAIN freep : freep[i] = g}
Mapped(g) == {m \in Proc \X VA : pt[m[1]][m[2]].V /\ pt[m[1]][m[2]].a = g}

\* Every physical page is on the free list once or mapped at one user address: page
\* faults, sbrk(), madvise(), fork() and its failure path, and exit() neither
\* leak a page, nor free one that is mapped, nor map one twice.
PageOwnership ==
    \A g \in Page : Cardinality(Mapped(g)) + Cardinality(FreeAt(g)) = 1

\* A swapped page has blocks of its own, and the bitmap has them in use.  It says nothing of
\* blocks that no page holds any more: see BlocksKept and BlocksHeld.
SwapOwnership ==
    \A p, q \in Proc : \A v, w \in VA :
        pt[p][v].S => /\ ~pt[p][v].V /\ pt[p][v].a \in Blk \ freeb
                      /\ pt[q][w].S /\ pt[q][w].a = pt[p][v].a => <<p, v>> = <<q, w>>

\* Who owns what: page tables and free list agree on every physical page; no block group
\* has two owners, or an owner while the bitmap has it free; and neither is ever taken for
\* the other.  Block groups may be lost.
Ownership == TypeOK /\ PageOwnership /\ SwapOwnership

\* Where blocks are lost, and nowhere else.  A group leaves the bitmap only for a page that
\* is swapped out to it, and that page keeps it until another page is mapped over it (a
\* fault, MADV_WILLNEED or sbrk()) or its page table is freed: uvmunmap(), when memory
\* shrinks, in exit() or when fork() fails, passes a swapped page over (vm.c:298-306).
Kept ==
    /\ \A b \in freeb \ freeb' : \E p \in Proc, v \in VA : pt'[p][v].S /\ pt'[p][v].a = b
    /\ \A p \in Proc, v \in VA : pt[p][v].S => \/ pt'[p][v].S /\ pt'[p][v].a = pt[p][v].a
                                               \/ pt'[p][v].V
                                               \/ job'[p].op = "unused"

\* Kept of every step: blocks are lost where it says and nowhere else.
BlocksKept == [][Kept]_vars

\* Every block group in use holds a page that is swapped out: bfree_page(), "Free 8 disk
\* blocks allocated from balloc_page()" (fs.c:703), is left out only for address spaces
\* that wait() frees (vm.c:302-305).
BlocksHeld ==
    \A b \in Blk \ freeb : \E p \in Proc, v \in VA : pt[p][v].S /\ pt[p][v].a = b

\* What a process finds in its memory, resident or swapped, is what it stored
\* there last or zeros: never another process's data.
Isolation ==
    \A p \in Proc : \A v \in VA :
        /\ pt[p][v].V => mem[pt[p][v].a] \in {user[p][v], Zero}
        /\ pt[p][v].S => swap[pt[p][v].a] \in {user[p][v], Zero}

\* Swapping is invisible to the program: a page that is in memory holds what
\* the program stored there last.
Integrity ==
    \A p \in Proc : \A v \in VA : pt[p][v].V => mem[pt[p][v].a] = user[p][v]

\* The kernel panics in exit() and fork() for one reason each: a page that a
\* fault mapped beyond p->sz, which uvmfree() does not reach while all below
\* p->sz is unmapped; and a page that is swapped out.  Every other way to a
\* hole or a left-over page in an address space is closed.
PanicCauses ==
    /\ panicked = "freewalk: leaf" =>
          \E p \in Proc : /\ job[p].op = "exit" /\ job[p].va > job[p].last
                          /\ \A v \in VA : pt[p][v].V => v > job[p].last
    /\ panicked = "uvmcopy: page not present" =>
          \E p \in Proc : job[p].op = "fork" /\ pt[p][job[p].va].S
=============================================================================
