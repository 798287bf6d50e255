------------------------------- MODULE Umalloc -------------------------------
(***************************************************************************)
(* The allocator of user programs (user/umalloc.c): a circular list of     *)
(* free blocks in order of their addresses, each with a header in front.   *)
(* Memory is counted in units of sizeof(Header).  A round of a search loop *)
(* is a step.  The program stores into the blocks it has, and may extend   *)
(* its memory with sbrk() by itself, so that chunks need not be adjacent.  *)
(***************************************************************************)
EXTENDS Integers, FiniteSets

CONSTANTS HeapSize, \* bound: units that sbrk() can hand out
          Chunk,    \* the least that morecore() asks for (4096)
          MaxUnits, \* bound: the largest block, without header, that is asked for
          Offset    \* malloc() returns p + Offset: 1 in MP0 and mp1, 0 in mp2

ASSUME UmallocAssumption ==
    /\ HeapSize \in Nat
    /\ Chunk \in Nat \ {0}
    /\ MaxUnits \in Nat
    /\ Offset \in {0, 1}

Base == 0                 \* address of the variable base, below the heap
Heap == 1 .. HeapSize
Addr == {Base} \cup Heap
Null == -1

VARIABLES
    unit,   \* unit[a]: the header at a, or Junk: data, or what is left of a
            \* header that has become part of a larger block
    brk,    \* the first unit that sbrk() has not handed out
    freep,  \* freep
    live,   \* the blocks the program has: where and how many units
    own,    \* units the program got from sbrk() directly
    loop,   \* "idle", or the loop that runs
    p,      \* the local variable p of malloc() and free()
    prevp,  \* prevp of malloc()
    nunits, \* nunits of malloc()
    bp      \* bp of free()

heapvars == <<unit, brk, freep, live, own, loop, p, prevp, nunits, bp>>

Junk == [ptr |-> Null, size |-> -1]
Header(q, n) == [ptr |-> q, size |-> n]

\* Pointers point to memory the program has, headers have sizes.
HeapTypeOK ==
    /\ unit \in [Addr -> {Junk} \cup [ptr : Addr, size : 0 .. HeapSize]]
    /\ brk \in 1 .. HeapSize + 1
    /\ freep \in Addr \cup {Null}
    /\ live \subseteq [at : Addr \cup {HeapSize + 1}, units : 0 .. MaxUnits]
    /\ own \subseteq Heap
    /\ loop \in {"idle", "malloc", "free", "morecore"}
    /\ {p, prevp, bp} \subseteq Addr \cup {Null}
    /\ nunits \in 0 .. MaxUnits + 1

HeapInit ==
    /\ unit = [a \in Addr |-> Junk]
    /\ brk = 1
    /\ freep = Null
    /\ live = {}
    /\ own = {}
    /\ loop = "idle"
    /\ p = Null
    /\ prevp = Null
    /\ nunits = 0
    /\ bp = Null

-----------------------------------------------------------------------------
(* malloc().                                                               *)

\* Forget the locals when the call is over.
CallOver ==
    /\ loop' = "idle"
    /\ p' = Null
    /\ prevp' = Null
    /\ nunits' = 0
    /\ bp' = Null

\* The first call makes base a list of itself.
malloc(n) ==
    /\ loop = "idle"
    /\ nunits' = n + 1
    /\ \/ /\ freep = Null
          /\ unit' = [unit EXCEPT ![Base] = Header(Base, 0)]
          /\ freep' = Base
       \/ /\ freep # Null
          /\ UNCHANGED <<unit, freep>>
    /\ prevp' = freep'
    /\ p' = unit'[freep'].ptr
    /\ loop' = "malloc"
    /\ UNCHANGED <<brk, live, own, bp>>

\* Mutant: the tail keeps the size of what is left.
malloc_take_unsized ==
    /\ loop = "malloc"
    /\ unit[p].size >= nunits
    /\ LET rest == unit[p].size - nunits
           b == p + rest
       IN /\ unit' = IF rest = 0
                    THEN [unit EXCEPT ![prevp].ptr = unit[p].ptr, ![p].ptr = Base]
                    ELSE [unit EXCEPT ![p].size = rest, ![b] = Header(Base, rest)]
          /\ live' = live \cup {[at |-> b + Offset, units |-> nunits - 1]}
    /\ freep' = prevp
    /\ CallOver
    /\ UNCHANGED <<brk, own>>

\* The block at p is large enough: all of it is taken, or its tail.  The ptr
\* of a block in use is never read, and is Base here.
malloc_take ==
    /\ loop = "malloc"
    /\ unit[p].size >= nunits
    /\ LET rest == unit[p].size - nunits
           b == p + rest
       IN /\ unit' = IF rest = 0
                    THEN [unit EXCEPT ![prevp].ptr = unit[p].ptr, ![p].ptr = Base]
                    ELSE [unit EXCEPT ![p].size = rest, ![b] = Header(Base, nunits)]
          /\ live' = live \cup {[at |-> b + Offset, units |-> nunits - 1]}
    /\ freep' = prevp
    /\ CallOver
    /\ UNCHANGED <<brk, own>>

malloc_next ==
    /\ loop = "malloc"
    /\ unit[p].size < nunits
    /\ p # freep
    /\ prevp' = p
    /\ p' = unit[p].ptr
    /\ UNCHANGED <<unit, brk, freep, live, own, loop, nunits, bp>>

Chunks == IF nunits < Chunk THEN Chunk ELSE nunits

\* Once around: morecore() makes a block of new memory and frees it.
morecore ==
    /\ loop = "malloc"
    /\ unit[p].size < nunits
    /\ p = freep
    /\ brk + Chunks <= HeapSize + 1
    /\ unit' = [unit EXCEPT ![brk] = Header(Base, Chunks)]
    /\ bp' = brk
    /\ brk' = brk + Chunks
    /\ p' = freep
    /\ loop' = "morecore"
    /\ UNCHANGED <<freep, live, own, prevp, nunits>>

\* sbrk() fails and malloc() returns 0.
morecore_fails ==
    /\ loop = "malloc"
    /\ unit[p].size < nunits
    /\ p = freep
    /\ brk + Chunks > HeapSize + 1
    /\ CallOver
    /\ UNCHANGED <<unit, brk, freep, live, own>>

-----------------------------------------------------------------------------
(* free().                                                                 *)

free(b) ==
    /\ loop = "idle"
    /\ b \in live
    /\ live' = live \ {b}
    /\ bp' = b.at - 1
    /\ p' = freep
    /\ loop' = "free"
    /\ UNCHANGED <<unit, brk, freep, own, prevp, nunits>>

\* bp lies between p and the next block, or beyond either end of the list.
InPlace ==
    LET next == unit[p].ptr IN
    \/ bp > p /\ bp < next
    \/ p >= next /\ (bp > p \/ bp < next)

free_next ==
    /\ loop \in {"free", "morecore"}
    /\ ~InPlace
    /\ p' = unit[p].ptr
    /\ UNCHANGED <<unit, brk, freep, live, own, loop, prevp, nunits, bp>>

\* Block a, in front of block b and with size n, is joined with b if they
\* touch, and linked to it otherwise.
Joining(m, a, b, n) ==
    IF a + n = b
    THEN [m EXCEPT ![a] = Header(m[b].ptr, n + m[b].size), ![b] = Junk]
    ELSE [m EXCEPT ![a] = Header(b, n)]

\* bp joined with the block above, and then with the block below.
Linked ==
    LET above == Joining(unit, bp, unit[p].ptr, unit[bp].size)
    IN Joining(above, p, bp, unit[p].size)

free_link ==
    /\ loop = "free"
    /\ InPlace
    /\ unit' = Linked
    /\ freep' = p
    /\ CallOver
    /\ UNCHANGED <<brk, live, own>>

\* The same inside morecore(), which returns freep; then the loop of
\* malloc() goes on behind it.
morecore_return ==
    /\ loop = "morecore"
    /\ InPlace
    /\ unit' = Linked
    /\ freep' = p
    /\ prevp' = p
    /\ p' = unit'[p].ptr
    /\ bp' = Null
    /\ loop' = "malloc"
    /\ UNCHANGED <<brk, live, own, nunits>>

-----------------------------------------------------------------------------
(* The program.                                                            *)

\* It fills a block with data.
store(b) ==
    /\ loop = "idle"
    /\ b \in live
    /\ unit' = [a \in Addr |-> IF a \in b.at .. b.at + b.units - 1
                              THEN Junk ELSE unit[a]]
    /\ UNCHANGED <<brk, freep, live, own, loop, p, prevp, nunits, bp>>

\* It takes a unit from sbrk() for itself.  Bound: once.
sbrk ==
    /\ loop = "idle"
    /\ own = {}
    /\ brk <= HeapSize
    /\ own' = {brk}
    /\ brk' = brk + 1
    /\ UNCHANGED <<unit, freep, live, loop, p, prevp, nunits, bp>>

Allocator ==
    \/ malloc_take \/ malloc_next \/ morecore \/ morecore_fails \/ morecore_return
    \/ free_next \/ free_link

HeapNext ==
    \/ Allocator
    \/ \E n \in 0 .. MaxUnits : malloc(n)
    \/ \E b \in live : free(b) \/ store(b)
    \/ sbrk

HeapSpec == HeapInit /\ [][HeapNext]_heapvars

-----------------------------------------------------------------------------
(* Properties.                                                             *)

\* The blocks met on the way round the list, starting at freep.
FreeBlocks ==
    LET hop[k \in 0 .. HeapSize + 1] ==
            IF k = 0 THEN freep ELSE unit[hop[k - 1]].ptr
    IN {hop[k] : k \in 0 .. HeapSize + 1}

Units(a, n) == a .. a + n - 1

\* Between calls every unit the allocator got from sbrk() belongs to one free
\* block or to one block of the program, header included, and to nothing
\* else: blocks never overlap, are never lost, and the list always leads back
\* to its start however blocks are freed, split and joined.
Partition ==
    loop = "idle" /\ freep # Null =>
        LET free_units == {Units(a, unit[a].size) : a \in FreeBlocks \ {Base}}
            live_units == {Units(b.at - 1, b.units + 1) : b \in live}
        IN /\ Base \in FreeBlocks
           /\ Cardinality(live_units) = Cardinality(live)
           /\ \A x, y \in free_units \cup live_units : x = y \/ x \cap y = {}
           /\ free_units \cap live_units = {}
           /\ UNION (free_units \cup live_units) = (1 .. brk - 1) \ own

\* Free blocks never touch each other, so that memory that has been freed can
\* be handed out in larger pieces again.
Joined ==
    loop = "idle" /\ freep # Null =>
        \A a \in FreeBlocks \ {Base} : a + unit[a].size \notin FreeBlocks

\* What free() takes for the header of a block is the header malloc() made,
\* whatever the program has stored in its blocks since.
HeaderKept ==
    \A b \in live : unit[b.at - 1].size = b.units + 1

\* The heap as a data structure (umalloc.c:16-90): pointers, ownership of units,
\* joined blocks, headers.
HeapOK == HeapTypeOK /\ Partition /\ Joined /\ HeaderKept

\* Every call of malloc() and free() returns: no search goes round for ever.
CallReturns == loop # "idle" ~> loop = "idle"

=============================================================================
