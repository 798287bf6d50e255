------------------------------ MODULE MCMemory ------------------------------
(***************************************************************************)
(* The virtual memory of mp2: pages, blocks and page faults with two       *)
(* processes, and the page replacement buffer with two walkers.  The       *)
(* buffer only records entries and what it evicts is not acted on, so the  *)
(* two share no state; a behaviour is of one of them.                      *)
(***************************************************************************)
EXTENDS MCPaging, PrBuffer, TLC

CONSTANTS w1, w2 \* walkers

MCWalkers == {w1, w2}
Symmetry == Permutations(MCWalkers)

VARIABLE part

mcvars == <<vars, prvars, part>>

MCInit ==
    /\ Init /\ PrInit
    /\ part \in {"swapping", "pins", "buffer"}
    /\ part # "buffer" => policy = "LRU"

Pins == {"pin", "unpin"}

\* Bounds: advice about swapping from both processes, or, besides MADV_DONTNEED, advice
\* about pins from the first.
Advising ==
    \A p \in Proc : /\ part = "swapping" => job'[p].op \notin Pins
                    /\ part = "pins" => /\ job'[p].op # "willneed"
                                        /\ job'[p].op \in Advice => p = First

\* Bounds: pins in the FIFO build only, the one that looks at them, and nothing is swapped
\* out before the first pin, or swapped out or unmapped after it; one page per munmap();
\* one walker at a time does more than map.  Walkers that have raced end what they are
\* doing and begin nothing new.
Walking ==
    LET doing(ops) == {x \in Walkers : walks'[x].op \in ops} IN
    /\ doing({"pin"}) # {} => policy = "FIFO" /\ S = {}
    /\ fifo_flag = 1 => doing({"dontneed", "unmap"}) = {}
    /\ \A x \in doing({"unmap"}) : walks'[x].pte = walks'[x].last
    /\ Cardinality(doing({"dontneed", "pin", "unmap"})) <= 1
    /\ raced => \A x \in Walkers : walks[x].op = "idle" => walks'[x].op = "idle"

Ended == raced /\ \A x \in Walkers : walks[x].op = "idle"

MCNext ==
    \/ part # "buffer" /\ Next /\ Advising /\ UNCHANGED <<prvars, part>>
    \/ part = "buffer" /\ PrNext /\ Walking /\ UNCHANGED <<vars, part>>
    \/ part = "buffer" /\ Ended /\ UNCHANGED mcvars

MCSpec == MCInit /\ [][MCNext]_mcvars
=============================================================================
