----------------------------- MODULE MCDevices ------------------------------
(***************************************************************************)
(* The disk with its cache, the clock, and the allocator of a user         *)
(* program: parts that share no state, so that a behaviour is of one of    *)
(* them and leaves the others as they began.                               *)
(***************************************************************************)
EXTENDS BlockIO, Clock, Umalloc

CONSTANTS b1, b2 \* processes

VARIABLE part

mcvars == <<biovars, clockvars, heapvars, part>>

Init ==
    /\ BioInit /\ ClockInit /\ HeapInit
    /\ part \in {"disk", "clock", "heap"}
    /\ part # "disk" => Len(lru) = NBUF /\ unused = Descs
    /\ part # "clock" => ticks = 0

onlyDisk == UNCHANGED <<clockvars, heapvars, part>>
onlyClock == UNCHANGED <<biovars, heapvars, part>>
onlyHeap == UNCHANGED <<biovars, clockvars, part>>

Next ==
    \/ part = "disk" /\ BioNext /\ onlyDisk
    \/ part = "clock" /\ ClockNext /\ onlyClock
    \/ part = "heap" /\ HeapNext /\ onlyHeap

\* The disk does every request, its handler goes on, and so does a program inside malloc() or
\* free(); a process that has been woken runs, and gets a lock that is free
\* again and again.
Fairness ==
    /\ \A i \in Descs : WF_mcvars(part = "disk" /\ device(i) /\ onlyDisk)
    /\ WF_mcvars(part = "disk" /\ Handler /\ onlyDisk)
    /\ \A q \in IOProc : SF_mcvars(part = "disk" /\ Wait(q) /\ onlyDisk)
    /\ WF_mcvars(part = "heap" /\ Allocator /\ onlyHeap)

Spec == Init /\ [][Next]_mcvars /\ Fairness

InRequest(q) == io[q].at \in {"asleep", "woken"}

\* Unless the kernel stops, whoever waits for the disk gets an answer, and every call
\* of malloc() and free() returns (virtio_disk.c:296-315, umalloc.c:25-90).
NobodyStuck ==
    /\ \A q \in IOProc : InRequest(q) ~> ~InRequest(q) \/ nobuffers
    /\ CallReturns
=============================================================================
