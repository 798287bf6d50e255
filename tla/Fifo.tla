-------------------------------- MODULE Fifo --------------------------------
(***************************************************************************)
(* What a pipe promises: the bytes written come out once each, in the      *)
(* order in which they were written, and at most Capacity are on the way.  *)
(***************************************************************************)
EXTENDS Naturals, Sequences

CONSTANTS Bytes, Capacity

VARIABLES queue,  \* the bytes on the way, oldest first
          got     \* the byte that was taken out last

Init == /\ queue = <<>>
        /\ got \in Bytes

Put == /\ Len(queue) < Capacity
       /\ \E b \in Bytes : queue' = Append(queue, b)
       /\ UNCHANGED got

Take == /\ queue # <<>>
        /\ got' = Head(queue)
        /\ queue' = Tail(queue)

Spec == Init /\ [][Put \/ Take]_<<queue, got>>
=============================================================================
