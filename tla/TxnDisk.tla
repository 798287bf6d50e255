------------------------------- MODULE TxnDisk -------------------------------
(***************************************************************************)
(* What the log promises to file system calls: a disk whose contents, as   *)
(* seen by a recovery after a crash, change only at commits, and a commit  *)
(* makes everything written so far durable at once, at a moment when no    *)
(* system call is between begin_op() and end_op().                         *)
(***************************************************************************)
CONSTANTS Procs, Blocks, Vals

VARIABLES durable,  \* what is on the disk after a crash and a recovery
          view,     \* what bread() returns now
          active    \* the system calls between begin_op() and end_op()

vars == <<durable, view, active>>

Init == /\ durable \in [Blocks -> Vals]
        /\ view = durable
        /\ active = {}

Begin(p) == /\ p \notin active
            /\ active' = active \cup {p}
            /\ UNCHANGED <<durable, view>>

Write(p, b, v) == /\ p \in active
                  /\ view' = [view EXCEPT ![b] = v]
                  /\ UNCHANGED <<durable, active>>

End(p) == /\ p \in active
          /\ active' = active \ {p}
          /\ UNCHANGED <<durable, view>>

Commit == /\ active = {}
          /\ durable' = view
          /\ UNCHANGED <<view, active>>

Crash == /\ view' = durable
         /\ active' = {}
         /\ UNCHANGED durable

Next == \/ \E p \in Procs : \/ Begin(p)
                            \/ End(p)
                            \/ \E b \in Blocks, v \in Vals : Write(p, b, v)
        \/ Commit
        \/ Crash

Spec == Init /\ [][Next]_vars
=============================================================================
