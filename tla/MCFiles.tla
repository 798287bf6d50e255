------------------------------ MODULE MCFiles -------------------------------
(***************************************************************************)
(* What file descriptors lead to: inodes on small trees with two           *)
(* processes, and the console.  A device file keeps no state of its own,   *)
(* so the two share none; a behaviour is of one of them.                   *)
(***************************************************************************)
EXTENDS MCInode, Terminal

CONSTANTS reader, out1, out2 \* processes at the console

VARIABLE part

mcvars == <<vars, termvars, part>>

\* Bound: those at the console who have not been killed at first, a reader or two
\* writers.
Crews == {{reader}, {out1, out2}}

MCInit ==
    /\ Init /\ TermInit
    /\ part \in {"files", "console"}
    /\ {q \in TermProc : ~tty[q].killed} \in IF part = "files" THEN {TermProc} ELSE Crews
    /\ part = "console" => dir[2] = NoDir /\ dinode[2] = NoDinode

MCNext ==
    \/ part = "files" /\ Next /\ UNCHANGED <<termvars, part>>
    \/ part = "console" /\ TermNext /\ UNCHANGED <<vars, part>>

MCSpec == MCInit /\ [][MCNext]_mcvars
=============================================================================
