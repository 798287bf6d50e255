------------------------------ MODULE MCThreads ------------------------------
EXTENDS Threads

CONSTANTS t1, t2, t3, f1

MCThr == {t1, t2, t3}
MCFn == {f1}
\* One like the test programs, one that also does what they do not.
MCClients == {[threads |-> MCThr, habits |-> {}],
              [threads |-> {t1, t2}, habits |-> {"exit", "flood"}]}
=============================================================================
