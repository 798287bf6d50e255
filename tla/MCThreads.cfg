SPECIFICATION FairSpec
CONSTANTS
    t1 = t1
    t2 = t2
    t3 = t3
    f1 = f1
    Thr <- MCThr
    Fn <- MCFn
    Nil = Nil
    MAX_TASK = 2
    Depth = 2
    Clients <- MCClients
INVARIANTS ThreadsOK ContextsKept
PROPERTIES LCFS Served
