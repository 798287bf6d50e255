SPECIFICATION MCSpec
CONSTANTS
    p1 = p1
    p2 = p2
    b1 = b1
    b2 = b2
    v1 = v1
    Proc <- MCProcs
    First = p1
    NPAGE = 6
    Blk = {b1}
    Val <- MCVals
    Zero = Zero
    Junk = Junk
    Nil = Nil
    TextPages = 1
    MaxPages = 4
    Advised = {2, 3}
    Advice = {"willneed", "dontneed", "pin", "unpin"}
    w1 = w1
    w2 = w2
    NPTE = 3
    Walkers <- MCWalkers
    PG_BUF_SIZE = 2
    Policies = {"LRU", "FIFO"}
    Ops = {"map", "unmap", "dontneed", "pin", "vmprint"}
SYMMETRY Symmetry
INVARIANTS Ownership Isolation PanicCauses  LeastRecentEvicted
PROPERTIES BlocksKept
