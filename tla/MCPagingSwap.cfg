SPECIFICATION Spec
CONSTANTS
    p1 = p1
    p2 = p2
    b1 = b1
    b2 = b2
    v1 = v1
    Proc <- MCOne
    First = p1
    NPAGE = 5
    Blk <- MCBlks
    Val <- MCVals
    Zero = Zero
    Junk = Junk
    Nil = Nil
    TextPages = 1
    MaxPages = 4
    Advised = {2, 3}
    Advice = {"willneed", "dontneed"}
INVARIANTS Integrity
