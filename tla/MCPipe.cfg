SPECIFICATION Spec
CONSTANTS
    p1 = p1
    p2 = p2
    p3 = p3
    b1 = b1
    b2 = b2
    Procs <- MCProcs
    Bytes <- MCBytes
    PIPESIZE = 2
    UINT = 4
    Sizes = {1, 3}
    Victims <- MCProcs
    Copies = {"mp1", "mp2"}
    Nobody = Nobody
CHECK_DEADLOCK FALSE
SYMMETRY Symmetry
INVARIANTS PipeOK NobodyWaitsInVain
PROPERTY InOrder
