SPECIFICATION MCSpec
CONSTANTS
    p1 = p1
    p2 = p2
    p3 = p3
    b1 = b1
    b2 = b2
    b3 = b3
    v1 = v1
    v2 = v2
    Procs <- MCProcs
    Blocks <- MCBlocks
    Vals <- MCVals
    None = None
    MAXOPBLOCKS = 2
    LOGSIZE = 4
    NLOG = 4
    OpWrites = 1
    UINT = 8
    RecoverUnpins = FALSE
    UseLog = TRUE
INVARIANTS LogOK QuietIsDurable
PROPERTIES Atomicity WaiterWakes
