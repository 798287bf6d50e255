SPECIFICATION HangSpec
CONSTANTS
    NPROC = 4
    MaxPid = 5
    KillZero = FALSE
    FamilyPid = 5
INVARIANT NoCircle
CHECK_DEADLOCK FALSE
