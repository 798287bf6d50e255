SPECIFICATION MCSpec
CONSTANTS
    NPROC = 3
    MaxPid = 4
    KillZero = FALSE
    FamilyPid = 4
INVARIANTS TableOK WaitLockSound StackRetired FamilyOK
PROPERTY Reaped
CHECK_DEADLOCK FALSE
