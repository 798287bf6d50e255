SPECIFICATION FairSpec
CONSTANTS
    NPROC = 2
    c1 = c1
    c2 = c2
    l1 = l1
    l2 = l2
    Harts <- MCHarts
    Locks <- MCLocks
    Nil = Nil
    Victims = {1}
INVARIANTS KernelSound SleepLockMutex StackOwnership NoLostWakeup MaskedWhileLocked
PROPERTIES SleeperWakes
