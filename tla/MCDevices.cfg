SPECIFICATION Spec
CONSTANTS
    b1 = b1
    b2 = b2
    IOProc = {b1, b2}
    NBUF = 2
    Sector = {1, 2}
    Queues = {5, 6}
    Nothing = Nothing
    Sleeper = {b1, b2}
    Cores = {0, 1}
    WIDTH = 4
    MaxArg = 1
    HeapSize = 7
    Chunk = 3
    MaxUnits = 3
    Offset = 1
INVARIANTS BlockOK ClockOK HeapOK
PROPERTIES NobodyStuck
