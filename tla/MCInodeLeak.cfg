SPECIFICATION Spec
CONSTANTS
    p1 = p1
    p2 = p2
    Nobody = Nobody
    Procs = {p1, p2}
    Inums = {1, 2, 3, 4, 5}
    Blocks = {1, 2, 3, 4}
    MaxCalls = 3
    Trees <- MCTrees
INVARIANT Reclaimed
