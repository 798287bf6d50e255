SPECIFICATION MCSpec
CONSTANTS
    p1 = p1
    p2 = p2
    Nobody = Nobody
    reader = reader
    out1 = out1
    out2 = out2
    Reader = {reader}
    Writer = {out1, out2}
    INPUT_BUF = 2
    UWIDTH = 4
    TX_BUF = 1
    Request = 2
    RX = 1
    Procs = {p1, p2}
    Inums = {1, 2, 3, 4, 5}
    Blocks = {1, 2, 3, 4}
    MaxCalls = 3
    Trees <- MCTrees
INVARIANTS InodeOK NamesCounted OpenKept PanicCauses TerminalOK
