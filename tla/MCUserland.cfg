SPECIFICATION MCSpec
CONSTANTS
    PGSIZE = 2
    BSIZE = 2
    MAXFILE = 6
    ICACHE = 7
    NPROC = 7
    NOFILE = 8
    NFILE = 12
    NINODE = 24
    NBLOCK = 40
    MAXWRITE = 2
    PIPESIZE = 2
    KPAGES = 46
    ARGBYTES = 3
    GREPBUF = 5
    Texts <- MCTexts
    Typed <- MCTyped
    Thr <- MCThr
    Fn <- MCFn
    Nil = Nil
    MAX_TASK = 11
    Depth = 11
    Clients <- MCClients
    Rand <- MCRand
    Scenarios <- MCScenarios
    Lines = {"pipe", "list", "back", "three", "none", "dir", "tree", "count", "wc", "kill"}
    Patterns = {"a", "ab", "^b", "b$", "a*b", "^a*$", "^.$", "^.*b", "$", "^", "*", "a$b", "a*a"}
    Rands = {"files", "procs", "fork", "line", "pipes"}
    Others = {"greedy", "zombie", "forktest", "stressfs", "mp1-part1-0", "mp1-part1-1",
              "mp1-part2-0", "mp1-part2-1", "mp1-part2-2"}
    Tests = {
        "manywrites", "execout", "copyin", "copyout", "copyinstr1",
        "copyinstr2", "copyinstr3", "rwsbrk", "truncate1", "truncate2",
        "truncate3", "reparent2", "pgbug", "sbrkbugs", "badwrite", "badarg",
        "reparent", "twochildren", "forkfork", "forkforkfork", "argptest",
        "createdelete", "linkunlink", "linktest", "unlinkread", "concreate",
        "subdir", "fourfiles", "sharedfd", "dirtest", "exectest",
        "bigargtest", "bigwrite", "bsstest", "sbrkbasic", "sbrkmuch",
        "kernmem", "sbrkfail", "sbrkarg", "validatetest", "stacktest",
        "opentest", "writetest", "writebig", "createtest", "openiput",
        "exitiput", "iput", "mem", "pipe1", "preempt", "exitwait", "rmdot",
        "fourteen", "bigfile", "dirfile", "iref", "forktest", "bigdir",
        "killstatus", "MAXVAplus", "sbrklast"}
INVARIANTS TestsPass KernelOK ProgramsOK
