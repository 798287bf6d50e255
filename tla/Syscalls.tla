------------------------------ MODULE Syscalls ------------------------------
(***************************************************************************)
(* The system calls of the kernel as its programs see them: processes with *)
(* their descriptors, current directory and memory, the table of open      *)
(* files, pipes, and the tree of inodes.  A call is one step, but for the  *)
(* places where the kernel lets another process in: a write longer than    *)
(* one transaction, a pipe that is full or empty, wait(), and the two      *)
(* halves of exit().  What runs inside such a step is the subject of the   *)
(* modules SleepLock, Log, Inode, Pipe and Proc.                           *)
(*                                                                         *)
(* The processes run the programs of module UserTests and Programs; pids   *)
(* are indices of the process table.                                       *)
(***************************************************************************)
EXTENDS UserTests

CONSTANTS
  NPROC,      \* processes
  NOFILE,     \* descriptors of a process
  NFILE,      \* open files
  NINODE,     \* inodes of the disk (sb.ninodes)
  NBLOCK,     \* data blocks of the disk
  MAXWRITE,   \* bytes filewrite() writes in one transaction
  PIPESIZE,   \* bytes of a pipe
  KPAGES,     \* pages of memory
  ARGBYTES,   \* bytes of arguments that fit the stack page
  Typed,      \* lines a user types into sh, by name
  Rand,       \* what rand() may say in grind's two processes, by name
  Texts,      \* the characters of the text files, by name
  Scenarios   \* [prog, args, files, slots]: what init starts, the files there
              \* are, the slots of the process table that nothing else takes

ASSUME SyscallsAssumption ==
  /\ {NPROC, NOFILE, NFILE, NINODE, NBLOCK, MAXWRITE, PIPESIZE, KPAGES, ARGBYTES} \subseteq Nat \ {0}
  /\ MAXWRITE % BSIZE = 0

VARIABLES
  proc,       \* the process table
  kernel      \* [file, node, pipe, free]: open files, inodes, pipes, free pages

vars == <<proc, kernel>>

Procs == 1 .. NPROC
Files == 1 .. NFILE
Inums == 1 .. NINODE
Init1 == 1           \* initproc
ROOTINO == 1
GUARD == 1           \* the page below the stack of a program
IMAGE == 3           \* pages of a program: text and data, guard, stack
UINT == 10000        \* numbers of an unsigned int

-----------------------------------------------------------------------------
(* Memory.                                                                 *)
Pages(bytes) == (bytes + PGSIZE - 1) \div PGSIZE

(* walkaddr(): the address is of a page that is present and the user's.    *)
Mapped_whole(pr, a) == a >= 0 /\ a < Pages(pr.sz) * PGSIZE
Mapped(pr, a) == a >= 0 /\ a < Pages(pr.sz) * PGSIZE /\ a \div PGSIZE # GUARD

Value(pr, x) ==
  x.k + (IF x.plus = "" THEN 0 ELSE pr.env[x.plus]) - (IF x.minus = "" THEN 0 ELSE pr.env[x.minus])

(* copyin(): how many of n bytes from address a it reaches; CopyOut() to   *)
(* a; copyinstr() of a string and its end, which must fit the buffer.      *)
Reach(pr, at, n) ==
  LET a == Value(pr, at) IN
  IF at = Buf THEN n
  ELSE Cardinality({i \in 0 .. n - 1 : \A j \in 0 .. i : Mapped(pr, a + j)})
CopyOut(pr, at, n) == Reach(pr, at, n) = n
copyinstr(pr, c) == c.path.fits /\ Reach(pr, c.at, 2) = 2

(* The free pages.                                                         *)
kalloc(k, n) == [k EXCEPT !.free = @ - n]
kfree(k, n) == [k EXCEPT !.free = @ + n]

(* A step that may fail: [ok, k], the kernel it leaves in either case.     *)
Done(k) == [ok |-> TRUE, k |-> k]
Failed(k) == [ok |-> FALSE, k |-> k]

(* uvmalloc() and uvmcopy() take page after page until there is none, and  *)
(* then free the ones they took; uvmfree() also frees the page table.      *)
uvmunmap(k, npages) == kfree(k, npages)
uvmdealloc(k, oldsz, newsz) ==
  IF newsz >= oldsz THEN k ELSE uvmunmap(k, Pages(oldsz) - Pages(newsz))
(* Mutant: the pages taken before memory ran out stay taken.               *)
uvmalloc_keeps(k, oldsz, newsz) ==
  LET got == Min({Pages(newsz) - Pages(oldsz), k.free})
  IN [ok |-> got = Pages(newsz) - Pages(oldsz), k |-> kalloc(k, got)]
uvmalloc(k, oldsz, newsz) ==
  LET base == Pages(oldsz) * PGSIZE
      got == Min({Pages(newsz) - Pages(oldsz), k.free})
      a == base + got * PGSIZE
  IN IF a >= newsz THEN Done(kalloc(k, got)) ELSE Failed(uvmdealloc(kalloc(k, got), a, base))
uvmcopy(k, sz) ==
  LET got == Min({Pages(sz), k.free})
      i == got * PGSIZE
  IN IF i >= sz THEN Done(kalloc(k, got)) ELSE Failed(uvmunmap(kalloc(k, got), i \div PGSIZE))
uvmfree(k, sz) == kfree(uvmunmap(k, Pages(sz)), 1)

(* A process has a trap frame and a page table beside its memory, each one *)
(* page here; freeproc() frees the page table if there is one.             *)
FRAME == 2
proc_pagetable(k) == IF k.free = 0 THEN Failed(k) ELSE Done(kalloc(k, 1))
proc_freepagetable(k, sz) == uvmfree(k, sz)
freeproc(k, pagetable, sz) ==
  IF pagetable THEN proc_freepagetable(kfree(k, 1), sz) ELSE kfree(k, 1)
allocproc(k) ==
  LET table == proc_pagetable(kalloc(k, 1))
  IN IF k.free = 0 THEN Failed(k)
     ELSE IF ~table.ok THEN Failed(freeproc(table.k, FALSE, 0))
     ELSE table

(* growproc(): a size below 0 is a large one to uvmdealloc(), which does   *)
(* nothing then.                                                           *)
growproc(pr, n) ==
  LET got == uvmalloc(kernel, pr.sz, pr.sz + n) IN
  IF n > 0 /\ ~got.ok THEN [ret |-> -1, sz |-> pr.sz, k |-> got.k]
  ELSE IF pr.sz + n < 0 THEN [ret |-> pr.sz, sz |-> pr.sz, k |-> kernel]
  ELSE [ret |-> pr.sz, sz |-> pr.sz + n,
        k |-> IF n > 0 THEN got.k ELSE uvmdealloc(kernel, pr.sz, pr.sz + n)]

-----------------------------------------------------------------------------
(* Inodes.  A directory's data are its entries, a removed one has inum 0.  *)
FreeNode == [type |-> "free", nlink |-> 0, data |-> <<>>, blks |-> 0, ref |-> 0]
Entry(name, inum) == [inum |-> inum, name |-> name]

(* skipelem() keeps DIRSIZ bytes of a name.                                *)
Clip(name) == IF name = "n15" THEN "n14" ELSE name

(* dirlookup(): the position of the entry, 0 if there is none.             *)
Slot(k, dp, name) ==
  SelectInSeq(k.node[dp].data, LAMBDA de : de.inum # 0 /\ de.name = Clip(name))
Lookup(k, dp, name) ==
  LET s == Slot(k, dp, name) IN IF s = 0 THEN 0 ELSE k.node[dp].data[s].inum

(* dirlink(): the first free entry, or one more.                           *)
DirLink(data, de) ==
  LET s == SelectInSeq(data, LAMBDA e : e.inum = 0) IN
  IF s = 0 THEN Append(data, de) ELSE [data EXCEPT ![s] = de]

IsDirEmpty(data) == \A i \in 3 .. Len(data) : data[i].inum = 0

(* namex(): 0 if a name is missing or a step is not through a directory.   *)
Walk(k, pr, path, names) ==
  FoldLeft(LAMBDA ip, name : IF ip = 0 \/ k.node[ip].type # "dir" THEN 0
                             ELSE Lookup(k, ip, name),
           IF path.abs THEN ROOTINO ELSE pr.cwd, names)
Namei(k, pr, path) == Walk(k, pr, path, path.names)
NameiParent(k, pr, path) ==
  IF path.names = <<>> THEN 0
  ELSE LET dp == Walk(k, pr, path, Front(path.names))
       IN IF dp # 0 /\ k.node[dp].type = "dir" THEN dp ELSE 0

Idup(k, ip) == [k EXCEPT !.node[ip].ref = @ + 1]
(* iget(): in a slot of the table, of which Limits says there is one.      *)
Iget(k, ip) == [k EXCEPT !.node[ip].ref = IF @ > 0 THEN @ + 1 ELSE 1]
Iput(k, ip) ==
  IF k.node[ip].ref = 1 /\ k.node[ip].nlink = 0
  THEN [k EXCEPT !.node[ip] = FreeNode]
  ELSE [k EXCEPT !.node[ip].ref = @ - 1]

(* ialloc(), balloc() for that many bytes, itrunc(), stati().              *)
ialloc(k) == Min({i \in Inums : k.node[i].type = "free"})
balloc(node, bytes) == [node EXCEPT !.blks = Max({@, (bytes + BSIZE - 1) \div BSIZE})]
itrunc(node) == [node EXCEPT !.data = <<>>, !.blks = 0]
stati(node) == <<node.type, node.nlink, Len(node.data)>>

(* create(): [ip, k], with ip 0 for a failure; the caller gets a reference.*)
Create(k, pr, path, type) ==
  LET dp == NameiParent(k, pr, path)
      name == Clip(Last(path.names))
      ip == Lookup(k, dp, name)
      new == ialloc(k)
      dots == <<Entry(".", new), Entry("..", dp)>>
      made == [FreeNode EXCEPT !.type = type, !.nlink = 1, !.ref = 1,
                               !.data = IF type = "dir" THEN dots ELSE <<>>]
  IN IF dp = 0 THEN [ip |-> 0, k |-> k]
     ELSE IF ip = 0 THEN
       [ip |-> new,
        k |-> [k EXCEPT !.node[new] = made,
                        !.node[dp].data = DirLink(@, Entry(name, new)),
                        !.node[dp].nlink = @ + (IF type = "dir" THEN 1 ELSE 0)]]
     ELSE IF type = "file" /\ k.node[ip].type \in {"file", "dev"}
          THEN [ip |-> ip, k |-> Iget(k, ip)]
          ELSE [ip |-> 0, k |-> k]

-----------------------------------------------------------------------------
(* Open files and pipes.                                                   *)
NoFile == [type |-> "none", ref |-> 0, ip |-> 0, off |-> 0,
           readable |-> FALSE, writable |-> FALSE]
NoPipe == [data |-> <<>>, readopen |-> FALSE, writeopen |-> FALSE]

Lowest(S) == IF S = {} THEN 0 ELSE CHOOSE x \in S : \A y \in S : x <= y
FreeFile(k) == Lowest({f \in Files : k.file[f].ref = 0})
FreeFds(pr) == {fd \in 0 .. NOFILE - 1 : pr.ofile[fd] = 0}
FreePipe(k) == Lowest({i \in DOMAIN k.pipe : k.pipe[i] = NoPipe})

(* filealloc() takes an entry of the file table, fdalloc() a descriptor for*)
(* it: 0, and -1, if there is none.                                        *)
filealloc(k) ==
  LET f == FreeFile(k) IN [f |-> f, k |-> IF f = 0 THEN k ELSE [k EXCEPT !.file[f].ref = 1]]
fdalloc(pr, f) ==
  IF FreeFds(pr) = {} THEN [fd |-> -1, pr |-> pr]
  ELSE LET fd == Min(FreeFds(pr)) IN [fd |-> fd, pr |-> [pr EXCEPT !.ofile[fd] = f]]

(* argfd(): the open file, 0 if the descriptor is bad.                     *)
ArgFd(pr, c) ==
  LET fd == Value(pr, c.fd) IN IF fd \in 0 .. NOFILE - 1 THEN pr.ofile[fd] ELSE 0

FileDup(k, f) == [k EXCEPT !.file[f].ref = @ + 1]

PipeClose(k, i, writable) ==
  LET pi == IF writable THEN [k.pipe[i] EXCEPT !.writeopen = FALSE]
                        ELSE [k.pipe[i] EXCEPT !.readopen = FALSE]
  IN IF pi.readopen \/ pi.writeopen THEN [k EXCEPT !.pipe[i] = pi]
     ELSE kfree([k EXCEPT !.pipe[i] = NoPipe], 1)

FileClose(k, f) ==
  LET ff == k.file[f]
      kk == [k EXCEPT !.file[f] = NoFile]
  IN IF ff.ref > 1 THEN [k EXCEPT !.file[f].ref = @ - 1]
     ELSE IF ff.type = "pipe" THEN PipeClose(kk, ff.ip, ff.writable)
     ELSE IF ff.type = "none" THEN kk
     ELSE Iput(kk, ff.ip)

(* pipealloc(): two files and a page; what it got before a failure it gives*)
(* back.                                                                   *)
pipealloc(k) ==
  LET rf == filealloc(k)
      wf == IF rf.f = 0 THEN rf ELSE filealloc(rf.k)
      i == FreePipe(k)
      end == [NoFile EXCEPT !.type = "pipe", !.ref = 1, !.ip = i]
      got == SelectSeq(<<rf.f, wf.f>>, LAMBDA f : f # 0)
  IN IF Len(got) < 2 \/ k.free = 0 THEN Failed(FoldLeft(FileClose, wf.k, got))
     ELSE [ok |-> TRUE, rf |-> rf.f, wf |-> wf.f,
           k |-> [kalloc(wf.k, 1) EXCEPT
                    !.file[rf.f] = [end EXCEPT !.readable = TRUE],
                    !.file[wf.f] = [end EXCEPT !.writable = TRUE],
                    !.pipe[i] = [NoPipe EXCEPT !.readopen = TRUE, !.writeopen = TRUE]]]

-----------------------------------------------------------------------------
(* What exec() starts, by the name of the file, and the bytes its arguments*)
(* take on the stack; a bad pointer and a string without end are refused   *)
(* before that.                                                            *)
ThreadPrograms == {"mp1-part1-0", "mp1-part1-1", "mp1-part2-0", "mp1-part2-1", "mp1-part2-2"}
Binaries == {"usertests", "sh", "echo", "cat", "rm", "mkdir", "ln", "ls", "zombie", "forktest",
             "stressfs", "grind", "grep", "wc", "kill", "mp0", "count", "testgen", "greedy"}
            \cup ThreadPrograms
Shells == [t \in DOMAIN Typed |-> sh(Typed[t])]
Main(name, args) ==
  CASE name = "usertests" -> usertests(args[1])
    [] name = "sh" -> Shells[args[1]]
    [] name = "echo" -> echo(args)
    [] name = "cat" -> cat(args)
    [] name = "rm" -> rm(args)
    [] name = "mkdir" -> mkdir(args)
    [] name = "ln" -> ln(args)
    [] name = "ls" -> lsmain(args)
    [] name = "grep" -> grepmain(args)
    [] name = "wc" -> wcmain(args)
    [] name = "kill" -> kill(args)
    [] name \in ThreadPrograms -> threaded
    [] name = "zombie" -> zombie
    [] name = "greedy" -> greedy
    [] name = "forktest" -> forktestc
    [] name = "stressfs" -> stressfs
    [] name = "grind" -> grind(1, Rand[args[1]])
    [] name = "mp0" -> mp0(args[1], args[2])
    [] name = "count" -> count(args[1])
    [] name = "testgen" -> testgen

(* The subprogram for an entry: of ls, of count, or of mp0 with a key.     *)
Sub(name, names) ==
  CASE name = "lsentry" -> lsentry(names)
    [] name = "count" -> traversec(names)
    [] OTHER -> traverse(names, name)

GoodArg(arg) == arg \notin {"BADPTR", "UNENDING"}
SumBytes(args) == FoldLeft(LAMBDA n, arg : n + (IF arg = "LONG" THEN 2 ELSE 1), 0, args)

-----------------------------------------------------------------------------
(* How a call returns: the result goes to its variable, the program goes on*)
(* as the statement says.                                                  *)
Return(pr, r) ==
  LET c == Head(pr.todo)
      rest == IF c.loop THEN pr.todo ELSE Tail(pr.todo)
  IN [pr EXCEPT !.env = IF c.to = "" THEN @ ELSE (c.to :> r) @@ @,
                !.todo = IF r >= c.want[1] /\ r <= c.want[2] THEN c.then \o rest
                         ELSE c.else \o Tail(@),
                !.done = 0]

Set(pr, v, x) == [pr EXCEPT !.env = (v :> x) @@ @]

(* syscall(), reached from usertrap() unless the process was killed; a call*)
(* that has begun goes on.                                                 *)
Calls(p, op) ==
  /\ proc[p].state = "run" /\ proc[p].todo # <<>> /\ Head(proc[p].todo).op = op
  /\ proc[p].killed => proc[p].done > 0

(* The call of p returns r and leaves pr and k behind.                     *)
Returns(p, pr, k, r) == proc' = [proc EXCEPT ![p] = Return(pr, r)] /\ kernel' = k

SysOpen(p) ==
  /\ Calls(p, "open")
  /\ LET pr == proc[p]
         c == Head(pr.todo)
         made == Create(kernel, pr, c.path, "file")
         found == Namei(kernel, pr, c.path)
         got == IF ~copyinstr(pr, c) THEN [ip |-> 0, k |-> kernel]
                ELSE IF "create" \in c.mode THEN made
                ELSE IF found = 0 \/ (kernel.node[found].type = "dir" /\ c.mode # {})
                     THEN [ip |-> 0, k |-> kernel]
                ELSE [ip |-> found, k |-> Iget(kernel, found)]
         k == got.k
         f == filealloc(k)
         fd == fdalloc(pr, f.f)
         isfile == k.node[got.ip].type = "file"
         file == [type |-> IF k.node[got.ip].type = "dev" THEN "dev" ELSE "inode",
                  ref |-> 1, ip |-> got.ip, off |-> 0,
                  readable |-> "wronly" \notin c.mode,
                  writable |-> c.mode \cap {"wronly", "rdwr"} # {}]
     IN IF got.ip = 0 THEN Returns(p, pr, k, -1)
        ELSE IF f.f = 0 THEN Returns(p, pr, Iput(k, got.ip), -1)
        ELSE IF fd.fd < 0 THEN Returns(p, pr, Iput(FileClose(f.k, f.f), got.ip), -1)
        ELSE Returns(p, fd.pr,
                     [f.k EXCEPT !.file[f.f] = file,
                                 !.node[got.ip] =
                                   IF "trunc" \in c.mode /\ isfile THEN itrunc(@) ELSE @],
                     fd.fd)

SysClose(p) ==
  /\ Calls(p, "close")
  /\ LET pr == proc[p]
         c == Head(pr.todo)
         f == ArgFd(pr, c)
     IN IF f = 0 THEN Returns(p, pr, kernel, -1)
        ELSE Returns(p, [pr EXCEPT !.ofile[Value(pr, c.fd)] = 0], FileClose(kernel, f), 0)

SysDup(p) ==
  /\ Calls(p, "dup")
  /\ LET pr == proc[p]
         f == ArgFd(pr, Head(pr.todo))
         fd == fdalloc(pr, f)
     IN IF f = 0 \/ fd.fd < 0 THEN Returns(p, pr, kernel, -1)
        ELSE Returns(p, fd.pr, FileDup(kernel, f), fd.fd)

filestat(p, f) ==
  LET pr == proc[p] IN
  IF kernel.file[f].type = "pipe" \/ ~CopyOut(pr, Head(pr.todo).at, 1)
  THEN Returns(p, pr, kernel, -1)
  ELSE Returns(p, [pr EXCEPT !.buf = stati(kernel.node[kernel.file[f].ip])], kernel, 0)
SysFstat(p) ==
  /\ Calls(p, "fstat")
  /\ LET f == ArgFd(proc[p], Head(proc[p].todo)) IN
     IF f = 0 THEN Returns(p, proc[p], kernel, -1) ELSE filestat(p, f)

-----------------------------------------------------------------------------
(* read().                                                                 *)
ReadInode(p, f) ==
  LET pr == proc[p]
      c == Head(pr.todo)
      file == kernel.file[f]
      data == kernel.node[file.ip].data
      n == Value(pr, c.n) % UINT
      m == IF file.off > Len(data) \/ file.off + n >= UINT THEN 0
           ELSE Min({n, Len(data) - file.off})
  IN IF ~CopyOut(pr, c.at, m) THEN Returns(p, pr, kernel, -1)
     ELSE Returns(p, [pr EXCEPT !.buf = SubSeq(data, file.off + 1, file.off + m)],
                  [kernel EXCEPT !.file[f].off = @ + m], m)

(* piperead(): waits while the pipe is empty and a writer is left; takes a *)
(* byte off the pipe before it finds that it cannot deliver it.            *)
ReadPipe(p, f) ==
  LET pr == proc[p]
      c == Head(pr.todo)
      i == kernel.file[f].ip
      pi == kernel.pipe[i]
      m == Min({Value(pr, c.n), Len(pi.data)})
      got == Reach(pr, c.at, m)
      taken == IF got < m THEN got + 1 ELSE m
  IN /\ pi.data # <<>> \/ ~pi.writeopen
     /\ Returns(p, [pr EXCEPT !.buf = SubSeq(pi.data, 1, got)],
                [kernel EXCEPT !.pipe[i].data = SubSeq(@, taken + 1, Len(@))], got)

(* The console is never read from: nobody types to a program that asks.    *)
fileread(p, f) ==
  IF ~kernel.file[f].readable THEN Returns(p, proc[p], kernel, -1)
  ELSE \/ kernel.file[f].type = "inode" /\ ReadInode(p, f)
       \/ kernel.file[f].type = "pipe" /\ ReadPipe(p, f)
SysRead(p) ==
  /\ Calls(p, "read")
  /\ LET f == ArgFd(proc[p], Head(proc[p].todo)) IN
     IF f = 0 THEN Returns(p, proc[p], kernel, -1) ELSE fileread(p, f)

-----------------------------------------------------------------------------
(* write().                                                                *)
Data(pr, c) ==
  CASE c.from = "data" -> c.data
    [] c.from = "buf" -> pr.buf
    [] c.from = "vars" -> [i \in DOMAIN c.data |-> pr.env[c.data[i]]]
    [] c.from = "number" -> << <<printint(pr.env[c.data[1]])>> >>

Overlay(data, off, new) ==
  SubSeq(data, 1, off) \o new \o SubSeq(data, off + Len(new) + 1, Len(data))

(* writei() of one transaction of filewrite(): if the buffer ends, the     *)
(* blocks before stay written and the block it ended in stays allocated.   *)
WriteInode(p, f) ==
  LET pr == proc[p]
      c == Head(pr.todo)
      data == Data(pr, c)
      file == kernel.file[f]
      n1 == Min({Len(data) - pr.done, MAXWRITE})
      from == IF c.at = Buf THEN Buf ELSE [c.at EXCEPT !.k = @ + pr.done]
      reach == Reach(pr, from, n1)
      whole == IF reach = n1 THEN n1
               ELSE Max({0, ((file.off + reach) \div BSIZE) * BSIZE - file.off})
      last == file.off + (IF reach = n1 THEN n1 ELSE whole + 1)
      written == [kernel EXCEPT
        !.file[f].off = IF reach = n1 THEN @ + n1 ELSE @,
        !.node[file.ip] = balloc([@ EXCEPT
          !.data = Overlay(@, file.off, SubSeq(data, pr.done + 1, pr.done + whole))], last)]
  IN IF n1 > 0 /\ (\/ file.off > Len(kernel.node[file.ip].data)
                    \/ file.off + n1 > MAXFILE * BSIZE)
     THEN Returns(p, pr, kernel, -1)
     ELSE IF reach < n1 THEN Returns(p, pr, written, -1)
     ELSE IF pr.done + n1 = Len(data) THEN Returns(p, pr, written, Len(data))
     ELSE proc' = [proc EXCEPT ![p].done = @ + n1] /\ kernel' = written

(* pipewrite(): byte after byte; full, it gives up if no reader is left or *)
(* the process was killed, and otherwise waits.                            *)
WritePipe(p, f) ==
  LET pr == proc[p]
      c == Head(pr.todo)
      data == Data(pr, c)
      i == kernel.file[f].ip
      room == PIPESIZE - Len(kernel.pipe[i].data)
      left == Len(data) - pr.done
      reach == Reach(pr, IF c.at = Buf THEN Buf ELSE [c.at EXCEPT !.k = @ + pr.done], left)
      m == Min({room, reach})
      put == [kernel EXCEPT !.pipe[i].data = @ \o SubSeq(data, pr.done + 1, pr.done + m)]
  IN IF m = left \/ (m = reach /\ m < room) THEN Returns(p, pr, put, pr.done + m)
     ELSE IF m > 0 THEN proc' = [proc EXCEPT ![p].done = @ + m] /\ kernel' = put
     ELSE /\ ~kernel.pipe[i].readopen \/ pr.killed
          /\ Returns(p, pr, kernel, -1)

(* consolewrite(): as many bytes as it can read.                           *)
WriteConsole(p) ==
  LET c == Head(proc[p].todo)
  IN Returns(p, proc[p], kernel, Reach(proc[p], c.at, Len(Data(proc[p], c))))

filewrite(p, f) ==
  IF ~kernel.file[f].writable THEN Returns(p, proc[p], kernel, -1)
  ELSE \/ kernel.file[f].type = "inode" /\ WriteInode(p, f)
       \/ kernel.file[f].type = "pipe" /\ WritePipe(p, f)
       \/ kernel.file[f].type = "dev" /\ WriteConsole(p)
SysWrite(p) ==
  /\ Calls(p, "write")
  /\ LET f == ArgFd(proc[p], Head(proc[p].todo)) IN
     IF f = 0 THEN Returns(p, proc[p], kernel, -1) ELSE filewrite(p, f)

(* pipe(): a pipe, its two descriptors, and their numbers copied out one   *)
(* after the other; the pipe is closed if any of these fails.              *)
SysPipe(p) ==
  /\ Calls(p, "pipe")
  /\ LET pr == proc[p]
         c == Head(pr.todo)
         got == pipealloc(kernel)
         fd0 == fdalloc(pr, got.rf)
         fd1 == fdalloc(fd0.pr, got.wf)
         closed == FileClose(FileClose(got.k, got.rf), got.wf)
         told == IF CopyOut(pr, c.at, 1) THEN Set(fd1.pr, c.ends[1], fd0.fd) ELSE fd1.pr
     IN CASE ~got.ok -> Returns(p, pr, got.k, -1)
          [] got.ok /\ fd0.fd < 0 -> Returns(p, pr, closed, -1)
          [] got.ok /\ fd0.fd >= 0 /\ fd1.fd < 0 ->
               Returns(p, [fd0.pr EXCEPT !.ofile[fd0.fd] = 0], closed, -1)
          [] got.ok /\ fd1.fd >= 0 /\ ~CopyOut(pr, c.at, 2) ->
               Returns(p, [told EXCEPT !.ofile[fd0.fd] = 0, !.ofile[fd1.fd] = 0], closed, -1)
          [] OTHER -> Returns(p, Set(told, c.ends[2], fd1.fd), got.k, 0)

-----------------------------------------------------------------------------
(* Names.  link() counts the new name before it enters it, and takes that  *)
(* back if it cannot.                                                      *)
SysLink(p) ==
  /\ Calls(p, "link")
  /\ LET pr == proc[p]
         c == Head(pr.todo)
         ip == Namei(kernel, pr, c.path)
         dp == NameiParent(kernel, pr, c.new)
         name == Clip(Last(c.new.names))
         held == Iget(kernel, ip)
         linked == [held EXCEPT !.node[ip].nlink = @ + 1]
     IN IF ~copyinstr(pr, c) \/ ~c.new.fits \/ ip = 0 THEN Returns(p, pr, kernel, -1)
        ELSE IF kernel.node[ip].type = "dir" THEN Returns(p, pr, Iput(held, ip), -1)
        ELSE IF dp = 0 \/ Lookup(kernel, dp, name) # 0
        THEN Returns(p, pr, Iput([linked EXCEPT !.node[ip].nlink = @ - 1], ip), -1)
        ELSE Returns(p, pr, Iput([linked EXCEPT !.node[dp].data = DirLink(@, Entry(name, ip))], ip), 0)

SysUnlink(p) ==
  /\ Calls(p, "unlink")
  /\ LET pr == proc[p]
         c == Head(pr.todo)
         dp == NameiParent(kernel, pr, c.path)
         name == Last(c.path.names)
         s == Slot(kernel, dp, name)
         ip == kernel.node[dp].data[s].inum
         isdir == kernel.node[ip].type = "dir"
         cleared == [kernel EXCEPT !.node[dp].data[s].inum = 0,
                                   !.node[dp].nlink = @ - (IF isdir THEN 1 ELSE 0)]
     IN IF \/ ~copyinstr(pr, c) \/ dp = 0 \/ name \in {".", ".."} \/ s = 0
           \/ isdir /\ ~IsDirEmpty(kernel.node[ip].data)
        THEN Returns(p, pr, kernel, -1)
        ELSE Returns(p, pr, Iput([Iget(cleared, ip) EXCEPT !.node[ip].nlink = @ - 1], ip), 0)

Make(p, op, type) ==
  /\ Calls(p, op)
  /\ LET pr == proc[p]
         c == Head(pr.todo)
         made == Create(kernel, pr, c.path, type)
     IN IF ~copyinstr(pr, c) \/ made.ip = 0 THEN Returns(p, pr, kernel, -1)
        ELSE Returns(p, pr, Iput(made.k, made.ip), 0)
SysMkdir(p) == Make(p, "mkdir", "dir")
SysMknod(p) == Make(p, "mknod", "dev")

SysChdir(p) ==
  /\ Calls(p, "chdir")
  /\ LET pr == proc[p]
         c == Head(pr.todo)
         ip == Namei(kernel, pr, c.path)
     IN IF ~copyinstr(pr, c) \/ ip = 0 \/ kernel.node[ip].type # "dir"
        THEN Returns(p, pr, kernel, -1)
        ELSE Returns(p, [pr EXCEPT !.cwd = ip], Iput(Iget(kernel, ip), pr.cwd), 0)

-----------------------------------------------------------------------------
(* Processes.                                                              *)
NoProc == [state |-> "unused", parent |-> 0, todo |-> <<>>, env |-> <<>>,
           ofile |-> [fd \in 0 .. NOFILE - 1 |-> 0], cwd |-> 0, sz |-> 0, dirt |-> {},
           killed |-> FALSE, xstate |-> 0, buf |-> <<>>, done |-> 0]

Held(pr) == SelectSeq([i \in 1 .. NOFILE |-> i - 1], LAMBDA fd : pr.ofile[fd] # 0)
Unused == {q \in Procs : proc[q].state = "unused"}

SysFork(p) ==
  /\ Calls(p, "fork")
  /\ LET pr == proc[p]
         c == Head(pr.todo)
         born == allocproc(kernel)
         image == uvmcopy(born.k, pr.sz)
         np == Lowest(Unused)
         copy == [pr EXCEPT !.parent = p, !.killed = FALSE]
         child == IF c.both THEN Return(copy, 0) ELSE [copy EXCEPT !.todo = c.child]
         dups == FoldLeft(LAMBDA k, fd : FileDup(k, pr.ofile[fd]), image.k, Held(pr))
     IN IF np = 0 THEN Returns(p, pr, kernel, -1)
        ELSE IF ~born.ok THEN Returns(p, pr, born.k, -1)
        ELSE IF ~image.ok THEN Returns(p, pr, freeproc(image.k, TRUE, 0), -1)
        ELSE /\ proc' = [proc EXCEPT ![p] = Return(@, np), ![np] = child]
             /\ kernel' = Idup(dups, pr.cwd)

(* usertrap() turns a killed process to exit(-1).  First half: the files   *)
(* and the directory; a program that ends without exit(): exit(0).         *)
ExitStatus(pr) ==
  IF pr.killed THEN -1
  ELSE IF pr.todo = <<>> THEN 0 ELSE Value(pr, Head(pr.todo).status)
SysExit(p) ==
  /\ p # Init1 /\ proc[p].state = "run"
  /\ IF proc[p].killed THEN proc[p].done = 0
     ELSE proc[p].todo = <<>> \/ Calls(p, "exit")
  /\ LET pr == proc[p] IN
     /\ kernel' = Iput(FoldLeft(LAMBDA k, fd : FileClose(k, pr.ofile[fd]),
                                kernel, Held(pr)), pr.cwd)
     /\ proc' = [proc EXCEPT ![p].state = "exiting", ![p].xstate = ExitStatus(pr),
                             ![p].ofile = NoProc.ofile, ![p].cwd = 0,
                             ![p].todo = <<>>, ![p].env = <<>>, ![p].buf = <<>>]

(* Second half: the children go to init, the parent can see the zombie.    *)
BecomeZombie(p) ==
  /\ proc[p].state = "exiting"
  /\ proc' = [q \in Procs |->
       IF q = p THEN [proc[p] EXCEPT !.state = "zombie"]
       ELSE IF proc[q].parent = p THEN [proc[q] EXCEPT !.parent = Init1] ELSE proc[q]]
  /\ UNCHANGED kernel

(* wait(): some zombie child, -1 without children, and otherwise it waits. *)
Children(p) == {q \in Procs : proc[q].state # "unused" /\ proc[q].parent = p}
SysWait(p) ==
  /\ Calls(p, "wait")
  /\ LET pr == proc[p]
         c == Head(pr.todo)
         np == Lowest({q \in Children(p) : proc[q].state = "zombie"})
     IN IF Children(p) = {} THEN Returns(p, pr, kernel, -1)
        ELSE /\ np # 0
             /\ proc' = [proc EXCEPT ![p] = Return(Set(pr, c.status, proc[np].xstate), np),
                                     ![np] = NoProc]
             /\ kernel' = freeproc(kernel, TRUE, proc[np].sz)

(* sys_exec() copies the arguments in, a page for each, the name first,    *)
(* until there is no page or no string: [ok, n, k], n of them held.        *)
FetchArgs(args) ==
  FoldLeft(LAMBDA r, arg : IF ~r.ok THEN r
                           ELSE IF r.k.free = 0 THEN [r EXCEPT !.ok = FALSE]
                           ELSE [ok |-> GoodArg(arg), n |-> r.n + 1, k |-> kalloc(r.k, 1)],
           [ok |-> TRUE, n |-> 0, k |-> kernel], <<"name">> \o args)

IsElf(node) == node.type = "file" /\ node.data # <<>> /\ Head(node.data) \in Binaries

(* exec(): the file is held while its page is loaded; guard and stack come *)
(* next, then the arguments.  The old image goes when the new one is       *)
(* complete, the new one, up to the size it has by then, on any failure.   *)
exec(k, pr, path, args) ==
  LET ip == Namei(k, pr, path)
      table == proc_pagetable(Iget(k, ip))
      text == uvmalloc(table.k, 0, PGSIZE)
      stack == uvmalloc(Iput(text.k, ip), PGSIZE, IMAGE * PGSIZE)
  IN IF ip = 0 THEN Failed(k)
     ELSE IF ~IsElf(k.node[ip]) THEN Failed(Iput(Iget(k, ip), ip))
     ELSE IF ~table.ok THEN Failed(Iput(table.k, ip))
     ELSE IF ~text.ok THEN Failed(Iput(proc_freepagetable(text.k, 0), ip))
     ELSE IF ~stack.ok THEN Failed(proc_freepagetable(stack.k, PGSIZE))
     ELSE IF SumBytes(args) > ARGBYTES
     THEN Failed(proc_freepagetable(stack.k, IMAGE * PGSIZE))
     ELSE Done(proc_freepagetable(stack.k, pr.sz))

(* The pages of the arguments are freed in any case.                       *)
SysExec(p) ==
  /\ Calls(p, "exec")
  /\ LET pr == proc[p]
         c == Head(pr.todo)
         argv == FetchArgs(c.args)
         ret == exec(argv.k, pr, c.path, c.args)
         name == Head(kernel.node[Namei(kernel, pr, c.path)].data)
     IN IF ~copyinstr(pr, c) THEN Returns(p, pr, kernel, -1)
        ELSE IF ~argv.ok THEN Returns(p, pr, kfree(argv.k, argv.n), -1)
        ELSE IF ~ret.ok THEN Returns(p, pr, kfree(ret.k, argv.n), -1)
        ELSE /\ proc' = [proc EXCEPT ![p].todo = Main(name, c.args),
                                     ![p].env = <<>>, ![p].buf = <<>>,
                                     ![p].sz = IMAGE * PGSIZE, ![p].dirt = {}]
             /\ kernel' = kfree(ret.k, argv.n)

SysKill(p) ==
  /\ Calls(p, "kill")
  /\ LET pr == proc[p]
         q == Value(pr, Head(pr.todo).pid)
     IN IF q \notin Procs \/ proc[q].state \in {"unused", "taken"} THEN Returns(p, pr, kernel, -1)
        ELSE LET victim == [proc EXCEPT ![q].killed = TRUE]
             IN /\ proc' = [victim EXCEPT ![p] = Return(@, 0)]
                /\ UNCHANGED kernel

SysSbrk(p) ==
  /\ Calls(p, "sbrk")
  /\ LET pr == proc[p]
         g == growproc(pr, Value(pr, Head(pr.todo).n))
     IN Returns(p, [pr EXCEPT !.sz = g.sz,
                              !.dirt = {page \in @ : page < Pages(g.sz)}],
                g.k, g.ret)

SysSleep(p) == Calls(p, "sleep") /\ Returns(p, proc[p], kernel, 0)
SysGetpid(p) == Calls(p, "getpid") /\ Returns(p, proc[p], kernel, p)

-----------------------------------------------------------------------------
(* What a program does without the kernel.  An access to memory it does not*)
(* have is a trap, and usertrap() kills it.                                *)
Access(p) ==
  /\ Calls(p, "store") \/ Calls(p, "load")
  /\ LET pr == proc[p]
         c == Head(pr.todo)
         page == Value(pr, c.at) \div PGSIZE
     IN IF ~Mapped(pr, Value(pr, c.at))
        THEN proc' = [proc EXCEPT ![p].killed = TRUE] /\ UNCHANGED kernel
        ELSE Returns(p, IF c.op = "store" THEN [pr EXCEPT !.dirt = @ \cup {page}] ELSE pr,
                     kernel, IF page \in pr.dirt THEN 1 ELSE 0)

Compute(p) ==
  /\ Calls(p, "value") \/ Calls(p, "tally") \/ Calls(p, "follows")
     \/ Calls(p, "saw") \/ Calls(p, "sawonly") \/ Calls(p, "istype") \/ Calls(p, "issize")
     \/ Calls(p, "first") \/ Calls(p, "differ") \/ Calls(p, "names")
  /\ LET pr == proc[p]
         c == Head(pr.todo)
         r == CASE c.op = "value" -> Value(pr, c.n)
                [] c.op = "tally" -> pr.env[c.of] + Len(SelectSeq(pr.buf, LAMBDA b : b \in c.symbols))
                [] c.op = "follows" ->
                     IF \A i \in DOMAIN pr.buf : pr.buf[i] = pr.env[c.of] + i - 1 THEN 1 ELSE 0
                [] c.op = "saw" -> IF pr.buf = c.data THEN 1 ELSE 0
                [] c.op = "sawonly" -> IF \A i \in DOMAIN pr.buf : pr.buf[i] \in c.symbols
                                       THEN 1 ELSE 0
                [] c.op = "istype" -> IF pr.buf[1] \in c.types THEN 1 ELSE 0
                [] c.op = "issize" -> IF pr.buf[3] = c.n THEN 1 ELSE 0
                [] c.op = "first" -> pr.buf[1]
                [] c.op = "differ" -> IF pr.env[c.fst] # pr.env[c.snd] THEN 1 ELSE 0
                [] c.op = "names" -> pr.env[c.of] + Cardinality({i \in DOMAIN pr.buf :
                                       pr.buf[i].inum # 0 /\ pr.buf[i].name \in c.symbols})
     IN Returns(p, pr, kernel, r)

(* A round of grep(), with a write for every line found, and one of wc().  *)
Digest(p) ==
  /\ Calls(p, "grep") \/ Calls(p, "wc")
  /\ LET pr == proc[p]
         c == Head(pr.todo)
         kept == IF pr.env["m"] = 0 THEN <<>> ELSE pr.env["text"]
         s == Scan(c.re, kept, pr.buf)
         counts == Count([v \in {"l", "w", "c", "inword"} |-> pr.env[v]], pr.buf)
     IN proc' = [proc EXCEPT ![p] =
          IF c.op = "wc" THEN [@ EXCEPT !.env = counts @@ @, !.todo = Tail(@)]
          ELSE [@ EXCEPT !.env = ("text" :> s.rest) @@ ("m" :> Len(s.rest)) @@ @,
                         !.todo = [i \in DOMAIN s.found |-> Whatever(Write(N(1), s.found[i]))]
                                  \o Tail(@)]]
  /\ UNCHANGED kernel

Branch(p) ==
  /\ Calls(p, "choose")
  /\ \E i \in DOMAIN Head(proc[p].todo).scripts :
       proc' = [proc EXCEPT ![p].todo = Head(@).scripts[i] \o Tail(@)]
  /\ UNCHANGED kernel

Enter(p) ==
  /\ Calls(p, "entries")
  /\ LET pr == proc[p]
         c == Head(pr.todo)
         live == SelectSeq(pr.buf, LAMBDA de : de.inum # 0 /\ de.name \notin c.skip)
     IN proc' = [proc EXCEPT ![p].todo =
          FlattenSeq([i \in DOMAIN live |-> Sub(c.sub, c.names \o <<live[i].name>>)]) \o Tail(@)]
  /\ UNCHANGED kernel

-----------------------------------------------------------------------------
Step(p) ==
  \/ SysOpen(p) \/ SysClose(p) \/ SysDup(p) \/ SysFstat(p)
  \/ SysRead(p) \/ SysWrite(p) \/ SysPipe(p)
  \/ SysLink(p) \/ SysUnlink(p) \/ SysMkdir(p) \/ SysMknod(p) \/ SysChdir(p)
  \/ SysFork(p) \/ SysExit(p) \/ BecomeZombie(p) \/ SysWait(p) \/ SysExec(p)
  \/ SysKill(p) \/ SysSbrk(p) \/ SysSleep(p) \/ SysGetpid(p)
  \/ Access(p) \/ Compute(p) \/ Digest(p) \/ Branch(p) \/ Enter(p)

(* init has seen its shell end and has no child left: the scenario is over.*)
Over == proc[Init1].todo = <<>>
Stop == Over /\ UNCHANGED vars

Next == (\E p \in Procs : Step(p)) \/ Stop

(* mkfs: the root, and a file for each program and each text.              *)
iappend(node, xs) == balloc([node EXCEPT !.data = @ \o xs], Len(node.data) + Len(xs))
Disk(seq) ==
  [i \in Inums |->
     IF i = ROOTINO
     THEN [FreeNode EXCEPT !.type = "dir", !.nlink = 1,
             !.data = <<Entry(".", ROOTINO), Entry("..", ROOTINO)>>
                      \o [j \in 1 .. Len(seq) |-> Entry(seq[j], j + 1)]]
     ELSE IF i - 1 \in DOMAIN seq
     THEN iappend([FreeNode EXCEPT !.type = "file", !.nlink = 1],
                  IF seq[i - 1] \in DOMAIN Texts THEN Texts[seq[i - 1]] ELSE <<seq[i - 1]>>)
     ELSE FreeNode]

Init ==
  \E s \in Scenarios :
  /\ proc = [p \in Procs |->
               IF p > s.slots THEN [NoProc EXCEPT !.state = "taken"]
               ELSE IF p # Init1 THEN NoProc
               ELSE [NoProc EXCEPT !.state = "run", !.todo = InitMain(s.prog, s.args),
                                   !.cwd = ROOTINO, !.sz = IMAGE * PGSIZE,
                                   !.env = [scenario |-> s]]]
  /\ kernel = [file |-> [f \in Files |-> NoFile],
               node |-> [Disk(<<"README", s.prog>> \o s.files) EXCEPT ![ROOTINO].ref = 1],
               pipe |-> [i \in 1 .. NFILE \div 2 |-> NoPipe],
               free |-> KPAGES - IMAGE - FRAME]

Spec == Init /\ [][Next]_vars
-----------------------------------------------------------------------------
(* What keeps the kernel together between any two calls of any processes.  *)
Sum(f, S) == FoldFunctionOnSet(+, 0, f, S)
InUse == {p \in Procs : proc[p].state \notin {"unused", "taken"}}
Live == {i \in Inums : kernel.node[i].type # "free"}
Dirs == {i \in Live : kernel.node[i].type = "dir"}

(* An open file counts the descriptors that share it, an inode in memory   *)
(* the open files and current directories that hold it.                    *)
FileRefs ==
  LET fds == {<<p, fd>> \in InUse \X (0 .. NOFILE - 1) : proc[p].ofile[fd] # 0} IN
  \A f \in Files : kernel.file[f].ref = Cardinality({x \in fds : proc[x[1]].ofile[x[2]] = f})
NodeRefs ==
  LET files == {f \in Files : kernel.file[f].ref > 0 /\ kernel.file[f].type # "pipe"} IN
  \A i \in Inums : kernel.node[i].ref = Cardinality({f \in files : kernel.file[f].ip = i})
                                         + Cardinality({p \in InUse : proc[p].cwd = i})

(* An inode counts the names it has; the ".." of a removed directory is    *)
(* none.  A name leads somewhere, and what has neither a name nor a holder *)
(* is gone.                                                                *)
Names(d) == {de \in ToSet(kernel.node[d].data) :
               /\ de.inum # 0 /\ de.name # "."
               /\ de.name = ".." => kernel.node[d].nlink > 0}
LinkCounts ==
  LET named == [d \in Dirs |-> Names(d)]
      inums == [d \in Dirs |-> {de.inum : de \in named[d]}]
      names(i, d) == IF i \in inums[d] THEN Cardinality({de \in named[d] : de.inum = i}) ELSE 0
  IN /\ \A i \in Live : /\ kernel.node[i].nlink = Sum([d \in Dirs |-> names(i, d)], Dirs)
                         /\ kernel.node[i].nlink = 0 => kernel.node[i].ref > 0
     /\ \A d \in Dirs : inums[d] \subseteq Live

(* A pipe is in use as long as one of its ends is.                         *)
PipeEnds ==
  \A i \in DOMAIN kernel.pipe :
    LET open(w) == \E f \in Files : /\ kernel.file[f].ref > 0 /\ kernel.file[f].type = "pipe"
                                     /\ kernel.file[f].ip = i /\ kernel.file[f].writable = w
    IN kernel.pipe[i].readopen = open(FALSE) /\ kernel.pipe[i].writeopen = open(TRUE)

(* No page is lost, and no limit reached at which the kernel would panic.  *)
PagesKept ==
  kernel.free + Sum([p \in Procs |-> Pages(proc[p].sz) + FRAME], InUse)
    + Cardinality({i \in DOMAIN kernel.pipe : kernel.pipe[i] # NoPipe}) = KPAGES
Limits ==
  /\ Cardinality({i \in Inums : kernel.node[i].ref > 0}) <= ICACHE
  /\ Sum([i \in Inums |-> kernel.node[i].blks], Inums) <= NBLOCK

(* The tables of the kernel agree with each other between any two calls of *)
(* any processes, whatever the programs do: file.c:28-102, fs.c:242-437,   *)
(* sysfile.c:40-486, pipe.c:22-74, proc.c:99-454, exec.c:12-129.           *)
KernelOK == FileRefs /\ NodeRefs /\ LinkCounts /\ PipeEnds /\ PagesKept /\ Limits
=============================================================================
