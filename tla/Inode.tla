------------------------------- MODULE Inode -------------------------------
(***************************************************************************)
(* Inodes, directories and path names of the file system (kernel/fs.c) and *)
(* the system calls on them (kernel/sysfile.c, kernel/file.c), run by      *)
(* several processes at once.                                              *)
(*                                                                         *)
(* What icache.lock or the lock of a buffer protects is one step, and so   *)
(* is what a process does while the one inode lock it holds keeps others   *)
(* out; where it takes a second lock, or an inode's last reference goes,   *)
(* another process may come first.  An inode is named by its number: the   *)
(* cache has an entry for every inode here.  What a file holds is only     *)
(* whether it has a block, a directory is a function from names to inode   *)
(* numbers.  That a transaction is all or nothing is the subject of Log,   *)
(* that a sleep lock excludes and wakes the subject of SleepLock.          *)
(***************************************************************************)
EXTENDS Integers, Sequences, FiniteSets

CONSTANTS
    Procs,
    Nobody,       \* not a process
    Inums,        \* inode numbers of the disk, ROOTINO among them
    Blocks,       \* numbers of data blocks
    Trees,        \* [dirs, files, cwd, calls]: what the processes find and may do, see Init
    MaxCalls      \* bound: system calls of each process

ROOTINO == 1

Path(abs, names) == [abs |-> abs, names |-> names]
Call(op, path) == [op |-> op, path |-> path, new |-> path, trunc |-> FALSE]

\* The system calls that look up the parent of the last name of their path.
ParentOps == {"create", "mkdir", "unlink"}
PathOps == ParentOps \cup {"open", "link", "chdir"}

\* A tree: every entry of a directory names an inode, each directory has a
\* block, each process is in a directory.
Tree(t) ==
    /\ DOMAIN t.dirs \subseteq Inums \cap Blocks
    /\ \A d \in DOMAIN t.dirs : IsFiniteSet(DOMAIN t.dirs[d])
    /\ \A d \in DOMAIN t.dirs : \A n \in DOMAIN t.dirs[d] : t.dirs[d][n] \in Inums
    /\ t.cwd \in [Procs -> DOMAIN t.dirs]
    /\ \A c \in t.calls : c.op \in PathOps \cup {"read", "write", "close", "exit"}

ASSUME InodeAssumption ==
    /\ IsFiniteSet(Procs) /\ Nobody \notin Procs
    /\ IsFiniteSet(Inums) /\ Inums \subseteq Nat \ {0} /\ ROOTINO \in Inums
    /\ IsFiniteSet(Blocks) /\ Blocks \subseteq Nat
    /\ MaxCalls \in Nat
    /\ \A t \in Trees : Tree(t)

VARIABLES
    dinode,     \* dinode[i]: type, nlink and blocks of inode i on the disk
    dir,        \* dir[i]: the entries of directory i, "." and ".." included
    bitmap,     \* the blocks in use
    icache,     \* icache[i]: ref, valid, lock and the copy of dinode[i]
    cwd,        \* cwd[p]: p's current directory, 0 once p has exited
    ofile,      \* ofile[p]: [ip, gen], the open file of p, ip = 0: none
    at,         \* at[p]: where p is in which system call
    calls,      \* [op, path, new, trunc]: the system calls the processes make
    left,       \* left[p]: system calls p may still make
    gen,        \* gen[i]: how often ialloc() has given inode i away
    lost,       \* lost[i]: how many names of i went with a removed directory
    leaked,     \* the inodes that went unfreed with their last reference
    panicked    \* the message of the panic() that was reached, or ""

disk == <<dinode, dir, bitmap, gen, lost, leaked>>
vars == <<disk, icache, cwd, ofile, at, calls, left, panicked>>

NoDinode == [type |-> "free", nlink |-> 0, blks |-> {}]
NoEntry == [ref |-> 0, valid |-> FALSE, lock |-> Nobody, type |-> "free", nlink |-> 0, blks |-> {}]
NoDir == <<>>
NoFile == [ip |-> 0, gen |-> 0]
Idle == [pc |-> "idle", call |-> Call("close", Path(TRUE, <<>>)), rest |-> <<>>, second |-> FALSE,
         ip |-> 0, dp |-> 0, put |-> 0, then |-> "idle", stray |-> FALSE]

Least(S) == CHOOSE x \in S : \A y \in S : x <= y
Extend(f, x, y) == [z \in DOMAIN f \cup {x} |-> IF z = x THEN y ELSE f[z]]
Without(f, x) == [z \in DOMAIN f \ {x} |-> f[z]]
LastName(a) == LET names == IF a.second THEN a.call.new.names ELSE a.call.path.names
               IN names[Len(names)]

\* p goes on at label with a; a call that ends forgets its local variables.
Goto(p, a, label) ==
    /\ at' = [at EXCEPT ![p] = IF label = "idle" THEN Idle ELSE [a EXCEPT !.pc = label]]
    /\ left' = IF label = "idle" THEN [left EXCEPT ![p] = @ - 1] ELSE left
    /\ UNCHANGED calls

\* iput(i), and then on at label; iput() of the inode, of its parent.
PutThen(p, a, i, label) == Goto(p, [a EXCEPT !.put = i, !.then = label], "iput")
PutIp(p, a, label) == PutThen(p, [a EXCEPT !.ip = 0], a.ip, label)
PutDp(p, a, label) == PutThen(p, [a EXCEPT !.dp = 0], a.dp, label)
PutDone(p, a) == Goto(p, [a EXCEPT !.put = 0], a.then)

-----------------------------------------------------------------------------
(* The inode cache *)

iget(ic, i) ==
    LET e == IF ic[i].ref > 0 THEN ic[i] ELSE NoEntry IN [ic EXCEPT ![i] = [e EXCEPT !.ref = @ + 1]]

\* Mutant: a path starts at the current directory without a reference to it.
idup_keeps(ic, i) == ic
idup(ic, i) == [ic EXCEPT ![i].ref = @ + 1]

\* What ilock(i) leaves: the inode is read from the disk if it is not valid.
Loaded(i) ==
    IF icache[i].valid THEN icache[i]
    ELSE [icache[i] EXCEPT !.valid = TRUE, !.type = dinode[i].type,
                           !.nlink = dinode[i].nlink, !.blks = dinode[i].blks]
NoType(i) == ~icache[i].valid /\ dinode[i].type = "free"
ilock(i) == icache[i].lock = Nobody /\ ~NoType(i)

\* iupdate(): the cache is write-through.
iupdate(dn, e, i) == [dn EXCEPT ![i] = [type |-> e.type, nlink |-> e.nlink, blks |-> e.blks]]

\* Mutant: an inode without links goes whoever else refers to it.
iput_any(p) ==
    LET a == at[p]
        i == a.put
        last == icache[i].valid /\ icache[i].nlink = 0 IN
    /\ a.pc = "iput"
    /\ \/ /\ last /\ icache[i].lock = Nobody
          /\ icache' = [icache EXCEPT ![i].lock = p]
          /\ Goto(p, a, "iput_free")
       \/ /\ ~last
          /\ icache' = [icache EXCEPT ![i].ref = @ - 1]
          /\ PutDone(p, a)
    /\ UNCHANGED <<disk, cwd, ofile, panicked>>

\* iput(): the last reference to an inode without links frees the inode,
\* with its lock taken before icache.lock is given up.
iput(p) ==
    LET a == at[p]
        i == a.put
        last == icache[i].ref = 1 /\ icache[i].valid /\ icache[i].nlink = 0 IN
    /\ a.pc = "iput"
    /\ \/ /\ last /\ icache[i].lock = Nobody
          /\ icache' = [icache EXCEPT ![i].lock = p]
          /\ Goto(p, a, "iput_free")
       \/ /\ ~last
          /\ icache' = [icache EXCEPT ![i].ref = @ - 1]
          /\ PutDone(p, a)
    /\ UNCHANGED <<disk, cwd, ofile, panicked>>

\* itrunc(), type = 0, iupdate().  The entries of a removed directory go with
\* its blocks, also those made after it was removed.
iput_free(p) ==
    LET a == at[p]
        i == a.put
        names == DOMAIN dir[i] \ {".", ".."} IN
    /\ a.pc = "iput_free"
    /\ bitmap' = bitmap \ icache[i].blks
    /\ panicked' = IF icache[i].blks \subseteq bitmap THEN panicked ELSE "freeing free block"
    /\ icache' = [icache EXCEPT ![i].type = "free", ![i].blks = {}]
    /\ dinode' = [dinode EXCEPT ![i] = NoDinode]
    /\ dir' = [dir EXCEPT ![i] = NoDir]
    /\ lost' = [j \in Inums |-> lost[j] + Cardinality({n \in names : dir[i][n] = j})]
    /\ Goto(p, a, "iput_invalid")
    /\ UNCHANGED <<gen, leaked, cwd, ofile>>

\* Mutant: the freed inode's entry stays valid.
iput_stale(p) ==
    LET a == at[p] IN
    /\ a.pc = "iput_invalid"
    /\ icache' = [icache EXCEPT ![a.put].lock = Nobody]
    /\ Goto(p, a, "iput_drop")
    /\ UNCHANGED <<disk, cwd, ofile, panicked>>

iput_invalid(p) ==
    LET a == at[p] IN
    /\ a.pc = "iput_invalid"
    /\ icache' = [icache EXCEPT ![a.put].valid = FALSE, ![a.put].lock = Nobody]
    /\ Goto(p, a, "iput_drop")
    /\ UNCHANGED <<disk, cwd, ofile, panicked>>

\* The reference goes.  The inode may have been allocated again meanwhile, and
\* lost its name again: its links are not looked at a second time.
iput_drop(p) ==
    LET a == at[p]
        e == icache[a.put] IN
    /\ a.pc = "iput_drop"
    /\ icache' = [icache EXCEPT ![a.put].ref = @ - 1]
    /\ leaked' = IF e.ref = 1 /\ e.valid /\ e.nlink = 0 THEN leaked \cup {a.put} ELSE leaked
    /\ PutDone(p, a)
    /\ UNCHANGED <<dinode, dir, bitmap, gen, lost, cwd, ofile, panicked>>
-----------------------------------------------------------------------------
(* Path names *)

Parent(a) == a.call.op \in ParentOps \/ a.second

Found(a) ==
    CASE a.call.op = "link" -> IF a.second THEN "link_new" ELSE "link_old"
      [] a.call.op \in {"create", "mkdir"} -> "create"
      [] OTHER -> a.call.op
Failed(a) == IF a.second THEN "link_bad" ELSE "idle"

\* Directory i is not in the directory that its ".." names.
Removed(i) ==
    /\ i # ROOTINO
    /\ LET up == dir[dir[i][".."]] IN \A n \in DOMAIN up \ {".", ".."} : up[n] # i

\* namex() starts at the root or in the current directory.
namex_start(p, a, path) ==
    LET i == IF path.abs THEN ROOTINO ELSE cwd[p] IN
    /\ icache' = IF path.abs THEN iget(icache, i) ELSE idup(icache, i)
    /\ Goto(p, [a EXCEPT !.rest = path.names, !.ip = i], "namex")

\* One turn of namex(): the inode is locked and looked at, and the next one
\* gets its reference before the lock goes.
namex(p) ==
    LET a == at[p]
        i == a.ip
        e == Loaded(i)
        held == [icache EXCEPT ![i] = e]
        here == e.type = "dir" /\ Parent(a) /\ Len(a.rest) = 1
        through == e.type = "dir" /\ ~here /\ a.rest[1] \in DOMAIN dir[i] IN
    /\ a.pc = "namex" /\ a.rest # <<>> /\ ilock(i)
    /\ \/ here /\ icache' = held /\ Goto(p, a, Found(a))
       \/ /\ through
          /\ icache' = iget(held, dir[i][a.rest[1]])
          /\ PutThen(p, [a EXCEPT !.ip = dir[i][a.rest[1]], !.rest = Tail(@),
                                  !.stray = @ \/ (a.rest[1] = ".." /\ Removed(i))], i, "namex")
       \/ ~here /\ ~through /\ icache' = held /\ PutIp(p, a, Failed(a))
    /\ UNCHANGED <<disk, cwd, ofile, panicked>>

\* The path is used up: a call that wants the parent has none.
namex_end(p) ==
    LET a == at[p] IN
    /\ a.pc = "namex" /\ a.rest = <<>>
    /\ IF Parent(a) THEN PutIp(p, a, Failed(a)) ELSE Goto(p, a, Found(a))
    /\ UNCHANGED <<disk, icache, cwd, ofile, panicked>>

\* A path operation begins.
begin(p, c) ==
    /\ at[p].pc = "idle" /\ left[p] > 0 /\ cwd[p] # 0
    /\ c.op \in PathOps
    /\ namex_start(p, [Idle EXCEPT !.call = c], c.path)
    /\ UNCHANGED <<disk, cwd, ofile, panicked>>

-----------------------------------------------------------------------------
(* open() and the end of create() *)

\* filealloc() and fdalloc() give the one descriptor a process has here.
Opened(p, a, e) ==
    IF ofile[p].ip # 0 THEN PutIp(p, a, "idle") /\ UNCHANGED ofile
    ELSE /\ ofile' = [ofile EXCEPT ![p] = [ip |-> a.ip, gen |-> gen[a.ip]]]
         /\ Goto(p, a, "idle")

\* itrunc() of an open() that truncates.
Truncated(a, e) == IF a.call.trunc /\ e.type = "file" THEN [e EXCEPT !.blks = {}] ELSE e

\* sys_open() from ilock(ip): also after create() has found the file.
open(p) ==
    LET a == at[p]
        i == a.ip
        e == Loaded(i)
        ok == \/ a.call.op = "open" /\ (e.type # "dir" \/ ~a.call.trunc)
              \/ a.call.op = "create" /\ e.type = "file"
        t == IF ok /\ ofile[p].ip = 0 THEN Truncated(a, e) ELSE e IN
    /\ a.pc = "open" /\ ilock(i)
    /\ icache' = [icache EXCEPT ![i] = t]
    /\ dinode' = IF t.blks = e.blks THEN dinode ELSE iupdate(dinode, t, i)
    /\ bitmap' = bitmap \ (e.blks \ t.blks)
    /\ IF ok THEN Opened(p, a, e) ELSE PutIp(p, a, "idle") /\ UNCHANGED ofile
    /\ UNCHANGED <<dir, gen, lost, leaked, cwd, panicked>>

\* create() finds the name, or lets ialloc() choose an inode, with the parent
\* locked.
create(p) ==
    LET a == at[p]
        d == a.ip
        e == Loaded(d)
        name == LastName(a)
        i == Least({j \in Inums : dinode[j].type = "free"})
        type == IF a.call.op = "mkdir" THEN "dir" ELSE "file" IN
    /\ a.pc = "create" /\ ilock(d)
    /\ \/ /\ name \in DOMAIN dir[d]
          /\ icache' = iget([icache EXCEPT ![d] = e], dir[d][name])
          /\ PutThen(p, [a EXCEPT !.ip = dir[d][name],
                                  !.stray = @ \/ (name = ".." /\ Removed(d))], d, "open")
          /\ UNCHANGED <<dinode, gen>>
       \/ /\ name \notin DOMAIN dir[d]
          /\ \E j \in Inums : dinode[j].type = "free"
          /\ dinode' = [dinode EXCEPT ![i] = [NoDinode EXCEPT !.type = type]]
          /\ gen' = [gen EXCEPT ![i] = @ + 1]
          /\ icache' = iget([icache EXCEPT ![d] = [e EXCEPT !.lock = p]], i)
          /\ Goto(p, [a EXCEPT !.dp = d, !.ip = i], "create_new")
    /\ UNCHANGED <<dir, bitmap, lost, leaked, cwd, ofile, panicked>>

\* The new inode is locked, linked and, if it is a directory, gets its dots and
\* a block for them, unless somebody who came through a stray ".." has written
\* it already.
create_new(p) ==
    LET a == at[p]
        i == a.ip
        d == a.dp
        isdir == a.call.op = "mkdir"
        needs == isdir /\ Loaded(i).blks = {}
        e == [Loaded(i) EXCEPT !.lock = p, !.nlink = 1,
                               !.blks = IF needs THEN {Least(Blocks \ bitmap)} ELSE @]
        de == [icache[d] EXCEPT !.lock = Nobody, !.nlink = IF isdir THEN @ + 1 ELSE @] IN
    /\ a.pc = "create_new" /\ ilock(i)
    /\ needs => bitmap # Blocks
    /\ icache' = [icache EXCEPT ![i] = e, ![d] = de]
    /\ dinode' = iupdate(iupdate(dinode, e, i), de, d)
    /\ bitmap' = bitmap \cup e.blks
    /\ dir' = [dir EXCEPT ![i] = IF isdir THEN Extend(Extend(@, ".", i), "..", d) ELSE @,
                          ![d] = Extend(@, LastName(a), i)]
    /\ PutDp(p, a, "create_end")
    /\ UNCHANGED <<gen, lost, leaked, cwd, ofile, panicked>>

\* The parent is put, the new inode still locked: sys_mkdir() lets go of it,
\* sys_open() makes a file of it.
create_end(p) ==
    LET a == at[p]
        i == a.ip
        e == [icache[i] EXCEPT !.lock = Nobody] IN
    /\ a.pc = "create_end"
    /\ icache' = [icache EXCEPT ![i] = e]
    /\ IF a.call.op = "mkdir" THEN PutIp(p, a, "idle") /\ UNCHANGED ofile
       ELSE Opened(p, a, e)
    /\ UNCHANGED <<disk, cwd, panicked>>

-----------------------------------------------------------------------------
(* link() *)

\* The link is counted first, and the inode unlocked for the second path.
link_old(p) ==
    LET a == at[p]
        i == a.ip
        e == Loaded(i)
        up == [e EXCEPT !.nlink = @ + 1] IN
    /\ a.pc = "link_old" /\ ilock(i)
    /\ \/ /\ e.type = "dir"
          /\ icache' = [icache EXCEPT ![i] = e]
          /\ PutIp(p, a, "idle")
          /\ UNCHANGED dinode
       \/ /\ e.type # "dir"
          /\ icache' = [icache EXCEPT ![i] = up]
          /\ dinode' = iupdate(dinode, up, i)
          /\ Goto(p, [a EXCEPT !.dp = i, !.ip = 0, !.second = TRUE], "link_path")
    /\ UNCHANGED <<dir, bitmap, gen, lost, leaked, cwd, ofile, panicked>>

link_path(p) ==
    /\ at[p].pc = "link_path"
    /\ namex_start(p, at[p], at[p].call.new)
    /\ UNCHANGED <<disk, cwd, ofile, panicked>>

\* dirlink() in the parent; dp is the inode that is linked.
link_new(p) ==
    LET a == at[p]
        d == a.ip
        name == LastName(a) IN
    /\ a.pc = "link_new" /\ ilock(d)
    /\ icache' = [icache EXCEPT ![d] = Loaded(d)]
    /\ \/ /\ name \in DOMAIN dir[d]
          /\ PutIp(p, a, "link_bad")
          /\ UNCHANGED dir
       \/ /\ name \notin DOMAIN dir[d]
          /\ dir' = [dir EXCEPT ![d] = Extend(@, name, a.dp)]
          /\ PutIp(p, a, "link_put")
    /\ UNCHANGED <<dinode, bitmap, gen, lost, leaked, cwd, ofile, panicked>>

link_put(p) ==
    /\ at[p].pc = "link_put"
    /\ PutDp(p, at[p], "idle")
    /\ UNCHANGED <<disk, icache, cwd, ofile, panicked>>

\* Mutant: the count stays where the link was not made.
link_bad_counted(p) ==
    /\ at[p].pc = "link_bad"
    /\ PutDp(p, at[p], "idle")
    /\ UNCHANGED <<disk, icache, cwd, ofile, panicked>>

\* The link could not be made: its count goes back.
link_bad(p) ==
    LET a == at[p]
        i == a.dp
        e == [Loaded(i) EXCEPT !.nlink = @ - 1] IN
    /\ a.pc = "link_bad" /\ ilock(i)
    /\ icache' = [icache EXCEPT ![i] = e]
    /\ dinode' = iupdate(dinode, e, i)
    /\ PutDp(p, a, "idle")
    /\ UNCHANGED <<dir, bitmap, gen, lost, leaked, cwd, ofile, panicked>>

-----------------------------------------------------------------------------
(* unlink() *)

\* The parent stays locked from the lookup on.
unlink(p) ==
    LET a == at[p]
        d == a.ip
        name == LastName(a)
        e == Loaded(d) IN
    /\ a.pc = "unlink" /\ ilock(d)
    /\ \/ /\ name \in {".", ".."} \/ name \notin DOMAIN dir[d]
          /\ icache' = [icache EXCEPT ![d] = e]
          /\ PutIp(p, a, "idle")
       \/ /\ name \notin {".", ".."} /\ name \in DOMAIN dir[d]
          /\ icache' = iget([icache EXCEPT ![d] = [e EXCEPT !.lock = p]], dir[d][name])
          /\ Goto(p, [a EXCEPT !.dp = d, !.ip = dir[d][name]], "unlink_entry")
    /\ UNCHANGED <<disk, cwd, ofile, panicked>>

\* The inode is locked too: its entry goes, unless it is a directory in use.
unlink_entry(p) ==
    LET a == at[p]
        i == a.ip
        d == a.dp
        e == Loaded(i)
        isdir == e.type = "dir"
        full == isdir /\ DOMAIN dir[i] # {".", ".."}
        de == [icache[d] EXCEPT !.lock = Nobody, !.nlink = IF isdir THEN @ - 1 ELSE @] IN
    /\ a.pc = "unlink_entry" /\ ilock(i)
    /\ panicked' = IF e.nlink < 1 THEN "unlink: nlink < 1" ELSE panicked
    /\ \/ /\ full
          /\ icache' = [icache EXCEPT ![i] = e]
          /\ PutIp(p, a, "unlink_bad")
          /\ UNCHANGED <<dinode, dir>>
       \/ /\ ~full
          /\ icache' = [icache EXCEPT ![i] = [e EXCEPT !.lock = p], ![d] = de]
          /\ dinode' = iupdate(dinode, de, d)
          /\ dir' = [dir EXCEPT ![d] = Without(@, LastName(a))]
          /\ PutDp(p, a, "unlink_inode")
    /\ UNCHANGED <<bitmap, gen, lost, leaked, cwd, ofile>>

unlink_bad(p) ==
    LET a == at[p] IN
    /\ a.pc = "unlink_bad"
    /\ icache' = [icache EXCEPT ![a.dp].lock = Nobody]
    /\ PutDp(p, a, "idle")
    /\ UNCHANGED <<disk, cwd, ofile, panicked>>

unlink_inode(p) ==
    LET a == at[p]
        i == a.ip
        e == [icache[i] EXCEPT !.nlink = @ - 1, !.lock = Nobody] IN
    /\ a.pc = "unlink_inode"
    /\ icache' = [icache EXCEPT ![i] = e]
    /\ dinode' = iupdate(dinode, e, i)
    /\ PutIp(p, a, "idle")
    /\ UNCHANGED <<dir, bitmap, gen, lost, leaked, cwd, ofile, panicked>>

-----------------------------------------------------------------------------
(* chdir(), read(), write(), close(), exit() *)

chdir(p) ==
    LET a == at[p]
        i == a.ip
        e == Loaded(i) IN
    /\ a.pc = "chdir" /\ ilock(i)
    /\ icache' = [icache EXCEPT ![i] = e]
    /\ IF e.type = "dir" THEN PutThen(p, a, cwd[p], "chdir_set") ELSE PutIp(p, a, "idle")
    /\ UNCHANGED <<disk, cwd, ofile, panicked>>

chdir_set(p) ==
    /\ at[p].pc = "chdir_set"
    /\ cwd' = [cwd EXCEPT ![p] = at[p].ip]
    /\ Goto(p, at[p], "idle")
    /\ UNCHANGED <<disk, icache, ofile, panicked>>

Uses(p, op) ==
    /\ at[p].pc = "idle" /\ left[p] > 0 /\ ofile[p].ip # 0
    /\ \E c \in calls : c.op = op

\* fileread() or filestat() of the open file.
read(p) ==
    LET i == ofile[p].ip IN
    /\ Uses(p, "read") /\ ilock(i)
    /\ icache' = [icache EXCEPT ![i] = Loaded(i)]
    /\ Goto(p, Idle, "idle")
    /\ UNCHANGED <<disk, cwd, ofile, panicked>>

\* filewrite() of one block: bmap() finds it or balloc() gives one.
write(p) ==
    LET i == ofile[p].ip
        e == Loaded(i)
        w == IF e.blks = {} THEN [e EXCEPT !.blks = {Least(Blocks \ bitmap)}] ELSE e IN
    /\ Uses(p, "write") /\ ilock(i) /\ e.type = "file"
    /\ e.blks = {} => bitmap # Blocks
    /\ icache' = [icache EXCEPT ![i] = w]
    /\ dinode' = iupdate(dinode, w, i)
    /\ bitmap' = bitmap \cup w.blks
    /\ Goto(p, Idle, "idle")
    /\ UNCHANGED <<dir, gen, lost, leaked, cwd, ofile, panicked>>

close(p) ==
    /\ Uses(p, "close")
    /\ ofile' = [ofile EXCEPT ![p] = NoFile]
    /\ PutThen(p, Idle, ofile[p].ip, "idle")
    /\ UNCHANGED <<disk, icache, cwd, panicked>>

\* exit() closes the file, then puts the current directory.
exit(p) ==
    /\ at[p].pc = "idle" /\ left[p] > 0 /\ cwd[p] # 0
    /\ \E c \in calls : c.op = "exit"
    /\ IF ofile[p].ip # 0 THEN PutThen(p, Idle, ofile[p].ip, "exit_cwd") ELSE Goto(p, Idle, "exit_cwd")
    /\ ofile' = [ofile EXCEPT ![p] = NoFile]
    /\ UNCHANGED <<disk, icache, cwd, panicked>>

exit_cwd(p) ==
    /\ at[p].pc = "exit_cwd"
    /\ cwd' = [cwd EXCEPT ![p] = 0]
    /\ PutThen(p, at[p], cwd[p], "idle")
    /\ UNCHANGED <<disk, icache, ofile, panicked>>

-----------------------------------------------------------------------------
\* The inode that p's next step locks with ilock(), 0 if it locks none.
Wants(p) ==
    LET a == at[p] IN
    CASE a.pc = "namex" /\ a.rest # <<>> -> a.ip
      [] a.pc \in {"open", "create", "create_new", "link_old", "link_new", "unlink",
                   "unlink_entry", "chdir"} -> a.ip
      [] a.pc = "link_bad" -> a.dp
      [] OTHER -> 0

\* ilock() finds an inode nobody has allocated.
ilock_panic(p) ==
    /\ Wants(p) # 0
    /\ icache[Wants(p)].lock = Nobody /\ NoType(Wants(p))
    /\ panicked' = IF at[p].stray THEN "stray" ELSE "ilock: no type"
    /\ UNCHANGED <<disk, icache, cwd, ofile, at, calls, left>>

NeedsBlock(p) ==
    \/ LET i == at[p].ip IN
       at[p].pc = "create_new" /\ at[p].call.op = "mkdir" /\ ilock(i) /\ Loaded(i).blks = {}
    \/ LET e == Loaded(ofile[p].ip) IN
       Uses(p, "write") /\ ilock(ofile[p].ip) /\ e.type = "file" /\ e.blks = {}

\* ialloc() finds no inode, or balloc() no block.
no_space(p) ==
    LET a == at[p] IN
    /\ \/ /\ a.pc = "create" /\ ilock(a.ip) /\ LastName(a) \notin DOMAIN dir[a.ip]
          /\ \A i \in Inums : dinode[i].type # "free"
          /\ panicked' = "ialloc: no inodes"
       \/ /\ NeedsBlock(p) /\ bitmap = Blocks
          /\ panicked' = "balloc: out of blocks"
    /\ UNCHANGED <<disk, icache, cwd, ofile, at, calls, left>>

Step(p) ==
    \/ \E c \in calls : begin(p, c)
    \/ iput(p) \/ iput_free(p) \/ iput_invalid(p) \/ iput_drop(p)
    \/ namex(p) \/ namex_end(p)
    \/ open(p) \/ create(p) \/ create_new(p) \/ create_end(p)
    \/ link_old(p) \/ link_path(p) \/ link_new(p) \/ link_put(p) \/ link_bad(p)
    \/ unlink(p) \/ unlink_entry(p) \/ unlink_bad(p) \/ unlink_inode(p)
    \/ chdir(p) \/ chdir_set(p) \/ read(p) \/ write(p) \/ close(p) \/ exit(p) \/ exit_cwd(p)
    \/ ilock_panic(p) \/ no_space(p)

\* Everybody has made all calls, or has exited; or the kernel has stopped.
rest ==
    /\ panicked # "" \/ \A p \in Procs : at[p].pc = "idle" /\ (left[p] = 0 \/ cwd[p] = 0)
    /\ UNCHANGED vars

Next == (panicked = "" /\ \E p \in Procs : Step(p)) \/ rest

\* A tree that earlier calls have left: directories with their entries, files,
\* and where the processes are.
Init ==
    \E t \in Trees :
    LET dirs == DOMAIN t.dirs
        names(i) == UNION {{<<d, n>> : n \in {m \in DOMAIN t.dirs[d] \ {".", ".."} : t.dirs[d][m] = i}}
                           : d \in dirs}
        subs(i) == {d \in dirs \ {ROOTINO} : t.dirs[d][".."] = i}
        held(i) == Cardinality({p \in Procs : t.cwd[p] = i}) IN
    /\ dir = [i \in Inums |-> IF i \in dirs THEN t.dirs[i] ELSE NoDir]
    /\ dinode = [i \in Inums |->
                   IF i \in dirs
                   THEN [type |-> "dir", blks |-> {i},
                         nlink |-> Cardinality(names(i)) + Cardinality(subs(i))
                                   + IF i = ROOTINO THEN 1 ELSE 0]
                   ELSE IF i \in t.files THEN [type |-> "file", blks |-> {}, nlink |-> Cardinality(names(i))]
                   ELSE NoDinode]
    /\ bitmap = dirs
    /\ icache = [i \in Inums |-> [NoEntry EXCEPT !.ref = held(i)]]
    /\ cwd = t.cwd
    /\ ofile = [p \in Procs |-> NoFile]
    /\ at = [p \in Procs |-> Idle]
    /\ calls = t.calls
    /\ left = [p \in Procs |-> MaxCalls]
    /\ gen = [i \in Inums |-> 0] /\ lost = [i \in Inums |-> 0]
    /\ leaked = {} /\ panicked = ""

Spec == Init /\ [][Next]_vars

-----------------------------------------------------------------------------
(* Properties *)

\* The inode p's current directory counts for: none while chdir() changes it.
CwdRef(p) == IF "chdir_set" \in {at[p].pc, at[p].then} THEN 0 ELSE cwd[p]

\* The references to inode i: the local variables of the processes, their open
\* files, their current directories.
References(i) ==
    Cardinality({p \in Procs : at[p].ip = i}) + Cardinality({p \in Procs : at[p].dp = i})
    + Cardinality({p \in Procs : at[p].put = i}) + Cardinality({p \in Procs : ofile[p].ip = i})
    + Cardinality({p \in Procs : CwdRef(p) = i})

\* The inodes p has locked from one step to the next.
Locked(p) ==
    LET a == at[p]
        putting == a.pc \in {"iput", "iput_free", "iput_invalid", "iput_drop"}
        label == IF putting THEN a.then ELSE a.pc IN
    (IF label \in {"create_new", "unlink_entry", "unlink_bad"} THEN {a.dp} ELSE {})
    \cup (IF label \in {"create_end", "unlink_inode"} THEN {a.ip} ELSE {})
    \cup (IF a.pc \in {"iput_free", "iput_invalid"} THEN {a.put} ELSE {})

Dirs == {i \in Inums : dir[i] # NoDir}
NamesOf(i) ==
    UNION {{<<d, n>> : n \in {m \in DOMAIN dir[d] \ {".", ".."} : dir[d][m] = i}} : d \in Dirs}

\* What the comments of the inode cache promise (fs.c:113-158, 216-219, 336-344):
\* a reference count counts the references there are; only a process in the
\* middle of a step on an inode has it locked; a valid copy is what the disk
\* has; no block is two files', and the bitmap shows those that are somebody's;
\* and the lock that iput() takes with icache.lock held is free.
InodeOK ==
    /\ \A i \in Inums : icache[i].ref = References(i)
    /\ \A i \in Inums : icache[i].lock \in Procs \cup {Nobody}
    /\ \A i \in Inums, p \in Procs : icache[i].lock = p <=> i \in Locked(p)
    /\ \A i \in Inums :
          icache[i].ref > 0 /\ icache[i].valid /\ ~(\E p \in Procs : at[p].pc = "iput_invalid" /\ at[p].put = i) =>
          dinode[i] = [type |-> icache[i].type, nlink |-> icache[i].nlink, blks |-> icache[i].blks]
    /\ \A i, j \in Inums : i # j => dinode[i].blks \cap dinode[j].blks = {}
    /\ bitmap = UNION {dinode[i].blks : i \in Inums}
    /\ \A p \in Procs : at[p].pc = "iput" =>
          LET e == icache[at[p].put] IN e.ref = 1 /\ e.valid /\ e.nlink = 0 => e.lock = Nobody

\* Between link() and unlink() counting a name and its being there.
InFlight(i) ==
    LET linking(p) == at[p].second /\ at[p].dp = i
                      /\ at[p].pc # "link_put" /\ at[p].then # "link_put"
        unlinking(p) == at[p].ip = i /\ "unlink_inode" \in {at[p].pc, at[p].then} IN
    Cardinality({p \in Procs : linking(p) \/ unlinking(p)})

\* The link count of an inode is the number of its names, those of ".." in the
\* directories that have a name included, and of the links and unlinks under
\* way; and an inode without names and references is free.  The second holds
\* between any two steps of iput(): what keeps an inode is always visible.
Reclaimable(i) == dinode[i].type # "free" => dinode[i].nlink > 0 \/ icache[i].ref > 0

NamesCounted ==
    /\ \A i \in Inums : dinode[i].type # "free" /\ ~(\E p \in Procs : at[p].pc = "create_new" /\ at[p].ip = i) =>
          dinode[i].nlink =
              Cardinality(NamesOf(i)) + lost[i] + InFlight(i)
              + Cardinality({d \in Dirs : dir[d][".."] = i /\ (d = ROOTINO \/ NamesOf(d) # {})})
    /\ \A i \in Inums \ leaked : Reclaimable(i)
    /\ \A d \in Dirs : \A n \in DOMAIN dir[d] \ {".."} : dinode[dir[d][n]].type # "free"

\* "If that was the last reference and the inode has no links to it, free the
\* inode (and its content) on disk" (fs.c:328-329).
Reclaimed == \A i \in Inums : Reclaimable(i)

\* An open file stays the inode it was opened as, whoever unlinks it; so do the
\* current directories.
OpenKept ==
    \A p \in Procs :
        /\ ofile[p].ip # 0 => dinode[ofile[p].ip].type # "free" /\ ofile[p].gen = gen[ofile[p].ip]
        /\ cwd[p] # 0 /\ "chdir_set" \notin {at[p].pc, at[p].then} => dinode[cwd[p]].type = "dir"

\* The kernel stops only for want of space, or because a path went through the
\* ".." of a directory that has been removed: that ".." is no reference.
PanicCauses == panicked \in {"", "ialloc: no inodes", "balloc: out of blocks", "stray"}
=============================================================================
