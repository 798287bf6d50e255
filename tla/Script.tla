------------------------------- MODULE Script -------------------------------
(***************************************************************************)
(* The notation the user programs are written in.  A program is a sequence *)
(* of statements; a statement is one system call, or one memory access or  *)
(* test of the program's own, with what the program does about the result: *)
(* "to" names the variable that keeps it, and if it is within "want" the   *)
(* program goes on with "then", otherwise with "else", and in both cases   *)
(* with the statements behind.  A loop stays in front of its own body.     *)
(***************************************************************************)
EXTENDS Integers, SequencesExt

CONSTANTS
  PGSIZE,     \* bytes of a page
  BSIZE,      \* bytes of a disk block
  MAXFILE,    \* blocks of a file
  ICACHE      \* inodes the kernel has in use at a time (NINODE of param.h)

ASSUME ScriptAssumption == {PGSIZE, BSIZE, MAXFILE, ICACHE} \subseteq Nat \ {0}

-----------------------------------------------------------------------------
(* Arguments.  A number is a constant plus the value of one variable minus *)
(* that of another; "" stands for no variable.                             *)
N(k) == [k |-> k, plus |-> "", minus |-> ""]
V(v) == [k |-> 0, plus |-> v, minus |-> ""]
VPlus(v, k) == [k |-> k, plus |-> v, minus |-> ""]
Minus(a, b) == [k |-> 0, plus |-> a, minus |-> b]
Negative(v, k) == [k |-> k, plus |-> "", minus |-> v]

(* A buffer the program owns, an address in the kernel's half, beyond any  *)
(* process.                                                                *)
Buf == N(-1)
Wild == N(900)

(* A path: from the root or from the current directory; "fits" says that   *)
(* its bytes end within MAXPATH.                                           *)
Rel(names) == [abs |-> FALSE, names |-> names, fits |-> TRUE]
Abs(names) == [abs |-> TRUE, names |-> names, fits |-> TRUE]
TooLong == [abs |-> FALSE, names |-> <<"x">>, fits |-> FALSE]

(* What a program expects of a result: the least and the greatest value.   *)
Just(k) == <<k, k>>
Okay == <<0, 999>>
Error == <<-1, -1>>
Anything == <<-999, 999>>
Positive == <<1, 999>>

-----------------------------------------------------------------------------
Statement(op) == [op |-> op, to |-> "", want |-> Okay, then |-> <<>>,
                  else |-> <<>>, loop |-> FALSE]

Exit(k) == [Statement("exit") EXCEPT !.want = Anything] @@ [status |-> N(k)]
ExitWith(v) == [Statement("exit") EXCEPT !.want = Anything] @@ [status |-> V(v)]

(* A plain statement: any other result makes the program exit(1).          *)
Call(op, args) == [Statement(op) EXCEPT !.else = <<Exit(1)>>] @@ args

Into(v, s) == [s EXCEPT !.to = v]
Gives(s, results) == [s EXCEPT !.want = results]
Whatever(s) == [s EXCEPT !.want = Anything]
Fails(s) == Gives(s, Error)
If(s, yes, no) == [s EXCEPT !.then = yes, !.else = no]
While(s, body) == [s EXCEPT !.then = body, !.else = <<>>, !.loop = TRUE]
Repeat(n, body) == FlattenSeq([i \in 1 .. n |-> body])

-----------------------------------------------------------------------------
(* The system calls.                                                       *)
At(s, a) == [s EXCEPT !.at = a]
Open(path, mode) == Call("open", [path |-> path, mode |-> mode, at |-> Buf])
Close(fd) == Call("close", [fd |-> fd])
Dup(fd) == Call("dup", [fd |-> fd])
ReadUpTo(fd, n) == Call("read", [fd |-> fd, n |-> n, at |-> Buf])
Read(fd, n) == ReadUpTo(fd, N(n))
WriteOf(fd, data, from) == Call("write", [fd |-> fd, data |-> data, from |-> from, at |-> Buf])
Write(fd, data) == Gives(WriteOf(fd, data, "data"), Just(Len(data)))
Stat(fd) == Call("fstat", [fd |-> fd, at |-> Buf])
Pipe(r, w) == Call("pipe", [ends |-> <<r, w>>, at |-> Buf])
Link(old, new) == Call("link", [path |-> old, new |-> new, at |-> Buf])
Unlink(path) == Call("unlink", [path |-> path, at |-> Buf])
Mkdir(path) == Call("mkdir", [path |-> path, at |-> Buf])
Mknod(path) == Call("mknod", [path |-> path, at |-> Buf])
Chdir(path) == Call("chdir", [path |-> path, at |-> Buf])
Exec(path, args) == Fails(Call("exec", [path |-> path, args |-> args, at |-> Buf]))
Fork(child) == Call("fork", [child |-> child, both |-> FALSE])
ForkBoth == Call("fork", [child |-> <<>>, both |-> TRUE])
Wait(v) == Call("wait", [status |-> v])
Kill(v) == Call("kill", [pid |-> V(v)])
Sbrk(n) == Call("sbrk", [n |-> n])
Sleep == Whatever(Call("sleep", <<>>))
Getpid == Call("getpid", <<>>)

-----------------------------------------------------------------------------
(* What the program does by itself: store at an address, look whether an   *)
(* address holds anything but zero, sit in a loop, compute, look at what   *)
(* it has read.                                                            *)
Store(a) == Whatever(Call("store", [at |-> a]))
Load(a) == Whatever(Call("load", [at |-> a]))
Forever == Call("forever", <<>>)
Let(v, n) == [Statement("value") EXCEPT !.to = v, !.want = Anything] @@ [n |-> n]
Is(n, values) == Gives(Call("value", [n |-> n]), values)
Tally(v, symbols) == Into(v, Call("tally", [of |-> v, symbols |-> symbols]))
Differ(x, y) == Gives(Call("differ", [fst |-> x, snd |-> y]), Just(1))
TallyNames(v, names) == Into(v, Call("names", [of |-> v, symbols |-> names]))
Follows(v) == Gives(Call("follows", [of |-> v]), Just(1))
IsType(types) == Gives(Call("istype", [types |-> types]), Just(1))
IsSize(n) == Gives(Call("issize", [n |-> n]), Just(1))
First(v) == Into(v, Whatever(Call("first", <<>>)))
Saw(data) == Gives(Call("saw", [data |-> data]), Just(1))
SawOnly(symbols) == Gives(Call("sawonly", [symbols |-> symbols]), Just(1))

(* What grep and wc do with what they have read.                           *)
Grepped(re) == Call("grep", [re |-> re])
Counted == Call("wc", <<>>)

(* What was read, written to fd; the values of variables, an item each.    *)
WriteBuf(fd) == Whatever(WriteOf(fd, <<>>, "buf"))
WriteVars(fd, vs) == Whatever(WriteOf(fd, vs, "vars"))

(* One of the scripts, whichever; a subprogram, once for every name in the *)
(* directory entries that were read last.                                  *)
Choose(scripts) == Call("choose", [scripts |-> scripts])
ForEntries(sub, names, skip) ==
  Call("entries", [sub |-> sub, names |-> names, skip |-> skip])

(* close(open(path, mode)).                                                *)
Touch(path, mode) ==
  <<Whatever(Into("tmp", Open(path, mode))), Whatever(Close(V("tmp")))>>
=============================================================================
