------------------------------ MODULE Programs ------------------------------
(***************************************************************************)
(* The programs of the user directory, init first.  What they print is a   *)
(* write; the text only matters where the scenario looks at it.            *)
(***************************************************************************)
EXTENDS Shell

Say == Whatever(Write(N(1), <<".">>))

(* init runs one program, where init.c starts shell after shell, keeps its *)
(* exit status, and reaps what is left to it.                              *)
InitMain(prog, args) ==
  LET next == Into("w", Wait("st"))
  IN <<If(Open(Console, {"rdwr"}), <<>>, <<Mknod(Console), Open(Console, {"rdwr"})>>),
       Dup(N(0)), Dup(N(0)), Say,
       Into("pid", Fork(<<Exec(Rel(<<prog>>), args), Say, Exit(1)>>)),
       next, While(Differ("w", "pid"), <<next>>), Let("verdict", V("st")),
       While(next, <<>>)>>

echo(args) ==
  FlattenSeq([i \in DOMAIN args |->
    <<Whatever(Write(N(1), <<args[i]>>)),
      Whatever(Write(N(1), <<IF i < Len(args) THEN " " ELSE "nl">>))>>]) \o <<Exit(0)>>

(* Reads two bytes at a time here, where cat.c reads 512.                  *)
cat(args) ==
  LET copy(fd) ==
        <<While(Into("n", Gives(Read(fd, 2), Positive)),
                <<Into("m", WriteBuf(N(1))), Is(Minus("m", "n"), Just(0))>>),
          Is(V("n"), Just(0))>>
  IN (IF args = <<>> THEN copy(N(0))
      ELSE FlattenSeq([i \in DOMAIN args |->
             <<Into("fd", Open(PathOf(args[i]), {}))>> \o copy(V("fd")) \o <<Close(V("fd"))>>]))
     \o <<Exit(0)>>

(* The first failure ends the loop, with a complaint and status 0.         *)
Each(args, call(_)) ==
  LET from[i \in 1 .. Len(args) + 1] ==
        IF i > Len(args) THEN <<>> ELSE <<If(call(PathOf(args[i])), from[i + 1], <<Complain>>)>>
  IN IF args = <<>> THEN <<Complain, Exit(1)>> ELSE from[1] \o <<Exit(0)>>
rm(args) == Each(args, Unlink)
mkdir(args) == Each(args, Mkdir)

ln(args) ==
  IF Len(args) # 2 THEN <<Complain, Exit(1)>>
  ELSE <<If(Link(PathOf(args[1]), PathOf(args[2])), <<>>, <<Complain>>), Exit(0)>>

zombie == <<If(Fork(<<Exit(0)>>), <<Sleep>>, <<>>), Exit(0)>>

(* forktest.c, where the process table is what runs out.                   *)
forktestc ==
  <<Say, Let("n", N(0)), While(Fork(<<Exit(0)>>), <<Let("n", VPlus("n", 1))>>),
    While(Is(V("n"), Positive), <<Wait("_"), Let("n", VPlus("n", -1))>>),
    Gives(Wait("_"), Error), Say, Exit(0)>>

(* Each process starts the next and then writes and reads a file of its    *)
(* own; there are two of them here, with two blocks, where stressfs.c has  *)
(* five with twenty.                                                       *)
stressfs ==
  LET names == <<"stressfs0", "stressfs1">>
      rest(i) == <<Say, Into("fd", Open(Rel(<<names[i]>>), {"create", "rdwr"}))>>
                 \o Repeat(2, <<Whatever(Write(V("fd"), <<"a", "a">>))>>)
                 \o <<Whatever(Close(V("fd"))), Say, Into("fd", Open(Rel(<<names[i]>>), {}))>>
                 \o Repeat(2, <<Whatever(Read(V("fd"), 2))>>)
                 \o <<Whatever(Close(V("fd"))), Whatever(Wait("_")), Exit(0)>>
      from[i \in 1 .. 2] ==
        IF i = 2 THEN rest(2) ELSE <<If(Fork(from[i + 1]), <<>>, <<>>)>> \o rest(i)
  IN <<Say>> \o from[1]

(* ls: a file is a line, a directory a line for each of its entries; of a  *)
(* path the last element is shown.                                         *)
fmtname(names) == Last(names)
Show(names) == Whatever(Write(N(1), <<fmtname(names)>>))
ls(names) ==
  <<If(Into("fd", Open(Rel(names), {})),
       <<If(Stat(V("fd")),
            <<If(IsType({"dir"}),
                 <<While(Gives(Read(V("fd"), 1), Just(1)), <<ForEntries("lsentry", names, {})>>)>>,
                 <<If(IsType({"file"}), <<Show(names)>>, <<>>)>>)>>,
            <<Complain>>),
         Close(V("fd"))>>,
       <<Complain>>)>>
lsmain(args) ==
  (IF args = <<>> THEN ls(<<".">>) ELSE FlattenSeq([i \in DOMAIN args |-> ls(<<args[i]>>)]))
  \o <<Exit(0)>>

(* stat() of ulib.c on the entry, and its line.                            *)
lsentry(names) ==
  <<If(Into("fd1", Open(Rel(names), {})),
       <<If(Stat(V("fd1")), <<Close(V("fd1")), Show(names)>>, <<Close(V("fd1")), Complain>>)>>,
       <<Complain>>)>>

(* grep(): m bytes of the buffer are kept; a line that does not fit leaves *)
(* no room, and read() says 0.                                             *)
grep(word, fd) ==
  <<Let("m", N(0)),
    While(Into("n", Gives(ReadUpTo(fd, Negative("m", GREPBUF - 1)), Positive)),
          <<Grepped(Spelling[word])>>)>>

(* What both do for every file, or for descriptor 0 if there is none.      *)
EachFile(args, body(_)) ==
  (IF args = <<>> THEN body(N(0))
   ELSE FlattenSeq([i \in DOMAIN args |->
          <<If(Into("fd", Open(PathOf(args[i]), {})), body(V("fd")) \o <<Close(V("fd"))>>,
               <<Say, Exit(1)>>)>>])) \o <<Exit(0)>>

grepmain(args) ==
  IF args = <<>> THEN <<Complain, Exit(1)>>
  ELSE EachFile(Tail(args), LAMBDA fd : grep(args[1], fd))

(* Reads two bytes at a time here, where wc.c reads 512.                   *)
wc(fd) ==
  <<Let("l", N(0)), Let("w", N(0)), Let("c", N(0)), Let("inword", N(0)),
    While(Into("n", Gives(Read(fd, 2), Positive)), <<Counted>>),
    If(Is(V("n"), Just(0)), <<>>, <<Say, Exit(1)>>)>>
  \o Printf(N(1), <<"l", "w", "c">>)
wcmain(args) == EachFile(args, wc)

kill(args) ==
  IF args = <<>> THEN <<Complain, Exit(1)>>
  ELSE FlattenSeq([i \in DOMAIN args |->
         <<Let("pid", N(atoi(args[i]))), Whatever(Kill("pid"))>>]) \o <<Exit(0)>>

(* The test programs of the thread library: their threads run, and the last*)
(* one to exit ends the process.                                           *)
threaded == <<Say, Whatever(Call("threading", <<>>)), Say, Exit(0)>>

-----------------------------------------------------------------------------
(* Not a program of the user directory: it asks the kernel for more than   *)
(* there is, so that calls fail half-way, where usertests stops at one     *)
(* failure of a kind.  All descriptors in use, or all but one; the table of*)
(* open files; memory with 0 to 5 pages left; addresses that hold one of   *)
(* two descriptors or none, and arguments that do not fit.                 *)
Within(test) == <<Fork(test \o <<Exit(0)>>), Wait("st"), Is(V("st"), Just(0))>>
greedy ==
  LET pipe == Pipe("r", "w")
      open == Open(Console, {"rdwr"})
      execs(args) == Exec(Rel(<<"echo">>), args)
      five == <<3, 4, 5, 6, 7>>
      others == [i \in DOMAIN five |-> Close(N(five[i]))]
      files == Repeat(5, <<open>>)
      left == <<Fails(Fork(<<>>)), Fails(Sbrk(N(8 * PGSIZE))), execs(<<"x">>), Sbrk(N(-PGSIZE))>>
  IN Within(<<While(pipe, <<>>), Dup(N(0)), Fails(pipe), Fails(open)>>)
     \o Within(files \o Within(others \o files \o
          Within(others \o <<Fails(pipe), open, Fails(open), Fails(pipe)>>)))
     \o Within(<<While(Sbrk(N(PGSIZE)), <<>>), Fails(pipe)>> \o Repeat(6, left))
     \o Within(<<Into("top", Sbrk(N(0))), Fails(At(pipe, VPlus("top", -1))),
                 Fails(At(pipe, N(PGSIZE))), execs(<<"BADPTR">>), execs(<<"LONG", "LONG">>),
                 Exec(Rel(<<".">>), <<>>)>>)
     \o <<Exit(0)>>
=============================================================================
