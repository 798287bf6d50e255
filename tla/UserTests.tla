----------------------------- MODULE UserTests -----------------------------
(***************************************************************************)
(* usertests.c: each test of the system calls as a program, with the       *)
(* results it asks for.  Loops are cut to the few rounds that still reach  *)
(* what the test is after, sizes are those of the small instance, and the  *)
(* bytes are symbols.  A call given without a result must succeed, as the  *)
(* test asserts or relies on.                                              *)
(***************************************************************************)
EXTENDS Tree

F(name) == Rel(<<name>>)
Fd == V("fd")
St == V("st")
Bytes(n) == [i \in 1 .. n |-> "x"]
RD == {}
WR == {"wronly"}
RW == {"rdwr"}
CW == {"create", "wronly"}
CRW == {"create", "rdwr"}
CTW == {"create", "trunc", "wronly"}
OpenTo(v, path, mode) == Into(v, Open(path, mode))
WaitSt(results) == <<Wait("st"), Is(St, results)>>
ExitSt == <<Wait("st"), ExitWith("st")>>

-----------------------------------------------------------------------------
(* Addresses the process does not own.                                     *)
copyin ==
  Repeat(2,
    <<OpenTo("fd", F("copyin1"), CW), Fails(At(Write(Fd, Bytes(4)), Wild)),
      Close(Fd), Unlink(F("copyin1")),
      Gives(At(Write(N(1), Bytes(4)), Wild), <<-1, 0>>),
      Pipe("r", "w"), Gives(At(Write(V("w"), Bytes(4)), Wild), <<-1, 0>>),
      Close(V("r")), Close(V("w"))>>)

copyout ==
  Repeat(2,
    <<OpenTo("fd", F("README"), RD), Gives(At(Read(Fd, 4), Wild), <<-1, 0>>), Close(Fd),
      Pipe("r", "w"), Write(V("w"), Bytes(1)),
      Gives(At(Read(V("r"), 4), Wild), <<-1, 0>>),
      Close(V("r")), Close(V("w"))>>)

copyinstr1 == Repeat(2, <<Fails(At(Open(F("x"), CW), Wild))>>)

copyinstr2 ==
  <<Fails(Unlink(TooLong)), Fails(Open(TooLong, CW)), Fails(Link(TooLong, TooLong)),
    Exec(TooLong, <<"xx">>),
    Fork(<<Exec(F("echo"), <<"UNENDING", "UNENDING">>), Exit(747)>>)>>
  \o WaitSt(Just(747))

copyinstr3 ==
  LET top == VPlus("top", -1) IN
  <<Sbrk(N(2 * PGSIZE)), Into("top", Sbrk(N(0))), Store(top),
    Fails(At(Unlink(F("x")), top)), Fails(At(Open(F("x"), CW), top)),
    Fails(At(Link(F("x"), F("x")), top)), At(Exec(F("x"), <<"xx">>), top)>>

rwsbrk ==
  LET gone == VPlus("a", PGSIZE) IN
  <<Into("a", Sbrk(N(2 * PGSIZE))), Sbrk(N(-2 * PGSIZE)),
    OpenTo("fd", F("rwsbrk"), CW), Fails(At(Write(Fd, Bytes(2)), gone)),
    Close(Fd), Unlink(F("rwsbrk")),
    OpenTo("fd", F("README"), RD), Fails(At(Read(Fd, 1), gone)), Close(Fd)>>

(* Shared offsets and O_TRUNC.                                             *)
truncate1 ==
  LET f == F("truncfile") IN
  <<Whatever(Unlink(f)), OpenTo("fd1", f, CTW), Write(V("fd1"), Bytes(2)), Close(V("fd1")),
    OpenTo("fd2", f, RD), Gives(Read(V("fd2"), 8), Just(2)),
    OpenTo("fd1", f, {"wronly", "trunc"}), OpenTo("fd3", f, RD),
    Gives(Read(V("fd3"), 8), Just(0)), Gives(Read(V("fd2"), 8), Just(0)),
    Write(V("fd1"), Bytes(3)), Gives(Read(V("fd3"), 8), Just(3)), Gives(Read(V("fd2"), 8), Just(1)),
    Unlink(f), Close(V("fd1")), Close(V("fd2")), Close(V("fd3"))>>

truncate2 ==
  LET f == F("truncfile") IN
  <<Whatever(Unlink(f)), OpenTo("fd1", f, CTW), Write(V("fd1"), Bytes(2)),
    OpenTo("fd2", f, {"trunc", "wronly"}), Fails(Write(V("fd1"), Bytes(1))),
    Unlink(f), Close(V("fd1")), Close(V("fd2"))>>

truncate3 ==
  LET f == F("truncfile")
      child == Repeat(2, <<OpenTo("fd", f, WR), Write(Fd, Bytes(2)), Close(Fd),
                           OpenTo("fd", f, RD), Whatever(Read(Fd, 4)), Close(Fd)>>)
  IN Touch(f, CTW) \o <<Fork(child \o <<Exit(0)>>)>>
     \o Repeat(2, <<OpenTo("fd", f, CTW), Write(Fd, Bytes(1)), Close(Fd)>>)
     \o <<Wait("st"), Unlink(f), ExitWith("st")>>

(* A directory that is removed while somebody is in it.                    *)
iputtest ==
  <<Mkdir(F("iputdir")), Chdir(F("iputdir")), Unlink(Rel(<<"..", "iputdir">>)), Chdir(Abs(<<>>))>>

exitiputtest ==
  <<Fork(<<Mkdir(F("iputdir")), Chdir(F("iputdir")), Unlink(Rel(<<"..", "iputdir">>)), Exit(0)>>)>>
  \o ExitSt

openiputtest ==
  <<Mkdir(F("oidir")), Fork(<<Fails(Open(F("oidir"), RW)), Exit(0)>>), Sleep,
    Unlink(F("oidir"))>> \o ExitSt

-----------------------------------------------------------------------------
(* Simple files.                                                           *)
opentest == <<OpenTo("fd", F("echo"), RD), Close(Fd), Fails(Open(F("doesnotexist"), RD))>>

writetest ==
  <<OpenTo("fd", F("small"), CRW)>>
  \o Repeat(2, <<Write(Fd, <<"a">>), Write(Fd, <<"b">>)>>)
  \o <<Close(Fd), OpenTo("fd", F("small"), RD), Gives(Read(Fd, 4), Just(4)), Close(Fd),
       Unlink(F("small"))>>

Filled(n) == [i \in 1 .. BSIZE |-> n]
writebig ==
  <<OpenTo("fd", F("big"), CRW)>>
  \o [i \in 1 .. MAXFILE |-> Write(Fd, Filled(i))]
  \o <<Close(Fd), OpenTo("fd", F("big"), RD)>>
  \o FlattenSeq([i \in 1 .. MAXFILE |-> <<Gives(Read(Fd, BSIZE), Just(BSIZE)), Saw(Filled(i))>>])
  \o <<Gives(Read(Fd, BSIZE), Just(0)), Close(Fd), Unlink(F("big"))>>

createtest ==
  LET names == <<"a0", "a1", "a2">> IN
  FlattenSeq([i \in DOMAIN names |-> <<OpenTo("fd", F(names[i]), CRW), Close(Fd)>>])
  \o [i \in DOMAIN names |-> Unlink(F(names[i]))]

dirtest == <<Mkdir(F("dir0")), Chdir(F("dir0")), Chdir(F("..")), Unlink(F("dir0"))>>

exectest ==
  LET f == F("echo-ok") IN
  <<Whatever(Unlink(f)),
    Fork(<<Close(N(1)), Gives(Open(f, CW), Just(1)), Exec(F("echo"), <<"OK">>), Exit(1)>>)>>
  \o WaitSt(Just(0))
  \o <<OpenTo("fd", f, RD), Gives(Read(Fd, 1), Just(1)), Unlink(f), Saw(<<"OK">>)>>

-----------------------------------------------------------------------------
(* Processes.                                                              *)
pipe1 ==
  LET out(n) == Write(V("w"), [i \in 1 .. 3 |-> 3 * n + i - 1])
      again(k) == While(Into("n", Gives(Read(V("r"), k), Positive)),
                        <<Follows("total"), Tally("total", 0 .. 9)>>)
  IN <<Pipe("r", "w"), Into("pid", Fork(<<Close(V("r")), out(0), out(1), Exit(0)>>)),
       Close(V("w")), Let("total", N(0)),
       Gives(Read(V("r"), 1), Just(1)), Follows("total"), Tally("total", 0 .. 9), again(2),
       Is(V("total"), Just(6)), Close(V("r"))>> \o ExitSt

killstatus ==
  Repeat(2, <<Into("pid1", Fork(<<While(Whatever(Getpid), <<>>)>>)), Sleep, Kill("pid1")>>
            \o WaitSt(Just(-1)))

preempt ==
  <<Into("pid1", Fork(<<Forever>>)), Into("pid2", Fork(<<Forever>>)), Pipe("r", "w"),
    Into("pid3", Fork(<<Close(V("r")), Whatever(Write(V("w"), Bytes(1))), Close(V("w")), Forever>>)),
    Close(V("w")), Gives(Read(V("r"), 4), Just(1)), Close(V("r")),
    Kill("pid1"), Kill("pid2"), Kill("pid3")>>
  \o Repeat(3, <<Wait("st")>>)

exitwait ==
  FlattenSeq([i \in 1 .. 3 |->
    <<Into("pid", Fork(<<Exit(i)>>)), Into("w", Wait("st")), Is(Minus("w", "pid"), Just(0)),
      Is(St, Just(i))>>])

reparent ==
  <<Into("master", Getpid)>>
  \o Repeat(2,
       <<Into("pid", Fork(<<If(ForkBoth, <<Exit(0)>>, <<Kill("master"), Exit(1)>>)>>)),
         Into("w", Wait("_")), Is(Minus("w", "pid"), Just(0))>>)

twochildren == Repeat(2, <<Fork(<<Exit(0)>>), Fork(<<Exit(0)>>), Wait("_"), Wait("_")>>)

forkfork ==
  Repeat(2, <<Fork(Repeat(2, <<Fork(<<Exit(0)>>), Wait("_")>>) \o <<Exit(0)>>)>>)
  \o Repeat(2, WaitSt(Just(0)))

forkforkfork ==
  LET f == F("stopforking")
      bomb == While(Whatever(OpenTo("fd", f, RD)),
                    <<If(Is(Fd, Okay), <<Exit(0)>>, <<>>), If(ForkBoth, <<>>, Touch(f, CRW))>>)
  IN <<Whatever(Unlink(f)), Fork(<<bomb>>), Sleep>> \o Touch(f, CRW) \o <<Wait("_"), Sleep>>

reparent2 == <<Fork(<<Whatever(ForkBoth), Whatever(ForkBoth), Exit(0)>>), Wait("_")>>

mem ==
  <<Fork(<<While(Into("m", Sbrk(N(2 * PGSIZE))), <<Store(V("m"))>>), Exit(0)>>)>> \o ExitSt

-----------------------------------------------------------------------------
(* Several processes, one file system.                                     *)
sharedfd ==
  LET f == F("sharedfd") IN
  <<Whatever(Unlink(f)), OpenTo("fd", f, CRW),
    Fork(Repeat(2, <<Write(Fd, <<"c">>)>>) \o <<Exit(0)>>)>>
  \o Repeat(2, <<Write(Fd, <<"p">>)>>) \o WaitSt(Just(0))
  \o <<Close(Fd), OpenTo("fd", f, RD), Let("nc", N(0)), Let("np", N(0)),
       While(Gives(Read(Fd, 1), Positive), <<Tally("nc", {"c"}), Tally("np", {"p"})>>),
       Close(Fd), Unlink(f), Is(V("nc"), Just(2)), Is(V("np"), Just(2))>>

fourfiles ==
  LET names == <<"f0", "f1">> IN
  FlattenSeq([i \in 1 .. 2 |->
    <<Whatever(Unlink(F(names[i]))),
      Fork(<<OpenTo("fd", F(names[i]), CRW), Write(Fd, <<i, i>>), Write(Fd, <<i, i>>), Exit(0)>>)>>])
  \o Repeat(2, WaitSt(Just(0)))
  \o FlattenSeq([i \in 1 .. 2 |->
       <<OpenTo("fd", F(names[i]), RD), Let("total", N(0)),
         While(Gives(Read(Fd, 3), Positive), <<SawOnly({i}), Tally("total", {i})>>),
         Close(Fd), Is(V("total"), Just(4)), Unlink(F(names[i]))>>])

createdelete ==
  LET name == <<<<"p0", "p1", "p2">>, <<"q0", "q1", "q2">>>>
      child(c) == FlattenSeq([i \in 1 .. 3 |-> <<OpenTo("fd", F(c[i]), CRW), Close(Fd)>>
                                \o (IF i = 3 THEN <<Unlink(F(c[2]))>> ELSE <<>>)])
      there(n, i) == IF i = 2 THEN <<Fails(Open(F(n), RD))>>
                     ELSE <<OpenTo("fd", F(n), RD), Close(Fd)>>
  IN [c \in 1 .. 2 |-> Fork(child(name[c]) \o <<Exit(0)>>)] \o Repeat(2, WaitSt(Just(0)))
     \o FlattenSeq([i \in 1 .. 3 |-> there(name[1][i], i) \o there(name[2][i], i)])
     \o FlattenSeq([i \in 1 .. 2 |-> Repeat(2, <<Whatever(Unlink(F(name[i][i])))>>)])

unlinkread ==
  LET f == F("unlinkread") IN
  <<OpenTo("fd", f, CRW), Write(Fd, <<"h", "e">>), Close(Fd), OpenTo("fd", f, RW), Unlink(f),
    OpenTo("fd1", f, CRW), Write(V("fd1"), <<"y">>), Close(V("fd1")),
    Gives(Read(Fd, 4), Just(2)), Saw(<<"h", "e">>), Write(Fd, Bytes(4)), Close(Fd), Unlink(f)>>

linktest ==
  LET lf1 == F("lf1") lf2 == F("lf2") IN
  <<Whatever(Unlink(lf1)), Whatever(Unlink(lf2)), OpenTo("fd", lf1, CRW),
    Write(Fd, <<"h">>), Close(Fd), Link(lf1, lf2), Unlink(lf1), Fails(Open(lf1, RD)),
    OpenTo("fd", lf2, RD), Gives(Read(Fd, 4), Just(1)), Close(Fd), Fails(Link(lf2, lf2)),
    Unlink(lf2), Fails(Link(lf2, lf1)), Fails(Link(F("."), lf1))>>

concreate ==
  LET names == <<"C0", "C1", "C2">>
      file(i) == F(names[i + 1])
      create(i) == <<OpenTo("fd", file(i), CRW), Close(Fd)>>
      link(i) == <<Whatever(Link(file(0), file(i)))>>
      looks(i) == Touch(file(i), RD) \o Touch(file(i), RD)
      removes(i) == Repeat(2, <<Whatever(Unlink(file(i)))>>)
  IN FlattenSeq([k \in 1 .. 3 |-> LET i == k - 1 IN
       <<Whatever(Unlink(file(i))),
         Fork((IF i = 1 THEN link(i) ELSE create(i)) \o <<Exit(0)>>)>>
       \o (IF i = 1 THEN link(i) ELSE create(i)) \o WaitSt(Just(0))])
     \o <<OpenTo("fd", F("."), RD), Let("n", N(0)),
          While(Gives(Read(Fd, 1), Positive), <<TallyNames("n", {"C0", "C1", "C2"})>>), Close(Fd), Is(V("n"), Just(3))>>
     \o FlattenSeq([k \in 1 .. 3 |-> LET i == k - 1 IN
          <<Fork((IF i = 0 THEN looks(i) ELSE removes(i)) \o <<Exit(0)>>)>>
          \o (IF i = 1 THEN looks(i) ELSE removes(i)) \o <<Wait("_")>>])

(* The choices are the first ones of the test's generator for each seed.   *)
linkunlink ==
  LET x == F("x")
      does(choice) == FlattenSeq([i \in DOMAIN choice |->
        IF choice[i] = 0 THEN Touch(x, CRW)
        ELSE IF choice[i] = 1 THEN <<Whatever(Link(F("cat"), x))>> ELSE <<Whatever(Unlink(x))>>])
  IN <<Whatever(Unlink(x)), Fork(does(<<0, 1, 1, 0, 1, 0, 2, 2>>) \o <<Exit(0)>>)>>
     \o does(<<0, 2, 1, 0, 0, 2, 1, 2>>) \o <<Wait("_")>>

bigdir ==
  LET names == <<"x00", "x01", "x02">> IN
  <<Whatever(Unlink(F("bd"))), OpenTo("fd", F("bd"), {"create"}), Close(Fd)>>
  \o [i \in 1 .. 3 |-> Link(F("bd"), F(names[i]))] \o <<Unlink(F("bd"))>>
  \o [i \in 1 .. 3 |-> Unlink(F(names[i]))]

-----------------------------------------------------------------------------
(* Paths.  subdir builds dd and dd/dd, goes around in them, ...            *)
subdir1 ==
  LET ddff == Rel(<<"dd", "ff">>) ddddff == Rel(<<"dd", "dd", "ff">>)
      ddddffff == Rel(<<"dd", "dd", "ffff">>)
  IN <<Whatever(Unlink(F("ff"))), Mkdir(F("dd")), OpenTo("fd", ddff, CRW), Write(Fd, <<"ff">>),
       Close(Fd), Fails(Unlink(F("dd"))), Mkdir(Abs(<<"dd", "dd">>)),
       OpenTo("fd", ddddff, CRW), Write(Fd, <<"FF">>), Close(Fd),
       OpenTo("fd", Rel(<<"dd", "dd", "..", "ff">>), RD), Gives(Read(Fd, 4), Just(1)), Saw(<<"ff">>),
       Close(Fd), Link(ddddff, ddddffff), Unlink(ddddff), Fails(Open(ddddff, RD)),
       Chdir(F("dd")), Chdir(Rel(<<"dd", "..", "..", "dd">>)),
       Chdir(Rel(<<"dd", "..", "..", "..", "dd">>)), Chdir(Rel(<<".", "..">>)),
       OpenTo("fd", ddddffff, RD), Gives(Read(Fd, 4), Just(1)), Close(Fd), Fails(Open(ddddff, RD))>>

(* ... tries what must fail, and cleans up.                                *)
subdir2 ==
  LET dd(names) == Rel(<<"dd">> \o names)
      ffff == dd(<<"ff", "ff">>)
      xxff == dd(<<"xx", "ff">>)
  IN <<Fails(Open(ffff, CRW)), Fails(Open(xxff, CRW)), Fails(Open(F("dd"), {"create"})),
       Fails(Open(F("dd"), RW)), Fails(Open(F("dd"), WR)),
       Fails(Link(ffff, dd(<<"dd", "xx">>))), Fails(Link(xxff, dd(<<"dd", "xx">>))),
       Fails(Link(dd(<<"ff">>), dd(<<"dd", "ffff">>))),
       Fails(Mkdir(ffff)), Fails(Mkdir(xxff)), Fails(Mkdir(dd(<<"dd", "ffff">>))),
       Fails(Unlink(xxff)), Fails(Unlink(ffff)), Fails(Chdir(dd(<<"ff">>))),
       Fails(Chdir(dd(<<"xx">>))), Unlink(dd(<<"dd", "ffff">>)), Unlink(dd(<<"ff">>)),
       Fails(Unlink(F("dd"))), Unlink(dd(<<"dd">>)), Unlink(F("dd"))>>

bigwrite ==
  LET f == F("bigwrite")
      round(sz) == <<OpenTo("fd", f, CRW), Write(Fd, Bytes(sz)), Write(Fd, Bytes(sz)),
                     Close(Fd), Unlink(f)>>
  IN <<Whatever(Unlink(f))>> \o round(1) \o round(3)

manywrites ==
  LET f == <<F("ba"), F("bb")>>
      child(c) == <<Whatever(Unlink(f[c]))>>
                  \o Repeat(c, <<OpenTo("fd", f[c], CRW), Write(Fd, Bytes(3)), Close(Fd)>>)
                  \o <<Whatever(Unlink(f[c])), Whatever(Unlink(f[c])), Exit(0)>>
  IN <<Fork(child(1)), Fork(child(2))>> \o Repeat(2, WaitSt(Just(0))) \o <<Exit(0)>>

bigfile ==
  LET f == F("bigfile.dat") IN
  <<Whatever(Unlink(f)), OpenTo("fd", f, CRW)>>
  \o [i \in 1 .. 3 |-> Write(Fd, <<i, i>>)] \o <<Close(Fd), OpenTo("fd", f, RD)>>
  \o FlattenSeq([i \in 1 .. 6 |-> <<Gives(Read(Fd, 1), Just(1)), Saw(<<(i + 1) \div 2>>)>>])
  \o <<Gives(Read(Fd, 1), Just(0)), Close(Fd), Unlink(f)>>

fourteen ==
  LET a == "n14" b == "n15" IN
  <<Mkdir(F(a)), Mkdir(Rel(<<a, b>>)), OpenTo("fd", Rel(<<b, b, b>>), {"create"}), Close(Fd),
    OpenTo("fd", Rel(<<a, a, a>>), RD), Close(Fd), Fails(Mkdir(Rel(<<a, a>>))),
    Fails(Mkdir(Rel(<<b, a>>)))>>
  \o [i \in 1 .. 6 |-> Whatever(Unlink(Rel(<<<<b, a>>, <<a, a>>, <<a, a, a>>, <<b, b, b>>,
                                             <<a, b>>, <<a>>>>[i])))]

rmdot ==
  <<Mkdir(F("dots")), Chdir(F("dots")), Fails(Unlink(F("."))), Fails(Unlink(F(".."))),
    Chdir(Abs(<<>>)), Fails(Unlink(Rel(<<"dots", ".">>))), Fails(Unlink(Rel(<<"dots", "..">>))),
    Unlink(F("dots"))>>

dirfile ==
  LET xx == Rel(<<"dirfile", "xx">>) IN
  <<OpenTo("fd", F("dirfile"), {"create"}), Close(Fd), Fails(Chdir(F("dirfile"))),
    Fails(Open(xx, RD)), Fails(Open(xx, {"create"})), Fails(Mkdir(xx)), Fails(Unlink(xx)),
    Fails(Link(F("README"), xx)), Unlink(F("dirfile")), Fails(Open(F("."), RW)),
    OpenTo("fd", F("."), RD), Gives(Write(Fd, Bytes(1)), <<-1, 0>>), Close(Fd)>>

iref ==
  LET d == F("irefd") empty == Rel(<<>>) IN
  Repeat(ICACHE + 1,
    <<Mkdir(d), Chdir(d), Whatever(Mkdir(empty)), Whatever(Link(F("README"), empty)),
      If(OpenTo("fd", empty, {"create"}), <<Close(Fd)>>, <<>>),
      If(OpenTo("fd", F("xx"), {"create"}), <<Close(Fd)>>, <<>>), Whatever(Unlink(F("xx")))>>)
  \o Repeat(ICACHE + 1, <<Whatever(Chdir(F(".."))), Whatever(Unlink(d))>>)
  \o <<Chdir(Abs(<<>>))>>

forktest ==
  <<Let("n", N(0)), While(Fork(<<Exit(0)>>), <<Let("n", VPlus("n", 1))>>), Is(V("n"), Positive),
    While(Is(V("n"), Positive), <<Wait("_"), Let("n", VPlus("n", -1))>>), Fails(Wait("_"))>>

-----------------------------------------------------------------------------
(* Memory.                                                                 *)
TOOMUCH == 500
sbrkbasic ==
  <<Fork(<<If(Into("a", Sbrk(N(TOOMUCH))), <<Store(V("a")), Exit(1)>>, <<Exit(0)>>)>>),
    Wait("st"), Is(St, <<-1, 0>>), Into("a", Sbrk(N(0)))>>
  \o Repeat(3, <<Into("b", Sbrk(N(1))), Is(Minus("b", "a"), Just(0)), Store(V("b")),
                 Let("a", VPlus("b", 1))>>)
  \o <<Into("pid", ForkBoth), Sbrk(N(1)), Into("c", Sbrk(N(1))), Is(Minus("c", "a"), Just(1)),
       If(Is(V("pid"), Just(0)), <<Exit(0)>>, <<>>)>> \o ExitSt

sbrkmuch ==
  LET last == VPlus("b", -1) IN
  <<Into("old", Sbrk(N(0))), Into("a", Sbrk(N(4 * PGSIZE))), Is(Minus("a", "old"), Just(0)),
    Into("b", Sbrk(N(0)))>>
  \o [i \in 1 .. 4 |-> Store(VPlus("a", (i - 1) * PGSIZE))]
  \o <<Store(last), Sbrk(N(-PGSIZE)), Into("c", Sbrk(N(0))), Is(Minus("b", "c"), Just(PGSIZE)),
       Into("a", Sbrk(N(PGSIZE))), Is(Minus("a", "c"), Just(0)), Gives(Load(last), Just(0)),
       Into("c", Sbrk(Minus("old", "b"))), Is(Minus("c", "b"), Just(0))>>

kernmem == Repeat(2, <<Fork(<<Load(Wild), Exit(1)>>)>> \o WaitSt(Just(-1)))

MAXVAplus == Repeat(2, <<Fork(<<Store(Wild), Exit(1)>>)>> \o WaitSt(Just(-1)))

BIG == 12 * PGSIZE
sbrkfail ==
  LET pid(i) == <<"pid1", "pid2">>[i] IN
  <<Pipe("r", "w")>>
  \o FlattenSeq([i \in 1 .. 2 |->
       <<If(Into(pid(i), Fork(<<Whatever(Sbrk(N(BIG))), Whatever(Write(V("w"), Bytes(1))), Forever>>)),
            <<Whatever(Read(V("r"), 1))>>, <<>>)>>])
  \o <<Whatever(Into("c", Sbrk(N(PGSIZE))))>>
  \o FlattenSeq([i \in 1 .. 2 |->
       <<If(Is(V(pid(i)), Okay), <<Kill(pid(i)), Wait("_")>>, <<>>)>>])
  \o <<Is(V("c"), Okay),
       Fork(<<Into("a", Sbrk(N(0))), Whatever(Sbrk(N(10 * BIG))), Load(V("a")), Exit(1)>>)>>
  \o <<Wait("st"), If(Is(St, Error), <<>>, <<Is(St, Just(2))>>)>>

sbrkarg ==
  <<Into("a", Sbrk(N(PGSIZE))), OpenTo("fd", F("sbrk"), CW), Unlink(F("sbrk")),
    At(Write(Fd, Bytes(PGSIZE)), V("a")), Close(Fd), Into("a", Sbrk(N(PGSIZE))),
    At(Pipe("r", "w"), V("a"))>>

validatetest == [p \in 1 .. 8 |-> Fails(At(Link(F("nosuchfile"), F("x")), N(PGSIZE * (p - 1))))]

bsstest == [a \in 1 .. PGSIZE |-> Gives(Load(N(a - 1)), Just(0))]

bigargtest ==
  LET f == F("bigarg-ok") IN
  <<Whatever(Unlink(f)),
    Fork(<<Exec(F("echo"), <<"LONG", "LONG">>)>> \o Touch(f, {"create"}) \o <<Exit(0)>>)>>
  \o WaitSt(Just(0)) \o <<OpenTo("fd", f, RD), Close(Fd)>>

argptest ==
  <<OpenTo("fd", F("echo"), RD), Into("top", Sbrk(N(0))),
    Whatever(At(Read(Fd, -1), VPlus("top", -1))), Close(Fd)>>

stacktest == <<Fork(<<Load(N(2 * PGSIZE - 1)), Exit(1)>>)>> \o WaitSt(Just(-1))

pgbug == <<At(Exec(F("x"), <<>>), Wild), Whatever(At(Pipe("r", "w"), Wild)), Exit(0)>>

sbrkbugs ==
  LET top == Into("sz", Sbrk(N(0))) IN
  <<Fork(<<top, Sbrk(Negative("sz", 0)), Load(N(0)), Exit(0)>>), Wait("_"),
    Fork(<<top, Sbrk(Negative("sz", 1)), Exit(0)>>), Wait("_"),
    Fork(<<top, Sbrk(Negative("sz", 4 * PGSIZE + PGSIZE \div 2)), Sbrk(N(-1)), Exit(0)>>),
    Wait("_"), Exit(0)>>

badwrite ==
  LET f == F("junk") IN
  <<Whatever(Unlink(f))>>
  \o Repeat(4, <<OpenTo("fd", f, CW), Whatever(At(Write(Fd, Bytes(1)), Wild)), Close(Fd), Unlink(f)>>)
  \o <<OpenTo("fd", f, CW), Write(Fd, Bytes(1)), Close(Fd), Unlink(f), Exit(0)>>

sbrklast ==
  LET p == VPlus("top", -1) IN
  <<Sbrk(N(PGSIZE)), Sbrk(N(1)), Sbrk(N(-2)), Into("top", Sbrk(N(0))), Store(p),
    OpenTo("fd", F("p"), CRW), At(Write(Fd, Bytes(1)), p), Close(Fd),
    OpenTo("fd", F("p"), RW), Gives(At(Read(Fd, 1), p), Just(1)), Saw(<<"x">>)>>

badarg == Repeat(2, <<Exec(F("echo"), <<"BADPTR">>)>>) \o <<Exit(0)>>

execout ==
  FlattenSeq([i \in 1 .. 3 |->
    <<Fork(<<While(Into("a", Sbrk(N(PGSIZE))), <<Store(VPlus("a", PGSIZE - 1))>>)>>
           \o Repeat(3 * (i - 1), <<Sbrk(N(-PGSIZE))>>)
           \o <<Close(N(1)), Exec(F("echo"), <<"x">>), Exit(0)>>),
      Wait("_")>>]) \o <<Exit(0)>>

-----------------------------------------------------------------------------
(* countfree(): how many pages sbrk() finds, told through a pipe.          *)
countfree(n) ==
  <<Pipe("r", "w"),
    Fork(<<Close(V("r")),
           While(Into("a", Sbrk(N(PGSIZE))),
                 <<Store(VPlus("a", PGSIZE - 1)), Write(V("w"), Bytes(1))>>),
           Exit(0)>>),
    Close(V("w")), Let(n, N(0)),
    While(Gives(Read(V("r"), 1), Positive), <<Let(n, VPlus(n, 1))>>),
    Close(V("r")), Wait("_")>>

run(test) == <<Fork(test \o <<Exit(0)>>), Wait("st")>>

Test(name) ==
  CASE name = "manywrites" -> manywrites [] name = "execout" -> execout
    [] name = "copyin" -> copyin [] name = "copyout" -> copyout
    [] name = "copyinstr1" -> copyinstr1 [] name = "copyinstr2" -> copyinstr2
    [] name = "copyinstr3" -> copyinstr3 [] name = "rwsbrk" -> rwsbrk
    [] name = "truncate1" -> truncate1 [] name = "truncate2" -> truncate2
    [] name = "truncate3" -> truncate3 [] name = "reparent2" -> reparent2
    [] name = "pgbug" -> pgbug [] name = "sbrkbugs" -> sbrkbugs
    [] name = "badwrite" -> badwrite [] name = "badarg" -> badarg
    [] name = "reparent" -> reparent [] name = "twochildren" -> twochildren
    [] name = "forkfork" -> forkfork [] name = "forkforkfork" -> forkforkfork
    [] name = "argptest" -> argptest [] name = "createdelete" -> createdelete
    [] name = "linkunlink" -> linkunlink [] name = "linktest" -> linktest
    [] name = "unlinkread" -> unlinkread [] name = "concreate" -> concreate
    [] name = "subdir" -> subdir1 \o subdir2 [] name = "fourfiles" -> fourfiles
    [] name = "sharedfd" -> sharedfd [] name = "dirtest" -> dirtest
    [] name = "exectest" -> exectest [] name = "bigargtest" -> bigargtest
    [] name = "bigwrite" -> bigwrite [] name = "bsstest" -> bsstest
    [] name = "sbrkbasic" -> sbrkbasic [] name = "sbrkmuch" -> sbrkmuch
    [] name = "kernmem" -> kernmem [] name = "sbrkfail" -> sbrkfail
    [] name = "sbrkarg" -> sbrkarg [] name = "validatetest" -> validatetest
    [] name = "stacktest" -> stacktest [] name = "opentest" -> opentest
    [] name = "writetest" -> writetest [] name = "writebig" -> writebig
    [] name = "createtest" -> createtest [] name = "openiput" -> openiputtest
    [] name = "exitiput" -> exitiputtest [] name = "iput" -> iputtest
    [] name = "mem" -> mem [] name = "pipe1" -> pipe1 [] name = "preempt" -> preempt
    [] name = "exitwait" -> exitwait [] name = "rmdot" -> rmdot
    [] name = "fourteen" -> fourteen [] name = "bigfile" -> bigfile
    [] name = "dirfile" -> dirfile [] name = "iref" -> iref [] name = "forktest" -> forktest
    [] name = "bigdir" -> bigdir [] name = "killstatus" -> killstatus
    [] name = "MAXVAplus" -> MAXVAplus [] name = "sbrklast" -> sbrklast

(* These leave processes to init, and give them time to go before anybody  *)
(* counts pages or processes: time the model does not have.                *)
Orphaning == {"reparent", "reparent2", "forkforkfork"}

usertests(name) ==
  LET passed == If(Is(St, Just(0)), <<Exit(0)>>, <<Exit(1)>>)
      around(x, test, y) == IF name \in Orphaning THEN test \o <<passed>> ELSE x \o test \o y
  IN around(countfree("free0"), run(Test(name)),
            countfree("free1") \o <<Is(Minus("free1", "free0"), Okay), passed>>)

=============================================================================
