------------------------------- MODULE Grind -------------------------------
(***************************************************************************)
(* grind.c: two processes that make random system calls in one directory,  *)
(* and complain when a call that must succeed does not.  Here any number   *)
(* may come out of rand(); each process makes its choices from the set the *)
(* scenario gives it, as many as the set has names.                        *)
(***************************************************************************)
EXTENDS Programs

CreateRW == {"create", "rdwr"}

(* close(open(path)), an open() of the descriptor go() keeps.              *)
OpenClose(names) == <<Whatever(Into("tmp", Open(Rel(names), CreateRW))), Whatever(Close(V("tmp")))>>
Keep(names) == <<Whatever(Close(V("fd"))), Whatever(Into("fd", Open(Abs(names), CreateRW)))>>
Child(script) == <<Into("pid", Fork(script \o <<Exit(0)>>))>>
ChildDone(script) == Child(script) \o <<Whatever(Wait("_"))>>

(* What go() does for each value of rand() % 23.                           *)
FileOps(what) ==
  CASE what = 0 -> <<>>
    [] what = 1 -> OpenClose(<<"grindir", "..", "a">>)
    [] what = 2 -> OpenClose(<<"grindir", "..", "grindir", "..", "b">>)
    [] what = 3 -> <<Whatever(Unlink(Rel(<<"grindir", "..", "a">>)))>>
    [] what = 4 -> <<Chdir(Rel(<<"grindir">>)), Whatever(Unlink(Rel(<<"..", "b">>))), Whatever(Chdir(Abs(<<>>)))>>
    [] what = 5 -> Keep(<<"grindir", "..", "a">>)
    [] what = 6 -> Keep(<<".", "grindir", ".", "..", "b">>)
    [] what = 7 -> <<Whatever(Write(V("fd"), <<"g", "g", "g">>))>>
    [] what = 8 -> <<Whatever(Read(V("fd"), 3))>>
    [] what = 9 -> <<Whatever(Mkdir(Rel(<<"grindir", "..", "a">>)))>> \o OpenClose(<<"a", "..", "a", ".", "a">>)
                   \o <<Whatever(Unlink(Rel(<<"a", "a">>)))>>
    [] what = 10 -> <<Whatever(Mkdir(Abs(<<"..", "b">>)))>> \o OpenClose(<<"grindir", "..", "b", "b">>)
                    \o <<Whatever(Unlink(Rel(<<"b", "b">>)))>>
    [] what = 11 -> <<Whatever(Unlink(Rel(<<"b">>))),
                      Whatever(Link(Rel(<<"..", "grindir", ".", "..", "a">>), Rel(<<"..", "b">>)))>>
    [] what = 12 -> <<Whatever(Unlink(Rel(<<"..", "grindir", "..", "a">>))),
                      Whatever(Link(Rel(<<".", "..", "b">>), Abs(<<"grindir", "..", "a">>)))>>
    [] what = 15 -> <<Whatever(Sbrk(N(PGSIZE + 1)))>>
    [] what = 16 -> <<Into("brk", Sbrk(N(0))), Whatever(Sbrk(Minus("break0", "brk")))>>
    [] what = 21 -> <<Whatever(Unlink(Rel(<<"c">>))), Into("fd1", Open(Rel(<<"c">>), CreateRW)),
                      Write(V("fd1"), <<"x">>), Stat(V("fd1")), IsSize(1),
                      Whatever(Close(V("fd1"))), Whatever(Unlink(Rel(<<"c">>)))>>

ProcessOps(what) ==
  LET Twice == <<Whatever(ForkBoth), Whatever(ForkBoth)>>
      r == V("r")
      w == V("w")
  IN
  CASE what = 13 -> ChildDone(<<>>)
    [] what = 14 -> ChildDone(Twice)
    [] what = 17 -> Child(OpenClose(<<"a">>)) \o <<Chdir(Rel(<<"..", "grindir", "..">>)), Whatever(Kill("pid")),
                                            Whatever(Wait("_"))>>
    [] what = 18 -> ChildDone(<<Into("self", Getpid), Kill("self")>>)
    [] what = 19 -> <<Pipe("r", "w")>>
                    \o Child(Twice \o <<Whatever(Write(w, <<"x">>)), Whatever(Read(r, 1))>>)
                    \o <<Whatever(Close(r)), Whatever(Close(w)), Whatever(Wait("_"))>>
    [] what = 20 -> ChildDone(<<Whatever(Unlink(Rel(<<"a">>))), Whatever(Mkdir(Rel(<<"a">>))),
                                Whatever(Chdir(Rel(<<"a">>))), Whatever(Unlink(Rel(<<"..", "a">>))),
                                Whatever(Into("fd", Open(Rel(<<"x">>), CreateRW))),
                                Whatever(Unlink(Rel(<<"x">>)))>>)

(* echo hi | cat, read back through a second pipe.                         *)
Pipeline ==
  LET closes(fds) == [i \in DOMAIN fds |-> Whatever(Close(V(fds[i])))]
      moves(fd, v) == <<Whatever(Close(N(fd))), Gives(Dup(V(v)), Just(fd)), Whatever(Close(V(v)))>>
  IN <<Pipe("aa0", "aa1"), Pipe("bb0", "bb1"),
       Into("pid1", Fork(closes(<<"bb0", "bb1", "aa0">>) \o moves(1, "aa1")
                         \o <<Exec(Rel(<<"grindir", "..", "echo">>), <<"h">>), Exit(2)>>)),
       Into("pid2", Fork(closes(<<"aa1", "bb0">>) \o moves(0, "aa0") \o moves(1, "bb1")
                         \o <<Exec(Abs(<<"cat">>), <<>>), Exit(6)>>))>>
     \o closes(<<"aa0", "aa1", "bb1">>)
     \o <<Whatever(Read(V("bb0"), 1)), Saw(<<"h">>), Whatever(Read(V("bb0"), 1)), Saw(<<"nl">>),
          Whatever(Close(V("bb0"))), Wait("st1"), Wait("st2"),
          Is(V("st1"), Just(0)), Is(V("st2"), Just(0))>>

Does(what) ==
  IF what = 22 THEN Pipeline
  ELSE IF what \in {13, 14, 17, 18, 19, 20} THEN ProcessOps(what) ELSE FileOps(what)

go(rounds, whats) ==
  <<Let("fd", N(-1)), Into("break0", Sbrk(N(0))), Whatever(Mkdir(Rel(<<"grindir">>))),
    Chdir(Rel(<<"grindir">>)), Whatever(Chdir(Abs(<<>>)))>>
  \o (IF whats = <<>> THEN <<>>
      ELSE Repeat(rounds, <<Choose([i \in DOMAIN whats |-> Does(whats[i])])>>))
  \o <<Exit(0)>>

iter(rounds, whats) ==
  <<Whatever(Unlink(Rel(<<"a">>))), Whatever(Unlink(Rel(<<"b">>))),
    Into("pid1", Fork(go(rounds, whats[1]))), Into("pid2", Fork(go(rounds, whats[2]))),
    Let("st1", N(-1)), Whatever(Wait("st1")),
    If(Is(V("st1"), Just(0)), <<>>, <<Whatever(Kill("pid1")), Whatever(Kill("pid2"))>>),
    Whatever(Wait("st2")), Exit(0)>>

(* One round of main()'s endless loop.                                     *)
grind(rounds, whats) ==
  <<Fork(iter(rounds, whats)), Whatever(Wait("_")), Sleep, Exit(0)>>
=============================================================================
