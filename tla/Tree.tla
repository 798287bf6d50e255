-------------------------------- MODULE Tree --------------------------------
(***************************************************************************)
(* The directory tree commands of MP0, count.c and mp0.c, and the program  *)
(* that makes the trees they are graded on, testgen.c.  A line of output is*)
(* one item: a path and its count (mp0), a level and a name (count),       *)
(* nothing, or the two numbers of the last line.                           *)
(***************************************************************************)
EXTENDS Grind

(* The letters of the names that the counts are about.                     *)
Letters == [name \in {"os2023", "d1", "d2", "d3", "a", "b", "c"} |->
              IF name = "os2023" THEN {"o", "s"}
              ELSE IF name \in {"d1", "d2", "d3"} THEN {"d"} ELSE {name}]
occurrence(names, key) == Len(SelectSeq(names, LAMBDA name : key \in Letters[name]))
PathLine(names, key) == names \o <<printint(occurrence(names, key))>>
printp(names, key) == Whatever(Write(N(1), <<PathLine(names, key)>>))
NameLine(names) == <<printint(Len(names) - 1), Last(names)>>
OpenError(names) == Whatever(Write(N(1), <<names \o <<"error opening dir">>>>))

(* The descriptor is traverse()'s own, one for each level.                 *)
FdOf(level) == <<"fd0", "fd1", "fd2", "fd3">>[level + 1]

(* What traverse() does in both programs with the line it prints for each  *)
(* path: the first pass over a directory only counts, for the layout.      *)
Visit(names, sub, line) ==
  LET level == Len(names) - 1
      fd == FdOf(level)
      opened(body, sorry) == If(Into(fd, Open(Rel(names), {})), body, sorry)
      each(body) == While(Gives(Read(V(fd), 1), Just(1)), body)
      dir == (IF level > 0 THEN <<Let("dir_num", VPlus("dir_num", 1))>> ELSE <<>>)
             \o <<line,
                  opened(<<each(<<>>), Close(V(fd)),
                           opened(<<each(<<ForEntries(sub, names, {".", ".."})>>), Close(V(fd))>>,
                                  <<Complain>>)>>,
                         <<OpenError(names)>>)>>
      file == IF level = 0 THEN <<OpenError(names)>>
              ELSE <<Let("file_num", VPlus("file_num", 1)), line>>
      kind == If(IsType({"file"}), file, <<If(IsType({"dir"}), dir, <<>>)>>)
  IN <<opened(<<If(Stat(V(fd)), <<Close(V(fd)), kind>>, <<Complain>>)>>, <<OpenError(names)>>)>>
traverse(names, key) == Visit(names, key, printp(names, key))
traversec(names) == Visit(names, "count", Whatever(Write(N(1), <<NameLine(names)>>)))

(* The child walks the tree and tells the parent the totals; the parent    *)
(* does not wait for it.                                                   *)
Totalled(walk) ==
  LET child == <<Let("file_num", N(0)), Let("dir_num", N(0))>> \o walk
               \o <<WriteVars(V("fds1"), <<"file_num">>), WriteVars(V("fds1"), <<"dir_num">>),
                    Whatever(Write(N(1), <<<<>>>>)), Exit(0)>>
      gets(v) == If(Gives(Read(V("fds0"), 1), Just(1)), <<First(v)>>, <<Complain>>)
  IN <<Pipe("fds0", "fds1"), Let("file_num", N(0)), Let("dir_num", N(0)),
       If(Fork(child), <<gets("file_num"), gets("dir_num")>> \o Printf(N(1), <<"dir_num", "file_num">>),
          <<Complain>>),
       Close(V("fds0")), Close(V("fds1")), Exit(0)>>
mp0(dir, key) == Totalled(traverse(<<dir>>, key))
count(dir) == Totalled(traversec(<<dir>>))

mkfile(names) ==
  <<Whatever(Into("fd", Open(Rel(names), {"create", "rdwr"}))),
    Whatever(Write(V("fd"), <<"h">>)), Whatever(Close(V("fd")))>>
mkd(names) == <<Mkdir(Rel(names))>>

(* test0(); test1() makes a directory with eleven more.                    *)
testgen ==
  mkd(<<"os2023">>)
  \o mkd(<<"os2023", "d1">>) \o mkd(<<"os2023", "d2">>) \o mkd(<<"os2023", "d3">>)
  \o mkd(<<"os2023", "d2", "a">>) \o mkd(<<"os2023", "d2", "b">>) \o mkfile(<<"os2023", "d2", "c">>)
  \o mkd(<<"os2023", "d3", "a">>) \o mkfile(<<"os2023", "d3", "b">>) \o <<Exit(0)>>
=============================================================================
