------------------------------- MODULE Shell -------------------------------
(***************************************************************************)
(* sh.c: the parser, which turns the tokens of a line into a command, and  *)
(* runcmd(), which turns a command into system calls.  A command is a      *)
(* record of one of sh.c's five types, or "panic" where the parser gives   *)
(* up; a parse leaves the tokens it has not used in "rest".                *)
(***************************************************************************)
EXTENDS Text

Symbols == {"|", "<", ">", ">>", "&", ";", "(", ")"}
MAXARGS == 10

(* peek().  At the end of the line "" stands for the end.                  *)
Token(rest) == IF rest = <<>> THEN "" ELSE Head(rest)
Peek(rest, toks) == Token(rest) \in toks

EXEC(argv) == [type |-> "exec", argv |-> argv]
REDIR(sub, file, mode, fd) ==
  [type |-> "redir", cmd |-> sub, file |-> file, mode |-> mode, fd |-> fd]
PIPE(left, right) == [type |-> "pipe", left |-> left, right |-> right]
LIST(left, right) == [type |-> "list", left |-> left, right |-> right]
BACK(sub) == [type |-> "back", cmd |-> sub]
Panic == [type |-> "panic"]
Parsed(cmd, rest) == [cmd |-> cmd, rest |-> rest]
Gaveup == Parsed(Panic, <<>>)

\* What the parser does next with what it has, unless it has given up.
Onwards(parsed, next(_)) == IF parsed.cmd = Panic THEN Gaveup ELSE next(parsed)

ModeOf_keeps(tok) == IF tok = "<" THEN {} ELSE {"create", "wronly"}
ModeOf(tok) == IF tok = "<" THEN {} ELSE IF tok = ">" THEN {"create", "trunc", "wronly"}
               ELSE {"create", "wronly"}

RECURSIVE ParseLine(_), ParsePipe(_), ParseArgs(_, _, _), ParseRedirs(_, _), Backs(_, _)

(* A redirection wraps the command, so that the one read last is opened    *)
(* first.                                                                  *)
ParseRedirs(cmd, rest) ==
  IF ~Peek(rest, {"<", ">", ">>"}) THEN Parsed(cmd, rest)
  ELSE IF Len(rest) < 2 \/ rest[2] \in Symbols THEN Gaveup
  ELSE LET fd == IF rest[1] = "<" THEN 0 ELSE 1
       IN ParseRedirs(REDIR(cmd, rest[2], ModeOf(rest[1]), fd), Tail(Tail(rest)))

ParseBlock(rest) ==
  Onwards(ParseLine(Tail(rest)), LAMBDA body :
    IF Peek(body.rest, {")"}) THEN ParseRedirs(body.cmd, Tail(body.rest)) ELSE Gaveup)

(* The arguments go to the command inside the redirections.                *)
ParseArgs(argv, wrap, rest) ==
  Onwards(ParseRedirs(wrap, rest), LAMBDA here :
    IF Peek(here.rest, {"|", ")", "&", ";", ""}) THEN [here EXCEPT !.cmd = [cmd |-> @, argv |-> argv]]
    ELSE IF Token(here.rest) \in Symbols \/ Len(argv) + 1 >= MAXARGS THEN Gaveup
    ELSE ParseArgs(Append(argv, Head(here.rest)), here.cmd, Tail(here.rest)))

RECURSIVE Fill(_, _)
Fill(cmd, argv) ==
  IF cmd.type = "exec" THEN EXEC(argv) ELSE [cmd EXCEPT !.cmd = Fill(@, argv)]

ParseExec(rest) ==
  IF Peek(rest, {"("}) THEN ParseBlock(rest)
  ELSE Onwards(ParseArgs(<<>>, EXEC(<<>>), rest), LAMBDA p :
         Parsed(Fill(p.cmd.cmd, p.cmd.argv), p.rest))

ParsePipe(rest) ==
  Onwards(ParseExec(rest), LAMBDA left :
    IF ~Peek(left.rest, {"|"}) THEN left
    ELSE Onwards(ParsePipe(Tail(left.rest)), LAMBDA right :
           Parsed(PIPE(left.cmd, right.cmd), right.rest)))

Backs(cmd, rest) ==
  IF Peek(rest, {"&"}) THEN Backs(BACK(cmd), Tail(rest)) ELSE Parsed(cmd, rest)

ParseLine(rest) ==
  Onwards(ParsePipe(rest), LAMBDA p :
    Onwards(Backs(p.cmd, p.rest), LAMBDA left :
      IF ~Peek(left.rest, {";"}) THEN left
      ELSE Onwards(ParseLine(Tail(left.rest)), LAMBDA right :
             Parsed(LIST(left.cmd, right.cmd), right.rest))))

Whole(parsed) == IF parsed.rest # <<>> THEN Panic ELSE parsed.cmd
ParseCmd(line) == Whole(ParseLine(line))

-----------------------------------------------------------------------------
(* A word as a path: "/", the absolute path the scenarios use, or a name.  *)
PathOf(word) ==
  IF word = "/" THEN Abs(<<>>)
  ELSE IF word = "/echo" THEN Abs(<<"echo">>) ELSE Rel(<<word>>)
Complain == Whatever(Write(N(2), <<"?">>))

(* fork1() panics if there is no process left; getcmd() prompts.           *)
fork1(child) == If(Fork(child), <<>>, <<Complain, Exit(1)>>)
getcmd == Whatever(Write(N(2), <<"$">>))

RECURSIVE runcmd(_)
runcmd(cmd) ==
  CASE cmd.type = "panic" -> <<Complain, Exit(1)>>
    [] cmd.type = "exec" ->
         IF cmd.argv = <<>> THEN <<Exit(1)>>
         ELSE <<Exec(PathOf(cmd.argv[1]), Tail(cmd.argv)), Complain, Exit(0)>>
    [] cmd.type = "redir" ->
         <<Whatever(Close(N(cmd.fd))),
           If(Open(PathOf(cmd.file), cmd.mode), <<>>, <<Complain, Exit(1)>>)>>
         \o runcmd(cmd.cmd)
    [] cmd.type = "list" ->
         <<fork1(runcmd(cmd.left)), Whatever(Wait("_"))>> \o runcmd(cmd.right)
    [] cmd.type = "pipe" ->
         LET r == V("p0") w == V("p1")
             end(std, fd) == <<Whatever(Close(N(std))), Whatever(Dup(fd)),
                               Whatever(Close(r)), Whatever(Close(w))>>
         IN <<Pipe("p0", "p1"),
              fork1(end(1, w) \o runcmd(cmd.left)), fork1(end(0, r) \o runcmd(cmd.right)),
              Whatever(Close(r)), Whatever(Close(w)),
              Whatever(Wait("_")), Whatever(Wait("_")), Exit(0)>>
    [] cmd.type = "back" -> <<fork1(runcmd(cmd.cmd)), Exit(0)>>

(* Opens the console until three descriptors are in use, and then reads    *)
(* line after line: cd itself, everything else in a child.                 *)
Console == Rel(<<"console">>)
sh(lines) ==
  LET ensure[n \in 0 .. 3] ==
        IF n = 0 THEN <<>>
        ELSE <<If(Into("fd", Open(Console, {"rdwr"})),
                  <<If(Is(V("fd"), <<3, 99>>), <<Close(V("fd"))>>, ensure[n - 1])>>, <<>>)>>
      does(line) ==
        IF line[1] = "cd" THEN <<If(Chdir(PathOf(line[2])), <<>>, <<Complain>>)>>
        ELSE <<fork1(runcmd(ParseCmd(line))), Whatever(Wait("_"))>>
  IN ensure[3] \o FlattenSeq([i \in DOMAIN lines |-> <<getcmd>> \o does(lines[i])])
     \o <<Exit(0)>>
=============================================================================
