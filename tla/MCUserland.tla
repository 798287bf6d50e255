----------------------------- MODULE MCUserland -----------------------------
(***************************************************************************)
(* Each program of the user directory on a small kernel, one to a scenario.*)
(***************************************************************************)
EXTENDS Syscalls, ThreadTests

CONSTANTS Tests, Lines, Patterns, Rands, Others

Utils == <<"echo", "cat">>
Tools == Utils \o <<"rm", "ln", "mkdir", "ls", "mp0", "count", "testgen">>
Readers == <<"cat", "grep", "wc", "t1", "t2", "t3">>

\* Lines that match in several ways; a line longer than the buffer of grep; no
\* newline at the end, and spaces in a row.
MCTexts ==
    ("t1" :> <<"a", "a", "b", "nl", "nl", "b", "nl", "a", "$", "b", "nl", "*">>)
    @@ ("t2" :> <<"b", "a", "nl", "b", "b", "b", "a", "nl", "a", "nl">>)
    @@ ("t3" :> <<"a", "nl", " ", " ", "a", "b", " ", "nl", "nl", "b">>)

\* Fork bombs get as many slots as they fill in reasonable time.
Scenario(prog, args, files, slots) ==
    [prog |-> prog, args |-> args, files |-> files, slots |-> slots]
MCScenarios ==
    {Scenario("usertests", <<t>>, Utils, IF t = "forkforkfork" THEN 5 ELSE NPROC) : t \in Tests}
    \cup {Scenario("sh", <<t>>, Tools, NPROC) : t \in Lines \ {"wc", "kill"}}
    \cup {Scenario("sh", <<t>>, Readers, NPROC) : t \in Patterns \cup (Lines \cap {"wc"})}
    \cup {Scenario("sh", <<t>>, <<"echo", "kill">>, NPROC) : t \in Lines \cap {"kill"}}
    \cup {Scenario("grind", <<t>>, Utils, IF t \in {"pipes", "fork"} THEN 6 ELSE NPROC) : t \in Rands}
    \cup {Scenario(prog, <<>>, Utils, NPROC) : prog \in Others}

\* What the user types into sh, token by token.
MCTyped ==
    ("pipe" :> << <<"echo", "h", "|", "cat", ">", "f">>, <<"cat", "<", "f", ">", "g">> >>)
    @@ ("list" :> << <<"(", "echo", "a", ";", "echo", "b", ")", ">", "f">>,
                     <<"echo", "c", ">>", "f">>,
                     <<"echo", "a", "b", ">", "g">>, <<"echo", "d", ">", "g">> >>)
    @@ ("back" :> << <<"echo", "a", ">", "f", "&", ";", "echo", "b", ">", "g">> >>)
    @@ ("three" :> << <<"echo", "a", "|", "cat", "|", "cat", ">", "f">> >>)
    @@ ("none" :> << <<"cat", "<", "none", ">", "f">>, <<"echo", "a", ">", "g", ">", "h">>,
                     <<"none">>, <<">">>, <<"echo", ")">> >>)
    @@ ("dir" :> << <<"mkdir", "d">>, <<"cd", "d">>, <<"/echo", "x", ">", "f">>,
                    <<"cd", "/">>, <<"ls", "d">>, <<"rm", "d">>, <<"ln", "cat", "c">>,
                    <<"rm", "cat", "c">> >>)
    @@ ("tree" :> << <<"testgen">>, <<"mp0", "os2023", "d", ">", "out">> >>)
    @@ ("count" :> << <<"testgen">>, <<"count", "os2023", ">", "out">> >>)
    @@ ("kill" :> << <<"echo", "a", ">", "f", "&">>, <<"kill", "4">> >>)
    @@ ("wc" :> << <<"wc", "t1", ">", "f1">>, <<"cat", "t3", "|", "wc", ">", "f3">> >>)
    @@ [t \in Patterns |-> << <<"grep", t, "t1", ">", "f1">>, <<"grep", t, "t2", ">", "f2">>,
                              <<"cat", "t3", "|", "grep", t, ">", "f3">> >>]

\* What the two processes of grind may draw.
MCRand ==
    ("files" :> << <<1, 2, 3, 4, 5, 6, 7, 8, 9, 10, 11, 12, 15, 16, 21>>, <<1, 3, 4, 9, 11, 12, 21>> >>)
    @@ ("procs" :> << <<13, 17, 18, 20>>, <<0, 3, 20>> >>)
    @@ ("fork" :> << <<14>>, <<>> >>)
    @@ ("pipes" :> << <<19>>, <<>> >>)
    @@ ("line" :> << <<22>>, <<>> >>)

MCThr == 1 .. 5
MCFn == {"task2", "task3", "f1"}
MCClients == {[threads |-> MCThr, habits |-> {"self"}]}

-----------------------------------------------------------------------------
(* A test program of the thread library is a process: its threads run while*)
(* it does not call the kernel.                                            *)

ThreadProgram(s) == IF s.prog \in ThreadPrograms THEN s.prog ELSE ""
MCInit == Init /\ TestInit(ThreadProgram(proc[Init1].env.scenario))

Threading(p) ==
    /\ Calls(p, "threading")
    /\ \/ TestNext /\ UNCHANGED vars
       \/ /\ pc = "exited"
          /\ Returns(p, proc[p], kernel, 0)
          /\ UNCHANGED <<threadVars, testVars>>

MCNext ==
    \/ Next /\ UNCHANGED <<threadVars, testVars>>
    \/ \E p \in Procs : Threading(p)

MCSpec == MCInit /\ [][MCNext]_<<vars, threadVars, testVars>>

-----------------------------------------------------------------------------
Contents(name) == kernel.node[Lookup(kernel, ROOTINO, name)].data
Now == proc[Init1].env.scenario
Typing(lines) == Over /\ Now.prog = "sh" /\ Now.args[1] \in lines

\* What grade-mp1 expects the threads to print: threads that take turns print
\* their numbers in turn, as long as they have some.
Turns(counts) ==
    LET most == Max({counts[k][3] - counts[k][2] : k \in DOMAIN counts}) IN
    FlattenSeq([r \in 1 .. most + 1 |->
        LET on == SelectSeq(counts, LAMBDA x : x[2] + r - 1 <= x[3])
        IN [k \in DOMAIN on |-> <<on[k][1], on[k][2] + r - 1>>]])

Expected ==
    ("mp1-part1-0" :> Turns(<< <<"thread 1", 100, 109>>, <<"thread 2", 0, 9>>,
                               <<"thread 3", 10000, 10004>> >>))
    @@ ("mp1-part1-1" :>
        << <<"thread 1", 100>>, <<"thread 2", 0>>, <<"thread 3", 10000>> >>
        \o Turns(<< <<"thread 1", 101, 104>>, <<"thread 2", 1, 8>>, <<"thread 4", 1000, 1008>>,
                    <<"thread 5", 10, 16>>, <<"thread 3", 10001, 10002>> >>))
    @@ ("mp1-part2-0" :>
        << <<"thread 1", 100>>, <<"task 2", 101>>, <<"thread 2", 0>>, <<"thread 1", 101>>,
           <<"thread 2", 1>>, <<"thread 1", 102>>, <<"task 2", 103>>, <<"thread 1", 103>>,
           <<"thread 2", 2>>, <<"thread 1", 104>>, <<"task 2", 105>>, <<"thread 2", 3>>,
           <<"thread 1", 105>>, <<"thread 2", 4>> >>)
    @@ ("mp1-part2-1" :>
        Turns(<< <<"thread 1", 100, 104>>, <<"thread 2", 0, 4>>, <<"task 3", 0, 4>> >>)
        \o Turns(<< <<"thread 1", 105, 109>>, <<"task 3", 5, 9>> >>)
        \o Turns(<< <<"thread 3", 10000, 10004>> >>))
    @@ ("mp1-part2-2" :> << <<"thread 1", 0>> >> \o Turns(<< <<"task 1", 1, 9>> >>))

\* Whatever the processes of a test do in between, every test of usertests.c and
\* every other program ends with the status it has when nothing is wrong, grind's
\* pipeline never sees anything else than what its two programs say
\* (usertests.c:2695-2716, grind.c:213-290), and the threads and tasks of the
\* programs of mp1 have printed what grade-mp1:9-165 lists.
TestsPass ==
    /\ Over => proc[Init1].env["verdict"] = 0
    /\ \A q \in Procs : \A v \in {"st1", "st2"} \cap DOMAIN proc[q].env : proc[q].env[v] \in {-1, 0}
    /\ Over /\ Now.prog \in ThreadPrograms => out = Expected[Now.prog]

\* The files that the lines of each kind mean.
Meaning ==
    ("pipe" :> ("f" :> <<"h", "nl">> @@ "g" :> <<"h", "nl">>))
    @@ ("list" :> ("f" :> <<"c", "nl", "b", "nl">> @@ "g" :> <<"d", "nl">>))
    @@ ("back" :> ("f" :> <<"a", "nl">> @@ "g" :> <<"b", "nl">>))
    @@ ("three" :> ("f" :> <<"a", "nl">>))
    @@ ("none" :> ("f" :> <<>> @@ "g" :> <<"a", "nl">> @@ "h" :> <<>>))

ShellOK ==
    \A t \in DOMAIN Meaning : Typing({t}) =>
        \A name \in DOMAIN Meaning[t] :
            Lookup(kernel, ROOTINO, name) # 0 /\ Contents(name) = Meaning[t][name]

\* A pattern: whether it is bound to the beginning and to the end of a line, and
\* in between the characters, repeated or not.
Regex(bol, atoms, eol) == [bol |-> bol, atoms |-> atoms, eol |-> eol]
One(c) == [c |-> c, star |-> FALSE]
Many(c) == [c |-> c, star |-> TRUE]
PatternOf ==
    ("a" :> Regex(FALSE, <<One("a")>>, FALSE)) @@ ("ab" :> Regex(FALSE, <<One("a"), One("b")>>, FALSE))
    @@ ("^b" :> Regex(TRUE, <<One("b")>>, FALSE)) @@ ("b$" :> Regex(FALSE, <<One("b")>>, TRUE))
    @@ ("a*b" :> Regex(FALSE, <<Many("a"), One("b")>>, FALSE))
    @@ ("^a*$" :> Regex(TRUE, <<Many("a")>>, TRUE)) @@ ("^.$" :> Regex(TRUE, <<One(".")>>, TRUE))
    @@ ("^.*b" :> Regex(TRUE, <<Many("."), One("b")>>, FALSE))
    @@ ("$" :> Regex(FALSE, <<>>, TRUE)) @@ ("^" :> Regex(TRUE, <<>>, FALSE))
    @@ ("*" :> Regex(FALSE, <<One("*")>>, FALSE))
    @@ ("a$b" :> Regex(FALSE, <<One("a"), One("$"), One("b")>>, FALSE))
    @@ ("a*a" :> Regex(FALSE, <<Many("a"), One("a")>>, FALSE))

\* Some cuts divide the characters among the atoms.
Fits(atoms, line) ==
    \E cut \in [0 .. Len(atoms) -> 0 .. Len(line)] :
        /\ cut[0] = 0 /\ cut[Len(atoms)] = Len(line)
        /\ \A k \in DOMAIN atoms :
            /\ IF atoms[k].star THEN cut[k] >= cut[k - 1] ELSE cut[k] = cut[k - 1] + 1
            /\ \A j \in cut[k - 1] + 1 .. cut[k] : atoms[k].c \in {".", line[j]}
Matches(re, line) ==
    \E a \in 0 .. Len(line) : \E b \in a .. Len(line) :
        /\ re.bol => a = 0
        /\ re.eol => b = Len(line)
        /\ Fits(re.atoms, SubSeq(line, a + 1, b))

\* The lines grep gets to see: those that end, up to one that does not fit its
\* buffer.
LinesOf(text) ==
    LET ends == SetToSortSeq({j \in DOMAIN text : text[j] = "nl"}, <)
        line(k) == SubSeq(text, (IF k = 1 THEN 0 ELSE ends[k - 1]) + 1, ends[k])
        seen == SelectSeq([k \in DOMAIN ends |-> k],
                          LAMBDA k : \A j \in 1 .. k : Len(line(j)) < GREPBUF)
    IN [k \in DOMAIN seen |-> line(k)]

GrepOK ==
    Typing(Patterns) =>
        \A x \in {<<"t1", "f1">>, <<"t2", "f2">>, <<"t3", "f3">>} :
            Contents(x[2]) = FlattenSeq(SelectSeq(LinesOf(Texts[x[1]]), LAMBDA line :
                                          Matches(PatternOf[Now.args[1]], Front(line))))

WordCountOK ==
    LET space == {" ", "nl"}
        l(text) == {j \in DOMAIN text : text[j] = "nl"}
        w(text) == {j \in DOMAIN text : text[j] \notin space /\ (j = 1 \/ text[j - 1] \in space)}
        says(text) == << <<ToString(Cardinality(l(text)))>>, <<ToString(Cardinality(w(text)))>>,
                         <<ToString(Len(text))>> >>
    IN Typing({"wc"}) => Contents("f1") = says(Texts["t1"]) /\ Contents("f3") = says(Texts["t3"])

\* What mp0 and count print of the tree of testgen; the empty line is the
\* child's, and comes before, between or after the parent's totals.
Walked == << <<"os2023", "0">>, <<"os2023", "d1", "1">>, <<"os2023", "d2", "1">>,
    <<"os2023", "d2", "a", "1">>, <<"os2023", "d2", "b", "1">>, <<"os2023", "d2", "c", "1">>,
    <<"os2023", "d3", "1">>, <<"os2023", "d3", "a", "1">>, <<"os2023", "d3", "b", "1">> >>
Listed == << <<"0", "os2023">>, <<"1", "d1">>, <<"1", "d2">>, <<"2", "a">>, <<"2", "b">>,
    <<"2", "c">>, <<"1", "d3">>, <<"2", "a">>, <<"2", "b">> >>
Totals == << <<"6">>, <<"2">> >>
TreeOK ==
    Typing({"tree", "count"}) =>
        LET lines == IF Now.args[1] = "tree" THEN Walked ELSE Listed
            printed == Contents("out")
        IN /\ SelectSeq(printed, LAMBDA x : x # <<>>) = lines \o Totals
           /\ Len(printed) = Len(lines) + 3 /\ SubSeq(printed, 1, Len(lines)) = lines

\* When a shell is done and everything it started has ended, the files hold what
\* the lines mean, in every order the processes of a pipeline or of "&" can run
\* (sh.c:57-131, 327-493); grep has written the lines that match its pattern, of
\* a file and of a pipe (grep.c:10-106), and wc its three counts (wc.c:7-33); mp0
\* and count have printed the tree once, depth first, and the totals of the
\* child's walk have reached the parent (mp0.c:41-175).
ProgramsOK == ShellOK /\ GrepOK /\ WordCountOK /\ TreeOK
=============================================================================
