------------------------------ MODULE Terminal -------------------------------
(***************************************************************************)
(* The console (kernel/console.c) over the serial port (kernel/uart.c).    *)
(* Keys arrive in the port's receive queue; uartintr() hands them to       *)
(* consoleintr(), which edits a line in a ring with three indices of the   *)
(* type uint; consoleread() takes finished lines out of it.  Output goes   *)
(* through a second ring, which the interrupt of the transmitter empties,  *)
(* while the echo of a key waits for the transmitter itself.               *)
(*                                                                         *)
(* cons.lock is held over the whole of a call, but not in sleep(): a call  *)
(* that has the lock is at "in" or "drop", a handler that has it is in     *)
(* "kill".  Seeing the transmitter idle and writing to it is a step.       *)
(***************************************************************************)
EXTENDS Integers, Sequences, FiniteSets, SequencesExt

CONSTANTS Reader,     \* processes that read
          Writer,     \* processes that write
          INPUT_BUF,  \* the size of the ring, a power of two
          UWIDTH,       \* 2^32, a multiple of INPUT_BUF
          TX_BUF,     \* UART_TX_BUF_SIZE
          Request,    \* bound: bytes a read() or write() asks for; a write may stop at fewer
          RX          \* bound: keys in the receive queue

ASSUME TerminalAssumption ==
    /\ {INPUT_BUF, UWIDTH} \subseteq Nat \ {0} /\ UWIDTH % INPUT_BUF = 0 /\ UWIDTH > INPUT_BUF
    /\ TX_BUF \in Nat \ {0} /\ Request \in Nat \ {0} /\ RX \in Nat \ {0}
    /\ "echo" \notin Writer

\* A letter, a new line (or carriage return), ^D, ^U, ^H (or delete).  ^P and 0
\* change nothing and are left out.
Key == {"x", "nl", "eof", "line", "back"}
Stored == {"x", "nl", "eof"}
Echo == [by |-> "echo", k |-> 0]

VARIABLES
    ring, r, w, e, \* cons.buf and its indices
    due, edit,     \* ghosts: finished input not read yet, and the line being typed
    rx,            \* keys the port has received
    tx,            \* uart_tx_buf from uart_tx_r to uart_tx_w, indices of 64 bits
    thr,           \* what the transmitter has been given; idle when empty
    sent,          \* ghost: the last byte of each writer that went out
    uirq,          \* the port has raised an interrupt
    uart,          \* uartintr(): "none", "input", "kill" (the loop of ^U), "output"
    tty            \* tty[p]: where p is, bytes done, bytes asked for, p->killed

termvars == <<ring, r, w, e, due, edit, rx, tx, thr, sent, uirq, uart, tty>>
input == <<ring, r, w, e, due, edit>>
output == <<tx, thr, sent>>

TermProc == Reader \cup Writer
Outside == [at |-> "user", done |-> 0, of |-> 0, killed |-> FALSE]

TermInit ==
    /\ ring = [i \in 0 .. INPUT_BUF - 1 |-> "x"]
    /\ r = 0 /\ w = 0 /\ e = 0 /\ due = <<>> /\ edit = <<>>
    /\ rx = <<>> /\ tx = <<>> /\ thr = <<>> /\ sent = [p \in Writer |-> 0]
    /\ uirq = FALSE /\ uart = "none"
    /\ \E S \in SUBSET TermProc : tty = [p \in TermProc |-> [Outside EXCEPT !.killed = p \in S]]

Up(i) == (i + 1) % UWIDTH
Down(i) == (i - 1) % UWIDTH
Apart(i, j) == (j - i) % UWIDTH \* j - i, of uints
Wake(place, there) ==
    [p \in TermProc |-> IF tty[p].at = place THEN [tty[p] EXCEPT !.at = there] ELSE tty[p]]

consLockFree == uart # "kill" /\ \A p \in TermProc : tty[p].at \notin {"in", "drop"}

-----------------------------------------------------------------------------
(* consoleread().                                                          *)
tty_read(p, n) ==
    /\ tty[p].at = "user" /\ ~tty[p].killed
    /\ tty' = [tty EXCEPT ![p] = [Outside EXCEPT !.at = "read", !.of = n]]
    /\ UNCHANGED <<input, rx, output, uirq, uart>>

acquire(p) ==
    /\ tty[p].at = "read" /\ consLockFree
    /\ tty' = [tty EXCEPT ![p].at = "in"]
    /\ UNCHANGED <<input, rx, output, uirq, uart>>

Back(p) == tty' = [tty EXCEPT ![p] = [Outside EXCEPT !.killed = tty[p].killed]]

\* The ring has nothing for a reader: it gives up if it has been killed.
\* Otherwise it goes to sleep, and does not see a kill() between the test and
\* sleep().
consoleread_waits(p) ==
    /\ tty[p].at = "in" /\ r = w
    /\ IF tty[p].killed THEN Back(p) ELSE tty' = [tty EXCEPT ![p].at = "drop"]
    /\ UNCHANGED <<input, rx, output, uirq, uart>>

consoleread_sleeps(p) ==
    /\ tty[p].at = "drop"
    /\ tty' = [tty EXCEPT ![p].at = "asleep"]
    /\ UNCHANGED <<input, rx, output, uirq, uart>>

\* A byte: ^D ends the read, and stays for the next read if this one has got
\* something; otherwise it is copied out, which may fail and then ends the
\* read with the byte lost, as a new line or the last byte asked for ends it.
consoleread(p) ==
    LET c == ring[r % INPUT_BUF]
        kept == c = "eof" /\ tty[p].done > 0 IN
    /\ tty[p].at = "in" /\ r # w
    /\ r' = IF kept THEN r ELSE Up(r)
    /\ due' = IF kept THEN due ELSE Tail(due)
    /\ IF c # "x" \/ tty[p].done + 1 = tty[p].of
          THEN Back(p)
          ELSE Back(p) \/ tty' = [tty EXCEPT ![p].done = @ + 1]
    /\ UNCHANGED <<ring, w, e, edit, rx, output, uirq, uart>>

\* kill() sets p->killed and wakes a sleeper, whatever it sleeps on.
kill_reader(p) ==
    /\ ~tty[p].killed
    /\ tty' = [tty EXCEPT ![p].killed = TRUE,
                          ![p].at = CASE @ = "asleep" -> "read" [] @ = "full" -> "write"
                                      [] OTHER -> @]
    /\ UNCHANGED <<input, rx, output, uirq, uart>>

-----------------------------------------------------------------------------
(* consoleintr(), for the key that uartgetc() has taken.                   *)
handler(key) == uart = "input" /\ rx # <<>> /\ Head(rx) = key /\ consLockFree /\ rx' = Tail(rx)

\* Mutant: a ring without a free place does not end the line.
consoleintr_waits(c) ==
    /\ handler(c) /\ c \in Stored /\ Apart(r, e) < INPUT_BUF
    /\ thr = <<>> /\ thr' = <<Echo>>
    /\ ring' = [ring EXCEPT ![e % INPUT_BUF] = c]
    /\ e' = Up(e)
    /\ IF c # "x"
          THEN w' = Up(e) /\ due' = due \o Append(edit, c) /\ edit' = <<>>
               /\ tty' = Wake("asleep", "read")
          ELSE edit' = Append(edit, c) /\ UNCHANGED <<w, due, tty>>
    /\ UNCHANGED <<r, tx, sent, uirq, uart>>

\* A character with a place in the ring is echoed and stored; the line is
\* finished by its end, by ^D, or when the ring is full.
consoleintr(c) ==
    /\ handler(c) /\ c \in Stored /\ Apart(r, e) < INPUT_BUF
    /\ thr = <<>> /\ thr' = <<Echo>>
    /\ ring' = [ring EXCEPT ![e % INPUT_BUF] = c]
    /\ e' = Up(e)
    /\ IF c # "x" \/ Up(e) = (r + INPUT_BUF) % UWIDTH
          THEN w' = Up(e) /\ due' = due \o Append(edit, c) /\ edit' = <<>>
               /\ tty' = Wake("asleep", "read")
          ELSE edit' = Append(edit, c) /\ UNCHANGED <<w, due, tty>>
    /\ UNCHANGED <<r, tx, sent, uirq, uart>>

\* No place, or nothing to erase.
consoleintr_drops(c) ==
    /\ handler(c)
    /\ \/ c \in Stored /\ Apart(r, e) >= INPUT_BUF
       \/ c = "back" /\ e = w
    /\ UNCHANGED <<input, output, uirq, uart, tty>>

erase == e' = Down(e) /\ edit' = Front(edit) /\ UNCHANGED <<ring, r, w, due>>

\* ^H: the echo overwrites a character with three.
consoleintr_back(c) ==
    /\ handler(c) /\ c = "back" /\ e # w
    /\ erase
    /\ thr = <<>> /\ thr' = <<Echo>>
    /\ UNCHANGED <<tx, sent, uirq, uart, tty>>

\* ^U begins, erases a character, and ends at the start of the line.
consoleintr_line(c) ==
    /\ handler(c) /\ c = "line" /\ uart' = "kill"
    /\ UNCHANGED <<input, output, uirq, tty>>

Typed == e # w /\ ring[Down(e) % INPUT_BUF] # "nl"
kill_line ==
    /\ uart = "kill" /\ Typed
    /\ erase
    /\ thr = <<>> /\ thr' = <<Echo>>
    /\ UNCHANGED <<rx, tx, sent, uirq, uart, tty>>

kill_end ==
    /\ uart = "kill" /\ ~Typed /\ uart' = "input"
    /\ UNCHANGED <<input, rx, output, uirq, tty>>

-----------------------------------------------------------------------------
(* uart.c.                                                                 *)

\* uartstart(): a byte goes to an idle transmitter, and whoever waits for a
\* place in the ring is woken.
uartstart(q) ==
    IF q # <<>> /\ thr = <<>>
    THEN tx' = Tail(q) /\ thr' = <<Head(q)>>
    ELSE tx' = q /\ UNCHANGED thr
Started(q) == q # <<>> /\ thr = <<>>

tty_write(p) ==
    /\ tty[p].at = "user" /\ ~tty[p].killed
    /\ \A i \in DOMAIN (thr \o tx) : (thr \o tx)[i].by # p \* bound: one write at a time is in the port
    /\ sent' = [sent EXCEPT ![p] = 0]
    /\ tty' = [tty EXCEPT ![p] = [Outside EXCEPT !.at = "write", !.of = Request]]
    /\ UNCHANGED <<input, rx, tx, thr, uirq, uart>>

\* The next byte of consolewrite(): uartputc() sleeps on a full ring.
uartputc_sleeps(p) ==
    /\ tty[p].at = "write" /\ tty[p].done < tty[p].of /\ Len(tx) = TX_BUF
    /\ tty' = [tty EXCEPT ![p].at = "full"]
    /\ UNCHANGED <<input, rx, output, uirq, uart>>

uartputc(p) ==
    /\ tty[p].at = "write" /\ tty[p].done < tty[p].of /\ Len(tx) < TX_BUF
    /\ LET q == Append(tx, [by |-> p, k |-> tty[p].done + 1]) IN
          /\ uartstart(q)
          /\ tty' = [(IF Started(q) THEN Wake("full", "write") ELSE tty) EXCEPT ![p].done = @ + 1]
    /\ UNCHANGED <<input, rx, sent, uirq, uart>>

\* All is written, or either_copyin() fails.
consolewrite_end(p) ==
    /\ tty[p].at = "write" /\ Back(p)
    /\ UNCHANGED <<input, rx, output, uirq, uart>>

\* The port receives a key, or has sent what it was given.
receive(c) ==
    /\ Len(rx) < RX
    /\ rx' = Append(rx, c) /\ uirq' = TRUE
    /\ UNCHANGED <<input, output, uart, tty>>

transmit ==
    /\ thr # <<>>
    /\ thr' = Tail(thr)
    /\ sent' = IF Head(thr) = Echo THEN sent ELSE [sent EXCEPT ![Head(thr).by] = Head(thr).k]
    /\ uirq' = TRUE
    /\ UNCHANGED <<input, rx, tx, uart, tty>>

\* devintr() claims the interrupt and calls uartintr().
uartintr ==
    /\ uirq /\ uart = "none"
    /\ uirq' = FALSE /\ uart' = "input"
    /\ UNCHANGED <<input, rx, output, tty>>

uartintr_keys_done ==
    /\ uart = "input" /\ rx = <<>> /\ uart' = "output"
    /\ UNCHANGED <<input, rx, output, uirq, tty>>

uartintr_output ==
    /\ uart = "output" /\ uart' = "none"
    /\ uartstart(tx)
    /\ tty' = IF Started(tx) THEN Wake("full", "write") ELSE tty
    /\ UNCHANGED <<input, rx, sent, uirq>>

Keys ==
    \/ \E c \in Key : consoleintr(c) \/ consoleintr_drops(c) \/ consoleintr_back(c) \/ consoleintr_line(c)
    \/ kill_line \/ kill_end
Serve == uartintr \/ uartintr_output \/ Keys

Read(p) == acquire(p) \/ consoleread_waits(p) \/ consoleread_sleeps(p) \/ consoleread(p)

TermNext ==
    \/ \E p \in TermProc :
          \/ Read(p) \/ (p \in Reader /\ kill_reader(p))
          \/ \E n \in 1 .. Request : p \in Reader /\ tty_read(p, n)
          \/ p \in Writer /\ tty_write(p)
          \/ uartputc(p) \/ uartputc_sleeps(p) \/ consolewrite_end(p)
    \/ \E c \in Key : receive(c)
    \/ transmit \/ Serve \/ uartintr_keys_done

TermSpec == TermInit /\ [][TermNext]_termvars

-----------------------------------------------------------------------------
(* Properties.                                                             *)
Byte == {Echo} \cup [by : Writer, k : 1 .. Request]

TermTypeOK ==
    /\ ring \in [0 .. INPUT_BUF - 1 -> Stored] /\ {r, w, e} \subseteq 0 .. UWIDTH - 1
    /\ rx \in Seq(Key) /\ Len(tx) <= TX_BUF /\ Len(thr) <= 1
    /\ {due, edit} \subseteq Seq(Stored) /\ {tx, thr} \subseteq Seq(Byte)
    /\ sent \in [Writer -> 0 .. Request] /\ uirq \in BOOLEAN
    /\ uart \in {"none", "input", "kill", "output"}
    /\ tty \in [TermProc -> [at : {"user", "read", "in", "drop", "asleep", "write", "full"},
                             done : 0 .. Request, of : 0 .. Request, killed : BOOLEAN]]

\* The ring between two indices.
Between(i, j) == [k \in 1 .. Apart(i, j) |-> ring[((i + k - 1) % UWIDTH) % INPUT_BUF]]

\* The ring is the finished input and then the line being typed, also when the
\* indices wrap; a full ring is all finished, or nobody could ever read it.
Lines ==
    /\ Between(r, w) = due /\ Between(w, e) = edit
    /\ Apart(r, e) = Apart(r, w) + Apart(w, e) /\ Apart(r, e) <= INPUT_BUF
    /\ Apart(r, e) = INPUT_BUF => w = e

\* A reader sleeps only when there is nothing for it.
ReadersWoken == \A p \in TermProc : tty[p].at = "asleep" => r = w

\* The bytes of a writer go out in their order, none twice or left out, and
\* something will start the transmitter while there is output.
Out == thr \o tx
Mine(p) == {i \in DOMAIN Out : Out[i].by = p}
Writing(p) == tty[p].at \in {"write", "full"}
OutputKept ==
    /\ \A p \in Writer :
          /\ \A i, j \in Mine(p) : i < j => Out[i].k < Out[j].k
          /\ \E n \in sent[p] .. Request :
                /\ {Out[i].k : i \in Mine(p)} = sent[p] + 1 .. n
                /\ Writing(p) => n = tty[p].done
          /\ tty[p].at = "full" => Len(tx) = TX_BUF
    /\ tx # <<>> => thr # <<>> \/ uirq \/ uart # "none"

\* Input is read as it was typed and edited, output goes out as it was written,
\* and nobody sleeps on what is there, in every order of keys, reads, kills and
\* interrupts (console.c:58-178, uart.c:86-194).
TerminalOK == TermTypeOK /\ Lines /\ ReadersWoken /\ OutputKept
=============================================================================
