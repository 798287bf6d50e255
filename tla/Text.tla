-------------------------------- MODULE Text --------------------------------
(***************************************************************************)
(* What user programs compute from text: the matcher of grep, the counts   *)
(* of wc, numbers in printf() and atoi().  A character is a string of one  *)
(* letter, "nl" for a newline; a text is a sequence of characters.         *)
(***************************************************************************)
EXTENDS Script

CONSTANTS GREPBUF   \* bytes of the buffer of grep

ASSUME TextAssumption == GREPBUF \in Nat \ {0, 1}

Digit == <<"0", "1", "2", "3", "4", "5", "6", "7", "8", "9">>

(* The characters of the words that a program looks into.                  *)
Spelling ==
  ("a" :> <<"a">>) @@ ("ab" :> <<"a", "b">>) @@ ("^b" :> <<"^", "b">>) @@ ("b$" :> <<"b", "$">>)
  @@ ("a*b" :> <<"a", "*", "b">>) @@ ("^a*$" :> <<"^", "a", "*", "$">>) @@ ("^.$" :> <<"^", ".", "$">>)
  @@ ("^.*b" :> <<"^", ".", "*", "b">>) @@ ("$" :> <<"$">>) @@ ("^" :> <<"^">>) @@ ("*" :> <<"*">>)
  @@ ("a$b" :> <<"a", "$", "b">>) @@ ("a*a" :> <<"a", "*", "a">>) @@ ("4" :> <<"4">>)

-----------------------------------------------------------------------------
(* grep.c: whether re matches at the beginning of text; c* and then re;    *)
(* whether re matches anywhere.                                            *)
RECURSIVE matchhere(_, _), matchstar(_, _, _)
matchhere(re, text) ==
  IF re = <<>> THEN TRUE
  ELSE IF Len(re) > 1 /\ re[2] = "*" THEN matchstar(re[1], SubSeq(re, 3, Len(re)), text)
  ELSE IF re = <<"$">> THEN text = <<>>
  ELSE text # <<>> /\ re[1] \in {".", text[1]} /\ matchhere(Tail(re), Tail(text))

matchstar(c, re, text) ==
  \/ matchhere(re, text)
  \/ text # <<>> /\ c \in {".", text[1]} /\ matchstar(c, re, Tail(text))

match(re, text) ==
  IF re # <<>> /\ re[1] = "^" THEN matchhere(Tail(re), text)
  ELSE \E k \in 0 .. Len(text) : matchhere(re, SubSeq(text, k + 1, Len(text)))

(* grep(), one round of its loop: the lines in the buffer are tested and   *)
(* written; what is behind the last newline moves to the front.            *)
Scan(re, kept, bytes) ==
  FoldLeft(LAMBDA s, ch :
             IF ch # "nl" THEN [s EXCEPT !.rest = Append(@, ch)]
             ELSE [found |-> IF match(re, s.rest) THEN Append(s.found, Append(s.rest, ch)) ELSE s.found,
                   rest |-> <<>>],
           [found |-> <<>>, rest |-> kept], bytes)

(* wc(), one round: the counters after these bytes.                        *)
Count(count, bytes) ==
  FoldLeft(LAMBDA s, ch :
             LET space == ch \in {" ", "nl"} IN
             [l |-> s.l + (IF ch = "nl" THEN 1 ELSE 0),
              w |-> s.w + (IF space \/ s.inword = 1 THEN 0 ELSE 1),
              c |-> s.c + 1,
              inword |-> IF space THEN 0 ELSE 1],
           count, bytes)

-----------------------------------------------------------------------------
(* printint() in base 10: the digits come out last first and are written   *)
(* in reverse.                                                             *)
RECURSIVE Digits(_)
Digits(x) == IF x < 10 THEN Digit[x + 1] ELSE Digits(x \div 10) \o Digit[(x % 10) + 1]
printint(xx) == IF xx < 0 THEN "-" \o Digits(-xx) ELSE Digits(xx)

(* printf(): a write for each piece, a piece being a number with the text  *)
(* behind it; the code writes byte after byte.                             *)
Printf(fd, vs) == [j \in DOMAIN vs |-> Whatever(WriteOf(fd, <<vs[j]>>, "number"))]

atoi(word) ==
  FoldLeft(LAMBDA n, ch : 10 * n + SelectInSeq(Digit, LAMBDA d : d = ch) - 1, 0, Spelling[word])
=============================================================================
