------------------------------- MODULE PiEcho -------------------------------
(***************************************************************************)
(* The laptop echoes what the pi prints, in the chunks read returns, until  *)
(* it sees the line DONE!!! (libunix/pi-echo.c, and the copy in my-install.c *)
(* of lab 2).                                                               *)
(***************************************************************************)
EXTENDS Integers, SequencesExt

CONSTANTS MaxTyped      \* bound: chunks typed at the laptop

exit_string == <<"D", "O", "N", "E", "!", "!", "!", "nl">>
Chars == {"D", "O", "N", "E", "!", "nl", "cr", "NUL", "x", "space"}
Chunks == {<<>>} \cup {<<a>> : a \in Chars} \cup {<<a, b>> : a, b \in Chars}
          \cup {<<"nl">> \o exit_string, SubSeq(exit_string, 2, 8)}

VARIABLES
    prog,       \* "pi_echo" or "my_install"
    portname,   \* the name of the port is known
    pos,        \* of pi_done: matched so far, kept between calls
    echo,       \* "on", "done", "closed"
    typed,      \* chunks typed and sent to the pi
    ending, occurred,  \* the longest end of the output that begins exit_string; it occurred
    line, lineDone   \* characters of a line that begins exit_string (-1: it does not);
                     \* a line was the whole of it

ecvars == <<prog, portname, pos, echo, typed, ending, occurred, line, lineDone>>

EInit ==
    /\ prog \in {"pi_echo", "my_install"} /\ portname \in BOOLEAN
    /\ prog = "my_install" => portname
    /\ pos = 0 /\ echo = "on" /\ typed = 0
    /\ ending = 0 /\ occurred = FALSE /\ line = 0 /\ lineDone = FALSE

---------------------------------------------------------------------------
\* Anything but printable characters and white space becomes a space, and so does \r.
remove_nonprint(buf) == [i \in DOMAIN buf |-> IF buf[i] \in {"cr", "NUL"} THEN "space" ELSE buf[i]]

\* my-install.c has its own copies.
remove_nonprint_lab2(buf) == [i \in DOMAIN buf |-> IF buf[i] \in {"cr", "NUL"} THEN "space" ELSE buf[i]]

\* A C string ends at its first NUL.
CString(buf) == LET z == {i \in DOMAIN buf : buf[i] = "NUL"} IN
                SubSeq(buf, 1, IF z = {} THEN Len(buf) ELSE (CHOOSE i \in z : \A j \in z : i <= j) - 1)

\* Seeded fault: a mismatch does not start the match again.
pi_done_sticky(p, c) == IF p = 8 THEN 8 ELSE IF c = exit_string[p + 1] THEN p + 1 ELSE p
\* One character of pi_done: a mismatch starts over with the next character.
pi_done(p, c) ==
    CASE p = 8 -> 8
      [] p < 8 /\ c = exit_string[p + 1] -> p + 1
      [] OTHER -> 0
done_lab2(p, c) == IF p = 8 THEN 8 ELSE IF c = exit_string[p + 1] THEN p + 1 ELSE 0

---------------------------------------------------------------------------
\* What the terminal shows, for the properties.
TailAfter(t, c) ==
    LET s == SubSeq(exit_string, 1, t) \o <<c>>
        n == {k \in 1 .. 8 : IsSuffix(SubSeq(exit_string, 1, k), s)}
    IN  IF n = {} THEN 0 ELSE CHOOSE k \in n : \A j \in n : j <= k
LineAfter(l, c) ==
    IF c = "nl" THEN 0 ELSE IF l \in 0 .. 6 /\ c = exit_string[l + 1] THEN l + 1 ELSE -1
Watch(buf) ==
    LET w == FoldLeft(LAMBDA a, c :
               [ending |-> IF a.ending = 8 THEN 8 ELSE TailAfter(a.ending, c),
                line |-> LineAfter(a.line, c),
                done |-> a.done \/ (a.line = 7 /\ c = "nl")],
               [ending |-> ending, line |-> line, done |-> lineDone], buf)
    IN  /\ ending' = w.ending /\ occurred' = (w.ending = 8)
        /\ line' = w.line /\ lineDone' = w.done

---------------------------------------------------------------------------
\* write_exact of what was typed, before the output of the pi is looked at
Forward == /\ prog = "pi_echo" /\ echo = "on" /\ typed < MaxTyped /\ typed' = typed + 1
           /\ UNCHANGED <<prog, portname, pos, echo, ending, occurred, line, lineDone>>

\* n > 0 characters are read: shown, and searched for the exit string.
Show(buf, p) ==
    /\ pos' = p
    /\ echo' = IF p = 8 THEN "done" ELSE echo
    /\ Watch(buf)
    /\ UNCHANGED <<prog, portname, typed>>
\* read returns 0: the port is gone (or has no name), or the loop goes on.
Closed == /\ \/ portname /\ echo' \in {"closed", "on"}
             \/ ~portname /\ echo' = "closed"
          /\ UNCHANGED <<prog, portname, pos, typed, ending, occurred, line, lineDone>>
\* read fails: sys_die
Broken == echo' = "closed" /\ UNCHANGED <<prog, portname, pos, typed, ending, occurred, line, lineDone>>

pi_echo ==
    /\ prog = "pi_echo" /\ echo = "on"
    /\ \/ \E buf \in Chunks : buf # <<>> /\
            Show(buf, FoldLeft(pi_done, pos, CString(remove_nonprint(buf))))
       \/ Closed
       \/ Broken
echo_lab2 ==
    /\ prog = "my_install" /\ echo = "on"
    /\ \/ \E buf \in Chunks : buf # <<>> /\
            Show(buf, FoldLeft(done_lab2, pos, CString(remove_nonprint_lab2(buf))))
       \/ Closed
       \/ Broken

EcNext == Forward \/ pi_echo \/ echo_lab2

---------------------------------------------------------------------------
\* The laptop stops only when the pi has printed the exit string, all of it in
\* one piece, however read cuts the output.
DoneOnlyIfPrinted == echo = "done" => occurred
\* A line that is the exit string and nothing else always stops it, also when
\* the line before ends in the middle of a match or holds NULs.
LineAlwaysSeen == lineDone => echo # "on"

\* The echo stops at the exit line, and at nothing else.
EchoStops == DoneOnlyIfPrinted /\ LineAlwaysSeen

=============================================================================
