------------------------------- MODULE EspRun -------------------------------
(***************************************************************************)
(* Commands to the ESP and their answers, as lab 9 and lab 10 read them,     *)
(* character by character: the device's output arrives in chunks of any      *)
(* size, and the parser reads on only when it needs a character it does not  *)
(* have.                                                                     *)
(***************************************************************************)
EXTENDS EspMatch

VARIABLES
    lab, eol, stale,    \* which library; how the device ends a line; its output before
    ltail,              \* the lexer's tail
    step, ph,           \* the command of Script, and its phase:
                        \* "eat", "puts", "ack", "resp", "drain", "end"
    eaten,              \* characters esp_hard_reset threw away
    seen,               \* the lines read so far
    value               \* the number a %u stored

rvars == <<inp, avail, lab, eol, stale, ltail, step, ph, eaten, seen, value>>

Line(text) == text \o eol
OK == <<"O", "K">>
ERROR == <<"E", "R">>
ready == <<"R", "Y">>
busy == <<"b">>
Connect == <<"%u", ",", "C">>
\* AT+RST and at_drain, AT, and in lab 10 a command answered by a number
Script == <<[cmd |-> <<"A", "T", "+">>, extra |-> TRUE, end |-> OK, drain |-> TRUE],
            [cmd |-> <<"A", "T">>, extra |-> FALSE, end |-> OK, drain |-> FALSE],
            [cmd |-> <<"A", "T", "C">>, extra |-> FALSE, end |-> Connect, drain |-> FALSE]>>
NSteps == IF lab = 9 THEN 2 ELSE 3
Cmd == Script[step]

\* What the device may send after a command: its echo, more lines, an answer.
Extras == {<<>>, <<<<"E", "X">>>>, <<<<" ", "O", "X", " ">>>>, <<<<>>, <<"O", " ", "X">>>>}
Answers == IF Cmd.end = Connect THEN {<<<<"1", "2", ",", "C">>>>, <<<<"1", ",", "C", " ">>>>, <<<<"C">>>>}
           ELSE {<<OK>>, <<<<" ", "O", "K">>>>, <<busy, OK>>, <<ERROR>>}

Output(ls) == FoldLeft(LAMBDA a, l : a \o Line(l), <<>>, ls)

RunInit ==
    /\ lab \in {9, 10} /\ eol \in {<<"cr", "nl">>, <<"nl", "cr">>}
    /\ stale \in {<<>>, <<Last(eol)>>, <<"X">> \o eol, <<Last(eol), "A", "X">> \o eol \o eol}
    /\ inp = stale /\ avail = 0 /\ ltail = 1
    /\ step \in 1 .. NSteps /\ ph = (IF step = 1 THEN "eat" ELSE "puts") /\ eaten = 0 /\ seen = <<>> /\ value = <<>>
Rest == UNCHANGED <<lab, eol, stale, step>>

---------------------------------------------------------------------------
\* esp_hard_reset: a character is thrown away as long as there is data to read.
EatStale ==
    /\ ph = "eat"
    /\ IF avail < Len(inp) /\ ltail <= avail THEN ltail' = ltail + 1 /\ eaten' = ltail /\ UNCHANGED ph
       ELSE ph' = "puts" /\ UNCHANGED <<ltail, eaten>>
    /\ UNCHANGED <<inp, avail, seen, value>> /\ Rest

cmd_puts ==
    /\ ph = "puts"
    /\ \E x \in Extras, a \in Answers :
         inp' = inp \o Output(<<Cmd.cmd>> \o x \o a \o IF Cmd.drain THEN x \o <<ready>> ELSE <<>>)
    /\ ph' = "ack"
    /\ UNCHANGED <<avail, ltail, eaten, seen, value>> /\ Rest

---------------------------------------------------------------------------
\* The default handler of messages out of order echoes the line.
cmd_echo_line(p) == IF lab = 9 THEN get_nonblank_line(p) ELSE get_nonblank_line10(p)

\* One round of a loop is a sequence of attempts: a matcher, and where it left
\* the stream if it failed, the next one.
Try(matcher, text) == [matcher |-> matcher, text |-> text]
Attempt(a, p) ==
    CASE a.matcher = "line" -> IF lab = 9 THEN match_line(p, a.text) ELSE match_linev(p, a.text)
      [] a.matcher = "tok" -> IF lab = 9 THEN match_tok(p, a.text) ELSE match_tok10(p, a.text)
      [] a.matcher = "blank" -> IF lab = 9 THEN is_blank_line(p) ELSE match_blank_line10(p)
      [] a.matcher = "expect blank" -> IF lab = 9 THEN expect_blank_line(p) ELSE expect_blank_line10(p)
      [] a.matcher = "echo" -> cmd_echo_line(p)
      [] a.matcher = "skip" -> No(p, 0)

cmd_ack == <<Try("line", Cmd.cmd), Try("blank", <<>>)>>
           \o (IF lab = 9 THEN <<>> ELSE <<Try("line", busy)>>) \o <<Try("echo", <<>>)>>
Otherwise == Try(IF Cmd.extra THEN "echo" ELSE "expect blank", <<>>)
cmd_response9 == <<Try("line", Cmd.end), Try("tok", ERROR), Try("line", busy), Otherwise>>
\* cmd_responsev also looks for the ends of other commands.
cmd_response10 ==
    <<Try("line", Cmd.end), Try("tok", ERROR),
      IF Cmd.end = Connect THEN Try("tok", OK) ELSE Try("skip", <<>>), Try("line", busy), Otherwise>>
at_drain == <<Try("line", ready), Try("echo", <<>>)>>

Attempts == CASE ph = "ack" -> cmd_ack
              [] ph = "resp" -> IF lab = 9 THEN cmd_response9 ELSE cmd_response10
              [] ph = "drain" -> at_drain
\* The attempt that ends the round, where it began, and how far all of them looked
Loop == FoldLeft(LAMBDA t, a : IF t.m.ok \/ t.m.panic THEN t
                               ELSE LET n == Attempt(a, t.m.pos) IN
                                    [i |-> t.i + 1, m |-> n, from |-> t.m.pos, need |-> Higher(t.need, n.need)],
                 [i |-> 0, m |-> No(ltail, 0), from |-> ltail, need |-> 0], Attempts)
Looping == ph \in {"ack", "resp", "drain"}

\* lex_readin: the parser waits until there is data and reads what there is.
lex_readin ==
    /\ avail < Len(inp)
    /\ \/ ph = "eat" /\ ltail > avail
       \/ Looping /\ Loop.need > avail
    /\ avail' \in avail + 1 .. Len(inp)
    /\ UNCHANGED <<inp, ltail, ph, eaten, seen, value>> /\ Rest

\* The text of the line that ends in front of p, without spaces around it
Trim(t) == LET k == {i \in DOMAIN t : t[i] # " "} IN
           IF k = {} THEN <<>> ELSE SubSeq(t, CHOOSE i \in k : \A j \in k : i <= j,
                                              CHOOSE i \in k : \A j \in k : i >= j)
Texts(s) ==
    LET f == FoldLeft(LAMBDA a, c : IF c \in {"cr", "nl"} THEN [a EXCEPT !.done = Append(@, Trim(a.cur)), !.cur = <<>>]
                                    ELSE [a EXCEPT !.cur = Append(@, c)],
                      [done |-> <<>>, cur |-> <<>>], s)
    IN  SelectSeq(IF f.cur = <<>> THEN f.done ELSE Append(f.done, <<"cut">> \o f.cur), LAMBDA t : t # <<>>)

Fatal(t) == t.m.panic \/ (ph = "resp" /\ t.m.ok /\ t.i \in {2, 3})
Round ==
    /\ Looping
    /\ \E t \in {Loop} :
       /\ t.need <= avail
       /\ IF Fatal(t)
          THEN ph' = "panic" /\ UNCHANGED <<ltail, seen, value>>
          ELSE
            /\ ltail' = t.m.pos
            /\ seen' = seen \o Texts(SubSeq(inp, t.from, t.m.pos - 1))
            /\ value' = IF t.m.val # <<>> THEN t.m.val ELSE value
            /\ IF ~(t.m.ok /\ t.i = 1) THEN UNCHANGED ph
               ELSE IF ph = "ack" THEN ph' = "resp"
               ELSE ph' = IF ph = "resp" /\ Cmd.drain THEN "drain" ELSE "end"
    /\ UNCHANGED <<inp, avail, eaten>> /\ Rest

RunNext == EatStale \/ cmd_puts \/ lex_readin \/ Round

---------------------------------------------------------------------------
\* No line is lost, split or joined to another, wherever the chunks end and
\* whatever was tried on it before: the matchers that fail leave the stream as
\* it was.
SeesWholeLines == seen = Texts(SubSeq(inp, eaten + 1, ltail - 1))
                  /\ \A i \in DOMAIN seen : seen[i][1] # "cut"

\* The parser never waits for more than the device has sent in answer to the
\* command: it does not look behind the end of the last line.
NeverWaitsForNothing == Looping /\ avail = Len(inp) => Loop.need <= avail

\* The number of a %u is the one the device sent, also when it arrives in pieces,
\* and the parser does not give up on a line that begins with one.
NumberWhole ==
    /\ value # <<>> => value = SelectSeq(inp, IsDigit)
    /\ ph = "panic" /\ Cmd.end = Connect => ~IsDigit(At(skip_blank_space(skip_blank_lines10(ltail))))

\* Lines and numbers are read whole wherever the chunks end, and no matcher waits
\* for what will not come.
LinesWhole == SeesWholeLines /\ NeverWaitsForNothing /\ NumberWhole

=============================================================================
