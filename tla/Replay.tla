------------------------------- MODULE Replay ------------------------------
(***************************************************************************)
(* Lab 5: the interposer sits between the boot loader on the pi and the one *)
(* on the laptop, forwards what either sends and logs each byte with its     *)
(* sender.  The log is read back, parsed into the messages of the boot        *)
(* protocol and printed (log-util.c, and pretty-print.c, which also accepts   *)
(* comments), or replayed to the laptop side with one byte corrupted.         *)
(* The two boot loaders are the exercise of lab 2; here they follow the        *)
(* protocol in the comment of log-util.c.  Bytes arrive one by one, so that    *)
(* the interposer may log one side's bytes inside a word of the other.         *)
(***************************************************************************)
EXTENDS Integers, SequencesExt, BootWords

CONSTANTS MaxGets     \* bound: GET_PROG_INFO sent before the laptop answers

VARIABLES
    sent,       \* side -> entries it sent and that are not forwarded yet
    rpc,        \* side -> its place in the protocol; or "dead"
    log,        \* the log, each entry with the message it belongs to
    reader,     \* the program that reads the log: "", "log_util", "pretty_print", "replay"
    notes,      \* lines that carry a comment
    off, msgs,  \* parse_trace: lines consumed, and messages found
    got_nbytes,
    pend,       \* parse_trace: how it ended
    ncorrupt, ri, fail_i, outbuf, corrupted_p     \* replay

revars == <<sent, rpc, log, reader, notes, off, msgs, got_nbytes, pend,
            ncorrupt, ri, fail_i, outbuf, corrupted_p>>

NBytes == 2
Crc == [i \in 1 .. W |-> IF i = W THEN 7 ELSE 2]
Payload(op) ==
    CASE op = "PUT_PROG_INFO" -> Number(0) \o Number(NBytes) \o Crc     \* armbase, nbytes, crc32
      [] op = "GET_CODE" -> Crc
      [] op = "PUT_CODE" -> [i \in 1 .. NBytes |-> 2]
      [] op = "BOOT_SUCCESS" -> <<9>>                       \* the program's output
      [] OTHER -> <<>>
MsgEntries(s, op) ==
    LET b == Word[op] \o Payload(op) IN
    [i \in 1 .. Len(b) |-> [s |-> s, v |-> b[i], op |-> op, first |-> i = 1]]

Strays == {<<>>, <<1>>, <<2>>}        \* shorter than a word
StrayEntries(b) == [i \in 1 .. Len(b) |-> [s |-> "p", v |-> b[i], op |-> "stray", first |-> FALSE]]

RInit0 ==
    /\ \E b \in Strays : sent = [p |-> StrayEntries(b), u |-> <<>>]
    /\ rpc = [p |-> 0, u |-> "info"] /\ log = <<>> /\ reader = "" /\ notes = {}
    /\ off = 0 /\ msgs = <<>> /\ got_nbytes = 0 /\ pend = ""
    /\ ncorrupt = 0 /\ ri = 0 /\ fail_i = -1 /\ outbuf = <<>> /\ corrupted_p = FALSE

ParseVars == <<off, msgs, got_nbytes, pend>>
ReplayVars == <<ncorrupt, ri, fail_i, outbuf, corrupted_p>>
Tracing == reader = ""
Logged(op) == \E i \in 1 .. Len(log) : log[i].op = op
WholeIn(op) == Logged(op) /\ \A s \in {"p", "u"} : \A i \in 1 .. Len(sent[s]) : sent[s][i].op # op
Send(s, op) == sent' = [sent EXCEPT ![s] = @ \o MsgEntries(s, op)]

---------------------------------------------------------------------------
\* The pi: GET_PROG_INFO until data comes, GET_CODE, and the result.
PiSide ==
    /\ Tracing
    /\ \/ /\ rpc.p \in 0 .. MaxGets - 1 /\ ~Logged("PUT_PROG_INFO")
          /\ Send("p", "GET_PROG_INFO") /\ rpc' = [rpc EXCEPT !.p = @ + 1]
       \/ /\ rpc.p \in 1 .. MaxGets /\ WholeIn("PUT_PROG_INFO")
          /\ Send("p", "GET_CODE") /\ rpc' = [rpc EXCEPT !.p = 10]
       \/ /\ rpc.p = 10 /\ WholeIn("PUT_CODE")
          /\ \E op \in {"BOOT_SUCCESS", "BAD_CODE_CKSUM", "PRINT_STRING"} :
               Send("p", op) /\ rpc' = [rpc EXCEPT !.p = 11]
    /\ UNCHANGED <<log, reader, notes, ParseVars, ReplayVars>>

\* The laptop; it may die at any time.
UnixSide ==
    /\ Tracing
    /\ \/ /\ rpc.u = "info" /\ WholeIn("GET_PROG_INFO")
          /\ Send("u", "PUT_PROG_INFO") /\ rpc' = [rpc EXCEPT !.u = "code"]
       \/ /\ rpc.u = "code" /\ WholeIn("GET_CODE")
          /\ Send("u", "PUT_CODE") /\ rpc' = [rpc EXCEPT !.u = "echo"]
       \/ /\ rpc.u \notin {"echo", "dead"} /\ rpc' = [rpc EXCEPT !.u = "dead"] /\ UNCHANGED sent
       \/ /\ rpc.u = "echo" /\ rpc.p = 11 /\ sent.p = <<>>
          /\ rpc' = [rpc EXCEPT !.u = "dead"] /\ UNCHANGED sent
    /\ UNCHANGED <<log, reader, notes, ParseVars, ReplayVars>>

\* The line is the sender's type and the byte.
wr_log_byte(s, e) == [e EXCEPT !.s = s]

\* trace: what can be read is written to the other side and to the log.
forward(s) ==
    /\ Tracing /\ rpc.u # "dead"
    /\ \E n \in 1 .. Len(sent[s]) :
         /\ log' = log \o [i \in 1 .. n |-> wr_log_byte(s, sent[s][i])]
         /\ sent' = [sent EXCEPT ![s] = SubSeq(@, n + 1, Len(@))]
    /\ UNCHANGED <<rpc, reader, notes, ParseVars, ReplayVars>>

\* The laptop side is dead and its bytes are in the log.
trace_done(r) ==
    /\ Tracing /\ rpc.u = "dead" /\ log # <<>>
    /\ reader' = r
    /\ \E c \in {{}, {1}} : notes' = c
    /\ UNCHANGED <<sent, rpc, log, ParseVars, ReplayVars>>

---------------------------------------------------------------------------
(* Reading the log: a line is [s, v]; err and assert end the program.       *)

\* op,0xhh and the end of the line
log_readline(k) == IF k \in notes THEN "err" ELSE "ok"
\* pretty-print.c: a comment may follow (eat_line).
log_read_ent(k) == "ok"
Readable(k) == IF reader = "pretty_print" THEN log_read_ent(k) = "ok" ELSE log_readline(k) = "ok"
log_is_eol == off = Len(log)

\* n entries of sender s from line k on; past the end of the log read_ent_op
\* works on variables that nothing was read into: the caller takes any
\* entry, mostly the one read last.
Lines(k, n) == [i \in 1 .. n |-> IF k + i <= Len(log) THEN log[k + i] ELSE log[Len(log)]]
read_ent_op(k, n, s) == \A i \in 1 .. n : Readable(k + i) /\ Lines(k, n)[i].s = s
Value(k) == [i \in 1 .. W |-> Lines(k, W)[i].v]
log_read_ent32(k, s) == k < Len(log) /\ read_ent_op(k, W, s)
\* n data bytes; here the end of the log is seen
log_readN(k, n, s) == k + n <= Len(log) /\ read_ent_op(k, n, s)
log_readall(k, s) == read_ent_op(k, Len(log) - k, s)

op_check(v) == IF \E op \in DOMAIN Word : Word[op] = v
               THEN CHOOSE op \in DOMAIN Word : Word[op] = v ELSE "panic"

Parsing == reader \in {"log_util", "pretty_print"} /\ pend = ""
EndParse(why) == pend' = why /\ UNCHANGED <<off, msgs, got_nbytes>>
Keep == UNCHANGED <<sent, rpc, log, reader, notes, ReplayVars>>

Started == msgs # <<>> /\ Last(msgs) # "BAD_DATA"
\* Seeded fault: bad data is skipped a word at a time.
parse_bad_word ==
    /\ Parsing /\ ~Started
    /\ IF ~log_read_ent32(off, "p") THEN EndParse("err")
       ELSE /\ Value(off) # Word["GET_PROG_INFO"]
            /\ off' = (IF off + W < Len(log) THEN off + W ELSE Len(log)) /\ msgs' = Append(msgs, "BAD_DATA")
            /\ UNCHANGED <<got_nbytes, pend>>
    /\ Keep
\* log_peek32 must be GET_PROG_INFO; what comes before is bad data.
parse_bad ==
    /\ Parsing /\ ~Started
    /\ IF ~log_read_ent32(off, "p") THEN EndParse("err")
       ELSE /\ Value(off) # Word["GET_PROG_INFO"]
            /\ off' = off + 1 /\ msgs' = Append(msgs, "BAD_DATA")
            /\ UNCHANGED <<got_nbytes, pend>>
    /\ Keep

\* The message of op at off: its sender and the lines that follow the word.
Sender(op) == IF op \in {"PUT_PROG_INFO", "PUT_CODE"} THEN "u" ELSE "p"
Follow(op) ==
    LET k == off + W IN
    CASE op = "GET_CODE" -> IF log_read_ent32(k, "p") THEN W ELSE -1
      [] op = "BOOT_SUCCESS" -> IF log_readall(k, "p") THEN Len(log) - k ELSE -1
      [] op = "PUT_PROG_INFO" ->
            IF \A j \in 0 .. 2 : log_read_ent32(k + W * j, "u") THEN 3 * W ELSE -1
      [] op = "PUT_CODE" -> IF got_nbytes > 0 /\ log_readN(k, got_nbytes, "u") THEN got_nbytes ELSE -1
      [] OTHER -> 0
NbytesOk(op) == op = "PUT_PROG_INFO" => got_nbytes \in {0, Value(off + 2 * W)[1]}

Found(op, list) ==
    /\ msgs' = Append(list, op)
    /\ off' = IF off + W + Follow(op) > Len(log) THEN Len(log) ELSE off + W + Follow(op)
    /\ got_nbytes' = IF op = "PUT_PROG_INFO" THEN Value(off + 2 * W)[1] ELSE got_nbytes
    /\ UNCHANGED pend
parse_op(list) ==
    LET op == op_check(Value(off)) IN
    IF ~log_read_ent32(off, log[off + 1].s) THEN EndParse("err")
    ELSE IF op \in {"panic", "PRINT_STRING"} THEN EndParse("panic")
    ELSE IF Follow(op) = -1 \/ ~NbytesOk(op) THEN EndParse("err")
    ELSE Found(op, list)

Begins == log_read_ent32(off, "p") /\ Value(off) = Word["GET_PROG_INFO"]
\* The counter starts at 0 again, over the bad data.
parse_trace ==
    /\ Parsing /\ ~log_is_eol
    /\ \/ ~Started /\ Begins /\ parse_op(<<>>)
       \/ Started /\ parse_op(msgs)
    /\ Keep

\* Every message is printed, with its name; op_check has none for bad data.
pretty_print_op(op) == op \in DOMAIN Word
pretty_print ==
    /\ Parsing /\ Started /\ log_is_eol
    /\ EndParse(IF \A i \in 1 .. Len(msgs) : pretty_print_op(msgs[i]) THEN "printed" ELSE "no name")
    /\ Keep

---------------------------------------------------------------------------
(* replay: bytes the pi sent, up to BOOT_SUCCESS, may be corrupted.         *)

NLog == Len(log)
log_eq32(i, w) == /\ \A j \in 1 .. W : log[i + j].s = log[i + 1].s
                  /\ [j \in 1 .. W |-> log[i + j].v] = w
ScanTo == NLog - W          \* unsigned: a log of fewer than W lines is left out here

scan(i) == IF log[i + 1].s # "p" THEN ncorrupt
           ELSE IF log_eq32(i, Word["BOOT_SUCCESS"]) THEN ncorrupt + W - 1
           ELSE ncorrupt + 1
main_scan ==
    /\ reader = "replay" /\ pend = "" /\ ri >= 0 /\ NLog >= W /\ notes = {}
    /\ IF ri < ScanTo
       THEN /\ ncorrupt' = scan(ri)
            /\ ri' = IF log[ri + 1].s = "p" /\ log_eq32(ri, Word["BOOT_SUCCESS"]) THEN ScanTo ELSE ri + 1
            /\ UNCHANGED <<pend, fail_i>>
       ELSE /\ pend' = "scanned" /\ ri' = 0 /\ UNCHANGED ncorrupt
            /\ \E k \in {-1} \cup W .. ncorrupt - 1 : fail_i' = k
    /\ UNCHANGED <<sent, rpc, log, reader, notes, off, msgs, got_nbytes, outbuf, corrupted_p>>

corrupt_byte(c) == 0 .. 16 \ {c}

PiSentSoFar == Len(SelectSeq(SubSeq(log, 1, ri), LAMBDA e : e.s = "p"))
\* replay_unix: the pi's bytes, one of them changed; the laptop's are awaited.
replay_unix ==
    /\ reader = "replay" /\ pend = "scanned" /\ ri < NLog
    /\ ri' = ri + 1
    /\ IF log[ri + 1].s = "p"
       THEN IF fail_i = PiSentSoFar
            THEN /\ \E v \in {x \in corrupt_byte(log[ri + 1].v) : x \in {0, log[ri + 1].v, log[ri + 1].v + 1}} :
                       outbuf' = Append(outbuf, v)
                 /\ corrupted_p' = TRUE
            ELSE outbuf' = Append(outbuf, log[ri + 1].v) /\ UNCHANGED corrupted_p
       ELSE UNCHANGED <<outbuf, corrupted_p>>
    /\ UNCHANGED <<sent, rpc, log, reader, notes, ParseVars, ncorrupt, fail_i>>

ReNext ==
    \/ PiSide \/ UnixSide \/ forward("p") \/ forward("u")
    \/ \E r \in {"log_util", "pretty_print", "replay"} : trace_done(r)
    \/ parse_bad \/ parse_trace \/ pretty_print \/ main_scan \/ replay_unix

---------------------------------------------------------------------------
\* What each side sent, in the log and still on its way, is in the order of the
\* protocol and under the side's own letter.
Side(s) == SelectSeq(log, LAMBDA e : e.s = s) \o sent[s]
LogFaithful ==
    \A s \in {"p", "u"} :
        LET side == Side(s) IN
        \A i \in DOMAIN side :
            side[i].op = "stray" \/ (Sender(side[i].op) = s
                                     /\ (~side[i].first => i > 1 /\ side[i - 1].op = side[i].op))

Uncut == \A i \in 1 .. Len(log) : (~log[i].first /\ log[i].op # "stray") => i > 1 /\ log[i - 1].op = log[i].op
WholeMessages == log # <<>> /\ \A s \in {"p", "u"} : sent[s] = <<>> \/ sent[s][1].first
Exchange == LET f == SelectSeq(log, LAMBDA e : e.first) IN [i \in 1 .. Len(f) |-> f[i].op]

\* A log in which no message is cut in two, by the other side's bytes or by the
\* end of the trace, parses into the messages that were sent, in their order,
\* whatever was on the line before; a message that the parser does not know
\* ends it.
ParsesExchange ==
    reader \in {"log_util", "pretty_print"} /\ Uncut /\ WholeMessages
        /\ (reader = "pretty_print" \/ notes = {}) /\ Exchange # <<>> =>
        /\ pend # "err"
        /\ pend = "printed" => msgs = Exchange
        /\ pend = "panic" => Logged("PRINT_STRING")

\* The printer is never handed bad data, for which it has no name.
PrintsNamed == pend # "no name"

\* Corruption starts before the end of BOOT_SUCCESS: each byte that a trial may
\* corrupt is one the laptop side reads before it can be content.
CorruptsBefore ==
    reader = "replay" /\ pend = "scanned" /\ Uncut /\ Logged("BOOT_SUCCESS") /\ WholeMessages =>
        ncorrupt <= Len(SelectSeq(log, LAMBDA e : e.s = "p")) - Len(Payload("BOOT_SUCCESS"))

\* A trial differs from the trace in one byte, the one that was asked for.
OneByteDiffers ==
    LET pi == SelectSeq(SubSeq(log, 1, ri), LAMBDA e : e.s = "p") IN
    reader = "replay" /\ pend = "scanned" =>
        \A i \in 1 .. Len(outbuf) : (outbuf[i] # pi[i].v) <=> (i = fail_i + 1)

\* A trace is what was sent, reads back as the messages that were sent, and is
\* replayed with one byte changed where the change can be noticed.
TraceFaithful == LogFaithful /\ ParsesExchange /\ PrintsNamed /\ CorruptsBefore /\ OneByteDiffers

=============================================================================
