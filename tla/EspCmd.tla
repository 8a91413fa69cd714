------------------------------- MODULE EspCmd -------------------------------
(***************************************************************************)
(* Issuing AT commands to the ESP8266 and following its answers:           *)
(* labs/10-esp8266/libesp/esp-run.c and esp-commands.c, driven by the two  *)
(* programs of 1-ping-pong.  The host and the device run concurrently and  *)
(* exchange lines; the lexer below (EspLex) reassembles lines from bytes.  *)
(*                                                                         *)
(* A library routine is a sequence of the steps it makes; an instruction   *)
(* at the head of prog is the call the host is in.  Lines carry the number *)
(* of the command they answer (0: none), which the code cannot see.        *)
(***************************************************************************)
EXTENDS Naturals, Sequences

CONSTANTS
  Roles,     \* "client", "server": which of the two programs runs
  Quiet,     \* which devices there are, see quiet
  Stale,     \* texts the device may still send from an earlier session
  Notices,   \* texts it may send unasked once a program is active
  Refuse,    \* commands it may answer with ERROR
  MaxNoise,  \* bound: stale, unasked and busy lines
  Rounds     \* bound: turns of the program's send and receive loop

ASSUME EspAssumption ==
  /\ Roles \subseteq {"client", "server"} /\ Quiet \subseteq BOOLEAN
  /\ MaxNoise \in Nat /\ Rounds \in Nat

VARIABLES
  role,      \* the program that runs
  quiet,     \* the device is never busy, refuses nothing and sends no notices
  prog,      \* what the host has left to do
  status,    \* "ok" or "panic"
  active_p, ooo,           \* e->active_p, e->handle_ooo_msg
  conn,      \* open_conn[0].active_p
  args, ch,  \* the va_list of cmd_responsev; what became of the channel number
  cmdid, matched,          \* history: commands issued; whose answer ended each
  toDev, toHost,           \* the serial line
  dresp, dreset, noise     \* the device: lines still to send, has it been reset

host == <<prog, status, active_p, ooo, conn, args, ch, cmdid, matched>>
dev  == <<dresp, dreset, noise>>
vars == <<role, quiet, host, toDev, toHost, dev>>

Line(t, id) == [t |-> t, id |-> id]

-----------------------------------------------------------------------------
(***************************************************************************)
(* The library routines, as the calls they make.                           *)
(***************************************************************************)
I(op, a, extra) == <<[op |-> op, a |-> a, extra |-> extra]>>

do_at_cmd(cmd, resp, extra_p) ==
  I("puts", cmd, FALSE) \o I("ack", cmd, FALSE) \o I("resp", resp, extra_p)

at_cmd(cmd)       == do_at_cmd(cmd, "OK", FALSE)
at_cmd_extra(cmd) == do_at_cmd(cmd, "OK", TRUE)
at_drain          == I("drain", "ready", FALSE)

esp_hard_reset ==
  I("eat", "none", FALSE)
  \o at_cmd_extra("AT+RST") \o at_drain
  \o at_cmd_extra("AT+RESTORE") \o at_drain
  \o at_cmd_extra("AT+RST") \o at_drain

esp_setup_wifi == at_cmd("AT+CWSAP") \o at_cmd("AT+CWMODE") \o at_cmd_extra("AT+CIFSR")

esp_connect_to_wifi == at_cmd("AT+CWMODE") \o at_cmd_extra("AT+CWJAP")

issue_tcp_connect ==
  I("puts", "AT+CIPSTART", FALSE) \o I("ack", "AT+CIPSTART", FALSE)
  \o I("respv", "CONNECT", FALSE) \o I("resp", "OK", FALSE)

esp_start_tcp_client == at_cmd("AT+CIPMUX") \o issue_tcp_connect \o I("active", "client", FALSE)

esp_start_tcp_server ==
  at_cmd("AT+CWMODE") \o at_cmd("AT+CIPMUX") \o at_cmd("AT+CIPSERVER")
  \o at_cmd_extra("AT+CIPSTO?") \o at_cmd_extra("AT+CIPSTO") \o at_cmd_extra("AT+CIPSTO?")
  \o at_cmd_extra("AT+CIFSR") \o at_cmd_extra("AT+GMR")
  \o I("active", "server", FALSE)

esp_send ==
  at_cmd("AT+CIPSEND") \o I("tok", ">", FALSE) \o I("puts", "data", FALSE)
  \o I("respv", "Recv", FALSE) \o I("resp", "SEND OK", FALSE)

esp_is_recv == I("recv", "+IPD", FALSE)

Loop(body) == [i \in 1..Rounds * Len(body) |-> body[((i - 1) % Len(body)) + 1]]

client_main == esp_hard_reset \o esp_connect_to_wifi \o esp_start_tcp_client
               \o Loop(esp_is_recv \o esp_send)

server_main == esp_hard_reset \o esp_setup_wifi \o esp_start_tcp_server
               \o I("conn", "CONNECT", FALSE) \o Loop(esp_send \o esp_is_recv)

Init ==
  /\ role \in Roles /\ quiet \in Quiet
  /\ prog = IF role = "client" THEN client_main ELSE server_main
  /\ status = "ok" /\ active_p = FALSE /\ ooo = "default" /\ conn = FALSE
  /\ args = "fresh" /\ ch = "unset" /\ cmdid = 0 /\ matched = <<>>
  /\ toDev = <<>> /\ toHost = <<>>
  /\ dresp = <<>> /\ dreset = FALSE /\ noise = 0

-----------------------------------------------------------------------------
(***************************************************************************)
(* The host.                                                               *)
(***************************************************************************)
In(op) == status = "ok" /\ prog # <<>> /\ Head(prog).op = op
arg    == Head(prog).a
Step   == prog' = Tail(prog)

\* The next line the lexer delivers.
InLine(op) == In(op) /\ toHost # <<>> /\ toHost' = Tail(toHost)
text == Head(toHost).t

lex_panic == status' = "panic" /\ UNCHANGED prog
Skip      == UNCHANGED <<prog, status>>     \* consume the line, look at the next

cmd_puts ==
  /\ In("puts") /\ Step
  /\ cmdid' = IF arg = "data" THEN cmdid ELSE cmdid + 1
  /\ toDev' = Append(toDev, [cmd |-> arg, id |-> cmdid'])
  /\ UNCHANGED <<status, active_p, ooo, conn, args, ch, matched, toHost, dev>>

\* handle_ooo_msg: only the default handler, and only before the connection is
\* active, lets the line pass.
handle_ooo_msg == IF ooo = "default" /\ ~active_p THEN Skip ELSE lex_panic

\* Seeded fault: takes any line for the echo.
cmd_ack_any ==
  /\ InLine("ack") /\ Step
  /\ UNCHANGED <<status, active_p, ooo, conn, args, ch, cmdid, matched, toDev, dev>>

\* Seeded fault: the handler does not consume the line it ignores.
cmd_ack_spins ==
  /\ In("ack") /\ toHost # <<>>
  /\ IF text = arg
     THEN Step /\ toHost' = Tail(toHost) /\ UNCHANGED status
     ELSE UNCHANGED <<prog, status, toHost>>
  /\ UNCHANGED <<active_p, ooo, conn, args, ch, cmdid, matched, toDev, dev>>

cmd_ack ==
  /\ InLine("ack")
  /\ CASE text = arg    -> Step /\ UNCHANGED status
       [] text = "busy" -> Skip
       [] OTHER         -> handle_ooo_msg
  /\ UNCHANGED <<active_p, ooo, conn, args, ch, cmdid, matched, toDev, dev>>

Matched == matched' = Append(matched, <<Head(toHost).id, cmdid>>)

\* Seeded fault: an extra line is refused even when extra lines are allowed.
cmd_response_strict ==
  /\ InLine("resp")
  /\ CASE text = arg     -> Step /\ UNCHANGED status /\ Matched
       [] text = "busy"  -> Skip /\ UNCHANGED matched
       [] OTHER          -> lex_panic /\ UNCHANGED matched
  /\ UNCHANGED <<active_p, ooo, conn, args, ch, cmdid, toDev, dev>>

cmd_response ==
  /\ InLine("resp")
  /\ CASE text = arg     -> Step /\ UNCHANGED status /\ Matched
       [] text = "ERROR" -> lex_panic /\ UNCHANGED matched
       [] text = "busy"  -> Skip /\ UNCHANGED matched
       [] OTHER          -> (IF Head(prog).extra THEN Skip ELSE lex_panic) /\ UNCHANGED matched
  /\ UNCHANGED <<active_p, ooo, conn, args, ch, cmdid, toDev, dev>>

\* A format that begins with %u has taken its argument off the va_list before it
\* can fail; the next turn of the loop takes one that is not there.
FetchesFirst == arg = "CONNECT"

\* Seeded fault: the number that was matched is dropped.
cmd_responsev_drops ==
  /\ InLine("respv")
  /\ IF text = arg THEN Step /\ UNCHANGED status ELSE lex_panic
  /\ UNCHANGED <<active_p, ooo, conn, args, ch, cmdid, matched, toDev, dev>>

cmd_responsev ==
  /\ InLine("respv")
  /\ IF text = arg
     THEN /\ Step /\ UNCHANGED status /\ Matched /\ args' = "fresh"
          /\ ch' = IF FetchesFirst THEN (IF args = "fresh" THEN "stored" ELSE "astray") ELSE ch
     ELSE /\ UNCHANGED <<matched, ch>>
          /\ IF text = "busy" THEN Skip ELSE lex_panic
          /\ args' = IF FetchesFirst THEN "used" ELSE args
  /\ UNCHANGED <<active_p, ooo, conn, cmdid, toDev, dev>>

DrainLine ==
  /\ InLine("drain")
  /\ IF text = arg THEN Step /\ Matched ELSE UNCHANGED <<prog, matched>>
  /\ UNCHANGED <<status, active_p, ooo, conn, args, ch, cmdid, toDev, dev>>

\* esp_hard_reset takes a character whenever more input has arrived: the line is
\* gone, or its last part stays.
EatLine ==
  /\ \/ InLine("eat")
     \/ In("eat") /\ toHost # <<>> /\ toHost' = [toHost EXCEPT ![1] = Line("garbage", 0)]
  /\ UNCHANGED <<host, toDev, dev>>

\* Nothing more arrives; what the lexer has read already is still there.
EatDone ==
  /\ In("eat") /\ Step
  /\ UNCHANGED <<status, active_p, ooo, conn, args, ch, cmdid, matched, toDev, toHost, dev>>

\* match_tok(">"), esp_is_recv: anything else is rejected.
TokOrRecv ==
  /\ \/ InLine("tok") \/ InLine("recv")
  /\ IF text = arg THEN Step /\ UNCHANGED status ELSE lex_panic
  /\ UNCHANGED <<active_p, ooo, conn, args, ch, cmdid, matched, toDev, dev>>

\* while(!wait_for_conn(&e, &ch)) cmd_echo_line(...)
WaitForConn ==
  /\ InLine("conn") /\ IF text = arg THEN Step ELSE UNCHANGED prog
  /\ UNCHANGED <<status, active_p, ooo, conn, args, ch, cmdid, matched, toDev, dev>>

\* The end of esp_start_tcp_client and esp_start_tcp_server.
Activate ==
  /\ In("active")
  /\ IF active_p \/ (arg = "client" /\ conn)
     THEN lex_panic /\ UNCHANGED <<active_p, ooo, conn>>
     ELSE /\ Step /\ UNCHANGED status
          /\ active_p' = TRUE /\ ooo' = arg
          /\ conn' = (arg = "client")
  /\ UNCHANGED <<args, ch, cmdid, matched, toDev, toHost, dev>>

-----------------------------------------------------------------------------
(***************************************************************************)
(* The device.                                                             *)
(***************************************************************************)
Answer(cmd) ==
  CASE cmd = "AT+RST"         -> <<"OK", "garbage", "ready">>
    [] cmd = "AT+RESTORE"     -> <<"OK", "ready">>
    [] cmd = "AT+CWJAP"       -> <<"WIFI CONNECTED", "WIFI GOT IP", "OK">>
    [] cmd = "AT+CIPSTART"    -> <<"CONNECT", "OK">>
    [] cmd = "AT+CIPSEND"     -> <<"OK", ">">>
    [] cmd = "data"           -> <<"Recv", "SEND OK">>
    [] cmd \in {"AT+CIFSR", "AT+CIPSTO?", "AT+GMR"} -> <<"info", "OK">>
    [] OTHER                  -> <<"OK">>

\* The device takes the next command: it echoes it, then works on the answer.
DevTake ==
  /\ toDev # <<>> /\ dresp = <<>>
  /\ LET c == Head(toDev) IN
     \E a \in {Answer(c.cmd)} \cup (IF c.cmd \in Refuse /\ ~quiet THEN {<<"ERROR">>} ELSE {}) :
         dresp' = (IF c.cmd = "data" THEN <<>> ELSE <<Line(c.cmd, c.id)>>)
                  \o [i \in 1..Len(a) |-> Line(a[i], c.id)]
  /\ toDev' = Tail(toDev) /\ dreset' = TRUE
  /\ UNCHANGED <<host, toHost, noise>>

DevSend ==
  /\ dresp # <<>> /\ toHost' = Append(toHost, Head(dresp)) /\ dresp' = Tail(dresp)
  /\ UNCHANGED <<host, toDev, dreset, noise>>

\* Lines nobody asked for: left over before the first command, busy while a
\* command is being answered, notices once a program is active.
DevNoise(t) ==
  /\ noise < MaxNoise /\ noise' = noise + 1
  /\ \/ t \in Stale /\ ~dreset
     \/ t = "busy" /\ ~quiet /\ dresp # <<>>
     \/ t \in Notices /\ ~quiet /\ active_p /\ dresp = <<>>
  /\ toHost' = Append(toHost, Line(t, 0))
  /\ UNCHANGED <<host, toDev, dresp, dreset>>

\* The other side connects, or sends a packet.
DevPeer ==
  /\ \/ In("conn") \/ In("recv")
  /\ toHost = <<>> /\ dresp = <<>>
  /\ toHost' = <<Line(arg, 0)>>
  /\ UNCHANGED <<host, toDev, dev>>

HostNext == UNCHANGED <<role, quiet>> /\
  \/ cmd_puts \/ cmd_ack \/ cmd_response \/ cmd_responsev
  \/ DrainLine \/ EatLine \/ EatDone \/ TokOrRecv \/ WaitForConn \/ Activate

DevAnswers == UNCHANGED <<role, quiet>> /\ (DevTake \/ DevSend)

PeerNext == UNCHANGED <<role, quiet>> /\ DevPeer

DevUnasked == UNCHANGED <<role, quiet>> /\
  \E t \in Stale \cup Notices \cup {"busy"} : DevNoise(t)

Done == (status = "panic" \/ prog = <<>>) /\ UNCHANGED vars

Next == HostNext \/ DevAnswers \/ PeerNext \/ DevUnasked \/ Done

Spec == Init /\ [][Next]_vars

\* The host keeps running, the device answers and the peer does its part.
FairSpec == Spec /\ WF_vars(HostNext) /\ WF_vars(DevAnswers) /\ WF_vars(PeerNext)

-----------------------------------------------------------------------------
\* The values each variable may take.
TypeOK ==
  /\ status \in {"ok", "panic"} /\ active_p \in BOOLEAN /\ conn \in BOOLEAN
  /\ ooo \in {"default", "client", "server"}
  /\ args \in {"fresh", "used"} /\ ch \in {"unset", "stored", "astray"}
  /\ role \in Roles /\ quiet \in Quiet
  /\ cmdid \in Nat /\ noise \in 0..MaxNoise /\ dreset \in BOOLEAN
  /\ \A i \in DOMAIN toHost : toHost[i].id \in 0..cmdid
  /\ \A i \in DOMAIN toDev : toDev[i].id \in 1..cmdid

\* The host takes no line for the end of a command but one that answers that very
\* command, whatever an earlier session left behind (cmd_ack: "the esp tells us
\* when it responds to *this* message by echoing the command back").
AnswersMatch == \A i \in DOMAIN matched : matched[i][1] = matched[i][2]

\* A command is issued only when the device has answered the one before.
OneAtATime == Len(toDev) <= 1 /\ (toDev # <<>> => dresp = <<>> \/ Head(dresp).id = cmdid)

\* Neither what an earlier session left behind nor a busy line stops the host
\* before its program is active.
SetupNeverPanics == status = "panic" => active_p

\* With a quiet device, the channel number of "<n>,CONNECT" is stored in
\* issue_tcp_connect's variable.
ChannelStored == quiet /\ active_p /\ role = "client" => ch = "stored"

\* Whatever the device sends, the host ends or stops with a panic: it does not
\* wait for a line that will not come.
NeverHangs == <>(prog = <<>> \/ status = "panic")

\* With a quiet device, the program gets through set-up and all its rounds.
Completes == quiet ~> prog = <<>>

\* Host and device stay in step: one command at a time, ended by its own answer
\* and by no line of an earlier session or command.
AnswersInStep == TypeOK /\ AnswersMatch /\ OneAtATime

\* Set-up gets past stale and busy lines, and ends with the channel number stored.
SetupWorks == SetupNeverPanics /\ ChannelStored

=============================================================================
