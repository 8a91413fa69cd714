-------------------------------- MODULE Boot -------------------------------
(***************************************************************************)
(* The start of the boot protocol: the pi sends GET_PROG_INFO every 300ms  *)
(* until data arrives (bootloader.c), the laptop drains the line until it *)
(* reads that word, and shows the strings the pi prints meanwhile         *)
(* (simple-boot.c, send-recv.c).  The line may hold the tail of what the  *)
(* pi sent before it was reset.  The timer counts modulo TimerMod.        *)
(***************************************************************************)
EXTENDS Integers, BootWords

CONSTANTS TimerMod,     \* 2^32 microseconds in the code
          Interval,     \* 300*1000 in the code
          MaxPoll,      \* bound: ticks between two looks at the timer
          MaxText,      \* bound: bytes of a printed string
          MaxPuts       \* bound: messages of the pi

\* The pi looks at its timer more often than the timer wraps.
ASSUME BootAssumption ==
    /\ W \in Nat \ {0} /\ TimerMod \in Nat /\ Interval \in Nat \ {0} /\ MaxPoll \in Nat
    /\ Interval + MaxPoll <= TimerMod
    /\ MaxText \in Nat /\ MaxPuts \in Nat

VARIABLES
    usec, started,     \* the timer, and s of wait_for_data
    since,             \* ticks since the last GET_PROG_INFO was sent
    pi,                \* "put", "wait", "eat"
    puts,
    printed,           \* putk was called
    stray,             \* bytes of an old word on the line at first
    wire,              \* bytes on their way to the laptop
    word,              \* get_uint32: the bytes so far
    lap,               \* simple_boot: "op", "len", "text", "found", "dead"
    ntext, text,       \* get_op: bytes missing, and shown so far
    shown,             \* strings shown
    discarded,         \* words thrown away
    answered           \* the laptop has sent data

bovars == <<usec, started, since, pi, puts, printed, stray, wire, word, lap, ntext, text, shown, discarded,
           answered>>

\* A byte of message op; first if it is the first one.
Bytes(op, b) == [i \in 1 .. Len(b) |-> [v |-> b[i], op |-> op, first |-> i = 1]]
Text == [i \in 1 .. MaxText |-> IF i % 2 = 1 THEN 2 ELSE 1]     \* looks like GET_PROG_INFO
TextOf(n) == SubSeq(Text, 1, n)

BInit ==
    /\ usec \in {0, TimerMod - 1} /\ started = usec /\ since = 0
    /\ pi = "put" /\ puts = 0
    /\ printed = FALSE /\ stray \in 0 .. W
    /\ wire = Bytes("old", SubSeq(Word["GET_PROG_INFO"], W - stray + 1, W))
    /\ word = <<>> /\ lap = "op" /\ ntext = 0 /\ text = <<>> /\ shown = <<>>
    /\ discarded = 0 /\ answered = FALSE

Lap == UNCHANGED <<word, lap, ntext, text, shown, discarded, answered>>
Pi == UNCHANGED <<usec, started, since, pi, puts, printed, stray>>

---------------------------------------------------------------------------
\* put_uint(GET_PROG_INFO), then s = timer_get_usec()
wait_for_data_put ==
    /\ pi = "put" /\ puts < MaxPuts
    /\ wire' = wire \o Bytes("GET_PROG_INFO", Word["GET_PROG_INFO"])
    /\ pi' = "wait" /\ started' = usec /\ since' = 0 /\ puts' = puts + 1
    /\ UNCHANGED <<usec, printed, stray>> /\ Lap
\* A string is printed before (putk is for the code the student writes).
putk(n) ==
    /\ pi = "put" /\ puts < MaxPuts
    /\ wire' = wire \o Bytes("PRINT_STRING", Word["PRINT_STRING"] \o Number(n) \o TextOf(n))
    /\ puts' = puts + 1 /\ printed' = TRUE
    /\ UNCHANGED <<usec, started, since, pi, stray>> /\ Lap

\* Seeded fault: the deadline is computed and compared, not the difference.
timer_passed_naive(now) == now >= started + Interval
\* (timer_get_usec() - s) < 300*1000 in 32 bits
timer_passed(now) == (now - started) % TimerMod >= Interval
wait_for_data_poll ==
    /\ pi = "wait"
    /\ \E d \in 1 .. MaxPoll :
         /\ usec' = (usec + d) % TimerMod /\ since' = since + d
         /\ pi' = IF timer_passed(usec') THEN "put" ELSE IF answered THEN "eat" ELSE "wait"
    /\ UNCHANGED <<started, puts, printed, stray, wire>> /\ Lap

---------------------------------------------------------------------------
\* get_byte of the laptop, into get_uint32 or a string
Take == wire' = Tail(wire)
get_uint32 ==
    /\ lap \in {"op", "len"} /\ Len(word) < W /\ wire # <<>>
    /\ word' = Append(word, Head(wire)) /\ Take
    /\ UNCHANGED <<lap, ntext, text, shown, discarded, answered>> /\ Pi
\* The terminal's timeout passes: read returns 0 and the laptop gives up.
get_byte_timeout ==
    /\ lap \notin {"found", "dead"} /\ wire = <<>> /\ lap' = "dead"
    /\ UNCHANGED <<wire, word, ntext, text, shown, discarded, answered>> /\ Pi
Got == [i \in 1 .. W |-> word[i].v]

\* Anything but GET_PROG_INFO and PRINT_STRING is discarded.
get_op ==
    /\ lap = "op" /\ Len(word) = W
    /\ word' = <<>>
    /\ lap' = IF Got = Word["GET_PROG_INFO"] THEN "found"
               ELSE IF Got = Word["PRINT_STRING"] THEN "len" ELSE "op"
    /\ answered' = (lap' = "found")
    /\ discarded' = IF lap' = "op" THEN 1 ELSE discarded
    /\ UNCHANGED <<wire, ntext, text, shown>> /\ Pi
\* demand(nbytes < 512): here what fits in the longest string
get_op_len ==
    /\ lap = "len" /\ Len(word) = W /\ Got[1] <= MaxText
    /\ word' = <<>> /\ ntext' = Got[1] /\ text' = <<>> /\ lap' = "text"
    /\ UNCHANGED <<wire, shown, discarded, answered>> /\ Pi
get_op_text ==
    /\ lap = "text"
    /\ IF ntext = 0
       THEN /\ shown' = Append(shown, text) /\ lap' = "op" /\ UNCHANGED <<wire, text, ntext>>
       ELSE /\ wire # <<>> /\ text' = Append(text, Head(wire).v) /\ Take
            /\ ntext' = ntext - 1 /\ UNCHANGED <<shown, lap>>
    /\ UNCHANGED <<word, discarded, answered>> /\ Pi

BNext ==
    \/ wait_for_data_put \/ wait_for_data_poll \/ \E n \in 0 .. MaxText : putk(n)
    \/ get_uint32 \/ get_byte_timeout \/ get_op \/ get_op_len \/ get_op_text

---------------------------------------------------------------------------
\* A wait lasts 300ms, and one look at the timer more at most, also when the
\* timer wraps around during it.
WaitsInterval ==
    /\ pi = "put" /\ since > 0 => since >= Interval
    /\ since < Interval + MaxPoll

\* On a line that starts with whole words the laptop discards nothing, reads
\* words where words begin, and shows each string as it was sent, also one that
\* holds the bytes of GET_PROG_INFO.  After the tail of a word the drain, which
\* reads whole words only, never finds the pi again while it prints nothing.
InStep == lap \in {"op", "len"} /\ word # <<>> => word[1].first \/ lap = "len"
Strings == \A i \in 1 .. Len(shown) : shown[i] = TextOf(Len(shown[i]))
DrainsInStep ==
    IF stray % W = 0
    THEN discarded = 0 /\ InStep /\ Strings
    ELSE lap = "found" => printed

\* The pi asks in time and the laptop finds the word it asks with.
BootInStep == WaitsInterval /\ DrainsInStep

=============================================================================
