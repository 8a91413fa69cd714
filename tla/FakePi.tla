------------------------------- MODULE FakePi -------------------------------
(***************************************************************************)
(* A pi program running on the laptop against a real pi: put32 and get32   *)
(* are shipped over the serial line to a small virtual machine on the pi.  *)
(* labs/11-fuse/2-fake-pi: unix-side/fake-pi.c and pi-side/pi-vmm.c, with  *)
(* the opcodes of libpi/pi-message.h.                                      *)
(*                                                                         *)
(* The two programs run concurrently.  A byte and a 32-bit word are each   *)
(* one token of the line; opcodes, characters and words are all numbers,   *)
(* so a reader that lost step would take one for the other.                *)
(***************************************************************************)
EXTENDS Naturals, Sequences

CONSTANTS
  MaxWord,     \* the largest word: 2^32 - 1 in the code
  Addr, Val,   \* addresses and values the program uses
  NBanner,     \* characters of "PI VMM: about to start pi vmm\n"
  NBye,        \* characters of "PI: reboot\n" and of clean_reboot's message
  Patience,    \* how timeouts may behave, see patient
  MaxOps,      \* bound: calls the program makes
  MaxWire      \* bound: unanswered pings

Word == 0..MaxWord

ASSUME FakePiAssumption ==
  /\ MaxWord \in Nat /\ MaxWord >= 34   \* opcodes are words
  /\ Addr \subseteq Word /\ Val \subseteq Word /\ 0 \in Val
  /\ NBanner \in Word /\ NBye \in Word /\ Patience \subseteq BOOLEAN
  /\ MaxOps \in Nat /\ MaxWire \in Nat

\* The texts the pi prints: characters 1, 2, 3 and so on.
Banner == [i \in 1..NBanner |-> i]
Bye == [i \in 1..NBye |-> i]

PI_NULL == 0
PI_READY == 1
PI_PRINT_CHAR == 3
PI_REBOOT == 4
PI_PUT32 == 14
PI_GET32 == 15
PI_GET32_REPLY == 16
GET_PROG_INFO == <<34, 34, 17, 17>>   \* the boot loader's first word, as bytes

VARIABLES
  upc, expecting, utx, ret, uaddr, nops,  \* the unix side
  ppc, ptx, paddr, mem,                   \* the pi side
  toPi, toUnix,                           \* the serial line
  patient,                                \* a timeout fires only when no answer
                                          \* is on its way
  printed, piout, shadow                  \* history: printed here, sent there,
                                          \* memory as the program wrote it
uvars == <<upc, expecting, utx, ret, uaddr, nops>>
pvars == <<ppc, ptx, paddr, mem>>
line  == <<toPi, toUnix>>
hist  == <<printed, piout, shadow>>
vars  == <<uvars, pvars, line, patient, hist>>

Init ==
  /\ upc = "ping" /\ expecting = PI_NULL /\ utx = <<>> /\ ret = 0 /\ uaddr = 0 /\ nops = 0
  /\ ppc = "boot" /\ ptx = <<>> /\ paddr = 0 /\ mem = [a \in Word |-> 0]
  /\ toPi = <<>> /\ toUnix = <<>> /\ patient \in Patience
  /\ printed = <<>> /\ piout = <<>> /\ shadow = [a \in Word |-> 0]

\* put_byte(PI_PRINT_CHAR); put_byte(c), for each character
net_putchar(s) ==
  [i \in 1..2 * Len(s) |-> IF i % 2 = 1 THEN PI_PRINT_CHAR ELSE s[i \div 2]]

\* The pi has nothing to say and nothing to do.
PiQuiet ==
  /\ ptx = <<>> /\ toUnix = <<>> /\ ppc \notin {"reboot", "off"}
  /\ toPi = <<>> \/ ppc \in {"boot", "bootloader", "panic"}

TimedOut == toUnix = <<>> /\ (patient => PiQuiet)

-----------------------------------------------------------------------------
(***************************************************************************)
(* The unix side.                                                          *)
(***************************************************************************)

\* write_exact; a pi that is booting loses what it is sent.
UnixWrite ==
  /\ utx # <<>> /\ utx' = Tail(utx)
  /\ toPi' = IF ppc \in {"boot", "off"} THEN toPi ELSE Append(toPi, Head(utx))
  /\ UNCHANGED <<upc, expecting, ret, uaddr, nops, pvars, toUnix, hist>>

UnixStep(at) == upc = at /\ utx = <<>>

Ping ==
  /\ UnixStep("ping") /\ Len(toPi) < MaxWire
  /\ utx' = <<PI_READY>> /\ upc' = "poll"
  /\ UNCHANGED <<expecting, ret, uaddr, nops, pvars, line, hist>>

\* Seeded fault: keeps waiting and does not ping again.
PingTimeout_no_retry ==
  /\ UnixStep("poll") /\ TimedOut
  /\ UNCHANGED <<uvars, pvars, line, hist>>

PingTimeout ==
  /\ UnixStep("poll") /\ TimedOut
  /\ upc' = "ping"
  /\ UNCHANGED <<expecting, utx, ret, uaddr, nops, pvars, line, hist>>

PingAnswered ==
  /\ UnixStep("poll") /\ toUnix # <<>>
  /\ upc' = "op" /\ expecting' = PI_READY
  /\ UNCHANGED <<utx, ret, uaddr, nops, pvars, line, hist>>

\* get_op, and expect_op's comparison of what it returns.
GetOp ==
  /\ UnixStep("op") /\ toUnix # <<>> /\ toUnix' = Tail(toUnix)
  /\ upc' = CASE Head(toUnix) = PI_PRINT_CHAR -> "char"
              [] Head(toUnix) # PI_PRINT_CHAR /\ expecting = PI_NULL -> "drain"
              [] expecting \notin {PI_NULL, PI_PRINT_CHAR} /\ expecting = Head(toUnix) ->
                   IF expecting = PI_READY THEN "main" ELSE "val"
              [] OTHER -> "panic"
  /\ UNCHANGED <<expecting, utx, ret, uaddr, nops, pvars, toPi, hist>>

\* Seeded fault: a character equal to the opcode is taken for the opcode.
GetChar_strips ==
  /\ UnixStep("char") /\ toUnix # <<>> /\ toUnix' = Tail(toUnix)
  /\ IF Head(toUnix) = PI_PRINT_CHAR
     THEN UNCHANGED <<printed, upc>>
     ELSE printed' = Append(printed, Head(toUnix)) /\ upc' = "op"
  /\ UNCHANGED <<expecting, utx, ret, uaddr, nops, pvars, toPi, piout, shadow>>

\* output("%c", get_uint8()), and back to the top of get_op's loop
GetChar ==
  /\ UnixStep("char") /\ toUnix # <<>> /\ toUnix' = Tail(toUnix)
  /\ printed' = Append(printed, Head(toUnix)) /\ upc' = "op"
  /\ UNCHANGED <<expecting, utx, ret, uaddr, nops, pvars, toPi, piout, shadow>>

\* The tty's read timeout: read_exact panics.
ReadTimeout ==
  /\ upc \in {"op", "char", "val"} /\ utx = <<>> /\ TimedOut
  /\ upc' = "panic"
  /\ UNCHANGED <<expecting, utx, ret, uaddr, nops, pvars, line, hist>>

put32(a, v) ==
  /\ UnixStep("main") /\ nops < MaxOps /\ nops' = nops + 1
  /\ utx' = <<PI_PUT32, a, v>> /\ shadow' = [shadow EXCEPT ![a] = v]
  /\ UNCHANGED <<upc, expecting, ret, uaddr, pvars, line, printed, piout>>

get32(a) ==
  /\ UnixStep("main") /\ nops < MaxOps /\ nops' = nops + 1
  /\ utx' = <<PI_GET32, a>> /\ uaddr' = a
  /\ upc' = "op" /\ expecting' = PI_GET32_REPLY
  /\ UNCHANGED <<ret, pvars, line, hist>>

GetVal ==
  /\ UnixStep("val") /\ toUnix # <<>> /\ toUnix' = Tail(toUnix)
  /\ ret' = Head(toUnix) /\ upc' = "got"
  /\ UNCHANGED <<expecting, utx, uaddr, nops, pvars, toPi, hist>>

GetReturn ==
  /\ UnixStep("got") /\ upc' = "main"
  /\ UNCHANGED <<expecting, utx, ret, uaddr, nops, pvars, line, hist>>

\* Seeded fault: exits without draining what the pi still sends.
clean_reboot_at_once ==
  /\ UnixStep("main")
  /\ utx' = <<PI_REBOOT>> /\ upc' = "exit" /\ expecting' = PI_NULL
  /\ UNCHANGED <<ret, uaddr, nops, pvars, line, hist>>

\* clean_reboot, which main also calls when notmain returns.
clean_reboot ==
  /\ UnixStep("main")
  /\ utx' = <<PI_REBOOT>> /\ upc' = "drain" /\ expecting' = PI_NULL
  /\ UNCHANGED <<ret, uaddr, nops, pvars, line, hist>>

DrainMore ==
  /\ UnixStep("drain") /\ toUnix # <<>> /\ upc' = "op"
  /\ UNCHANGED <<expecting, utx, ret, uaddr, nops, pvars, line, hist>>

DrainDone ==
  /\ UnixStep("drain") /\ TimedOut /\ upc' = "exit"
  /\ UNCHANGED <<expecting, utx, ret, uaddr, nops, pvars, line, hist>>

-----------------------------------------------------------------------------
(***************************************************************************)
(* The pi side.                                                            *)
(***************************************************************************)

PiWrite ==
  /\ ptx # <<>> /\ ptx' = Tail(ptx) /\ toUnix' = Append(toUnix, Head(ptx))
  /\ UNCHANGED <<uvars, ppc, paddr, mem, toPi, hist>>

PiBoot ==
  /\ ppc = "boot" /\ ppc' = "hello"
  /\ UNCHANGED <<uvars, ptx, paddr, mem, line, hist>>

\* get_byte, when the pi has written what it had to write.
PiGets(at) == ppc = at /\ ptx = <<>> /\ toPi # <<>> /\ toPi' = Tail(toPi)

PiHello ==
  /\ PiGets("hello")
  /\ IF Head(toPi) = PI_READY
     THEN /\ ppc' = "op" /\ ptx' = <<PI_READY>> \o net_putchar(Banner)
          /\ piout' = piout \o Banner
     ELSE ppc' = "panic" /\ UNCHANGED <<ptx, piout>>
  /\ UNCHANGED <<uvars, paddr, mem, toUnix, printed, shadow>>

PiOp ==
  /\ PiGets("op")
  /\ ppc' = CASE Head(toPi) = PI_REBOOT -> "reboot"
              [] Head(toPi) = PI_GET32  -> "get_addr"
              [] Head(toPi) = PI_PUT32  -> "put_addr"
              [] OTHER -> "panic"
  /\ IF Head(toPi) = PI_REBOOT
     THEN ptx' = net_putchar(Bye) /\ piout' = piout \o Bye
     ELSE UNCHANGED <<ptx, piout>>
  /\ UNCHANGED <<uvars, paddr, mem, toUnix, printed, shadow>>

PiGet32 ==
  /\ PiGets("get_addr") /\ ppc' = "op"
  /\ ptx' = <<PI_GET32_REPLY, mem[Head(toPi)]>>
  /\ UNCHANGED <<uvars, paddr, mem, toUnix, hist>>

PiPutAddr ==
  /\ PiGets("put_addr") /\ ppc' = "put_val" /\ paddr' = Head(toPi)
  /\ UNCHANGED <<uvars, ptx, mem, toUnix, hist>>

\* Seeded fault: reads value and address in the wrong order.
PiPutVal_swapped ==
  /\ PiGets("put_val") /\ ppc' = "op" /\ mem' = [mem EXCEPT ![Head(toPi)] = paddr]
  /\ UNCHANGED <<uvars, ptx, paddr, toUnix, hist>>

PiPutVal ==
  /\ PiGets("put_val") /\ ppc' = "op" /\ mem' = [mem EXCEPT ![paddr] = Head(toPi)]
  /\ UNCHANGED <<uvars, ptx, paddr, toUnix, hist>>

\* delay_ms(10), clean_reboot
PiReboot ==
  /\ ppc = "reboot" /\ ptx = <<>> /\ ppc' = "off"
  /\ UNCHANGED <<uvars, ptx, paddr, mem, line, hist>>

\* The boot loader comes up and asks for a program.
wait_for_data ==
  /\ ppc = "off" /\ ppc' = "bootloader" /\ ptx' = GET_PROG_INFO
  /\ UNCHANGED <<uvars, paddr, mem, line, hist>>

UnixNext == UNCHANGED patient /\
  \/ UnixWrite \/ Ping \/ PingTimeout \/ PingAnswered
  \/ GetOp \/ GetChar \/ ReadTimeout
  \/ \E a \in Addr, v \in Val : put32(a, v)
  \/ \E a \in Addr : get32(a)
  \/ GetVal \/ GetReturn \/ clean_reboot \/ DrainMore \/ DrainDone

PiNext == UNCHANGED patient /\
  \/ PiWrite \/ PiBoot \/ PiHello \/ PiOp
  \/ PiGet32 \/ PiPutAddr \/ PiPutVal \/ PiReboot \/ wait_for_data

Done == upc \in {"exit", "panic"} /\ UNCHANGED vars

Next == UnixNext \/ PiNext \/ Done

Spec == Init /\ [][Next]_vars

\* Both programs keep running and the program ends by calling clean_reboot.
FairSpec == Spec /\ WF_vars(UnixNext) /\ WF_vars(PiNext)

-----------------------------------------------------------------------------
\* The values each variable may take.
TypeOK ==
  /\ upc \in {"ping", "poll", "op", "char", "val", "got", "main", "drain", "exit", "panic"}
  /\ ppc \in {"boot", "hello", "op", "get_addr", "put_addr", "put_val",
              "reboot", "off", "bootloader", "panic"}
  /\ expecting \in {PI_NULL, PI_READY, PI_GET32_REPLY}
  /\ {utx, ptx, toPi, toUnix, printed, piout} \subseteq Seq(Word)
  /\ ret \in Word /\ uaddr \in Word /\ paddr \in Word /\ nops \in 0..MaxOps
  /\ mem \in [Word -> Word] /\ shadow \in [Word -> Word]

\* get32 returns what the program's last put32 to that address wrote, although
\* put32 does not wait for the pi.
GetReturnsLastPut == upc = "got" => ret = shadow[uaddr]

\* The pi's output appears on the laptop in the order it was produced, with no
\* character lost or taken for an opcode (get_op's rule for PI_PRINT_CHAR).
OutputInOrder ==
  /\ Len(printed) <= Len(piout)
  /\ \A i \in 1..Len(printed) : printed[i] = piout[i]

\* With timeouts long enough, a program that exits leaves the pi with all its
\* writes done and all the pi's output printed.
ExitComplete == patient /\ upc = "exit" => mem = shadow /\ printed = piout

\* With timeouts long enough, neither side gets a message it does not expect or
\* waits for one that does not come.
NoPanics == patient => upc # "panic" /\ ppc # "panic"

\* With timeouts long enough, the program gets through the handshake and exits.
Finishes == patient ~> upc = "exit"

\* With timeouts long enough, no run of the program ends in a panic of either
\* side or with writes or output still on the line.
ExitsClean == TypeOK /\ NoPanics /\ ExitComplete

=============================================================================
