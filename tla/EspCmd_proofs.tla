---------------------------- MODULE EspCmd_proofs ----------------------------
(***************************************************************************)
(* Proofs about the commands of the ESP8266: for any number of rounds and of *)
(* stale, unasked and busy lines the host takes no line for the end of a     *)
(* command but that command's own, and set-up gets through.                  *)
(*                                                                         *)
(* Both programs are paths in one automaton, whose states say which command  *)
(* is being answered and which line of the answer the host waits for.        *)
(***************************************************************************)
EXTENDS EspCmd, SequenceTheorems, TLAPS

\* No line of an earlier session echoes the first command, and no notice reads
\* like a line of the answers the host waits for once its program is active.
ToldApart ==
  /\ "AT+RST" \notin Stale
  /\ Notices \cap {"AT+CIPSEND", "OK", ">", "Recv", "SEND OK"} = {}

\* The device refuses nothing before the program is active.
Willing == Refuse \subseteq {"AT+CIPSEND", "data"}

-----------------------------------------------------------------------------
(***************************************************************************)
(* The automaton.                                                          *)
(***************************************************************************)
Plain == {"AT+CWSAP", "AT+CWMODE", "AT+CIPMUX", "AT+CIPSERVER", "AT+CIPSTO"}
Wordy == {"AT+CIFSR", "AT+CIPSTO?", "AT+GMR"}
Resets == {"AT+RST", "AT+RESTORE"}
Commands == Plain \cup Wordy \cup Resets \cup {"AT+CWJAP", "AT+CIPSTART", "AT+CIPSEND", "data"}

Stages == {"start", "first", "setup", "dialled", "active", "sending"}

\* Which commands a stage issues.
Issues(st, c) ==
  \/ st = "first" /\ c = "AT+RST"
  \/ st = "setup" /\ c \in Commands \ {"AT+CIPSEND", "data"}
  \/ st = "active" /\ c = "AT+CIPSEND"
  \/ st = "sending" /\ c = "data"

\* The calls that wait for lines of the answer to a command, and the texts they
\* wait for.
WaitsOf(c) ==
  CASE c \in Resets -> {"ack", "resp", "drain"}
    [] c = "AT+CIPSTART" -> {"ack", "respv", "resp"}
    [] c = "AT+CIPSEND" -> {"ack", "resp", "tok"}
    [] c = "data" -> {"respv", "resp"}
    [] OTHER -> {"ack", "resp"}
Awaits(c, w) ==
  CASE w = "ack" -> c
    [] w = "resp" -> IF c = "data" THEN "SEND OK" ELSE "OK"
    [] w = "respv" -> IF c = "data" THEN "Recv" ELSE "CONNECT"
    [] w = "drain" -> "ready"
    [] OTHER -> ">"

S(st, c, w) == [st |-> st, cmd |-> c, wait |-> w]
F(st) == S(st, "none", "free")

States == {F(st) : st \in Stages}
          \cup {x \in [st : Stages, cmd : Commands, wait : {"ack", "resp", "respv", "drain", "tok"}] :
                  Issues(x.st, x.cmd) /\ x.wait \in WaitsOf(x.cmd)}

\* Where a command leads, and what follows a line that was waited for.
Leads(c) ==
  CASE c = "AT+CIPSTART" -> F("dialled")
    [] c = "AT+CIPSEND" -> F("sending")
    [] c = "data" -> F("active")
    [] OTHER -> F("setup")
NextWait(x) ==
  CASE x.wait = "ack" -> S(x.st, x.cmd, IF x.cmd = "AT+CIPSTART" THEN "respv" ELSE "resp")
    [] x.wait = "respv" -> S(x.st, x.cmd, "resp")
    [] x.wait = "resp" /\ x.cmd \in Resets -> S(x.st, x.cmd, "drain")
    [] x.wait = "resp" /\ x.cmd = "AT+CIPSEND" -> S(x.st, x.cmd, "tok")
    [] OTHER -> Leads(x.cmd)

\* Commands whose answer has lines before "OK".
Chatty == Wordy \cup {"AT+CWJAP"}

\* The instructions that lead from a state to another.
Edge(x, ins, y) ==
  \/ x = F("start") /\ ins.op = "eat" /\ y = F("first")
  \/ x = F("active") /\ ins.op = "conn" /\ ins.a = "CONNECT" /\ y = x
  \/ x = F("active") /\ ins.op = "recv" /\ ins.a = "+IPD" /\ y = x
  \/ ins.op = "active" /\ ins.a = role /\ y = F("active")
     /\ x = F(IF role = "client" THEN "dialled" ELSE "setup")
  \/ x = F(x.st) /\ ins.op = "puts" /\ Issues(x.st, ins.a)
     /\ y = S(x.st, ins.a, IF ins.a = "data" THEN "respv" ELSE "ack")
  \/ x.wait # "free" /\ ins.op = x.wait /\ ins.a = Awaits(x.cmd, x.wait) /\ y = NextWait(x)
     /\ (x.wait = "resp" /\ x.cmd \in Chatty => ins.extra)

Instr == [op : {"eat", "conn", "recv", "active", "puts", "ack", "resp", "respv", "drain", "tok"},
          a : Commands \cup {"none", "CONNECT", "+IPD", "client", "server", "OK", "SEND OK", "Recv", "ready", ">"},
          extra : BOOLEAN]

\* p leads from x to y.
Path(p, x, y) ==
  /\ p \in Seq(Instr)
  /\ \E lab \in [1 .. Len(p) + 1 -> States] :
       /\ lab[1] = x /\ lab[Len(p) + 1] = y
       /\ \A k \in 1 .. Len(p) : Edge(lab[k], p[k], lab[k + 1])

-----------------------------------------------------------------------------
\* Places of a sequence, and what lies there.
LEMMA SeqFacts ==
    \A T : \A q \in Seq(T) :
      /\ Len(q) \in Nat /\ DOMAIN q = 1 .. Len(q) /\ (\A i \in 1 .. Len(q) : q[i] \in T)
      /\ (q = <<>> <=> Len(q) = 0)
BY LenProperties, ElementOfSeq, EmptySeq

\* The head and the rest of a sequence that is not empty.
LEMMA TailFacts ==
    ASSUME NEW T, NEW q \in Seq(T), q # <<>>
    PROVE  /\ Head(q) = q[1] /\ Head(q) \in T /\ Len(q) >= 1
           /\ Tail(q) \in Seq(T) /\ Len(Tail(q)) = Len(q) - 1
           /\ \A i \in 1 .. Len(q) - 1 : Tail(q)[i] = q[i + 1]
<1>1. Len(q) \in Nat /\ Len(q) # 0 /\ \A i \in 1 .. Len(q) : q[i] \in T
  BY SeqFacts
<1>2. Head(q) \in T /\ Tail(q) \in Seq(T) /\ Head(q) = q[1] /\ Len(Tail(q)) = Len(q) - 1
  BY HeadTailProperties
<1>3. \A i \in 1 .. Len(Tail(q)) : Tail(q)[i] = q[i + 1]
  BY HeadTailProperties
<1> QED BY <1>1, <1>2, <1>3

\* One instruction is one edge.
LEMMA One ==
    ASSUME NEW x \in States, NEW y \in States, NEW op, NEW a, NEW e,
           [op |-> op, a |-> a, extra |-> e] \in Instr, Edge(x, [op |-> op, a |-> a, extra |-> e], y)
    PROVE  Path(I(op, a, e), x, y)
<1> DEFINE ins == [op |-> op, a |-> a, extra |-> e]
           lab == [k \in 1 .. 2 |-> IF k = 1 THEN x ELSE y]
<1>1. I(op, a, e) = <<ins>>
  BY DEF I
<1> HIDE DEF ins
<1>2. ins \in Instr /\ Edge(x, ins, y)
  BY DEF ins
<1>3. <<ins>> \in Seq(Instr) /\ Len(<<ins>>) = 1 /\ <<ins>>[1] = ins
  BY <1>2
<1>4. lab \in [1 .. 1 + 1 -> States] /\ lab[1] = x /\ lab[1 + 1] = y
  OBVIOUS
<1> HIDE DEF lab
<1>5. \A k \in 1 .. 1 : k = 1
  OBVIOUS
<1>6. \A k \in 1 .. Len(<<ins>>) : Edge(lab[k], <<ins>>[k], lab[k + 1])
  BY <1>2, <1>3, <1>4, <1>5
<1> QED BY <1>1, <1>3, <1>4, <1>6 DEF Path

\* Paths are joined.
LEMMA Join ==
    ASSUME NEW p, NEW q, NEW x, NEW y, NEW z, Path(p, x, y), Path(q, y, z)
    PROVE  Path(p \o q, x, z)
<1>1. PICK f \in [1 .. Len(p) + 1 -> States] :
        f[1] = x /\ f[Len(p) + 1] = y /\ \A k \in 1 .. Len(p) : Edge(f[k], p[k], f[k + 1])
  BY DEF Path
<1>2. PICK g \in [1 .. Len(q) + 1 -> States] :
        g[1] = y /\ g[Len(q) + 1] = z /\ \A k \in 1 .. Len(q) : Edge(g[k], q[k], g[k + 1])
  BY DEF Path
<1> DEFINE m == Len(p)
           n == Len(q)
           lab == [k \in 1 .. m + n + 1 |-> IF k <= m THEN f[k] ELSE g[k - m]]
<1>3. m \in Nat /\ n \in Nat /\ p \in Seq(Instr) /\ q \in Seq(Instr)
  BY SeqFacts DEF Path
<1>4. /\ p \o q \in Seq(Instr) /\ Len(p \o q) = m + n
      /\ \A k \in 1 .. m + n : (p \o q)[k] = IF k <= m THEN p[k] ELSE q[k - m]
  BY <1>3, ConcatProperties
<1> DEFINE pq == p \o q
<1>5. \A k \in 1 .. m + 1 : f[k] \in States
  BY <1>1
<1>6. \A k \in 1 .. n + 1 : g[k] \in States
  BY <1>2
<1>7. (\A k \in 1 .. m : Edge(f[k], p[k], f[k + 1])) /\ \A k \in 1 .. n : Edge(g[k], q[k], g[k + 1])
  BY <1>1, <1>2
<1>8. f[1] = x /\ f[m + 1] = y /\ g[1] = y /\ g[n + 1] = z
  BY <1>1, <1>2
<1>9. pq \in Seq(Instr) /\ Len(pq) = m + n /\ \A k \in 1 .. m + n : pq[k] = IF k <= m THEN p[k] ELSE q[k - m]
  BY <1>4
<1> HIDE DEF m, n, pq
<1>10. lab \in [1 .. m + n + 1 -> States]
  <2>1. \A k \in 1 .. m + n + 1 : (IF k <= m THEN f[k] ELSE g[k - m]) \in States
    BY <1>3, <1>5, <1>6
  <2> QED BY <2>1
<1>11. \A k \in 1 .. m + n + 1 : lab[k] = IF k <= m THEN f[k] ELSE g[k - m]
  OBVIOUS
<1> HIDE DEF lab
<1>12. lab[1] = x
  BY <1>3, <1>8, <1>11
<1>13. lab[m + n + 1] = z
  <2>1. ~(m + n + 1 <= m) /\ (m + n + 1) - m = n + 1
    BY <1>3
  <2> QED BY <1>3, <1>8, <1>11, <2>1
<1>14. \A k \in 1 .. m + n : Edge(lab[k], pq[k], lab[k + 1])
  <2> SUFFICES ASSUME NEW k \in 1 .. m + n PROVE Edge(lab[k], pq[k], lab[k + 1])
    OBVIOUS
  <2>1. CASE k < m
    <3>1. k \in 1 .. m /\ k + 1 <= m /\ k <= m
      BY <1>3, <2>1
    <3>2. lab[k] = f[k] /\ lab[k + 1] = f[k + 1] /\ pq[k] = p[k]
      BY <1>3, <1>9, <1>11, <3>1
    <3> QED BY <1>7, <3>1, <3>2
  <2>2. CASE k = m
    <3>1. k \in 1 .. m /\ ~(k + 1 <= m) /\ (k + 1) - m = 1
      BY <1>3, <2>2
    <3>2. lab[k] = f[k] /\ lab[k + 1] = f[k + 1] /\ pq[k] = p[k]
      BY <1>3, <1>8, <1>9, <1>11, <2>2, <3>1
    <3> QED BY <1>7, <3>1, <3>2
  <2>3. CASE k > m
    <3>1. k - m \in 1 .. n /\ ~(k <= m) /\ ~(k + 1 <= m) /\ (k + 1) - m = (k - m) + 1 /\ k + 1 \in 1 .. m + n + 1
      BY <1>3, <2>3
    <3>2. lab[k] = g[k - m] /\ lab[k + 1] = g[(k - m) + 1] /\ pq[k] = q[k - m]
      BY <1>3, <1>9, <1>11, <3>1
    <3> QED BY <1>7, <3>1, <3>2
  <2> QED BY <1>3, <2>1, <2>2, <2>3
<1>15. Path(pq, x, z)
  BY <1>9, <1>10, <1>12, <1>13, <1>14 DEF Path
<1> QED BY <1>15 DEF pq

\* A body of eight instructions that leads back is repeated.
LEMMA Repeat ==
    ASSUME NEW p, NEW x, Path(p, x, x), Len(p) = 8
    PROVE  Path(Loop(p), x, x)
<1>1. PICK f \in [1 .. Len(p) + 1 -> States] :
        f[1] = x /\ f[Len(p) + 1] = x /\ \A k \in 1 .. Len(p) : Edge(f[k], p[k], f[k + 1])
  BY DEF Path
<1>2. /\ p \in Seq(Instr) /\ \A k \in 1 .. 8 : p[k] \in Instr
      /\ f \in [1 .. 9 -> States] /\ f[1] = x /\ f[9] = x
      /\ \A k \in 1 .. 8 : Edge(f[k], p[k], f[k + 1])
  <2>1. p \in Seq(Instr)
    BY DEF Path
  <2>2. \A k \in 1 .. Len(p) : p[k] \in Instr
    BY <2>1, SeqFacts
  <2> QED BY <1>1, <2>1, <2>2
<1> DEFINE n == Rounds * 8
           body == [i \in 1 .. n |-> p[((i - 1) % 8) + 1]]
           lab == [i \in 1 .. n + 1 |-> f[((i - 1) % 8) + 1]]
<1>3. Loop(p) = body
  BY DEF Loop
<1>4. n \in Nat /\ n % 8 = 0
  BY EspAssumption
<1> HIDE DEF n
<1>5. \A i \in 1 .. n + 1 : ((i - 1) % 8) + 1 \in 1 .. 8
  BY <1>4
<1>6. body \in Seq(Instr) /\ Len(body) = n
  <2>1. \A i \in 1 .. n : p[((i - 1) % 8) + 1] \in Instr
    BY <1>2, <1>4, <1>5
  <2>2. body \in [1 .. n -> Instr]
    BY <2>1
  <2>3. body \in Seq(Instr)
    BY <1>4, <2>2, IsASeq
  <2> QED BY <1>4, <2>2, <2>3, LenProperties
<1>7. lab \in [1 .. n + 1 -> States]
  <2>1. \A i \in 1 .. n + 1 : f[((i - 1) % 8) + 1] \in States
    BY <1>2, <1>5
  <2> QED BY <2>1
<1>8. lab[1] = x /\ lab[n + 1] = x
  <2>1. ((1 - 1) % 8) + 1 = 1 /\ (((n + 1) - 1) % 8) + 1 = 1 /\ 1 \in 1 .. n + 1 /\ n + 1 \in 1 .. n + 1
    BY <1>4
  <2> QED BY <1>2, <2>1
<1>9. \A i \in 1 .. n : Edge(lab[i], body[i], lab[i + 1])
  <2> SUFFICES ASSUME NEW i \in 1 .. n PROVE Edge(lab[i], body[i], lab[i + 1])
    OBVIOUS
  <2> DEFINE r == (i - 1) % 8
  <2>1. r \in 0 .. 7 /\ i \in 1 .. n + 1 /\ i + 1 \in 1 .. n + 1 /\ (i + 1) - 1 = i /\ i \in Nat
        /\ i % 8 = IF r = 7 THEN 0 ELSE r + 1
    BY <1>4
  <2>2. lab[i] = f[r + 1] /\ body[i] = p[r + 1] /\ lab[i + 1] = f[(i % 8) + 1]
    BY <2>1
  <2> HIDE DEF r, lab, body
  <2>3. f[(i % 8) + 1] = f[(r + 1) + 1]
    <3>1. CASE r = 7
      <4>1. (i % 8) + 1 = 1 /\ (r + 1) + 1 = 9
        BY <2>1, <3>1
      <4> QED BY <1>2, <4>1
    <3>2. CASE r # 7
      <4>1. (i % 8) + 1 = (r + 1) + 1
        BY <2>1, <3>2
      <4> QED BY <4>1
    <3> QED BY <3>1, <3>2
  <2>4. r + 1 \in 1 .. 8
    BY <2>1
  <2> QED BY <1>2, <2>2, <2>3, <2>4
<1> HIDE DEF lab, body
<1> QED BY <1>3, <1>6, <1>7, <1>8, <1>9 DEF Path

\* The rest of a path is a path.
LEMMA Walk ==
    ASSUME NEW p, NEW x, NEW z, Path(p, x, z), p # <<>>
    PROVE  \E y \in States : x \in States /\ Edge(x, Head(p), y) /\ Path(Tail(p), y, z)
<1>1. PICK f \in [1 .. Len(p) + 1 -> States] :
        f[1] = x /\ f[Len(p) + 1] = z /\ \A k \in 1 .. Len(p) : Edge(f[k], p[k], f[k + 1])
  BY DEF Path
<1> DEFINE n == Len(p)
           t == Tail(p)
           g == [k \in 1 .. n |-> f[k + 1]]
<1>2. p \in Seq(Instr) /\ n \in Nat /\ n >= 1 /\ Head(p) = p[1]
      /\ t \in Seq(Instr) /\ Len(t) = n - 1 /\ \A i \in 1 .. n - 1 : t[i] = p[i + 1]
  BY TailFacts, SeqFacts DEF Path
<1>3. /\ f \in [1 .. n + 1 -> States] /\ f[1] = x /\ f[n + 1] = z
      /\ \A k \in 1 .. n : Edge(f[k], p[k], f[k + 1])
  BY <1>1
<1> HIDE DEF n, t
<1>4. g \in [1 .. n -> States] /\ (n - 1) + 1 = n /\ g[1] = f[2] /\ g[n] = z
  BY <1>2, <1>3
<1>5. \A k \in 1 .. n - 1 : Edge(g[k], t[k], g[k + 1])
  <2> SUFFICES ASSUME NEW k \in 1 .. n - 1 PROVE Edge(g[k], t[k], g[k + 1])
    OBVIOUS
  <2>1. k \in 1 .. n /\ k + 1 \in 1 .. n
    BY <1>2
  <2>2. g[k] = f[k + 1] /\ g[k + 1] = f[(k + 1) + 1] /\ t[k] = p[k + 1]
    BY <1>2, <2>1
  <2>3. Edge(f[k + 1], p[k + 1], f[(k + 1) + 1])
    BY <1>3, <2>1
  <2> QED BY <2>2, <2>3
<1>6. Path(t, g[1], z)
  <2> HIDE DEF g
  <2>1. g \in [1 .. Len(t) + 1 -> States] /\ g[Len(t) + 1] = z
    BY <1>2, <1>4
  <2>2. \A k \in 1 .. Len(t) : Edge(g[k], t[k], g[k + 1])
    BY <1>2, <1>5
  <2> QED BY <1>2, <2>1, <2>2 DEF Path
<1>7. Edge(x, Head(p), f[2]) /\ f[2] \in States /\ x \in States
  <2>1. 1 \in 1 .. n /\ 1 + 1 = 2 /\ 2 \in 1 .. n + 1 /\ 1 \in 1 .. n + 1
    BY <1>2
  <2> QED BY <1>2, <1>3, <2>1
<1> QED BY <1>4, <1>6, <1>7 DEF t

-----------------------------------------------------------------------------
(***************************************************************************)
(* Both programs are paths.                                                *)
(***************************************************************************)
\* A command that is issued in a stage has its waiting states.
LEMMA Waiting ==
    ASSUME NEW st \in Stages, NEW c \in Commands, Issues(st, c), NEW w \in WaitsOf(c)
    PROVE  S(st, c, w) \in States
BY DEF S, States, WaitsOf, Resets, Commands

\* So has a stage its free state.
LEMMA Free == \A st \in Stages : F(st) \in States
BY DEF States

\* do_at_cmd up to the line that ends it.
LEMMA AtCmd ==
    ASSUME NEW st \in Stages, NEW c \in Commands, Issues(st, c), c \notin {"AT+CIPSTART", "data"},
           NEW e \in BOOLEAN, c \in Chatty => e, NEW y \in States, y = NextWait(S(st, c, "resp"))
    PROVE  Path(do_at_cmd(c, "OK", e), F(st), y)
<1>1. F(st) \in States /\ S(st, c, "ack") \in States /\ S(st, c, "resp") \in States
  <2>1. "ack" \in WaitsOf(c) /\ "resp" \in WaitsOf(c)
    BY DEF WaitsOf, Resets
  <2> QED BY <2>1, Waiting, Free
<1>2. Path(I("puts", c, FALSE), F(st), S(st, c, "ack"))
  <2>1. [op |-> "puts", a |-> c, extra |-> FALSE] \in Instr
    BY DEF Instr
  <2>2. Edge(F(st), [op |-> "puts", a |-> c, extra |-> FALSE], S(st, c, "ack"))
    BY DEF Edge, F, S
  <2> QED BY <1>1, <2>1, <2>2, One
<1>3. Path(I("ack", c, FALSE), S(st, c, "ack"), S(st, c, "resp"))
  <2>1. [op |-> "ack", a |-> c, extra |-> FALSE] \in Instr
    BY DEF Instr
  <2>2. Edge(S(st, c, "ack"), [op |-> "ack", a |-> c, extra |-> FALSE], S(st, c, "resp"))
    BY DEF Edge, S, Awaits, NextWait
  <2> QED BY <1>1, <2>1, <2>2, One
<1>4. Path(I("resp", "OK", e), S(st, c, "resp"), y)
  <2>1. [op |-> "resp", a |-> "OK", extra |-> e] \in Instr
    BY DEF Instr
  <2>2. Edge(S(st, c, "resp"), [op |-> "resp", a |-> "OK", extra |-> e], y)
    BY DEF Edge, S, Awaits
  <2> QED BY <1>1, <2>1, <2>2, One
<1> QED BY <1>2, <1>3, <1>4, Join DEF do_at_cmd

\* A command of the set-up whose answer ends with "OK".
LEMMA SetupCmd ==
    ASSUME NEW c \in Plain \cup Chatty, NEW e \in BOOLEAN, c \in Chatty => e
    PROVE  Path(do_at_cmd(c, "OK", e), F("setup"), F("setup"))
<1>1. /\ c \in Commands /\ Issues("setup", c) /\ c \notin {"AT+CIPSTART", "data"}
      /\ NextWait(S("setup", c, "resp")) = F("setup") /\ "setup" \in Stages
  BY DEF Plain, Chatty, Wordy, Commands, Issues, NextWait, S, Leads, Resets, Stages
<1>2. F("setup") \in States
  BY <1>1, Free
<1> QED BY <1>1, <1>2, AtCmd

\* A reset: the answer ends with "ready".
LEMMA ResetCmd ==
    ASSUME NEW c \in Resets, NEW st \in {"first", "setup"}, Issues(st, c)
    PROVE  /\ Path(at_cmd_extra(c), F(st), S(st, c, "drain"))
           /\ Path(at_drain, S(st, c, "drain"), F("setup"))
<1>1. /\ c \in Commands /\ st \in Stages /\ c \notin {"AT+CIPSTART", "data"}
      /\ NextWait(S(st, c, "resp")) = S(st, c, "drain") /\ NextWait(S(st, c, "drain")) = F("setup")
      /\ "drain" \in WaitsOf(c) /\ "setup" \in Stages
  BY DEF Commands, NextWait, S, Leads, Resets, Stages, WaitsOf
<1>2. S(st, c, "drain") \in States /\ F("setup") \in States
  BY <1>1, Waiting, Free
<1>3. Path(do_at_cmd(c, "OK", TRUE), F(st), S(st, c, "drain"))
  BY <1>1, <1>2, AtCmd
<1>4. [op |-> "drain", a |-> "ready", extra |-> FALSE] \in Instr
  BY DEF Instr
<1>5. Edge(S(st, c, "drain"), [op |-> "drain", a |-> "ready", extra |-> FALSE], F("setup"))
  BY <1>1 DEF Edge, S, Awaits
<1> QED BY <1>2, <1>3, <1>4, <1>5, One DEF at_cmd_extra, at_drain

\* esp_hard_reset.
LEMMA HardReset == Path(esp_hard_reset, F("start"), F("setup"))
<1>1. Path(I("eat", "none", FALSE), F("start"), F("first"))
  <2>1. [op |-> "eat", a |-> "none", extra |-> FALSE] \in Instr
    BY DEF Instr
  <2>2. Edge(F("start"), [op |-> "eat", a |-> "none", extra |-> FALSE], F("first"))
    BY DEF Edge
  <2>3. F("start") \in States /\ F("first") \in States
    BY Free DEF Stages
  <2> QED BY <2>1, <2>2, <2>3, One
<1>2. /\ Path(at_cmd_extra("AT+RST"), F("first"), S("first", "AT+RST", "drain"))
      /\ Path(at_drain, S("first", "AT+RST", "drain"), F("setup"))
  BY ResetCmd DEF Resets, Issues
<1>3. /\ Path(at_cmd_extra("AT+RESTORE"), F("setup"), S("setup", "AT+RESTORE", "drain"))
      /\ Path(at_drain, S("setup", "AT+RESTORE", "drain"), F("setup"))
  BY ResetCmd DEF Resets, Issues, Commands
<1>4. /\ Path(at_cmd_extra("AT+RST"), F("setup"), S("setup", "AT+RST", "drain"))
      /\ Path(at_drain, S("setup", "AT+RST", "drain"), F("setup"))
  BY ResetCmd DEF Resets, Issues, Commands
<1> DEFINE p1 == I("eat", "none", FALSE) \o at_cmd_extra("AT+RST")
           p2 == p1 \o at_drain
           p3 == p2 \o at_cmd_extra("AT+RESTORE")
           p4 == p3 \o at_drain
           p5 == p4 \o at_cmd_extra("AT+RST")
<1>5. esp_hard_reset = p5 \o at_drain
  BY DEF esp_hard_reset
<1>6. Path(p1, F("start"), S("first", "AT+RST", "drain"))
  BY <1>1, <1>2, Join
<1> HIDE DEF p1
<1>7. Path(p2, F("start"), F("setup"))
  BY <1>2, <1>6, Join
<1> HIDE DEF p2
<1>8. Path(p3, F("start"), S("setup", "AT+RESTORE", "drain"))
  BY <1>3, <1>7, Join
<1> HIDE DEF p3
<1>9. Path(p4, F("start"), F("setup"))
  BY <1>3, <1>8, Join
<1> HIDE DEF p4
<1>10. Path(p5, F("start"), S("setup", "AT+RST", "drain"))
  BY <1>4, <1>9, Join
<1> HIDE DEF p5
<1> QED BY <1>4, <1>5, <1>10, Join

\* Both ways into a network.
LEMMA Wifi == /\ Path(esp_setup_wifi, F("setup"), F("setup"))
              /\ Path(esp_connect_to_wifi, F("setup"), F("setup"))
<1>1. \A c \in Plain : Path(at_cmd(c), F("setup"), F("setup"))
  BY SetupCmd DEF at_cmd, Chatty, Wordy, Plain
<1>2. \A c \in Plain \cup Chatty : Path(at_cmd_extra(c), F("setup"), F("setup"))
  BY SetupCmd DEF at_cmd_extra
<1>3. /\ Path(at_cmd("AT+CWSAP"), F("setup"), F("setup")) /\ Path(at_cmd("AT+CWMODE"), F("setup"), F("setup"))
      /\ Path(at_cmd_extra("AT+CIFSR"), F("setup"), F("setup")) /\ Path(at_cmd_extra("AT+CWJAP"), F("setup"), F("setup"))
  BY <1>1, <1>2 DEF Plain, Chatty, Wordy
<1>4. Path(at_cmd("AT+CWSAP") \o at_cmd("AT+CWMODE"), F("setup"), F("setup"))
  BY <1>3, Join
<1> QED BY <1>3, <1>4, Join DEF esp_setup_wifi, esp_connect_to_wifi

\* esp_start_tcp_client.
LEMMA TcpClient == role = "client" => Path(esp_start_tcp_client, F("setup"), F("active"))
<1> SUFFICES ASSUME role = "client" PROVE Path(esp_start_tcp_client, F("setup"), F("active"))
  OBVIOUS
<1> DEFINE c == "AT+CIPSTART"
<1>1. Path(at_cmd("AT+CIPMUX"), F("setup"), F("setup"))
  BY SetupCmd DEF at_cmd, Chatty, Wordy, Plain
<1>2. /\ F("setup") \in States /\ F("dialled") \in States /\ F("active") \in States
      /\ S("setup", c, "ack") \in States /\ S("setup", c, "respv") \in States /\ S("setup", c, "resp") \in States
  <2>1. c \in Commands /\ Issues("setup", c) /\ WaitsOf(c) = {"ack", "respv", "resp"} /\ "setup" \in Stages
    BY DEF Commands, Issues, WaitsOf, Resets, Stages
  <2>2. /\ S("setup", c, "ack") \in States /\ S("setup", c, "respv") \in States /\ S("setup", c, "resp") \in States
    BY <2>1, Waiting
  <2> QED BY <2>2, Free DEF Stages
<1>3. Path(I("puts", c, FALSE), F("setup"), S("setup", c, "ack"))
  <2>1. [op |-> "puts", a |-> c, extra |-> FALSE] \in Instr
    BY DEF Instr, Commands
  <2>2. Edge(F("setup"), [op |-> "puts", a |-> c, extra |-> FALSE], S("setup", c, "ack"))
    BY DEF Edge, F, S, Issues, Commands
  <2> QED BY <1>2, <2>1, <2>2, One
<1>4. Path(I("ack", c, FALSE), S("setup", c, "ack"), S("setup", c, "respv"))
  <2>1. [op |-> "ack", a |-> c, extra |-> FALSE] \in Instr
    BY DEF Instr, Commands
  <2>2. Edge(S("setup", c, "ack"), [op |-> "ack", a |-> c, extra |-> FALSE], S("setup", c, "respv"))
    BY DEF Edge, S, Awaits, NextWait
  <2> QED BY <1>2, <2>1, <2>2, One
<1>5. Path(I("respv", "CONNECT", FALSE), S("setup", c, "respv"), S("setup", c, "resp"))
  <2>1. [op |-> "respv", a |-> "CONNECT", extra |-> FALSE] \in Instr
    BY DEF Instr
  <2>2. Edge(S("setup", c, "respv"), [op |-> "respv", a |-> "CONNECT", extra |-> FALSE], S("setup", c, "resp"))
    BY DEF Edge, S, Awaits, NextWait
  <2> QED BY <1>2, <2>1, <2>2, One
<1>6. Path(I("resp", "OK", FALSE), S("setup", c, "resp"), F("dialled"))
  <2>1. [op |-> "resp", a |-> "OK", extra |-> FALSE] \in Instr
    BY DEF Instr
  <2>2. Edge(S("setup", c, "resp"), [op |-> "resp", a |-> "OK", extra |-> FALSE], F("dialled"))
    BY DEF Edge, S, Awaits, NextWait, Leads, Resets, Chatty, Wordy
  <2> QED BY <1>2, <2>1, <2>2, One
<1>7. Path(I("active", "client", FALSE), F("dialled"), F("active"))
  <2>1. [op |-> "active", a |-> "client", extra |-> FALSE] \in Instr
    BY DEF Instr
  <2>2. Edge(F("dialled"), [op |-> "active", a |-> "client", extra |-> FALSE], F("active"))
    BY DEF Edge
  <2> QED BY <1>2, <2>1, <2>2, One
<1>8. Path(issue_tcp_connect, F("setup"), F("dialled"))
  BY <1>3, <1>4, <1>5, <1>6, Join DEF issue_tcp_connect
<1>9. Path(at_cmd("AT+CIPMUX") \o issue_tcp_connect, F("setup"), F("dialled"))
  BY <1>1, <1>8, Join
<1> QED BY <1>7, <1>9, Join DEF esp_start_tcp_client

\* esp_start_tcp_server.
LEMMA TcpServer == role = "server" => Path(esp_start_tcp_server, F("setup"), F("active"))
<1> SUFFICES ASSUME role = "server" PROVE Path(esp_start_tcp_server, F("setup"), F("active"))
  OBVIOUS
<1>1. \A c \in Plain : Path(at_cmd(c), F("setup"), F("setup"))
  BY SetupCmd DEF at_cmd, Chatty, Wordy, Plain
<1>2. \A c \in Plain \cup Chatty : Path(at_cmd_extra(c), F("setup"), F("setup"))
  BY SetupCmd DEF at_cmd_extra
<1>3. /\ "AT+CWMODE" \in Plain /\ "AT+CIPMUX" \in Plain /\ "AT+CIPSERVER" \in Plain
      /\ {"AT+CIPSTO?", "AT+CIPSTO", "AT+CIFSR", "AT+GMR"} \subseteq Plain \cup Chatty
  BY DEF Plain, Chatty, Wordy
<1>4. Path(I("active", "server", FALSE), F("setup"), F("active"))
  <2>1. [op |-> "active", a |-> "server", extra |-> FALSE] \in Instr
    BY DEF Instr
  <2>2. Edge(F("setup"), [op |-> "active", a |-> "server", extra |-> FALSE], F("active"))
    BY DEF Edge
  <2>3. F("setup") \in States /\ F("active") \in States
    BY Free DEF Stages
  <2> QED BY <2>1, <2>2, <2>3, One
<1> DEFINE P(p) == Path(p, F("setup"), F("setup"))
           p1 == at_cmd("AT+CWMODE") \o at_cmd("AT+CIPMUX")
           p2 == p1 \o at_cmd("AT+CIPSERVER")
           p3 == p2 \o at_cmd_extra("AT+CIPSTO?")
           p4 == p3 \o at_cmd_extra("AT+CIPSTO")
           p5 == p4 \o at_cmd_extra("AT+CIPSTO?")
           p6 == p5 \o at_cmd_extra("AT+CIFSR")
           p7 == p6 \o at_cmd_extra("AT+GMR")
<1>5. \A p, q : P(p) /\ P(q) => P(p \o q)
  BY Join
<1>6. /\ P(at_cmd("AT+CWMODE")) /\ P(at_cmd("AT+CIPMUX")) /\ P(at_cmd("AT+CIPSERVER"))
      /\ P(at_cmd_extra("AT+CIPSTO?")) /\ P(at_cmd_extra("AT+CIPSTO")) /\ P(at_cmd_extra("AT+CIFSR"))
      /\ P(at_cmd_extra("AT+GMR"))
  BY <1>1, <1>2, <1>3
<1>7. esp_start_tcp_server = p7 \o I("active", "server", FALSE)
  BY DEF esp_start_tcp_server
<1> HIDE DEF P
<1>8. P(p7)
  BY <1>5, <1>6
<1> HIDE DEF p7
<1> QED BY <1>4, <1>7, <1>8, Join DEF P

\* esp_send.
LEMMA Send == Path(esp_send, F("active"), F("active"))
<1>1. /\ F("active") \in States /\ F("sending") \in States
      /\ S("active", "AT+CIPSEND", "tok") \in States
      /\ S("sending", "data", "respv") \in States /\ S("sending", "data", "resp") \in States
  <2>1. /\ "AT+CIPSEND" \in Commands /\ Issues("active", "AT+CIPSEND") /\ "tok" \in WaitsOf("AT+CIPSEND")
        /\ "data" \in Commands /\ Issues("sending", "data") /\ WaitsOf("data") = {"respv", "resp"}
        /\ {"active", "sending"} \subseteq Stages
    BY DEF Commands, Issues, WaitsOf, Resets, Stages
  <2>2. S("active", "AT+CIPSEND", "tok") \in States
    BY <2>1, Waiting
  <2>3. S("sending", "data", "respv") \in States /\ S("sending", "data", "resp") \in States
    BY <2>1, Waiting
  <2> QED BY <2>1, <2>2, <2>3, Free
<1>2. Path(at_cmd("AT+CIPSEND"), F("active"), S("active", "AT+CIPSEND", "tok"))
  <2>1. /\ "AT+CIPSEND" \in Commands /\ Issues("active", "AT+CIPSEND") /\ "AT+CIPSEND" \notin Chatty
        /\ NextWait(S("active", "AT+CIPSEND", "resp")) = S("active", "AT+CIPSEND", "tok") /\ "active" \in Stages
    BY DEF Commands, Issues, Chatty, Wordy, NextWait, S, Resets, Stages
  <2> QED BY <1>1, <2>1, AtCmd DEF at_cmd
<1>3. Path(I("tok", ">", FALSE), S("active", "AT+CIPSEND", "tok"), F("sending"))
  <2>1. [op |-> "tok", a |-> ">", extra |-> FALSE] \in Instr
    BY DEF Instr
  <2>2. Edge(S("active", "AT+CIPSEND", "tok"), [op |-> "tok", a |-> ">", extra |-> FALSE], F("sending"))
    BY DEF Edge, S, Awaits, NextWait, Leads
  <2> QED BY <1>1, <2>1, <2>2, One
<1>4. Path(I("puts", "data", FALSE), F("sending"), S("sending", "data", "respv"))
  <2>1. [op |-> "puts", a |-> "data", extra |-> FALSE] \in Instr
    BY DEF Instr, Commands
  <2>2. Edge(F("sending"), [op |-> "puts", a |-> "data", extra |-> FALSE], S("sending", "data", "respv"))
    BY DEF Edge, F, S, Issues
  <2> QED BY <1>1, <2>1, <2>2, One
<1>5. Path(I("respv", "Recv", FALSE), S("sending", "data", "respv"), S("sending", "data", "resp"))
  <2>1. [op |-> "respv", a |-> "Recv", extra |-> FALSE] \in Instr
    BY DEF Instr
  <2>2. Edge(S("sending", "data", "respv"), [op |-> "respv", a |-> "Recv", extra |-> FALSE], S("sending", "data", "resp"))
    BY DEF Edge, S, Awaits, NextWait
  <2> QED BY <1>1, <2>1, <2>2, One
<1>6. Path(I("resp", "SEND OK", FALSE), S("sending", "data", "resp"), F("active"))
  <2>1. [op |-> "resp", a |-> "SEND OK", extra |-> FALSE] \in Instr
    BY DEF Instr
  <2>2. Edge(S("sending", "data", "resp"), [op |-> "resp", a |-> "SEND OK", extra |-> FALSE], F("active"))
    BY DEF Edge, S, Awaits, NextWait, Leads, Resets, Chatty, Wordy
  <2> QED BY <1>1, <2>1, <2>2, One
<1> DEFINE p1 == at_cmd("AT+CIPSEND") \o I("tok", ">", FALSE)
           p2 == p1 \o I("puts", "data", FALSE)
           p3 == p2 \o I("respv", "Recv", FALSE)
<1>7. Path(p1, F("active"), F("sending"))
  BY <1>2, <1>3, Join
<1>8. Path(p2, F("active"), S("sending", "data", "respv"))
  BY <1>4, <1>7, Join
<1>9. Path(p3, F("active"), S("sending", "data", "resp"))
  BY <1>5, <1>8, Join
<1> QED BY <1>6, <1>9, Join DEF esp_send

\* p has n instructions.
Sized(p, n) == p \in Seq(Instr) /\ Len(p) = n

\* An instruction is one.
LEMMA SizeOne ==
    ASSUME NEW op, NEW a, NEW e, [op |-> op, a |-> a, extra |-> e] \in Instr
    PROVE  Sized(I(op, a, e), 1)
<1> DEFINE ins == [op |-> op, a |-> a, extra |-> e]
<1>1. I(op, a, e) = <<ins>> /\ ins \in Instr
  BY DEF I
<1> HIDE DEF ins
<1>2. <<ins>> \in Seq(Instr) /\ Len(<<ins>>) = 1
  BY <1>1
<1> QED BY <1>1, <1>2 DEF Sized

\* Together they are as many.
LEMMA SizeJoin ==
    ASSUME NEW p, NEW q, NEW m \in Nat, NEW n \in Nat, Sized(p, m), Sized(q, n)
    PROVE  Sized(p \o q, m + n)
BY ConcatProperties DEF Sized

\* The bodies of both loops have eight instructions.
LEMMA EightSteps == Len(esp_is_recv \o esp_send) = 8 /\ Len(esp_send \o esp_is_recv) = 8
<1>1. /\ [op |-> "recv", a |-> "+IPD", extra |-> FALSE] \in Instr
      /\ [op |-> "puts", a |-> "AT+CIPSEND", extra |-> FALSE] \in Instr
      /\ [op |-> "ack", a |-> "AT+CIPSEND", extra |-> FALSE] \in Instr
      /\ [op |-> "resp", a |-> "OK", extra |-> FALSE] \in Instr
      /\ [op |-> "tok", a |-> ">", extra |-> FALSE] \in Instr
      /\ [op |-> "puts", a |-> "data", extra |-> FALSE] \in Instr
      /\ [op |-> "respv", a |-> "Recv", extra |-> FALSE] \in Instr
      /\ [op |-> "resp", a |-> "SEND OK", extra |-> FALSE] \in Instr
  BY DEF Instr, Commands
<1>2. /\ Sized(I("recv", "+IPD", FALSE), 1) /\ Sized(I("puts", "AT+CIPSEND", FALSE), 1)
      /\ Sized(I("ack", "AT+CIPSEND", FALSE), 1) /\ Sized(I("resp", "OK", FALSE), 1)
      /\ Sized(I("tok", ">", FALSE), 1) /\ Sized(I("puts", "data", FALSE), 1)
      /\ Sized(I("respv", "Recv", FALSE), 1) /\ Sized(I("resp", "SEND OK", FALSE), 1)
  BY <1>1, SizeOne
<1> DEFINE a1 == I("puts", "AT+CIPSEND", FALSE) \o I("ack", "AT+CIPSEND", FALSE)
           p0 == a1 \o I("resp", "OK", FALSE)
           p1 == p0 \o I("tok", ">", FALSE)
           p2 == p1 \o I("puts", "data", FALSE)
           p3 == p2 \o I("respv", "Recv", FALSE)
           p4 == p3 \o I("resp", "SEND OK", FALSE)
<1>3. esp_send = p4 /\ esp_is_recv = I("recv", "+IPD", FALSE)
  BY DEF esp_send, at_cmd, do_at_cmd, esp_is_recv
<1> DEFINE r == I("recv", "+IPD", FALSE)
           l == p4 \o r
           f == r \o p4
<1> HIDE DEF f, l, p4, p3, p2, p1, p0, a1, r
<1>4. Sized(a1, 2)
  <2>1. Sized(a1, 1 + 1)
    BY <1>2, SizeJoin DEF a1
  <2> QED BY <2>1 DEF Sized
<1>5. Sized(p0, 3)
  <2>1. Sized(p0, 2 + 1)
    BY <1>2, <1>4, SizeJoin DEF p0
  <2> QED BY <2>1 DEF Sized
<1>6. Sized(p1, 4)
  <2>1. Sized(p1, 3 + 1)
    BY <1>2, <1>5, SizeJoin DEF p1
  <2> QED BY <2>1 DEF Sized
<1>7. Sized(p2, 5)
  <2>1. Sized(p2, 4 + 1)
    BY <1>2, <1>6, SizeJoin DEF p2
  <2> QED BY <2>1 DEF Sized
<1>8. Sized(p3, 6)
  <2>1. Sized(p3, 5 + 1)
    BY <1>2, <1>7, SizeJoin DEF p3
  <2> QED BY <2>1 DEF Sized
<1>9. Sized(p4, 7)
  <2>1. Sized(p4, 6 + 1)
    BY <1>2, <1>8, SizeJoin DEF p4
  <2> QED BY <2>1 DEF Sized
<1>10. Sized(f, 8) /\ Sized(l, 8)
  <2>1. Sized(f, 1 + 7)
    BY <1>2, <1>9, SizeJoin DEF f, r
  <2>2. Sized(l, 7 + 1)
    BY <1>2, <1>9, SizeJoin DEF l, r
  <2> QED BY <2>1, <2>2 DEF Sized
<1>11. esp_is_recv \o esp_send = f /\ esp_send \o esp_is_recv = l
  BY <1>3 DEF f, l, r
<1> QED BY <1>10, <1>11 DEF Sized

\* Both programs are paths.
LEMMA Mains ==
    /\ role = "client" => Path(client_main, F("start"), F("active"))
    /\ role = "server" => Path(server_main, F("start"), F("active"))
<1>1. Path(esp_is_recv, F("active"), F("active")) /\ Path(I("conn", "CONNECT", FALSE), F("active"), F("active"))
  <2>1. F("active") \in States
    BY Free DEF Stages
  <2>2. [op |-> "recv", a |-> "+IPD", extra |-> FALSE] \in Instr /\ [op |-> "conn", a |-> "CONNECT", extra |-> FALSE] \in Instr
    BY DEF Instr
  <2>3. Edge(F("active"), [op |-> "recv", a |-> "+IPD", extra |-> FALSE], F("active"))
    BY DEF Edge
  <2>4. Edge(F("active"), [op |-> "conn", a |-> "CONNECT", extra |-> FALSE], F("active"))
    BY DEF Edge
  <2>5. Path(I("recv", "+IPD", FALSE), F("active"), F("active"))
    BY <2>1, <2>2, <2>3, One
  <2>6. Path(I("conn", "CONNECT", FALSE), F("active"), F("active"))
    BY <2>1, <2>2, <2>4, One
  <2> QED BY <2>5, <2>6 DEF esp_is_recv
<1>2. Path(Loop(esp_is_recv \o esp_send), F("active"), F("active"))
  BY <1>1, Send, Join, EightSteps, Repeat
<1>3. Path(Loop(esp_send \o esp_is_recv), F("active"), F("active"))
  BY <1>1, Send, Join, EightSteps, Repeat
<1>4. ASSUME role = "client" PROVE Path(client_main, F("start"), F("active"))
  <2> DEFINE p1 == esp_hard_reset \o esp_connect_to_wifi
             p2 == p1 \o esp_start_tcp_client
  <2>1. Path(p1, F("start"), F("setup"))
    BY HardReset, Wifi, Join
  <2>2. Path(p2, F("start"), F("active"))
    BY <1>4, <2>1, TcpClient, Join
  <2> HIDE DEF p2
  <2>3. Path(p2 \o Loop(esp_is_recv \o esp_send), F("start"), F("active"))
    BY <1>2, <2>2, Join
  <2> QED BY <2>3 DEF client_main, p2
<1>5. ASSUME role = "server" PROVE Path(server_main, F("start"), F("active"))
  <2> DEFINE p1 == esp_hard_reset \o esp_setup_wifi
             p2 == p1 \o esp_start_tcp_server
             p3 == p2 \o I("conn", "CONNECT", FALSE)
  <2>1. Path(p1, F("start"), F("setup"))
    BY HardReset, Wifi, Join
  <2>2. Path(p2, F("start"), F("active"))
    BY <1>5, <2>1, TcpServer, Join
  <2>3. Path(p3, F("start"), F("active"))
    BY <1>1, <2>2, Join
  <2> HIDE DEF p3
  <2>4. Path(p3 \o Loop(esp_send \o esp_is_recv), F("start"), F("active"))
    BY <1>3, <2>3, Join
  <2> QED BY <2>4 DEF server_main, p3
<1> QED BY <1>4, <1>5

-----------------------------------------------------------------------------
(***************************************************************************)
(* The invariant: at every place of the program, what is on the line.      *)
(***************************************************************************)
Texts == Stale \cup Notices \cup Commands
         \cup {"busy", "ERROR", "CONNECT", "+IPD", "OK", "garbage", "ready", "WIFI CONNECTED",
               "WIFI GOT IP", ">", "Recv", "SEND OK", "info"}

\* What the device may answer, and the lines that it then sends.
Answers(c) == {Answer(c)} \cup IF c \in Refuse /\ ~quiet THEN {<<"ERROR">>} ELSE {}
Sent(c, a) == IF c = "data" THEN a ELSE <<c>> \o a

\* The host waits for line To of the answer; it has seen line From.
To(c, w) ==
  CASE w = "ack" -> 1
    [] w = "respv" -> IF c = "data" THEN 1 ELSE 2
    [] w = "resp" -> IF c = "AT+CWJAP" THEN 4 ELSE IF c \in Wordy \cup {"AT+CIPSTART"} THEN 3 ELSE 2
    [] w = "drain" -> IF c = "AT+RST" THEN 4 ELSE 3
    [] OTHER -> 3
From(c, w) ==
  CASE w = "ack" -> 0
    [] w = "respv" -> IF c = "data" THEN 0 ELSE 1
    [] w = "resp" -> IF c = "AT+CIPSTART" THEN 2 ELSE 1
    [] OTHER -> 2

\* Lines nobody asked for that a stage may meet, and those of an earlier session.
Noise(st) == (IF quiet THEN {} ELSE {"busy"})
             \cup IF st \in {"active", "sending"} THEN Notices \cup {"CONNECT", "+IPD"} ELSE {}
Old(x) == IF x.st = "start" \/ (x.st = "first" /\ x.wait \in {"free", "ack"})
          THEN Stale \cup {"garbage"} ELSE {}

\* Only such lines are on their way.
Silent(q, N) == \A i \in 1 .. Len(q) : q[i].id = 0 /\ q[i].t \in N

\* Lines m + 1 to h of the answer A to command id are on their way, in order, among
\* lines of N, and of O before the first of them.
Carries(q, A, id, m, h, N, O) ==
  \E f \in [m + 1 .. h -> 1 .. Len(q)] :
    /\ \A j, k \in m + 1 .. h : j < k => f[j] < f[k]
    /\ \A j \in m + 1 .. h : q[f[j]] = Line(A[j], id)
    /\ \A i \in 1 .. Len(q) :
         \/ \E j \in m + 1 .. h : f[j] = i
         \/ q[i].id = 0 /\ q[i].t \in N
         \/ q[i].id = 0 /\ q[i].t \in O /\ \A j \in m + 1 .. h : i < f[j]

\* What follows line h of A.
Remains(q, A, id, h) == Len(q) = Len(A) - h /\ \A i \in 1 .. Len(q) : q[i] = Line(A[h + i], id)

\* The device has not taken the command, or is answering it; q is on its way.
Issued(x, q) ==
  /\ x.wait = (IF x.cmd = "data" THEN "respv" ELSE "ack")
  /\ toDev = <<[cmd |-> x.cmd, id |-> cmdid]>> /\ dresp = <<>>
  /\ Silent(q, Noise(x.st) \cup Old(x))
Answering(x, q) ==
  /\ toDev = <<>>
  /\ \E a \in Answers(x.cmd), m, h \in 0 .. 4 :
       /\ From(x.cmd, x.wait) <= m /\ m < To(x.cmd, x.wait)
       /\ m <= h /\ h <= Len(Sent(x.cmd, a))
       /\ Remains(dresp, Sent(x.cmd, a), cmdid, h)
       /\ Carries(q, Sent(x.cmd, a), cmdid, m, h, Noise(x.st), Old(x))
Idle(x, q) == toDev = <<>> /\ dresp = <<>> /\ Silent(q, Noise(x.st) \cup Old(x))
Hold(x, q) == IF x.wait = "free" THEN Idle(x, q) ELSE Issued(x, q) \/ Answering(x, q)

\* What the host has found out, and the device been told, by then.
Dialled(x) == x.st = "dialled" \/ (x.cmd = "AT+CIPSTART" /\ x.wait = "resp")
Flags(x) ==
  /\ active_p = (x.st \in {"active", "sending"})
  /\ dreset = ~(x.st = "start" \/ (x.st = "first" /\ (x.wait = "free" \/ toDev # <<>>)))
  /\ x \notin {F("start"), F("first")} => cmdid >= 1
  /\ quiet /\ Dialled(x) => ch = "stored"

Typed ==
  /\ role \in Roles /\ quiet \in Quiet /\ status \in {"ok", "panic"} /\ active_p \in BOOLEAN /\ conn \in BOOLEAN
  /\ ooo \in {"default", "client", "server"}
  /\ args \in {"fresh", "used"} /\ ch \in {"unset", "stored", "astray"}
  /\ cmdid \in Nat /\ noise \in 0 .. MaxNoise /\ dreset \in BOOLEAN
  /\ matched \in Seq(Nat \X Nat)
  /\ toHost \in Seq([t : Texts, id : 0 .. cmdid]) /\ dresp \in Seq([t : Texts, id : 0 .. cmdid])
  /\ toDev \in Seq([cmd : Commands, id : 1 .. cmdid])

\* The host is at a place of its program, and what is on the line fits it.
Placed == \E x, y \in States : Path(prog, x, y) /\ Hold(x, toHost) /\ Flags(x)

\* The first two parts are what matters; the others follow the host's flags.
EspInv ==
  /\ Typed
  /\ status = "ok" => Placed
  /\ Len(toDev) <= 1 /\ (toDev # <<>> => dresp = <<>>) /\ AnswersMatch
  /\ ~active_p => ooo = "default" /\ ~conn
  /\ quiet => args = "fresh"
  /\ Willing /\ status = "panic" => active_p
  /\ ChannelStored

-----------------------------------------------------------------------------
(***************************************************************************)
(* Lines on their way.                                                     *)
(***************************************************************************)
\* A line is put at the end.
LEMMA AppendFacts ==
    ASSUME NEW T, NEW q \in Seq(T), NEW l \in T
    PROVE  /\ Append(q, l) \in Seq(T) /\ Len(Append(q, l)) = Len(q) + 1
           /\ Append(q, l)[Len(q) + 1] = l
           /\ \A i \in 1 .. Len(q) : Append(q, l)[i] = q[i]
BY AppendProperties

\* Nothing of an answer is on its way.
LEMMA CarriesNone ==
    ASSUME NEW T, NEW q \in Seq(T), NEW A, NEW id, NEW h \in Nat, NEW N, NEW O
    PROVE  Carries(q, A, id, h, h, N, O) <=> Silent(q, N \cup O)
<1> DEFINE f == [j \in h + 1 .. h |-> 0]
<1>1. (h + 1 .. h) = {} /\ f \in [h + 1 .. h -> 1 .. Len(q)]
  OBVIOUS
<1>2. ASSUME Silent(q, N \cup O) PROVE Carries(q, A, id, h, h, N, O)
  <2> HIDE DEF f
  <2>1. \A i \in 1 .. Len(q) : q[i].id = 0 /\ (q[i].t \in N \/ q[i].t \in O)
    BY <1>2 DEF Silent
  <2> QED BY <1>1, <2>1 DEF Carries
<1>3. ASSUME Carries(q, A, id, h, h, N, O) PROVE Silent(q, N \cup O)
  <2>1. \A j \in h + 1 .. h : FALSE
    BY <1>1
  <2> QED BY <1>3, <2>1 DEF Carries, Silent
<1> QED BY <1>2, <1>3

\* Nothing but a line nobody asked for is put at the end, or taken.
LEMMA SilentAppend ==
    ASSUME NEW T, NEW q \in Seq(T), NEW N, Silent(q, N), NEW l \in T, l.id = 0, l.t \in N
    PROVE  Silent(Append(q, l), N)
<1> DEFINE p == Append(q, l)
<1>1. Len(q) \in Nat /\ Len(p) = Len(q) + 1 /\ p[Len(q) + 1] = l /\ \A i \in 1 .. Len(q) : p[i] = q[i]
  BY SeqFacts, AppendFacts
<1> HIDE DEF p
<1>2. Silent(p, N)
  BY <1>1 DEF Silent
<1> QED BY <1>2 DEF p
\* The first line was not asked for.
LEMMA SilentTail ==
    ASSUME NEW T, NEW q \in Seq(T), NEW N, Silent(q, N), q # <<>>
    PROVE  Head(q).id = 0 /\ Head(q).t \in N /\ Silent(Tail(q), N)
<1> DEFINE p == Tail(q)
           n == Len(q)
<1>1. n \in Nat /\ n >= 1 /\ Head(q) = q[1] /\ Len(p) = n - 1 /\ \A i \in 1 .. n - 1 : p[i] = q[i + 1]
  BY SeqFacts, TailFacts
<1>2. \A i \in 1 .. n : q[i].id = 0 /\ q[i].t \in N
  BY DEF Silent
<1> HIDE DEF p, n
<1>3. 1 \in 1 .. n /\ \A i \in 1 .. n - 1 : i + 1 \in 1 .. n
  BY <1>1
<1>4. Silent(p, N)
  BY <1>1, <1>2, <1>3 DEF Silent
<1> QED BY <1>1, <1>2, <1>3, <1>4 DEF p

\* A line nobody asked for comes in between.
LEMMA CarriesNoise ==
    ASSUME NEW T, NEW q \in Seq(T), NEW A, NEW id, NEW m \in Nat, NEW h \in Nat, NEW N, NEW O,
           Carries(q, A, id, m, h, N, O), NEW l \in T, l.id = 0, l.t \in N
    PROVE  Carries(Append(q, l), A, id, m, h, N, O)
<1> DEFINE p == Append(q, l)
           n == Len(q)
<1>1. n \in Nat /\ Len(p) = n + 1 /\ p[n + 1] = l /\ \A i \in 1 .. n : p[i] = q[i]
  BY SeqFacts, AppendFacts
<1>2. PICK f \in [m + 1 .. h -> 1 .. n] :
        /\ \A j, k \in m + 1 .. h : j < k => f[j] < f[k]
        /\ \A j \in m + 1 .. h : q[f[j]] = Line(A[j], id)
        /\ \A i \in 1 .. n :
             \/ \E j \in m + 1 .. h : f[j] = i
             \/ q[i].id = 0 /\ q[i].t \in N
             \/ q[i].id = 0 /\ q[i].t \in O /\ \A j \in m + 1 .. h : i < f[j]
  BY DEF Carries
<1> HIDE DEF p, n
<1>3. f \in [m + 1 .. h -> 1 .. n + 1] /\ \A j \in m + 1 .. h : f[j] \in 1 .. n
  BY <1>1, <1>2
<1>4. \A j \in m + 1 .. h : p[f[j]] = Line(A[j], id)
  BY <1>1, <1>2, <1>3
<1>5. \A i \in 1 .. n + 1 :
        \/ \E j \in m + 1 .. h : f[j] = i
        \/ p[i].id = 0 /\ p[i].t \in N
        \/ p[i].id = 0 /\ p[i].t \in O /\ \A j \in m + 1 .. h : i < f[j]
  <2> SUFFICES ASSUME NEW i \in 1 .. n + 1
               PROVE \/ \E j \in m + 1 .. h : f[j] = i
                     \/ p[i].id = 0 /\ p[i].t \in N
                     \/ p[i].id = 0 /\ p[i].t \in O /\ \A j \in m + 1 .. h : i < f[j]
    OBVIOUS
  <2>1. CASE i = n + 1
    BY <1>1, <2>1
  <2>2. CASE i # n + 1
    <3>1. i \in 1 .. n /\ p[i] = q[i]
      BY <1>1, <2>2
    <3> QED BY <1>2, <3>1
  <2> QED BY <2>1, <2>2
<1>6. Carries(p, A, id, m, h, N, O)
  <2>1. Len(p) = n + 1
    BY <1>1
  <2> QED BY <1>2, <1>3, <1>4, <1>5, <2>1 DEF Carries
<1> QED BY <1>6 DEF p

\* The next line of the answer is sent.
LEMMA CarriesReal ==
    ASSUME NEW T, NEW q \in Seq(T), NEW A, NEW id, NEW m \in Nat, NEW h \in Nat, m <= h, NEW N, NEW O,
           Carries(q, A, id, m, h, N, O), Line(A[h + 1], id) \in T
    PROVE  Carries(Append(q, Line(A[h + 1], id)), A, id, m, h + 1, N, O)
<1> DEFINE l == Line(A[h + 1], id)
           p == Append(q, l)
           n == Len(q)
<1>1. n \in Nat /\ Len(p) = n + 1 /\ p[n + 1] = l /\ \A i \in 1 .. n : p[i] = q[i]
  BY SeqFacts, AppendFacts
<1>2. PICK f \in [m + 1 .. h -> 1 .. n] :
        /\ \A j, k \in m + 1 .. h : j < k => f[j] < f[k]
        /\ \A j \in m + 1 .. h : q[f[j]] = Line(A[j], id)
        /\ \A i \in 1 .. n :
             \/ \E j \in m + 1 .. h : f[j] = i
             \/ q[i].id = 0 /\ q[i].t \in N
             \/ q[i].id = 0 /\ q[i].t \in O /\ \A j \in m + 1 .. h : i < f[j]
  BY DEF Carries
<1>0. l = Line(A[h + 1], id)
  OBVIOUS
<1> DEFINE g == [j \in m + 1 .. h + 1 |-> IF j <= h THEN f[j] ELSE n + 1]
<1> HIDE DEF p, n, l
<1>3. /\ \A j \in m + 1 .. h : f[j] \in 1 .. n
      /\ \A j \in m + 1 .. h + 1 : j \in m + 1 .. h \/ (j = h + 1 /\ ~(j <= h))
  BY <1>2
<1>4. \A j \in m + 1 .. h + 1 : IF j <= h THEN g[j] = f[j] ELSE g[j] = n + 1
  OBVIOUS
<1>5. g \in [m + 1 .. h + 1 -> 1 .. n + 1]
  <2>1. \A j \in m + 1 .. h + 1 : (IF j <= h THEN f[j] ELSE n + 1) \in 1 .. n + 1
    BY <1>1, <1>3
  <2> QED BY <2>1
<1> HIDE DEF g
<1>6. (\A j \in m + 1 .. h : j <= h /\ g[j] = f[j] /\ j \in m + 1 .. h + 1) /\ g[h + 1] = n + 1
  BY <1>4
<1>7. \A j, k \in m + 1 .. h + 1 : j < k => g[j] < g[k]
  <2> SUFFICES ASSUME NEW j \in m + 1 .. h + 1, NEW k \in m + 1 .. h + 1, j < k PROVE g[j] < g[k]
    OBVIOUS
  <2>1. j \in m + 1 .. h
    OBVIOUS
  <2>2. CASE k = h + 1
    <3>1. g[j] \in 1 .. n
      BY <1>3, <1>6, <2>1
    <3> QED BY <1>1, <1>6, <2>2, <3>1
  <2>3. CASE k # h + 1
    BY <1>2, <1>3, <1>6, <2>1, <2>3
  <2> QED BY <2>2, <2>3
<1>8. \A j \in m + 1 .. h + 1 : p[g[j]] = Line(A[j], id)
  <2> SUFFICES ASSUME NEW j \in m + 1 .. h + 1 PROVE p[g[j]] = Line(A[j], id)
    OBVIOUS
  <2>1. CASE j = h + 1
    BY <1>0, <1>1, <1>6, <2>1
  <2>2. CASE j \in m + 1 .. h
    BY <1>1, <1>2, <1>3, <1>6, <2>2
  <2> QED BY <1>3, <2>1, <2>2
<1>9. \A i \in 1 .. n + 1 :
        \/ \E j \in m + 1 .. h + 1 : g[j] = i
        \/ p[i].id = 0 /\ p[i].t \in N
        \/ p[i].id = 0 /\ p[i].t \in O /\ \A j \in m + 1 .. h + 1 : i < g[j]
  <2> SUFFICES ASSUME NEW i \in 1 .. n + 1
               PROVE \/ \E j \in m + 1 .. h + 1 : g[j] = i
                     \/ p[i].id = 0 /\ p[i].t \in N
                     \/ p[i].id = 0 /\ p[i].t \in O /\ \A j \in m + 1 .. h + 1 : i < g[j]
    OBVIOUS
  <2>1. CASE i = n + 1
    <3>1. h + 1 \in m + 1 .. h + 1
      OBVIOUS
    <3> QED BY <1>6, <2>1, <3>1
  <2>2. CASE i # n + 1
    <3>1. i \in 1 .. n /\ p[i] = q[i]
      BY <1>1, <2>2
    <3>2. CASE \E j \in m + 1 .. h : f[j] = i
      BY <1>6, <3>2
    <3>3. CASE p[i].id = 0 /\ p[i].t \in N
      BY <3>3
    <3>4. CASE p[i].id = 0 /\ p[i].t \in O /\ \A j \in m + 1 .. h : i < f[j]
      <4>1. \A j \in m + 1 .. h + 1 : i < g[j]
        <5> SUFFICES ASSUME NEW j \in m + 1 .. h + 1 PROVE i < g[j]
          OBVIOUS
        <5>1. CASE j = h + 1
          BY <1>1, <1>6, <3>1, <5>1
        <5>2. CASE j \in m + 1 .. h
          BY <1>6, <3>4, <5>2
        <5> QED BY <1>3, <5>1, <5>2
      <4> QED BY <3>4, <4>1
    <3> QED BY <1>2, <3>1, <3>2, <3>3, <3>4
  <2> QED BY <2>1, <2>2
<1>10. Carries(p, A, id, m, h + 1, N, O)
  BY <1>1, <1>5, <1>7, <1>8, <1>9 DEF Carries
<1> QED BY <1>10 DEF p, l

\* The line that comes first was not asked for, or is the next of the answer.
LEMMA CarriesTail ==
    ASSUME NEW T, NEW q \in Seq(T), q # <<>>, NEW A, NEW id, NEW m \in Nat, NEW h \in Nat, NEW N, NEW O,
           m <= h, Carries(q, A, id, m, h, N, O)
    PROVE  \/ Head(q).id = 0 /\ Head(q).t \in N \cup O /\ Carries(Tail(q), A, id, m, h, N, O)
           \/ m < h /\ Head(q) = Line(A[m + 1], id) /\ \A P : Carries(Tail(q), A, id, m + 1, h, N, P)
<1> DEFINE n == Len(q)
           p == Tail(q)
<1>1. n \in Nat /\ n >= 1 /\ Head(q) = q[1] /\ Len(p) = n - 1 /\ \A i \in 1 .. n - 1 : p[i] = q[i + 1]
  BY SeqFacts, TailFacts
<1>2. PICK f \in [m + 1 .. h -> 1 .. n] :
        /\ \A j, k \in m + 1 .. h : j < k => f[j] < f[k]
        /\ \A j \in m + 1 .. h : q[f[j]] = Line(A[j], id)
        /\ \A i \in 1 .. n :
             \/ \E j \in m + 1 .. h : f[j] = i
             \/ q[i].id = 0 /\ q[i].t \in N
             \/ q[i].id = 0 /\ q[i].t \in O /\ \A j \in m + 1 .. h : i < f[j]
  BY DEF Carries
<1> HIDE DEF n, p
<1>3. \A j \in m + 1 .. h : f[j] \in 1 .. n
  BY <1>2
<1>5. CASE m < h /\ f[m + 1] = 1
  <2> DEFINE g == [j \in (m + 1) + 1 .. h |-> f[j] - 1]
  <2>1. \A j \in (m + 1) + 1 .. h : j \in m + 1 .. h /\ f[j] \in 2 .. n
    <3> SUFFICES ASSUME NEW j \in (m + 1) + 1 .. h PROVE j \in m + 1 .. h /\ f[j] \in 2 .. n
      OBVIOUS
    <3>1. j \in m + 1 .. h /\ m + 1 \in m + 1 .. h /\ m + 1 < j
      BY <1>5
    <3>2. f[m + 1] < f[j]
      BY <1>2, <3>1
    <3> QED BY <1>3, <1>5, <3>1, <3>2
  <2>2. g \in [(m + 1) + 1 .. h -> 1 .. n - 1]
    <3>1. \A j \in (m + 1) + 1 .. h : f[j] - 1 \in 1 .. n - 1
      BY <1>1, <2>1
    <3> QED BY <3>1
  <2>3. \A j \in (m + 1) + 1 .. h : g[j] = f[j] - 1
    OBVIOUS
  <2> HIDE DEF g
  <2>4. \A j, k \in (m + 1) + 1 .. h : j < k => g[j] < g[k]
    <3> SUFFICES ASSUME NEW j \in (m + 1) + 1 .. h, NEW k \in (m + 1) + 1 .. h, j < k PROVE g[j] < g[k]
      OBVIOUS
    <3>1. f[j] < f[k] /\ f[j] \in 2 .. n /\ f[k] \in 2 .. n
      BY <1>2, <2>1
    <3> QED BY <1>1, <2>3, <3>1
  <2>5. \A j \in (m + 1) + 1 .. h : p[g[j]] = Line(A[j], id)
    <3> SUFFICES ASSUME NEW j \in (m + 1) + 1 .. h PROVE p[g[j]] = Line(A[j], id)
      OBVIOUS
    <3>1. g[j] \in 1 .. n - 1 /\ g[j] + 1 = f[j] /\ q[f[j]] = Line(A[j], id)
      <4>1. PICK v \in 2 .. n : v = f[j] /\ g[j] = v - 1
        BY <2>1, <2>3
      <4>2. n \in Nat
        BY <1>1
      <4>3. (v - 1) \in 1 .. n - 1 /\ (v - 1) + 1 = v
        BY <4>2
      <4> QED BY <1>2, <2>1, <4>1, <4>3
    <3> QED BY <1>1, <3>1
  <2>6. \A i \in 1 .. n - 1 : (\E j \in (m + 1) + 1 .. h : g[j] = i) \/ (p[i].id = 0 /\ p[i].t \in N)
    <3> SUFFICES ASSUME NEW i \in 1 .. n - 1
                 PROVE  (\E j \in (m + 1) + 1 .. h : g[j] = i) \/ (p[i].id = 0 /\ p[i].t \in N)
      OBVIOUS
    <3>1. i + 1 \in 1 .. n /\ p[i] = q[i + 1] /\ i + 1 # 1
      BY <1>1
    <3>2. CASE \E j \in m + 1 .. h : f[j] = i + 1
      <4>1. PICK j \in m + 1 .. h : f[j] = i + 1
        BY <3>2
      <4>2. j # m + 1
        BY <1>5, <3>1, <4>1
      <4>3. j \in (m + 1) + 1 .. h
        BY <4>2
      <4>4. g[j] = i
        BY <2>3, <4>1, <4>3
      <4> QED BY <4>3, <4>4
    <3>3. CASE \A j \in m + 1 .. h : i + 1 < f[j]
      <4>1. m + 1 \in m + 1 .. h
        BY <1>5
      <4> QED BY <1>5, <3>3, <4>1
    <3> QED BY <1>2, <3>1, <3>2, <3>3
  <2>7. ASSUME NEW P PROVE Carries(p, A, id, m + 1, h, N, P)
    BY <1>1, <2>2, <2>4, <2>5, <2>6 DEF Carries
  <2>8. m + 1 \in m + 1 .. h
    BY <1>5
  <2>9. Head(q) = Line(A[m + 1], id)
    BY <1>1, <1>2, <1>5, <2>8
  <2> QED BY <1>5, <2>7, <2>9 DEF p
<1>6. CASE ~(m < h /\ f[m + 1] = 1)
  <2> DEFINE g == [j \in m + 1 .. h |-> f[j] - 1]
  <2>1. \A j \in m + 1 .. h : f[j] \in 2 .. n
    <3> SUFFICES ASSUME NEW j \in m + 1 .. h PROVE f[j] \in 2 .. n
      OBVIOUS
    <3>1. m < h /\ m + 1 \in m + 1 .. h /\ f[m + 1] \in 1 .. n /\ f[j] \in 1 .. n
      BY <1>3
    <3>2. f[m + 1] # 1
      BY <1>6, <3>1
    <3>3. j = m + 1 \/ f[m + 1] < f[j]
      BY <1>2, <3>1
    <3> QED BY <3>1, <3>2, <3>3
  <2>2. g \in [m + 1 .. h -> 1 .. n - 1]
    <3>1. \A j \in m + 1 .. h : f[j] - 1 \in 1 .. n - 1
      BY <1>1, <2>1
    <3> QED BY <3>1
  <2>3. \A j \in m + 1 .. h : g[j] = f[j] - 1
    OBVIOUS
  <2> HIDE DEF g
  <2>4. \A j, k \in m + 1 .. h : j < k => g[j] < g[k]
    <3> SUFFICES ASSUME NEW j \in m + 1 .. h, NEW k \in m + 1 .. h, j < k PROVE g[j] < g[k]
      OBVIOUS
    <3>1. f[j] < f[k] /\ f[j] \in 2 .. n /\ f[k] \in 2 .. n
      BY <1>2, <2>1
    <3> QED BY <1>1, <2>3, <3>1
  <2>5. \A j \in m + 1 .. h : p[g[j]] = Line(A[j], id)
    <3> SUFFICES ASSUME NEW j \in m + 1 .. h PROVE p[g[j]] = Line(A[j], id)
      OBVIOUS
    <3>1. g[j] \in 1 .. n - 1 /\ g[j] + 1 = f[j] /\ q[f[j]] = Line(A[j], id)
      <4>1. PICK v \in 2 .. n : v = f[j] /\ g[j] = v - 1
        BY <2>1, <2>3
      <4>2. n \in Nat
        BY <1>1
      <4>3. (v - 1) \in 1 .. n - 1 /\ (v - 1) + 1 = v
        BY <4>2
      <4> QED BY <1>2, <2>1, <4>1, <4>3
    <3> QED BY <1>1, <3>1
  <2>6. \A i \in 1 .. n - 1 :
          \/ \E j \in m + 1 .. h : g[j] = i
          \/ p[i].id = 0 /\ p[i].t \in N
          \/ p[i].id = 0 /\ p[i].t \in O /\ \A j \in m + 1 .. h : i < g[j]
    <3> SUFFICES ASSUME NEW i \in 1 .. n - 1
                 PROVE  \/ \E j \in m + 1 .. h : g[j] = i
                        \/ p[i].id = 0 /\ p[i].t \in N
                        \/ p[i].id = 0 /\ p[i].t \in O /\ \A j \in m + 1 .. h : i < g[j]
      OBVIOUS
    <3>1. i + 1 \in 1 .. n /\ p[i] = q[i + 1]
      BY <1>1
    <3>2. CASE \E j \in m + 1 .. h : f[j] = i + 1
      <4>1. PICK j \in m + 1 .. h : f[j] = i + 1
        BY <3>2
      <4>2. g[j] = i
        BY <2>3, <4>1
      <4> QED BY <4>2
    <3>3. CASE p[i].id = 0 /\ p[i].t \in N
      BY <3>3
    <3>4. CASE p[i].id = 0 /\ p[i].t \in O /\ \A j \in m + 1 .. h : i + 1 < f[j]
      <4>1. \A j \in m + 1 .. h : i < g[j]
        <5> SUFFICES ASSUME NEW j \in m + 1 .. h PROVE i < g[j]
          OBVIOUS
        <5>1. PICK v \in 2 .. n : v = f[j]
          BY <2>1
        <5>2. g[j] = v - 1 /\ i + 1 < v
          BY <2>3, <3>4, <5>1
        <5>3. n \in Nat
          BY <1>1
        <5> QED BY <5>2, <5>3
      <4> QED BY <3>4, <4>1
    <3> QED BY <1>2, <3>1, <3>2, <3>3, <3>4
  <2>7. Carries(p, A, id, m, h, N, O)
    BY <1>1, <2>2, <2>4, <2>5, <2>6 DEF Carries
  <2>8. Head(q).id = 0 /\ Head(q).t \in N \cup O
    <3>1. 1 \in 1 .. n /\ \A j \in m + 1 .. h : f[j] # 1
      BY <1>1, <2>1
    <3> QED BY <1>1, <1>2, <3>1
  <2> QED BY <2>7, <2>8 DEF p
<1> QED BY <1>5, <1>6

\* The device has sent everything.
LEMMA RemainsTail ==
    ASSUME NEW T, NEW q \in Seq(T), q # <<>>, NEW A, NEW id, NEW h \in Nat, Len(A) \in Nat, h <= Len(A),
           Remains(q, A, id, h)
    PROVE  /\ h + 1 <= Len(A) /\ Head(q) = Line(A[h + 1], id) /\ Head(q) \in T
           /\ Tail(q) \in Seq(T) /\ Remains(Tail(q), A, id, h + 1)
<1> DEFINE n == Len(q)
           p == Tail(q)
           a == Len(A)
<1>1. n \in Nat /\ n >= 1 /\ Head(q) = q[1] /\ Len(p) = n - 1 /\ (\A i \in 1 .. n - 1 : p[i] = q[i + 1])
      /\ Head(q) \in T /\ p \in Seq(T) /\ a \in Nat /\ h <= a
  BY SeqFacts, TailFacts
<1>2. n = a - h /\ \A i \in 1 .. n : q[i] = Line(A[h + i], id)
  BY DEF Remains
<1>3. Remains(p, A, id, h + 1) <=> Len(p) = a - (h + 1) /\ \A i \in 1 .. Len(p) : p[i] = Line(A[(h + 1) + i], id)
  BY DEF Remains
<1> HIDE DEF n, p, a
<1>4. h + 1 <= a /\ Len(p) = a - (h + 1) /\ 1 \in 1 .. n
  BY <1>1, <1>2
<1>5. \A i \in 1 .. Len(p) : p[i] = Line(A[(h + 1) + i], id)
  <2> SUFFICES ASSUME NEW i \in 1 .. Len(p) PROVE p[i] = Line(A[(h + 1) + i], id)
    OBVIOUS
  <2>1. i \in 1 .. n - 1 /\ i + 1 \in 1 .. n /\ h + (i + 1) = (h + 1) + i
    BY <1>1
  <2>2. q[i + 1] = Line(A[h + (i + 1)], id)
    BY <1>2, <2>1
  <2> QED BY <1>1, <2>1, <2>2
<1> QED BY <1>1, <1>2, <1>3, <1>4, <1>5 DEF p, a

-----------------------------------------------------------------------------
(***************************************************************************)
(* Answers.                                                                *)
(***************************************************************************)
\* A command and the lines of its answer.
LEMMA SentIs ==
    ASSUME NEW c, NEW T, NEW a \in Seq(T)
    PROVE  /\ Len((<<c>> \o a)) = Len(a) + 1 /\ (<<c>> \o a)[1] = c
           /\ \A i \in 1 .. Len(a) : (<<c>> \o a)[i + 1] = a[i]
<1> DEFINE n == Len(a)
           U == T \cup {c}
           b == <<c>>
<1>1. a \in Seq(U) /\ b \in Seq(U) /\ Len(b) = 1 /\ b[1] = c
  <2>1. \A i \in 1 .. n : a[i] \in U
    BY SeqFacts
  <2>2. a = [i \in 1 .. n |-> a[i]]
    BY LenProperties
  <2>3. a \in [1 .. n -> U]
    BY <2>1, <2>2
  <2>4. b \in Seq(U) /\ Len(b) = 1 /\ b[1] = c
    OBVIOUS
  <2> HIDE DEF U
  <2>5. a \in Seq(U)
    BY <2>3, IsASeq
  <2> QED BY <2>4, <2>5
<1>0. n \in Nat
  BY SeqFacts
<1> HIDE DEF U, b
<1>2. /\ Len(b \o a) = 1 + n
      /\ \A i \in 1 .. 1 + n : (b \o a)[i] = IF i <= 1 THEN b[i] ELSE a[i - 1]
  <2>1. /\ Len(b \o a) = Len(b) + Len(a)
        /\ \A i \in 1 .. Len(b) + Len(a) : (b \o a)[i] = IF i <= Len(b) THEN b[i] ELSE a[i - Len(b)]
    BY <1>1, ConcatProperties
  <2> QED BY <1>1, <2>1
<1> HIDE DEF n
<1>3. (<<c>> \o a) = b \o a
  BY DEF b
<1> DEFINE s == (<<c>> \o a)
<1>4. Len(s) = n + 1 /\ \A i \in 1 .. n + 1 : s[i] = IF i <= 1 THEN b[i] ELSE a[i - 1]
  BY <1>0, <1>2, <1>3
<1> HIDE DEF s
<1>5. s[1] = c
  BY <1>0, <1>1, <1>4
<1>6. ASSUME NEW i \in 1 .. n PROVE s[i + 1] = a[i]
  <2>1. i + 1 \in 1 .. n + 1 /\ ~(i + 1 <= 1) /\ (i + 1) - 1 = i
    BY <1>0
  <2> QED BY <1>4, <2>1
<1> QED BY <1>4, <1>5, <1>6 DEF s, n

\* Texts, one after the other, and what the device sends for each command.
Line1(A, c, t) == Len(A) = 2 /\ A[1] = c /\ A[2] = t
Line2(A, c, t, u) == Len(A) = 3 /\ A[1] = c /\ A[2] = t /\ A[3] = u
Line3(A, c, t, u, v) == Len(A) = 4 /\ A[1] = c /\ A[2] = t /\ A[3] = u /\ A[4] = v
\* A command and an answer of one line.
LEMMA SentOne ==
    ASSUME NEW c, c # "data", NEW t PROVE Line1(Sent(c, <<t>>), c, t)
<1> DEFINE a == <<t>>
           T == {t}
<1>1. a \in Seq(T) /\ Len(a) = 1 /\ a[1] = t
  OBVIOUS
<1> HIDE DEF a, T
<1>2. Len(<<c>> \o a) = Len(a) + 1 /\ (<<c>> \o a)[1] = c /\ \A i \in 1 .. Len(a) : (<<c>> \o a)[i + 1] = a[i]
  <2>1. a \in Seq(T)
    BY <1>1
  <2> QED BY <2>1, SentIs
<1>4. Sent(c, a) = <<c>> \o a
  BY DEF Sent
<1>3. 1 \in 1 .. 1 /\ 1 + 1 = 2
  OBVIOUS
<1> QED BY <1>1, <1>2, <1>3, <1>4 DEF Line1, a

\* A command and an answer of two lines.
LEMMA SentTwo ==
    ASSUME NEW c, c # "data", NEW t, NEW u PROVE Line2(Sent(c, <<t, u>>), c, t, u)
<1> DEFINE a == <<t, u>>
           T == {t, u}
<1>1. a \in Seq(T) /\ Len(a) = 2 /\ a[1] = t /\ a[2] = u
  OBVIOUS
<1> HIDE DEF a, T
<1>2. Len(<<c>> \o a) = Len(a) + 1 /\ (<<c>> \o a)[1] = c /\ \A i \in 1 .. Len(a) : (<<c>> \o a)[i + 1] = a[i]
  <2>1. a \in Seq(T)
    BY <1>1
  <2> QED BY <2>1, SentIs
<1>4. Sent(c, a) = <<c>> \o a
  BY DEF Sent
<1>3. 1 \in 1 .. 2 /\ 1 + 1 = 2 /\ 2 \in 1 .. 2 /\ 2 + 1 = 3
  OBVIOUS
<1> QED BY <1>1, <1>2, <1>3, <1>4 DEF Line2, a

\* A command and an answer of three lines.
LEMMA SentThree ==
    ASSUME NEW c, c # "data", NEW t, NEW u, NEW v PROVE Line3(Sent(c, <<t, u, v>>), c, t, u, v)
<1> DEFINE a == <<t, u, v>>
           T == {t, u, v}
<1>1. a \in Seq(T) /\ Len(a) = 3 /\ a[1] = t /\ a[2] = u /\ a[3] = v
  OBVIOUS
<1> HIDE DEF a, T
<1>2. Len(<<c>> \o a) = Len(a) + 1 /\ (<<c>> \o a)[1] = c /\ \A i \in 1 .. Len(a) : (<<c>> \o a)[i + 1] = a[i]
  <2>1. a \in Seq(T)
    BY <1>1
  <2> QED BY <2>1, SentIs
<1>4. Sent(c, a) = <<c>> \o a
  BY DEF Sent
<1>3. 1 \in 1 .. 3 /\ 1 + 1 = 2 /\ 2 \in 1 .. 3 /\ 2 + 1 = 3 /\ 3 \in 1 .. 3 /\ 3 + 1 = 4
  OBVIOUS
<1> QED BY <1>1, <1>2, <1>3, <1>4 DEF Line3, a

Shape(c, A) ==
  \/ c \in Refuse /\ ~quiet /\ c # "data" /\ Line1(A, c, "ERROR")
  \/ c \in Refuse /\ ~quiet /\ c = "data" /\ Len(A) = 1 /\ A[1] = "ERROR"
  \/ c = "data" /\ Line1(A, "Recv", "SEND OK")
  \/ c \in Plain /\ Line1(A, c, "OK")
  \/ c \in Wordy /\ Line2(A, c, "info", "OK")
  \/ c = "AT+RST" /\ Line3(A, c, "OK", "garbage", "ready")
  \/ c = "AT+RESTORE" /\ Line2(A, c, "OK", "ready")
  \/ c = "AT+CWJAP" /\ Line3(A, c, "WIFI CONNECTED", "WIFI GOT IP", "OK")
  \/ c = "AT+CIPSTART" /\ Line2(A, c, "CONNECT", "OK")
  \/ c = "AT+CIPSEND" /\ Line2(A, c, "OK", ">")

\* Every answer has the shape of its command's.
LEMMA SentFor ==
    ASSUME NEW c \in Commands, NEW a \in Answers(c)
    PROVE  Shape(c, Sent(c, a))
<1>1. a = Answer(c) \/ (a = <<"ERROR">> /\ c \in Refuse /\ ~quiet)
  BY DEF Answers
<1>2. CASE a = <<"ERROR">> /\ c \in Refuse /\ ~quiet
  <2>1. CASE c = "data"
    <3>1. Sent(c, a) = <<"ERROR">>
      BY <1>2, <2>1 DEF Sent
    <3>2. Len(<<"ERROR">>) = 1 /\ <<"ERROR">>[1] = "ERROR"
      OBVIOUS
    <3>3. Len(Sent(c, a)) = 1 /\ Sent(c, a)[1] = "ERROR"
      BY <3>1, <3>2
    <3> QED BY <1>2, <2>1, <3>3 DEF Shape
  <2>2. CASE c # "data"
    <3>1. Line1(Sent(c, a), c, "ERROR")
      BY <1>2, <2>2, SentOne
    <3> QED BY <1>2, <2>2, <3>1 DEF Shape
  <2> QED BY <2>1, <2>2
<1>3. CASE a = Answer(c)
  <2>1. CASE c = "data"
    <3>1. a = <<"Recv", "SEND OK">>
      BY <1>3, <2>1 DEF Answer
    <3>2. Sent(c, a) = <<"Recv", "SEND OK">>
      BY <2>1, <3>1 DEF Sent
    <3>3. Line1(<<"Recv", "SEND OK">>, "Recv", "SEND OK")
      BY DEF Line1
    <3>4. Line1(Sent(c, a), "Recv", "SEND OK")
      BY <3>2, <3>3
    <3> QED BY <2>1, <3>4 DEF Shape
  <2>2. CASE c \in Plain
    <3>1. a = <<"OK">> /\ c # "data"
      BY <1>3, <2>2 DEF Answer, Plain
    <3> QED BY <2>2, <3>1, SentOne DEF Shape
  <2>3. CASE c \in Wordy
    <3>1. a = <<"info", "OK">> /\ c # "data"
      BY <1>3, <2>3 DEF Answer, Wordy
    <3> QED BY <2>3, <3>1, SentTwo DEF Shape
  <2>4. CASE c = "AT+RST"
    <3>1. a = <<"OK", "garbage", "ready">> /\ c # "data"
      BY <1>3, <2>4 DEF Answer
    <3> QED BY <2>4, <3>1, SentThree DEF Shape
  <2>5. CASE c = "AT+RESTORE"
    <3>1. a = <<"OK", "ready">> /\ c # "data"
      BY <1>3, <2>5 DEF Answer
    <3> QED BY <2>5, <3>1, SentTwo DEF Shape
  <2>6. CASE c = "AT+CWJAP"
    <3>1. a = <<"WIFI CONNECTED", "WIFI GOT IP", "OK">> /\ c # "data"
      BY <1>3, <2>6 DEF Answer
    <3> QED BY <2>6, <3>1, SentThree DEF Shape
  <2>7. CASE c = "AT+CIPSTART"
    <3>1. a = <<"CONNECT", "OK">> /\ c # "data"
      BY <1>3, <2>7 DEF Answer
    <3> QED BY <2>7, <3>1, SentTwo DEF Shape
  <2>8. CASE c = "AT+CIPSEND"
    <3>1. a = <<"OK", ">">> /\ c # "data"
      BY <1>3, <2>8 DEF Answer
    <3> QED BY <2>8, <3>1, SentTwo DEF Shape
  <2>9. c \in Plain \/ c \in Wordy \/ c \in Resets \/ c \in {"data", "AT+CWJAP", "AT+CIPSTART", "AT+CIPSEND"}
    BY DEF Commands
  <2> QED BY <2>1, <2>2, <2>3, <2>4, <2>5, <2>6, <2>7, <2>8, <2>9 DEF Resets
<1> QED BY <1>1, <1>2, <1>3

\* The states in which the host waits for a line of an answer.
LEMMA WaitState ==
    ASSUME NEW x \in States, x.wait # "free"
    PROVE  /\ x.st \in Stages /\ x.cmd \in Commands /\ Issues(x.st, x.cmd) /\ x.wait \in WaitsOf(x.cmd)
           /\ x = S(x.st, x.cmd, x.wait) /\ x.wait \in {"ack", "resp", "respv", "drain", "tok"}
<1>1. \A st \in Stages : F(st).wait = "free"
  BY DEF F, S
<1>2. x \in [st : Stages, cmd : Commands, wait : {"ack", "resp", "respv", "drain", "tok"}]
      /\ Issues(x.st, x.cmd) /\ x.wait \in WaitsOf(x.cmd)
  BY <1>1 DEF States
<1> QED BY <1>2 DEF S

\* The states in which it does not.
LEMMA FreeState ==
    ASSUME NEW x \in States, x.wait = "free"
    PROVE  x.st \in Stages /\ x = F(x.st) /\ x.cmd = "none"
<1>1. ~(x \in [st : Stages, cmd : Commands, wait : {"ack", "resp", "respv", "drain", "tok"}])
  OBVIOUS
<1>2. PICK st \in Stages : x = F(st)
  BY <1>1 DEF States
<1> QED BY <1>2 DEF F, S

\* Line i of an answer, when the host waits for line To of it.
Fits(A, c, w, i) ==
  /\ A[i] \in Texts
  /\ A[i] = Awaits(c, w) => i = To(c, w)
  /\ A[i] # Awaits(c, w) =>
       /\ w # "ack" /\ A[i] # "busy"
       /\ \/ A[i] = "ERROR" /\ c \in Refuse /\ ~quiet /\ w # "drain"
          \/ A[i] # "ERROR" /\ i < To(c, w) /\ (w = "drain" \/ (w = "resp" /\ c \in Chatty))

\* Every line of an answer is waited for, or may come before the one that is.
LEMMA AnswerFacts ==
    ASSUME NEW c \in Commands, NEW w \in WaitsOf(c), NEW A, Shape(c, A),
           NEW i \in From(c, w) + 1 .. To(c, w), i <= Len(A)
    PROVE  Fits(A, c, w, i)
<1>0. c \in Texts
  BY DEF Texts
<1>1. CASE c \in Refuse /\ ~quiet /\ c # "data" /\ Line1(A, c, "ERROR")
  <2>1. CASE w = "ack"
    <3>1. From(c, w) = 0 /\ To(c, w) = 1 /\ Awaits(c, w) = c
      BY <2>1 DEF From, To, Awaits
    <3>2. i = 1 /\ A[1] = c /\ c \in Texts
      BY <1>0, <1>1, <3>1 DEF Line1
    <3> QED BY <3>1, <3>2 DEF Fits
  <2>2. CASE w # "ack"
    <3>1. From(c, w) \in 1 .. 2 /\ To(c, w) \in 1 .. 4 /\ Awaits(c, w) # "ERROR"
      BY <1>1, <2>2 DEF From, To, WaitsOf, Resets, Awaits
    <3>2. i = 2
      <4>1. Len(A) = 2
        BY <1>1 DEF Line1
      <4> QED BY <3>1, <4>1
    <3>3. A[2] = "ERROR" /\ "ERROR" \in Texts
      BY <1>0, <1>1 DEF Line1, Texts
    <3>4. w # "drain"
      <4>1. ~(2 + 1 <= 2)
        OBVIOUS
      <4>2. From(c, w) # 2
        BY <3>1, <3>2, <4>1
      <4>3. w = "drain" => From(c, w) = 2
        BY DEF From
      <4> QED BY <4>2, <4>3
    <3> QED BY <1>1, <2>2, <3>1, <3>2, <3>3, <3>4 DEF Fits
  <2> QED BY <2>1, <2>2
<1>2. CASE c \in Refuse /\ ~quiet /\ c = "data" /\ Len(A) = 1 /\ A[1] = "ERROR"
  <2>1. From(c, w) \in Nat /\ w # "ack" /\ w # "drain" /\ Awaits(c, w) # "ERROR"
    BY <1>2 DEF From, WaitsOf, Resets, Awaits
  <2>2. Len(A) = 1 /\ A[1] = "ERROR" /\ "ERROR" \in Texts
    BY <1>2 DEF Texts
  <2>3. i = 1
    BY <2>1, <2>2
  <2> QED BY <1>2, <2>1, <2>2, <2>3 DEF Fits
<1>3. CASE c = "data" /\ Line1(A, "Recv", "SEND OK")
  <2>1. CASE w = "respv"
    <3>1. From(c, w) = 0 /\ To(c, w) = 1 /\ Awaits(c, w) = "Recv"
      BY <1>3, <2>1 DEF From, To, Awaits, Wordy, Resets
    <3>2. i = 1
      BY <3>1
    <3>3. A[1] = "Recv" /\ "Recv" \in Texts
      BY <1>3 DEF Line1, Texts
    <3> QED BY <1>3, <2>1, <3>1, <3>2, <3>3 DEF Fits
  <2>2. CASE w = "resp"
    <3>1. From(c, w) = 1 /\ To(c, w) = 2 /\ Awaits(c, w) = "SEND OK"
      BY <1>3, <2>2 DEF From, To, Awaits, Wordy, Resets
    <3>2. i = 2
      <4>1. i \in 1 + 1 .. 2
        BY <3>1
      <4> QED BY <4>1
    <3>3. A[2] = "SEND OK" /\ "SEND OK" \in Texts
      BY <1>3 DEF Line1, Texts
    <3> QED BY <1>3, <2>2, <3>1, <3>2, <3>3 DEF Fits
  <2>3. w \in {"respv", "resp"}
    BY <1>3 DEF WaitsOf, Resets
  <2> QED BY <2>1, <2>2, <2>3
<1>4. CASE c \in Plain /\ Line1(A, c, "OK")
  <2>1. CASE w = "ack"
    <3>1. From(c, w) = 0 /\ To(c, w) = 1 /\ Awaits(c, w) = c
      BY <1>4, <2>1 DEF From, To, Awaits, Plain, Wordy, Resets
    <3>2. i = 1
      BY <3>1
    <3>3. A[1] = c /\ c \in Texts
      BY <1>0, <1>4 DEF Line1, Texts
    <3> QED BY <1>4, <2>1, <3>1, <3>2, <3>3 DEF Fits
  <2>2. CASE w = "resp"
    <3>1. From(c, w) = 1 /\ To(c, w) = 2 /\ Awaits(c, w) = "OK"
      BY <1>4, <2>2 DEF From, To, Awaits, Plain, Wordy, Resets
    <3>2. i = 2
      <4>1. i \in 1 + 1 .. 2
        BY <3>1
      <4> QED BY <4>1
    <3>3. A[2] = "OK" /\ "OK" \in Texts
      BY <1>0, <1>4 DEF Line1, Texts
    <3> QED BY <1>4, <2>2, <3>1, <3>2, <3>3 DEF Fits
  <2>3. w \in {"ack", "resp"}
    BY <1>4 DEF WaitsOf, Plain, Wordy, Resets
  <2> QED BY <2>1, <2>2, <2>3
<1>5. CASE c \in Wordy /\ Line2(A, c, "info", "OK")
  <2>1. CASE w = "ack"
    <3>1. From(c, w) = 0 /\ To(c, w) = 1 /\ Awaits(c, w) = c
      BY <1>5, <2>1 DEF From, To, Awaits, Wordy, Resets
    <3>2. i = 1
      BY <3>1
    <3>3. A[1] = c /\ c \in Texts
      BY <1>0, <1>5 DEF Line2, Texts
    <3> QED BY <1>5, <2>1, <3>1, <3>2, <3>3 DEF Fits
  <2>2. CASE w = "resp"
    <3>1. From(c, w) = 1 /\ To(c, w) = 3 /\ Awaits(c, w) = "OK"
      BY <1>5, <2>2 DEF From, To, Awaits, Wordy, Resets
    <3>2. i \in {2, 3}
      BY <3>1
    <3>3. A[3] = "OK" /\ "OK" \in Texts
          /\ A[2] = "info" /\ "info" \in Texts
      BY <1>0, <1>5 DEF Line2, Texts
    <3> QED BY <1>5, <2>2, <3>1, <3>2, <3>3 DEF Fits, Chatty
  <2>3. w \in {"ack", "resp"}
    BY <1>5 DEF WaitsOf, Wordy, Resets
  <2> QED BY <2>1, <2>2, <2>3
<1>6. CASE c = "AT+RST" /\ Line3(A, c, "OK", "garbage", "ready")
  <2>1. CASE w = "ack"
    <3>1. From(c, w) = 0 /\ To(c, w) = 1 /\ Awaits(c, w) = c
      BY <1>6, <2>1 DEF From, To, Awaits, Wordy, Resets
    <3>2. i = 1
      BY <3>1
    <3>3. A[1] = c /\ c \in Texts
      BY <1>0, <1>6 DEF Line3, Texts
    <3> QED BY <1>6, <2>1, <3>1, <3>2, <3>3 DEF Fits
  <2>2. CASE w = "resp"
    <3>1. From(c, w) = 1 /\ To(c, w) = 2 /\ Awaits(c, w) = "OK"
      BY <1>6, <2>2 DEF From, To, Awaits, Wordy, Resets
    <3>2. i = 2
      <4>1. i \in 1 + 1 .. 2
        BY <3>1
      <4> QED BY <4>1
    <3>3. A[2] = "OK" /\ "OK" \in Texts
      BY <1>0, <1>6 DEF Line3, Texts
    <3> QED BY <1>6, <2>2, <3>1, <3>2, <3>3 DEF Fits
  <2>3. CASE w = "drain"
    <3>1. From(c, w) = 2 /\ To(c, w) = 4 /\ Awaits(c, w) = "ready"
      BY <1>6, <2>3 DEF From, To, Awaits, Wordy, Resets
    <3>2. i \in {3, 4}
      BY <3>1
    <3>3. A[4] = "ready" /\ "ready" \in Texts
          /\ A[3] = "garbage" /\ "garbage" \in Texts
      BY <1>0, <1>6 DEF Line3, Texts
    <3> QED BY <1>6, <2>3, <3>1, <3>2, <3>3 DEF Fits, Chatty
  <2>4. w \in {"ack", "resp", "drain"}
    BY <1>6 DEF WaitsOf, Wordy, Resets
  <2> QED BY <2>1, <2>2, <2>3, <2>4
<1>7. CASE c = "AT+RESTORE" /\ Line2(A, c, "OK", "ready")
  <2>1. CASE w = "ack"
    <3>1. From(c, w) = 0 /\ To(c, w) = 1 /\ Awaits(c, w) = c
      BY <1>7, <2>1 DEF From, To, Awaits, Wordy, Resets
    <3>2. i = 1
      BY <3>1
    <3>3. A[1] = c /\ c \in Texts
      BY <1>0, <1>7 DEF Line2, Texts
    <3> QED BY <1>7, <2>1, <3>1, <3>2, <3>3 DEF Fits
  <2>2. CASE w = "resp"
    <3>1. From(c, w) = 1 /\ To(c, w) = 2 /\ Awaits(c, w) = "OK"
      BY <1>7, <2>2 DEF From, To, Awaits, Wordy, Resets
    <3>2. i = 2
      <4>1. i \in 1 + 1 .. 2
        BY <3>1
      <4> QED BY <4>1
    <3>3. A[2] = "OK" /\ "OK" \in Texts
      BY <1>0, <1>7 DEF Line2, Texts
    <3> QED BY <1>7, <2>2, <3>1, <3>2, <3>3 DEF Fits
  <2>3. CASE w = "drain"
    <3>1. From(c, w) = 2 /\ To(c, w) = 3 /\ Awaits(c, w) = "ready"
      BY <1>7, <2>3 DEF From, To, Awaits, Wordy, Resets
    <3>2. i = 3
      BY <3>1
    <3>3. A[3] = "ready" /\ "ready" \in Texts
      BY <1>0, <1>7 DEF Line2, Texts
    <3> QED BY <1>7, <2>3, <3>1, <3>2, <3>3 DEF Fits
  <2>4. w \in {"ack", "resp", "drain"}
    BY <1>7 DEF WaitsOf, Wordy, Resets
  <2> QED BY <2>1, <2>2, <2>3, <2>4
<1>8. CASE c = "AT+CWJAP" /\ Line3(A, c, "WIFI CONNECTED", "WIFI GOT IP", "OK")
  <2>1. CASE w = "ack"
    <3>1. From(c, w) = 0 /\ To(c, w) = 1 /\ Awaits(c, w) = c
      BY <1>8, <2>1 DEF From, To, Awaits, Wordy, Resets
    <3>2. i = 1
      BY <3>1
    <3>3. A[1] = c /\ c \in Texts
      BY <1>0, <1>8 DEF Line3, Texts
    <3> QED BY <1>8, <2>1, <3>1, <3>2, <3>3 DEF Fits
  <2>2. CASE w = "resp"
    <3>1. From(c, w) = 1 /\ To(c, w) = 4 /\ Awaits(c, w) = "OK"
      BY <1>8, <2>2 DEF From, To, Awaits, Wordy, Resets
    <3>2. i \in {2, 3, 4}
      BY <3>1
    <3>3. A[4] = "OK" /\ "OK" \in Texts
          /\ A[2] = "WIFI CONNECTED" /\ "WIFI CONNECTED" \in Texts
          /\ A[3] = "WIFI GOT IP" /\ "WIFI GOT IP" \in Texts
      BY <1>0, <1>8 DEF Line3, Texts
    <3>4. \/ A[i] = "OK" /\ i = 4
          \/ A[i] = "WIFI CONNECTED" /\ i < 4
          \/ A[i] = "WIFI GOT IP" /\ i < 4
      <4>1. CASE i = 2
        <5>1. A[i] = "WIFI CONNECTED"
          BY <3>3, <4>1
        <5>2. i < 4
          BY <4>1
        <5> QED BY <5>1, <5>2
      <4>2. CASE i = 3
        <5>1. A[i] = "WIFI GOT IP"
          BY <3>3, <4>2
        <5>2. i < 4
          BY <4>2
        <5> QED BY <5>1, <5>2
      <4>3. CASE i = 4
        BY <3>3, <4>3
      <4> QED BY <3>2, <4>1, <4>2, <4>3
    <3>5. "WIFI CONNECTED" \in Texts /\ "WIFI GOT IP" \in Texts /\ "OK" \in Texts
      BY <3>3
    <3>6. A[i] \in Texts
      BY <3>4, <3>5
    <3>7. c \in Chatty /\ w = "resp"
      BY <1>8, <2>2 DEF Chatty
    <3> QED BY <3>1, <3>4, <3>6, <3>7 DEF Fits
  <2>3. w \in {"ack", "resp"}
    BY <1>8 DEF WaitsOf, Wordy, Resets
  <2> QED BY <2>1, <2>2, <2>3
<1>9. CASE c = "AT+CIPSTART" /\ Line2(A, c, "CONNECT", "OK")
  <2>1. CASE w = "ack"
    <3>1. From(c, w) = 0 /\ To(c, w) = 1 /\ Awaits(c, w) = c
      BY <1>9, <2>1 DEF From, To, Awaits, Wordy, Resets
    <3>2. i = 1
      BY <3>1
    <3>3. A[1] = c /\ c \in Texts
      BY <1>0, <1>9 DEF Line2, Texts
    <3> QED BY <1>9, <2>1, <3>1, <3>2, <3>3 DEF Fits
  <2>2. CASE w = "respv"
    <3>1. From(c, w) = 1 /\ To(c, w) = 2 /\ Awaits(c, w) = "CONNECT"
      BY <1>9, <2>2 DEF From, To, Awaits, Wordy, Resets
    <3>2. i = 2
      <4>1. i \in 1 + 1 .. 2
        BY <3>1
      <4> QED BY <4>1
    <3>3. A[2] = "CONNECT" /\ "CONNECT" \in Texts
      BY <1>0, <1>9 DEF Line2, Texts
    <3> QED BY <1>9, <2>2, <3>1, <3>2, <3>3 DEF Fits
  <2>3. CASE w = "resp"
    <3>1. From(c, w) = 2 /\ To(c, w) = 3 /\ Awaits(c, w) = "OK"
      BY <1>9, <2>3 DEF From, To, Awaits, Wordy, Resets
    <3>2. i = 3
      BY <3>1
    <3>3. A[3] = "OK" /\ "OK" \in Texts
      BY <1>0, <1>9 DEF Line2, Texts
    <3> QED BY <1>9, <2>3, <3>1, <3>2, <3>3 DEF Fits
  <2>4. w \in {"ack", "respv", "resp"}
    BY <1>9 DEF WaitsOf, Wordy, Resets
  <2> QED BY <2>1, <2>2, <2>3, <2>4
<1>10. CASE c = "AT+CIPSEND" /\ Line2(A, c, "OK", ">")
  <2>1. CASE w = "ack"
    <3>1. From(c, w) = 0 /\ To(c, w) = 1 /\ Awaits(c, w) = c
      BY <1>10, <2>1 DEF From, To, Awaits, Wordy, Resets
    <3>2. i = 1
      BY <3>1
    <3>3. A[1] = c /\ c \in Texts
      BY <1>0, <1>10 DEF Line2, Texts
    <3> QED BY <1>10, <2>1, <3>1, <3>2, <3>3 DEF Fits
  <2>2. CASE w = "resp"
    <3>1. From(c, w) = 1 /\ To(c, w) = 2 /\ Awaits(c, w) = "OK"
      BY <1>10, <2>2 DEF From, To, Awaits, Wordy, Resets
    <3>2. i = 2
      <4>1. i \in 1 + 1 .. 2
        BY <3>1
      <4> QED BY <4>1
    <3>3. A[2] = "OK" /\ "OK" \in Texts
      BY <1>0, <1>10 DEF Line2, Texts
    <3> QED BY <1>10, <2>2, <3>1, <3>2, <3>3 DEF Fits
  <2>3. CASE w = "tok"
    <3>1. From(c, w) = 2 /\ To(c, w) = 3 /\ Awaits(c, w) = ">"
      BY <1>10, <2>3 DEF From, To, Awaits, Wordy, Resets
    <3>2. i = 3
      BY <3>1
    <3>3. A[3] = ">" /\ ">" \in Texts
      BY <1>0, <1>10 DEF Line2, Texts
    <3> QED BY <1>10, <2>3, <3>1, <3>2, <3>3 DEF Fits
  <2>4. w \in {"ack", "resp", "tok"}
    BY <1>10 DEF WaitsOf, Wordy, Resets
  <2> QED BY <2>1, <2>2, <2>3, <2>4
<1> QED BY <1>1, <1>2, <1>3, <1>4, <1>5, <1>6, <1>7, <1>8, <1>9, <1>10 DEF Shape

\* Where the answer goes on after the line that was waited for.
LEMMA NextFrom ==
    ASSUME NEW x \in States, x.wait # "free", NEW y \in States, y = NextWait(x)
    PROVE  /\ To(x.cmd, x.wait) \in 1 .. 4 /\ From(x.cmd, x.wait) \in 0 .. 3
           /\ From(x.cmd, x.wait) < To(x.cmd, x.wait)
           /\ y.wait # "free" => /\ y.st = x.st /\ y.cmd = x.cmd /\ y.wait # "ack"
                                 /\ From(y.cmd, y.wait) <= To(x.cmd, x.wait) /\ To(x.cmd, x.wait) < To(y.cmd, y.wait)
<1>1. x.cmd \in Commands /\ x.wait \in WaitsOf(x.cmd)
  BY WaitState
<1>2. To(x.cmd, x.wait) \in 1 .. 4 /\ From(x.cmd, x.wait) \in 0 .. 3 /\ From(x.cmd, x.wait) < To(x.cmd, x.wait)
  BY <1>1 DEF To, From, WaitsOf, Resets, Wordy
<1>3. ASSUME y.wait # "free"
      PROVE  /\ y.st = x.st /\ y.cmd = x.cmd /\ y.wait # "ack"
             /\ From(y.cmd, y.wait) <= To(x.cmd, x.wait) /\ To(x.cmd, x.wait) < To(y.cmd, y.wait)
  <2>1. Leads(x.cmd).wait = "free"
    BY DEF Leads, F, S
  <2>2. y # Leads(x.cmd)
    BY <1>3, <2>1
  <2>3. y.st = x.st /\ y.cmd = x.cmd
    BY <2>2 DEF NextWait, S
  <2>4. CASE x.wait = "ack"
    <3>1. y.wait = IF x.cmd = "AT+CIPSTART" THEN "respv" ELSE "resp"
      BY <2>4 DEF NextWait, S
    <3>2. x.cmd # "data"
      BY <1>1, <2>4 DEF WaitsOf, Resets
    <3> QED BY <2>3, <2>4, <3>1, <3>2 DEF To, From, Wordy
  <2>5. CASE x.wait = "respv"
    <3>1. y.wait = "resp" /\ x.cmd \in {"data", "AT+CIPSTART"}
      BY <1>1, <2>5 DEF NextWait, S, WaitsOf, Resets
    <3> QED BY <2>3, <2>5, <3>1 DEF To, From, Wordy
  <2>6. CASE x.wait = "resp" /\ x.cmd \in Resets
    <3>1. y.wait = "drain"
      BY <2>6 DEF NextWait, S, Resets
    <3> QED BY <2>3, <2>6, <3>1 DEF To, From, Wordy, Resets
  <2>7. CASE x.wait = "resp" /\ x.cmd = "AT+CIPSEND"
    <3>1. y.wait = "tok"
      BY <2>7 DEF NextWait, S, Resets
    <3> QED BY <2>3, <2>7, <3>1 DEF To, From, Wordy
  <2> QED BY <2>2, <2>4, <2>5, <2>6, <2>7 DEF NextWait
<1> QED BY <1>2, <1>3

\* When nothing more is waited for, the line was the last of the answer.
LEMMA LastLine ==
    ASSUME NEW x \in States, x.wait # "free", NextWait(x).wait = "free",
           NEW A, Shape(x.cmd, A), To(x.cmd, x.wait) <= Len(A),
           A[To(x.cmd, x.wait)] = Awaits(x.cmd, x.wait)
    PROVE  Len(A) = To(x.cmd, x.wait) /\ NextWait(x) = Leads(x.cmd)
<1> DEFINE c == x.cmd
           w == x.wait
<1>1. c \in Commands /\ w \in WaitsOf(c) /\ w \in {"ack", "resp", "respv", "drain", "tok"} /\ Shape(c, A)
  BY WaitState
<1>2. w # "ack" /\ w # "respv" /\ ~(w = "resp" /\ c \in Resets) /\ ~(w = "resp" /\ c = "AT+CIPSEND")
  BY DEF NextWait, S
<1>3. NextWait(x) = Leads(c)
  BY <1>2 DEF NextWait
<1>4. To(c, w) <= Len(A) /\ A[To(c, w)] = Awaits(c, w)
  OBVIOUS
<1> HIDE DEF c, w
<1>5. CASE w = "drain"
  <2>1. c \in Resets /\ To(c, w) \in {3, 4}
    BY <1>1, <1>5 DEF WaitsOf, To
  <2>2. CASE c = "AT+RST"
    <3>1. To(c, w) = 4
      BY <1>5, <2>2 DEF To
    <3>2. Len(A) = 2 \/ Len(A) = 4
      BY <1>1, <2>2 DEF Shape, Line1, Line3, Plain, Wordy
    <3> QED BY <1>3, <1>4, <3>1, <3>2 DEF c, w
  <2>3. CASE c = "AT+RESTORE"
    <3>1. To(c, w) = 3
      BY <1>5, <2>3 DEF To
    <3>2. Len(A) = 2 \/ Len(A) = 3
      BY <1>1, <2>3 DEF Shape, Line1, Line2, Plain, Wordy
    <3> QED BY <1>3, <1>4, <3>1, <3>2 DEF c, w
  <2> QED BY <2>1, <2>2, <2>3 DEF Resets
<1>6. CASE w = "tok"
  <2>1. c = "AT+CIPSEND" /\ To(c, w) = 3
    BY <1>1, <1>6 DEF WaitsOf, Resets, To
  <2>2. Len(A) = 2 \/ Len(A) = 3
    BY <1>1, <2>1 DEF Shape, Line1, Line2, Plain, Wordy
  <2>3. To(c, w) = 3
    BY <2>1
  <2> QED BY <1>3, <1>4, <2>2, <2>3 DEF c, w
<1>7. CASE w = "resp"
  <2>1. CASE c = "data"
    <3>1. To(c, w) = 2
      BY <1>7, <2>1 DEF To, Wordy
    <3>2. Len(A) = 1 \/ Len(A) = 2
      BY <1>1, <2>1 DEF Shape, Line1, Plain, Wordy
    <3> QED BY <1>3, <1>4, <3>1, <3>2 DEF c, w
  <2>2. CASE c = "AT+CIPSTART"
    <3>1. To(c, w) = 3
      BY <1>7, <2>2 DEF To, Wordy
    <3>2. Len(A) = 2 \/ Len(A) = 3
      BY <1>1, <2>2 DEF Shape, Line1, Line2, Plain, Wordy
    <3> QED BY <1>3, <1>4, <3>1, <3>2 DEF c, w
  <2>3. CASE c = "AT+CWJAP"
    <3>1. To(c, w) = 4
      BY <1>7, <2>3 DEF To
    <3>2. Len(A) = 2 \/ Len(A) = 4
      BY <1>1, <2>3 DEF Shape, Line1, Line3, Plain, Wordy
    <3> QED BY <1>3, <1>4, <3>1, <3>2 DEF c, w
  <2>4. CASE c \in Wordy
    <3>1. To(c, w) = 3
      BY <1>7, <2>4 DEF To, Wordy
    <3>2. Len(A) = 2 \/ Len(A) = 3
      BY <1>1, <2>4 DEF Shape, Line1, Line2, Plain, Wordy
    <3> QED BY <1>3, <1>4, <3>1, <3>2 DEF c, w
  <2>5. CASE c \in Plain
    <3>1. To(c, w) = 2
      BY <1>7, <2>5 DEF To, Wordy, Plain
    <3>2. Len(A) = 2
      BY <1>1, <2>5 DEF Shape, Line1, Plain, Wordy
    <3> QED BY <1>3, <3>1, <3>2 DEF c, w
  <2>6. c \in Plain \/ c \in Wordy \/ c \in {"data", "AT+CWJAP", "AT+CIPSTART"}
    BY <1>1, <1>2, <1>7 DEF Commands
  <2> QED BY <2>1, <2>2, <2>3, <2>4, <2>5, <2>6
<1>8. w = "drain" \/ w = "tok" \/ w = "resp"
  <2>1. w \in {"drain", "tok", "resp"}
    BY <1>1, <1>2
  <2> QED BY <2>1
<1> QED BY <1>5, <1>6, <1>7, <1>8

\* No line that nobody asked for reads like the one that is waited for.
LEMMA NoiseApart ==
    ASSUME ToldApart, NEW x \in States, x.wait # "free"
    PROVE  Awaits(x.cmd, x.wait) \notin Noise(x.st) \cup Old(x)
<1> DEFINE c == x.cmd
           w == x.wait
<1>1. c \in Commands /\ w \in WaitsOf(c) /\ w \in {"ack", "resp", "respv", "drain", "tok"} /\ Issues(x.st, c)
  BY WaitState
<1>2. CASE x.st = "active" \/ x.st = "sending"
  <2>1. Old(x) = {}
    BY <1>2 DEF Old
  <2>2. c = "AT+CIPSEND" \/ c = "data"
    BY <1>1, <1>2 DEF Issues
  <2>3. Awaits(c, w) \in {"AT+CIPSEND", "OK", ">", "Recv", "SEND OK"}
    <3>1. CASE c = "AT+CIPSEND"
      BY <1>1, <3>1 DEF WaitsOf, Resets, Awaits
    <3>2. CASE c = "data"
      BY <1>1, <3>2 DEF WaitsOf, Resets, Awaits
    <3> QED BY <2>2, <3>1, <3>2
  <2>4. Awaits(c, w) \notin Notices
    BY <2>3 DEF ToldApart
  <2>5. Awaits(c, w) \notin {"busy", "CONNECT", "+IPD"}
    BY <2>3
  <2> QED BY <2>1, <2>4, <2>5 DEF Noise
<1>3. CASE x.st \notin {"active", "sending"}
  <2>1. Awaits(c, w) # "busy"
    BY <1>1 DEF Awaits, Commands, Plain, Wordy, Resets
  <2>2. Awaits(c, w) \notin Noise(x.st)
    BY <1>3, <2>1 DEF Noise
  <2>3. Awaits(c, w) \notin Old(x)
    <3>1. CASE Old(x) = {}
      BY <3>1
    <3>2. CASE Old(x) # {}
      <4>1. x.st = "first" /\ w = "ack"
        BY <1>1, <3>2 DEF Old, Issues
      <4>2. Awaits(c, w) = "AT+RST" /\ Old(x) = Stale \cup {"garbage"}
        BY <1>1, <4>1 DEF Awaits, Issues, Old
      <4> QED BY <4>2 DEF ToldApart
    <3> QED BY <3>1, <3>2
  <2> QED BY <2>2, <2>3
<1> QED BY <1>2, <1>3

\* Every line of an answer is one of the texts.
LEMMA AnswerTexts ==
    ASSUME NEW c \in Commands, NEW A, Shape(c, A)
    PROVE  Len(A) \in 1 .. 4 /\ \A i \in 1 .. Len(A) : A[i] \in Texts
<1>1. Len(A) \in 1 .. 4
  <2>1. /\ \A t, u : Line1(A, t, u) => Len(A) = 2
        /\ \A t, u, v : Line2(A, t, u, v) => Len(A) = 3
        /\ \A t, u, v, w : Line3(A, t, u, v, w) => Len(A) = 4
    BY DEF Line1, Line2, Line3
  <2>2. Len(A) = 1 \/ Len(A) = 2 \/ Len(A) = 3 \/ Len(A) = 4
    BY <2>1 DEF Shape
  <2> QED BY <2>2
<1>2. ASSUME NEW t \in Texts, NEW u \in Texts, NEW v \in Texts, NEW w \in Texts,
             \/ Len(A) = 1 /\ A[1] = t
             \/ Line1(A, t, u) \/ Line2(A, t, u, v) \/ Line3(A, t, u, v, w)
      PROVE  \A i \in 1 .. Len(A) : A[i] \in Texts
  <2> SUFFICES ASSUME NEW i \in 1 .. Len(A) PROVE A[i] \in Texts
    OBVIOUS
  <2>1. i = 1 \/ i = 2 \/ i = 3 \/ i = 4
    BY <1>1
  <2> QED BY <1>2, <2>1 DEF Line1, Line2, Line3
<1>3. c \in Texts /\ \A t \in {"ERROR", "Recv", "SEND OK", "OK", "info", "garbage", "ready", "WIFI CONNECTED",
                            "WIFI GOT IP", "CONNECT", ">"} : t \in Texts
  BY DEF Texts
<1> HIDE DEF Texts
<1> QED BY <1>1, <1>2, <1>3 DEF Shape

-----------------------------------------------------------------------------
(***************************************************************************)
(* A line is taken.                                                        *)
(***************************************************************************)
\* The host takes a line that nobody asked for, or the next of the answer.
Idly(x, l) ==
  /\ l.id = 0 /\ l.t \in Noise(x.st) \cup Old(x) /\ l.t # Awaits(x.cmd, x.wait)
  /\ Hold(x, Tail(toHost))
Rightly(x, l) == l.id = cmdid /\ l.t = Awaits(x.cmd, x.wait) /\ toDev = <<>> /\ Hold(NextWait(x), Tail(toHost))
Early(x, l) ==
  /\ x.wait # "ack" /\ l.t # "busy" /\ l.t # Awaits(x.cmd, x.wait)
  /\ \/ l.t = "ERROR" /\ x.cmd \in Refuse /\ ~quiet /\ x.wait # "drain"
     \/ /\ l.t # "ERROR" /\ (x.wait = "drain" \/ (x.wait = "resp" /\ x.cmd \in Chatty))
        /\ Hold(x, Tail(toHost))

\* Whatever line comes, the host's place and the rest of the line fit again.
LEMMA Hears ==
    ASSUME ToldApart, Typed, NEW x \in States, x.wait # "free", NextWait(x) \in States, Hold(x, toHost), toHost # <<>>
    PROVE  Idly(x, Head(toHost)) \/ Rightly(x, Head(toHost)) \/ Early(x, Head(toHost))
<1> DEFINE q == toHost
           l == Head(q)
           p == Tail(q)
           c == x.cmd
           w == x.wait
           N == Noise(x.st)
           O == Old(x)
           T == [t : Texts, id : 0 .. cmdid]
           y == NextWait(x)
<1>1. q \in Seq(T) /\ q # <<>> /\ p \in Seq(T)
  BY TailFacts DEF Typed
<1>2. c \in Commands /\ w \in WaitsOf(c)
  BY WaitState
<1>3. Awaits(c, w) \notin N \cup O
  BY NoiseApart
<1>4. CASE Issued(x, q)
  <2>1. Silent(q, N \cup O)
    BY <1>4 DEF Issued
  <2>2. l.id = 0 /\ l.t \in N \cup O /\ Silent(p, N \cup O)
    <3> HIDE DEF q, l, p, N, O, T
    <3>1. Head(q).id = 0 /\ Head(q).t \in N \cup O /\ Silent(Tail(q), N \cup O)
      <4> DEFINE M == N \cup O
      <4>1. Silent(q, M)
        BY <2>1
      <4> HIDE DEF M
      <4>2. Head(q).id = 0 /\ Head(q).t \in M /\ Silent(Tail(q), M)
        BY <1>1, <4>1, SilentTail
      <4> QED BY <4>2 DEF M
    <3> QED BY <3>1 DEF l, p
  <2>3. Issued(x, p)
    BY <1>4, <2>2 DEF Issued
  <2>4. l.t # Awaits(c, w)
    BY <1>3, <2>2
  <2> QED BY <2>2, <2>3, <2>4 DEF Idly, Hold
<1>5. CASE Answering(x, q)
  <2>1. PICK a \in Answers(c), m \in 0 .. 4, h \in 0 .. 4 :
          /\ From(c, w) <= m /\ m < To(c, w)
          /\ m <= h /\ h <= Len(Sent(c, a))
          /\ Remains(dresp, Sent(c, a), cmdid, h)
          /\ Carries(q, Sent(c, a), cmdid, m, h, N, O)
    BY <1>5 DEF Answering
  <2> DEFINE A == Sent(c, a)
  <2>2. Shape(c, A) /\ Len(A) \in 1 .. 4 /\ toDev = <<>>
    BY <1>2, <1>5, SentFor, AnswerTexts DEF Answering
  <2>3. /\ m \in 0 .. 4 /\ h \in 0 .. 4 /\ From(c, w) <= m /\ m < To(c, w) /\ m <= h /\ h <= Len(A)
        /\ Remains(dresp, A, cmdid, h) /\ Carries(q, A, cmdid, m, h, N, O)
    BY <2>1
  <2>4. To(c, w) \in 1 .. 4 /\ From(c, w) \in 0 .. 3
    BY NextFrom
  <2>5. \/ l.id = 0 /\ l.t \in N \cup O /\ Carries(p, A, cmdid, m, h, N, O)
        \/ m < h /\ l = Line(A[m + 1], cmdid) /\ \A P : Carries(p, A, cmdid, m + 1, h, N, P)
    <3> HIDE DEF q, A, N, O, T
    <3>1. m \in Nat /\ h \in Nat /\ m <= h
      BY <2>3
    <3>2. Carries(q, A, cmdid, m, h, N, O)
      BY <2>3
    <3> QED BY <1>1, <3>1, <3>2, CarriesTail
  <2>6. ASSUME NEW k \in 0 .. 4, From(c, w) <= k, k < To(c, w), k <= h, Carries(p, A, cmdid, k, h, N, O)
        PROVE  Hold(x, p)
    <3>1. Answering(x, p)
      BY <2>1, <2>2, <2>3, <2>6 DEF Answering
    <3> QED BY <3>1 DEF Hold
  <2>7. CASE l.id = 0 /\ l.t \in N \cup O /\ Carries(p, A, cmdid, m, h, N, O)
    <3>1. l.t # Awaits(c, w)
      BY <1>3, <2>7
    <3>2. Hold(x, p)
      BY <2>3, <2>6, <2>7
    <3> QED BY <2>7, <3>1, <3>2 DEF Idly
  <2>8. CASE m < h /\ l = Line(A[m + 1], cmdid) /\ \A P : Carries(p, A, cmdid, m + 1, h, N, P)
    <3> DEFINE i == m + 1
    <3>1. i \in From(c, w) + 1 .. To(c, w) /\ i <= Len(A) /\ i \in 0 .. 4 /\ i <= h
      BY <2>2, <2>3, <2>4, <2>8
    <3>2. Fits(A, c, w, i)
      BY <1>2, <2>2, <3>1, AnswerFacts
    <3>3. l.id = cmdid /\ l.t = A[i]
      BY <2>8 DEF Line
    <3>4. \A P : Carries(p, A, cmdid, i, h, N, P)
      BY <2>8
    <3> HIDE DEF i
    <3>5. CASE A[i] # Awaits(c, w)
      <4>1. i < To(c, w) => Hold(x, p)
        <5> SUFFICES ASSUME i < To(c, w) PROVE Hold(x, p)
          OBVIOUS
        <5>1. From(c, w) <= i
          BY <2>3, <2>4, <3>1
        <5> QED BY <2>6, <3>1, <3>4, <5>1
      <4> QED BY <3>2, <3>3, <3>5, <4>1 DEF Fits, Early
    <3>6. CASE A[i] = Awaits(c, w)
      <4>1. i = To(c, w)
        BY <3>2, <3>6 DEF Fits
      <4>2. CASE y.wait # "free"
        <5>1. /\ y.st = x.st /\ y.cmd = c /\ y.wait # "ack"
              /\ From(c, y.wait) <= i /\ i < To(c, y.wait)
          BY <4>1, <4>2, NextFrom
        <5>2. Carries(p, A, cmdid, i, h, N, Old(y))
          BY <3>4
        <5>3. Answering(y, p)
          BY <2>1, <2>2, <2>3, <3>1, <5>1, <5>2 DEF Answering
        <5>4. Hold(y, p)
          BY <5>3, <4>2 DEF Hold
        <5> QED BY <2>2, <3>3, <3>6, <5>4 DEF Rightly
      <4>3. CASE y.wait = "free"
        <5>1. Len(A) = i /\ y = Leads(c)
          BY <2>2, <3>1, <3>6, <4>1, <4>3, LastLine
        <5>2. h = Len(A) /\ Len(dresp) = 0
          BY <2>2, <2>3, <3>1, <5>1 DEF Remains
        <5>3. dresp = <<>>
          BY <5>2, SeqFacts DEF Typed
        <5>4. Silent(p, N \cup Old(y))
          <6>1. Carries(p, A, cmdid, h, h, N, Old(y)) /\ h \in Nat
            BY <3>1, <3>4, <5>1, <5>2
          <6> HIDE DEF p, N, T, A, y
          <6> QED BY <1>1, <6>1, CarriesNone
        <5>5. N \subseteq Noise(y.st)
          <6>1. x.st \in {"active", "sending"} => y.st \in {"active", "sending"}
            <7> SUFFICES ASSUME x.st \in {"active", "sending"} PROVE y.st \in {"active", "sending"}
              OBVIOUS
            <7>1. c \in {"AT+CIPSEND", "data"}
              BY WaitState DEF Issues
            <7> QED BY <5>1, <7>1 DEF Leads, F, S
          <6> QED BY <6>1 DEF Noise
        <5>6. Silent(p, Noise(y.st) \cup Old(y))
          BY <5>4, <5>5 DEF Silent
        <5>7. Hold(y, p)
          BY <2>2, <4>3, <5>3, <5>6 DEF Hold, Idle
        <5> QED BY <2>2, <3>3, <3>6, <5>7 DEF Rightly
      <4> QED BY <4>2, <4>3
    <3> QED BY <3>5, <3>6
  <2> QED BY <2>5, <2>7, <2>8
<1> QED BY <1>4, <1>5 DEF Hold

\* Each call is made in one kind of state.
LEMMA EdgeIs ==
    ASSUME NEW x \in States, NEW y \in States, NEW ins, Edge(x, ins, y)
    PROVE  /\ ins.op = "eat" => x = F("start") /\ y = F("first")
           /\ ins.op = "conn" => x = F("active") /\ y = x /\ ins.a = "CONNECT"
           /\ ins.op = "recv" => x = F("active") /\ y = x /\ ins.a = "+IPD"
           /\ ins.op = "active" => /\ ins.a = role /\ y = F("active")
                                   /\ x = F(IF role = "client" THEN "dialled" ELSE "setup")
           /\ ins.op = "puts" => /\ x = F(x.st) /\ Issues(x.st, ins.a)
                                 /\ y = S(x.st, ins.a, IF ins.a = "data" THEN "respv" ELSE "ack")
           /\ ins.op \in {"ack", "resp", "respv", "drain", "tok"} =>
                /\ x.wait = ins.op /\ ins.a = Awaits(x.cmd, x.wait) /\ y = NextWait(x)
                /\ x.wait = "resp" /\ x.cmd \in Chatty => ins.extra
<1>1. x.wait # "free" => x.wait \in {"ack", "resp", "respv", "drain", "tok"}
  BY WaitState
<1> QED BY <1>1 DEF Edge

\* Where a free state is, and what a waiting state is for.
LEMMA Fields ==
    /\ \A st : F(st).st = st /\ F(st).wait = "free" /\ F(st).cmd = "none"
    /\ \A st, c, w : S(st, c, w).st = st /\ S(st, c, w).cmd = c /\ S(st, c, w).wait = w
BY DEF F, S

\* The host's place is known.
LEMMA AtPlace ==
    ASSUME EspInv, status = "ok", prog # <<>>
    PROVE  \E x, y, z \in States :
             /\ Path(prog, x, z) /\ Edge(x, Head(prog), y) /\ Path(Tail(prog), y, z)
             /\ Hold(x, toHost) /\ Flags(x)
<1>1. PICK x \in States, z \in States : Path(prog, x, z) /\ Hold(x, toHost) /\ Flags(x)
  BY DEF EspInv, Placed
<1>2. PICK y \in States : Edge(x, Head(prog), y) /\ Path(Tail(prog), y, z)
  BY <1>1, Walk
<1> QED BY <1>1, <1>2

\* The rest of the program after the step.
LEMMA PathKeeps ==
    ASSUME NEW x, NEW z, NEW p, Path(p, x, z), prog' = p, UNCHANGED role
    PROVE  Path(prog, x, z)'
BY DEF Path, Edge

\* A place that is known after the step.
LEMMA PlacedIf ==
    ASSUME NEW x \in States, NEW z \in States, NEW p, NEW q, Path(p, x, z), prog' = p, toHost' = q,
           UNCHANGED <<role, quiet, toDev, dresp, cmdid>>, Hold(x, q), Flags(x)'
    PROVE  Placed'
<1>1. Path(prog, x, z)'
  BY PathKeeps
<1>2. Hold(x, toHost)'
  <2>1. Noise(x.st)' = Noise(x.st) /\ Answers(x.cmd)' = Answers(x.cmd)
    BY DEF Noise, Answers
  <2>2. Idle(x, q) => Idle(x, toHost)'
    BY <2>1 DEF Idle
  <2>3. Issued(x, q) => Issued(x, toHost)'
    BY <2>1 DEF Issued
  <2>4. Answering(x, q) => Answering(x, toHost)'
    BY <2>1 DEF Answering
  <2> QED BY <2>2, <2>3, <2>4 DEF Hold
<1> QED BY <1>1, <1>2 DEF Placed

\* Nothing has been found out.
LEMMA FlagsKeep ==
    ASSUME NEW x, Flags(x), UNCHANGED <<active_p, dreset, toDev, cmdid, quiet, ch>>
    PROVE  Flags(x)'
BY DEF Flags

\* The channel number is found out by one line.
LEMMA DialledNext ==
    ASSUME NEW x \in States, x.wait # "free", NEW y \in States, y = NextWait(x), Dialled(y), ~Dialled(x)
    PROVE  x.cmd = "AT+CIPSTART" /\ x.wait = "respv"
<1>1. x.cmd \in Commands /\ Issues(x.st, x.cmd) /\ x.wait \in WaitsOf(x.cmd)
      /\ x.wait \in {"ack", "resp", "respv", "drain", "tok"}
  BY WaitState
<1>2. CASE y = Leads(x.cmd)
  <2>1. y.st = "dialled"
    BY <1>2 DEF Dialled, Leads, F, S
  <2>2. x.cmd = "AT+CIPSTART"
    BY <1>2, <2>1 DEF Leads, F, S
  <2>3. x.wait # "resp"
    BY <2>2 DEF Dialled
  <2>4. x.wait = "ack" \/ x.wait = "respv"
    BY <1>1, <2>2, <2>3 DEF WaitsOf, Resets
  <2>5. y.wait # "free"
    BY <2>4 DEF NextWait, S
  <2> QED BY <1>2, <2>5 DEF Leads, F, S
<1>3. CASE y # Leads(x.cmd)
  <2>1. y.st = x.st /\ y.cmd = x.cmd
    BY <1>3 DEF NextWait, S
  <2>2. x.cmd = "AT+CIPSTART" /\ y.wait = "resp"
    BY <2>1 DEF Dialled
  <2>3. x.wait # "ack"
    BY <2>2 DEF NextWait, S
  <2>4. x.wait # "resp"
    BY <2>2 DEF Dialled
  <2> QED BY <1>1, <2>2, <2>3, <2>4 DEF WaitsOf, Resets
<1> QED BY <1>2, <1>3

\* The line that was waited for has come.
LEMMA FlagsNext ==
    ASSUME NEW x \in States, x.wait # "free", NEW y \in States, y = NextWait(x), Flags(x), toDev = <<>>,
           UNCHANGED <<active_p, dreset, toDev, cmdid, quiet>>,
           ch' = ch \/ x.wait = "respv",
           quiet /\ x.cmd = "AT+CIPSTART" /\ x.wait = "respv" => ch' = "stored"
    PROVE  Flags(y)'
<1>1. x.cmd \in Commands /\ Issues(x.st, x.cmd) /\ x.wait \in WaitsOf(x.cmd)
  BY WaitState
<1>2. y = Leads(x.cmd) \/ (y.st = x.st /\ y.wait # "free")
  BY DEF NextWait, S
<1>3. x.st # "start" /\ (x.st = "active" => x.cmd = "AT+CIPSEND") /\ (x.st = "sending" => x.cmd = "data")
      /\ (x.cmd = "AT+CIPSEND" => x.st = "active") /\ (x.cmd = "data" => x.st = "sending")
  BY <1>1 DEF Issues
<1>4. (y.st \in {"active", "sending"}) = (x.st \in {"active", "sending"})
  <2>1. CASE y = Leads(x.cmd)
    <3>1. y.st \in {"active", "sending"} <=> x.cmd \in {"AT+CIPSEND", "data"}
      BY <2>1 DEF Leads, F, S
    <3>2. x.st \in {"active", "sending"} <=> x.cmd \in {"AT+CIPSEND", "data"}
      BY <1>3
    <3> QED BY <3>1, <3>2
  <2>2. CASE y.st = x.st
    BY <2>2
  <2> QED BY <1>2, <2>1, <2>2
<1>5. ~(y.st = "start" \/ (y.st = "first" /\ y.wait = "free"))
  <2>1. CASE y = Leads(x.cmd)
    BY <2>1 DEF Leads, F, S
  <2>2. CASE y.st = x.st /\ y.wait # "free"
    BY <1>3, <2>2
  <2> QED BY <1>2, <2>1, <2>2
<1>6. dreset = TRUE
  BY <1>3 DEF Flags
<1>7. cmdid >= 1
  <2>1. x # F("start") /\ x # F("first")
    BY Fields
  <2> QED BY <2>1 DEF Flags
<1>8. quiet /\ Dialled(y) => ch' = "stored"
  <2> SUFFICES ASSUME quiet, Dialled(y) PROVE ch' = "stored"
    OBVIOUS
  <2>1. CASE Dialled(x)
    <3>1. x.wait # "respv"
      BY <1>1, <2>1 DEF Dialled, Issues
    <3> QED BY <2>1, <3>1 DEF Flags
  <2>2. CASE ~Dialled(x)
    BY <2>2, DialledNext
  <2> QED BY <2>1, <2>2
<1> QED BY <1>4, <1>5, <1>6, <1>7, <1>8 DEF Flags

\* What the host's step changes besides its place.
LEMMA TakeLine ==
    ASSUME EspInv, status = "ok",
           (toHost # <<>> /\ toHost' = Tail(toHost)) \/ toHost' \in Seq([t : Texts, id : 0 .. cmdid]),
           UNCHANGED <<role, quiet, active_p, ooo, conn, cmdid, toDev, dev>>,
           status' \in {"ok", "panic"}, args' \in {"fresh", "used"}, ch' \in {"unset", "stored", "astray"},
           matched' = matched \/ (Matched /\ Head(toHost).id = cmdid),
           status' = "ok" => Placed', Willing /\ status' = "panic" => active_p,
           quiet => args' = "fresh", ch' = ch \/ ~active_p
    PROVE  EspInv'
<1>1. matched' \in Seq(Nat \X Nat) /\ AnswersMatch'
  <2>1. CASE matched' = matched
    BY <2>1 DEF EspInv, Typed, AnswersMatch
  <2>2. CASE Matched /\ Head(toHost).id = cmdid
    <3> DEFINE e == <<cmdid, cmdid>>
    <3>1. e \in Nat \X Nat /\ matched' = Append(matched, e) /\ matched \in Seq(Nat \X Nat)
      BY <2>2 DEF EspInv, Typed, Matched
    <3>2. e[1] = e[2]
      OBVIOUS
    <3> HIDE DEF e
    <3>3. /\ matched' \in Seq(Nat \X Nat) /\ Len(matched') = Len(matched) + 1 /\ matched'[Len(matched) + 1] = e
          /\ \A i \in 1 .. Len(matched) : matched'[i] = matched[i]
      BY <3>1, AppendFacts
    <3>4. Len(matched) \in Nat /\ DOMAIN matched = 1 .. Len(matched) /\ DOMAIN matched' = 1 .. Len(matched')
      BY <3>1, <3>3, SeqFacts
    <3>5. \A i \in 1 .. Len(matched) + 1 : i \in 1 .. Len(matched) \/ i = Len(matched) + 1
      BY <3>4
    <3>6. \A i \in 1 .. Len(matched) : matched[i][1] = matched[i][2]
      BY <3>4 DEF EspInv, AnswersMatch
    <3>7. \A i \in DOMAIN matched' : matched'[i][1] = matched'[i][2]
      BY <3>2, <3>3, <3>4, <3>5, <3>6
    <3> QED BY <3>3, <3>7 DEF AnswersMatch
  <2> QED BY <2>1, <2>2
<1>2. toHost' \in Seq([t : Texts, id : 0 .. cmdid])
  BY TailFacts DEF EspInv, Typed
<1>3. Typed'
  BY <1>1, <1>2 DEF EspInv, Typed, dev
<1>4. ChannelStored'
  BY DEF EspInv, ChannelStored
<1> QED BY <1>1, <1>3, <1>4 DEF EspInv, dev, Willing

\* The host gives up before its program is active only when a command is refused.
LEMMA PanicLate ==
    ASSUME Willing, NEW x \in States, x.wait # "free", x.wait # "ack", Flags(x), NEW l,
           (Idly(x, l) /\ l.t # "busy") \/ (Early(x, l) /\ l.t = "ERROR")
    PROVE  active_p
<1>1. Issues(x.st, x.cmd)
  BY WaitState
<1>2. CASE Idly(x, l) /\ l.t # "busy"
  <2>1. Old(x) = {}
    BY <1>1 DEF Old, Issues
  <2>2. l.t \in Noise(x.st)
    BY <1>2, <2>1 DEF Idly
  <2> QED BY <1>2, <2>2 DEF Noise, Flags
<1>3. CASE Early(x, l) /\ l.t = "ERROR"
  <2>1. x.cmd \in {"AT+CIPSEND", "data"}
    BY <1>3 DEF Early, Willing
  <2> QED BY <1>1, <2>1 DEF Issues, Flags
<1> QED BY <1>2, <1>3

-----------------------------------------------------------------------------
(***************************************************************************)
(* The host's steps.                                                       *)
(***************************************************************************)
\* The calls that wait for a line of an answer.
Waits == {"ack", "resp", "respv", "drain", "tok"}

\* What is known in such a call.
LEMMA AtWait ==
    ASSUME ToldApart, EspInv, NEW op \in Waits, InLine(op)
    PROVE  \E x, y, z \in States :
             /\ Path(prog, x, z) /\ Path(Tail(prog), y, z) /\ Flags(x)
             /\ x.wait = op /\ x.wait # "free" /\ arg = Awaits(x.cmd, x.wait) /\ y = NextWait(x)
             /\ arg \notin {"busy", "ERROR"}
             /\ op = "resp" /\ x.cmd \in Chatty => Head(prog).extra
             /\ Idly(x, Head(toHost)) \/ Rightly(x, Head(toHost)) \/ Early(x, Head(toHost))
<1>1. PICK x \in States, y \in States, z \in States :
        /\ Path(prog, x, z) /\ Edge(x, Head(prog), y) /\ Path(Tail(prog), y, z)
        /\ Hold(x, toHost) /\ Flags(x)
  BY AtPlace DEF InLine, In
<1>2. Head(prog).op = op /\ toHost # <<>> /\ Typed
  BY DEF InLine, In, EspInv
<1>3. x.wait = op /\ Head(prog).a = Awaits(x.cmd, x.wait) /\ y = NextWait(x)
      /\ (op = "resp" /\ x.cmd \in Chatty => Head(prog).extra)
  BY <1>1, <1>2, EdgeIs DEF Waits
<1>4. x.wait # "free"
  BY <1>3 DEF Waits
<1>5. Idly(x, Head(toHost)) \/ Rightly(x, Head(toHost)) \/ Early(x, Head(toHost))
  BY <1>1, <1>2, <1>3, <1>4, Hears
<1>6. Awaits(x.cmd, x.wait) \notin {"busy", "ERROR"}
  <2>1. x.cmd \in Commands
    BY <1>4, WaitState
  <2> QED BY <2>1 DEF Awaits, Commands, Plain, Wordy, Resets
<1> QED BY <1>1, <1>3, <1>4, <1>5, <1>6 DEF arg

\* It looks at the next line.
LEMMA Stays ==
    ASSUME NEW x \in States, NEW z \in States, Path(prog, x, z), Hold(x, Tail(toHost)), Flags(x),
           toHost' = Tail(toHost), UNCHANGED <<role, quiet, prog, active_p, ch, cmdid, toDev, dresp, dreset>>
    PROVE  Placed'
<1>1. Flags(x)'
  BY FlagsKeep
<1> QED BY <1>1, PlacedIf

\* It goes on with the next call.
LEMMA GoesOn ==
    ASSUME NEW x \in States, NEW y \in States, NEW z \in States, Path(Tail(prog), y, z), Flags(x),
           x.wait # "free", y = NextWait(x), Rightly(x, Head(toHost)),
           prog' = Tail(prog), toHost' = Tail(toHost),
           UNCHANGED <<role, quiet, active_p, cmdid, toDev, dresp, dreset>>,
           ch' = ch \/ x.wait = "respv",
           quiet /\ x.cmd = "AT+CIPSTART" /\ x.wait = "respv" => ch' = "stored"
    PROVE  Placed'
<1>1. toDev = <<>> /\ Hold(y, Tail(toHost))
  BY DEF Rightly
<1>2. Flags(y)'
  BY <1>1, FlagsNext
<1> QED BY <1>1, <1>2, PlacedIf

\* The echo of the command is waited for, and other lines are passed by.
LEMMA StepAck == ASSUME ToldApart, EspInv, UNCHANGED <<role, quiet>>, cmd_ack PROVE EspInv'
<1>1. InLine("ack") /\ UNCHANGED <<active_p, ooo, conn, args, ch, cmdid, matched, toDev, dev>>
  BY DEF cmd_ack
<1>2. PICK x \in States, y \in States, z \in States :
        /\ Path(prog, x, z) /\ Path(Tail(prog), y, z) /\ Flags(x)
        /\ x.wait = "ack" /\ x.wait # "free" /\ arg = Awaits(x.cmd, x.wait) /\ y = NextWait(x)
        /\ arg \notin {"busy", "ERROR"}
        /\ Idly(x, Head(toHost)) \/ Rightly(x, Head(toHost)) \/ Early(x, Head(toHost))
  <2>1. "ack" \in Waits
    BY DEF Waits
  <2> QED BY <1>1, <2>1, AtWait
<1>3. status = "ok" /\ toHost # <<>> /\ toHost' = Tail(toHost) /\ UNCHANGED <<dresp, dreset>>
  BY <1>1 DEF InLine, In, dev
<1>4. CASE text = arg
  <2>1. Step /\ status' = status
    BY <1>2, <1>4 DEF cmd_ack
  <2>2. Rightly(x, Head(toHost))
    BY <1>2, <1>4 DEF text, Idly, Early
  <2>3. Placed'
    BY <1>1, <1>2, <1>3, <2>1, <2>2, GoesOn DEF Step
  <2> QED BY <1>1, <1>3, <2>1, <2>3, TakeLine DEF EspInv, Typed
<1>5. CASE text # arg
  <2>1. Idly(x, Head(toHost))
    BY <1>2, <1>5 DEF text, Rightly, Early
  <2>2. Skip \/ (lex_panic /\ active_p)
    <3>1. (text = "busy" /\ Skip) \/ handle_ooo_msg
      BY <1>5 DEF cmd_ack
    <3> QED BY <3>1 DEF handle_ooo_msg, EspInv
  <2>3. CASE Skip
    <3>1. UNCHANGED <<prog, status>>
      BY <2>3 DEF Skip
    <3>2. Placed'
      BY <1>1, <1>2, <1>3, <2>1, <3>1, Stays DEF Idly
    <3> QED BY <1>1, <1>3, <3>1, <3>2, TakeLine DEF EspInv, Typed
  <2>4. CASE lex_panic /\ active_p
    <3>1. status' = "panic" /\ active_p
      BY <2>4 DEF lex_panic
    <3> QED BY <1>1, <1>3, <3>1, TakeLine DEF EspInv, Typed
  <2> QED BY <2>2, <2>3, <2>4
<1> QED BY <1>4, <1>5

\* The end of the answer is waited for.
LEMMA StepResponse == ASSUME ToldApart, EspInv, UNCHANGED <<role, quiet>>, cmd_response PROVE EspInv'
<1>1. InLine("resp") /\ UNCHANGED <<active_p, ooo, conn, args, ch, cmdid, toDev, dev>>
  BY DEF cmd_response
<1>2. PICK x \in States, y \in States, z \in States :
        /\ Path(prog, x, z) /\ Path(Tail(prog), y, z) /\ Flags(x)
        /\ x.wait = "resp" /\ x.wait # "free" /\ arg = Awaits(x.cmd, x.wait) /\ y = NextWait(x)
        /\ arg \notin {"busy", "ERROR"}
        /\ x.cmd \in Chatty => Head(prog).extra
        /\ Idly(x, Head(toHost)) \/ Rightly(x, Head(toHost)) \/ Early(x, Head(toHost))
  <2>1. "resp" \in Waits
    BY DEF Waits
  <2> QED BY <1>1, <2>1, AtWait
<1>3. status = "ok" /\ toHost # <<>> /\ toHost' = Tail(toHost) /\ UNCHANGED <<dresp, dreset>>
  BY <1>1 DEF InLine, In, dev
<1>4. CASE text = arg
  <2>1. Step /\ status' = status /\ Matched
    BY <1>2, <1>4 DEF cmd_response
  <2>2. Rightly(x, Head(toHost))
    BY <1>2, <1>4 DEF text, Idly, Early
  <2>3. Placed'
    BY <1>1, <1>2, <1>3, <2>1, <2>2, GoesOn DEF Step
  <2>4. Head(toHost).id = cmdid
    BY <2>2 DEF Rightly
  <2> QED BY <1>1, <1>3, <2>1, <2>3, <2>4, TakeLine DEF EspInv, Typed
<1>5. CASE text # arg
  <2>1. Idly(x, Head(toHost)) \/ Early(x, Head(toHost))
    BY <1>2, <1>5 DEF text, Rightly
  <2>2. matched' = matched
    BY <1>5 DEF cmd_response
  <2>3. CASE Skip /\ Hold(x, Tail(toHost))
    <3>1. UNCHANGED <<prog, status>>
      BY <2>3 DEF Skip
    <3>2. Placed'
      BY <1>1, <1>2, <1>3, <2>3, <3>1, Stays
    <3> QED BY <1>1, <1>3, <2>2, <3>1, <3>2, TakeLine DEF EspInv, Typed
  <2>4. CASE lex_panic /\ (Willing => active_p)
    <3>1. status' = "panic" /\ (Willing => active_p)
      BY <2>4 DEF lex_panic
    <3> QED BY <1>1, <1>3, <2>2, <3>1, TakeLine DEF EspInv, Typed
  <2>5. CASE text = "ERROR"
    <3>1. lex_panic
      BY <1>5, <2>5 DEF cmd_response
    <3>2. Willing => active_p
      BY <1>2, <2>1, <2>5, PanicLate DEF text
    <3> QED BY <2>4, <3>1, <3>2
  <2>6. CASE text = "busy"
    <3>1. Skip
      BY <1>5, <2>6 DEF cmd_response
    <3>2. Hold(x, Tail(toHost))
      BY <2>1, <2>6 DEF text, Idly, Early
    <3> QED BY <2>3, <3>1, <3>2
  <2>7. CASE text # "ERROR" /\ text # "busy"
    <3>1. IF Head(prog).extra THEN Skip ELSE lex_panic
      BY <1>5, <2>7 DEF cmd_response
    <3>2. CASE Head(prog).extra
      <4>1. Hold(x, Tail(toHost))
        BY <2>1, <2>7 DEF text, Idly, Early
      <4> QED BY <2>3, <3>1, <3>2, <4>1
    <3>3. CASE ~Head(prog).extra
      <4>1. ~Early(x, Head(toHost))
        BY <1>2, <2>7, <3>3 DEF text, Early
      <4>2. Willing => active_p
        BY <1>2, <2>1, <2>7, <4>1, PanicLate DEF text
      <4> QED BY <2>4, <3>1, <3>3, <4>2
    <3> QED BY <3>2, <3>3
  <2> QED BY <2>5, <2>6, <2>7
<1> QED BY <1>4, <1>5

\* A line with a number in it is waited for.
LEMMA StepResponsev == ASSUME ToldApart, EspInv, UNCHANGED <<role, quiet>>, cmd_responsev PROVE EspInv'
<1>1. InLine("respv") /\ UNCHANGED <<active_p, ooo, conn, cmdid, toDev, dev>>
  BY DEF cmd_responsev
<1>2. PICK x \in States, y \in States, z \in States :
        /\ Path(prog, x, z) /\ Path(Tail(prog), y, z) /\ Flags(x)
        /\ x.wait = "respv" /\ x.wait # "free" /\ arg = Awaits(x.cmd, x.wait) /\ y = NextWait(x)
        /\ arg \notin {"busy", "ERROR"}
        /\ Idly(x, Head(toHost)) \/ Rightly(x, Head(toHost)) \/ Early(x, Head(toHost))
  <2>1. "respv" \in Waits
    BY DEF Waits
  <2> QED BY <1>1, <2>1, AtWait
<1>3. status = "ok" /\ toHost # <<>> /\ toHost' = Tail(toHost) /\ UNCHANGED <<dresp, dreset>>
  BY <1>1 DEF InLine, In, dev
<1>4. FetchesFirst <=> x.cmd # "data"
  BY <1>2 DEF FetchesFirst, Awaits
<1>5. x.cmd # "data" => x.cmd = "AT+CIPSTART" /\ x.st = "setup" /\ ~active_p
  <2>1. x.cmd \in {"AT+CIPSTART", "data"}
    BY <1>2, WaitState DEF WaitsOf, Resets
  <2>2. x.cmd = "AT+CIPSTART" => x.st = "setup"
    BY <1>2, WaitState DEF Issues
  <2> QED BY <1>2, <2>1, <2>2 DEF Flags
<1>6. CASE text = arg
  <2>1. /\ Step /\ status' = status /\ Matched /\ args' = "fresh"
        /\ ch' = IF FetchesFirst THEN (IF args = "fresh" THEN "stored" ELSE "astray") ELSE ch
    BY <1>6 DEF cmd_responsev
  <2>2. Rightly(x, Head(toHost))
    BY <1>2, <1>6 DEF text, Idly, Early
  <2>3. quiet => args = "fresh"
    BY DEF EspInv
  <2>4. quiet /\ x.cmd = "AT+CIPSTART" /\ x.wait = "respv" => ch' = "stored"
    BY <1>4, <2>1, <2>3
  <2>5. Placed'
    BY <1>1, <1>2, <1>3, <2>1, <2>2, <2>4, GoesOn DEF Step
  <2>6. Head(toHost).id = cmdid
    BY <2>2 DEF Rightly
  <2>7. ch' \in {"unset", "stored", "astray"} /\ (ch' = ch \/ ~active_p)
    BY <1>4, <1>5, <2>1 DEF EspInv, Typed
  <2> QED BY <1>1, <1>3, <2>1, <2>5, <2>6, <2>7, TakeLine DEF EspInv, Typed
<1>7. CASE text # arg
  <2>1. Idly(x, Head(toHost)) \/ Early(x, Head(toHost))
    BY <1>2, <1>7 DEF text, Rightly
  <2>2. matched' = matched /\ ch' = ch /\ args' = (IF FetchesFirst THEN "used" ELSE args)
        /\ (IF text = "busy" THEN Skip ELSE lex_panic)
    BY <1>7 DEF cmd_responsev
  <2>3. Early(x, Head(toHost)) => text = "ERROR" /\ ~quiet
    BY <1>2 DEF Early, text
  <2>4. quiet /\ Idly(x, Head(toHost)) => x.cmd = "data"
    <3> SUFFICES ASSUME quiet, Idly(x, Head(toHost)), x.cmd # "data" PROVE FALSE
      OBVIOUS
    <3>1. Noise(x.st) = {} /\ Old(x) = {}
      BY <1>5 DEF Noise, Old
    <3> QED BY <3>1 DEF Idly
  <2>5. args' \in {"fresh", "used"} /\ (quiet => args' = "fresh")
    BY <1>4, <2>1, <2>2, <2>3, <2>4 DEF EspInv, Typed
  <2>6. CASE text = "busy"
    <3>1. Hold(x, Tail(toHost)) /\ UNCHANGED <<prog, status>>
      BY <2>1, <2>2, <2>3, <2>6 DEF Idly, Skip
    <3>2. Placed'
      BY <1>1, <1>2, <1>3, <2>2, <3>1, Stays
    <3> QED BY <1>1, <1>3, <2>2, <2>5, <3>1, <3>2, TakeLine DEF EspInv, Typed
  <2>7. CASE text # "busy"
    <3>1. status' = "panic"
      BY <2>2, <2>7 DEF lex_panic
    <3>2. Willing => active_p
      BY <1>2, <2>1, <2>3, <2>7, PanicLate DEF text
    <3> QED BY <1>1, <1>3, <2>2, <2>5, <3>1, <3>2, TakeLine DEF EspInv, Typed
  <2> QED BY <2>6, <2>7
<1> QED BY <1>6, <1>7

\* After a reset, lines are dropped until the device is ready.
LEMMA StepDrain == ASSUME ToldApart, EspInv, UNCHANGED <<role, quiet>>, DrainLine PROVE EspInv'
<1>1. InLine("drain") /\ UNCHANGED <<status, active_p, ooo, conn, args, ch, cmdid, toDev, dev>>
  BY DEF DrainLine
<1>2. PICK x \in States, y \in States, z \in States :
        /\ Path(prog, x, z) /\ Path(Tail(prog), y, z) /\ Flags(x)
        /\ x.wait = "drain" /\ x.wait # "free" /\ arg = Awaits(x.cmd, x.wait) /\ y = NextWait(x)
        /\ arg \notin {"busy", "ERROR"}
        /\ Idly(x, Head(toHost)) \/ Rightly(x, Head(toHost)) \/ Early(x, Head(toHost))
  <2>1. "drain" \in Waits
    BY DEF Waits
  <2> QED BY <1>1, <2>1, AtWait
<1>3. status = "ok" /\ toHost # <<>> /\ toHost' = Tail(toHost) /\ UNCHANGED <<dresp, dreset>>
  BY <1>1 DEF InLine, In, dev
<1>4. CASE text = arg
  <2>1. Step /\ Matched
    BY <1>4 DEF DrainLine
  <2>2. Rightly(x, Head(toHost))
    BY <1>2, <1>4 DEF text, Idly, Early
  <2>3. Placed'
    BY <1>1, <1>2, <1>3, <2>1, <2>2, GoesOn DEF Step
  <2>4. Head(toHost).id = cmdid
    BY <2>2 DEF Rightly
  <2> QED BY <1>1, <1>3, <2>1, <2>3, <2>4, TakeLine DEF EspInv, Typed
<1>5. CASE text # arg
  <2>1. UNCHANGED <<prog, matched>>
    BY <1>5 DEF DrainLine
  <2>2. Hold(x, Tail(toHost))
    BY <1>2, <1>5 DEF text, Idly, Rightly, Early
  <2>3. Placed'
    BY <1>1, <1>2, <1>3, <2>1, <2>2, Stays
  <2> QED BY <1>1, <1>3, <2>1, <2>3, TakeLine DEF EspInv, Typed
<1> QED BY <1>4, <1>5

\* While nothing is waited for, a line is taken.
LEMMA IdleTail ==
    ASSUME EspInv, NEW x \in States, x.wait = "free", Hold(x, toHost), toHost # <<>>
    PROVE  Hold(x, Tail(toHost))
<1> DEFINE M == Noise(x.st) \cup Old(x)
           T == [t : Texts, id : 0 .. cmdid]
<1>1. toHost \in Seq(T) /\ toDev = <<>> /\ dresp = <<>> /\ Silent(toHost, M)
  BY DEF Hold, Idle, EspInv, Typed
<1>2. Silent(Tail(toHost), M)
  <2> HIDE DEF M, T
  <2> QED BY <1>1, SilentTail
<1> QED BY <1>1, <1>2 DEF Hold, Idle

\* The prompt is waited for, or a packet.
LEMMA StepTokOrRecv == ASSUME ToldApart, EspInv, UNCHANGED <<role, quiet>>, TokOrRecv PROVE EspInv'
<1>1. /\ UNCHANGED <<active_p, ooo, conn, args, ch, cmdid, matched, toDev, dev>>
      /\ IF text = arg THEN Step /\ UNCHANGED status ELSE lex_panic
  BY DEF TokOrRecv
<1>2. CASE InLine("tok")
  <2>1. PICK x \in States, y \in States, z \in States :
          /\ Path(prog, x, z) /\ Path(Tail(prog), y, z) /\ Flags(x)
          /\ x.wait = "tok" /\ x.wait # "free" /\ arg = Awaits(x.cmd, x.wait) /\ y = NextWait(x)
          /\ Idly(x, Head(toHost)) \/ Rightly(x, Head(toHost)) \/ Early(x, Head(toHost))
    <3>1. "tok" \in Waits
      BY DEF Waits
    <3> QED BY <1>2, <3>1, AtWait
  <2>2. status = "ok" /\ toHost # <<>> /\ toHost' = Tail(toHost) /\ UNCHANGED <<dresp, dreset>>
    BY <1>1, <1>2 DEF InLine, In, dev
  <2>3. CASE text = arg
    <3>1. Step /\ status' = status
      BY <1>1, <2>3
    <3>2. Rightly(x, Head(toHost))
      BY <2>1, <2>3 DEF text, Idly, Early
    <3>3. Placed'
      BY <1>1, <2>1, <2>2, <3>1, <3>2, GoesOn DEF Step
    <3> QED BY <1>1, <2>2, <3>1, <3>3, TakeLine DEF EspInv, Typed
  <2>4. CASE text # arg
    <3>1. status' = "panic"
      BY <1>1, <2>4 DEF lex_panic
    <3>2. active_p
      <4>1. x.cmd = "AT+CIPSEND"
        BY <2>1, WaitState DEF WaitsOf, Resets
      <4>2. x.st = "active"
        BY <2>1, <4>1, WaitState DEF Issues
      <4> QED BY <2>1, <4>2 DEF Flags
    <3> QED BY <1>1, <2>2, <3>1, <3>2, TakeLine DEF EspInv, Typed
  <2> QED BY <2>3, <2>4
<1>3. CASE InLine("recv")
  <2>1. status = "ok" /\ toHost # <<>> /\ toHost' = Tail(toHost) /\ UNCHANGED <<dresp, dreset>>
        /\ prog # <<>> /\ Head(prog).op = "recv"
    BY <1>1, <1>3 DEF InLine, In, dev
  <2>2. PICK x \in States, y \in States, z \in States :
          /\ Path(prog, x, z) /\ Edge(x, Head(prog), y) /\ Path(Tail(prog), y, z)
          /\ Hold(x, toHost) /\ Flags(x)
    BY <2>1, AtPlace
  <2>3. x = F("active") /\ y = x
    BY <2>1, <2>2, EdgeIs
  <2>4. Hold(x, Tail(toHost)) /\ active_p
    BY <2>1, <2>2, <2>3, IdleTail, Fields DEF Flags
  <2>5. CASE text = arg
    <3>1. Step /\ status' = status
      BY <1>1, <2>5
    <3>2. Flags(y)'
      BY <1>1, <2>1, <2>2, <2>3, FlagsKeep
    <3>3. Placed'
      BY <1>1, <2>1, <2>2, <2>3, <2>4, <3>1, <3>2, PlacedIf DEF Step
    <3> QED BY <1>1, <2>1, <3>1, <3>3, TakeLine DEF EspInv, Typed
  <2>6. CASE text # arg
    <3>1. status' = "panic"
      BY <1>1, <2>6 DEF lex_panic
    <3> QED BY <1>1, <2>1, <2>4, <3>1, TakeLine DEF EspInv, Typed
  <2> QED BY <2>5, <2>6
<1> QED BY <1>2, <1>3 DEF TokOrRecv

\* A connection is waited for, and other lines are passed by.
LEMMA StepWaitForConn == ASSUME EspInv, UNCHANGED <<role, quiet>>, WaitForConn PROVE EspInv'
<1>1. InLine("conn") /\ UNCHANGED <<status, active_p, ooo, conn, args, ch, cmdid, matched, toDev, dev>>
      /\ IF text = arg THEN Step ELSE UNCHANGED prog
  BY DEF WaitForConn
<1>2. status = "ok" /\ toHost # <<>> /\ toHost' = Tail(toHost) /\ UNCHANGED <<dresp, dreset>>
      /\ prog # <<>> /\ Head(prog).op = "conn"
  BY <1>1 DEF InLine, In, dev
<1>3. PICK x \in States, y \in States, z \in States :
        /\ Path(prog, x, z) /\ Edge(x, Head(prog), y) /\ Path(Tail(prog), y, z)
        /\ Hold(x, toHost) /\ Flags(x)
  BY <1>2, AtPlace
<1>4. x = F("active") /\ y = x
  BY <1>2, <1>3, EdgeIs
<1>5. Hold(x, Tail(toHost))
  BY <1>2, <1>3, <1>4, IdleTail, Fields
<1>6. Flags(x)'
  BY <1>1, <1>2, <1>3, FlagsKeep
<1>7. Placed'
  <2>1. CASE prog' = prog
    BY <1>1, <1>2, <1>3, <1>5, <1>6, <2>1, PlacedIf
  <2>2. CASE prog' = Tail(prog)
    BY <1>1, <1>2, <1>3, <1>4, <1>5, <1>6, <2>2, PlacedIf
  <2> QED BY <1>1, <2>1, <2>2 DEF Step
<1> QED BY <1>1, <1>2, <1>7, TakeLine DEF EspInv, Typed

\* What was left on the line is dropped, or a part of it stays.
LEMMA StepEatLine == ASSUME EspInv, UNCHANGED <<role, quiet>>, EatLine PROVE EspInv'
<1> DEFINE part == [toHost EXCEPT ![1] = Line("garbage", 0)]
<1>1. /\ status = "ok" /\ toHost # <<>> /\ prog # <<>> /\ Head(prog).op = "eat"
      /\ toHost' = Tail(toHost) \/ toHost' = part
      /\ UNCHANGED <<prog, status, active_p, ooo, conn, args, ch, cmdid, matched, toDev, dev, dresp, dreset>>
  BY DEF EatLine, InLine, In, host, dev
<1>2. PICK x \in States, y \in States, z \in States :
        /\ Path(prog, x, z) /\ Edge(x, Head(prog), y) /\ Path(Tail(prog), y, z)
        /\ Hold(x, toHost) /\ Flags(x)
  BY <1>1, AtPlace
<1>3. x = F("start")
  BY <1>1, <1>2, EdgeIs
<1>4. toHost \in Seq([t : Texts, id : 0 .. cmdid])
  BY DEF EspInv, Typed
<1>5. Hold(x, Tail(toHost))
  BY <1>1, <1>2, <1>3, IdleTail, Fields
<1>6. Hold(x, part) /\ part \in Seq([t : Texts, id : 0 .. cmdid])
  <2> DEFINE g == Line("garbage", 0)
             T == [t : Texts, id : 0 .. cmdid]
  <2>1. g.t = "garbage" /\ g.id = 0 /\ g \in T
    <3>1. "garbage" \in Texts
      BY DEF Texts
    <3>2. 0 \in 0 .. cmdid
      BY DEF EspInv, Typed
    <3> QED BY <3>1, <3>2 DEF Line
  <2>2. "garbage" \in Old(x)
    BY <1>3, Fields DEF Old
  <2>3. toDev = <<>> /\ dresp = <<>> /\ Silent(toHost, Noise(x.st) \cup Old(x))
    BY <1>2, <1>3, Fields DEF Hold, Idle
  <2> HIDE DEF g
  <2>4. part = [toHost EXCEPT ![1] = g]
    BY DEF g
  <2> HIDE DEF part, T
  <2>5. toHost \in Seq(T) /\ 1 \in 1 .. Len(toHost)
    BY <1>1, <1>4, SeqFacts DEF T
  <2>6. /\ part \in Seq(T) /\ Len(part) = Len(toHost)
        /\ \A i \in 1 .. Len(toHost) : part[i] = IF i = 1 THEN g ELSE toHost[i]
    BY <2>1, <2>4, <2>5, ExceptSeq
  <2>7. Silent(part, Noise(x.st) \cup Old(x))
    BY <2>1, <2>2, <2>3, <2>6 DEF Silent
  <2> QED BY <1>3, <2>3, <2>6, <2>7, Fields DEF Hold, Idle, T
<1> HIDE DEF part
<1>7. Hold(x, toHost')
  BY <1>1, <1>5, <1>6
<1>8. Placed'
  <2>1. Flags(x)'
    BY <1>1, <1>2, FlagsKeep DEF dev
  <2>2. PICK p, q : p = prog /\ q = toHost' /\ Hold(x, q)
    BY <1>7
  <2> QED BY <1>1, <1>2, <2>1, <2>2, PlacedIf
<1> QED BY <1>1, <1>6, <1>8, TakeLine DEF EspInv, Typed

\* Nothing more arrives.
LEMMA StepEatDone == ASSUME EspInv, UNCHANGED <<role, quiet>>, EatDone PROVE EspInv'
<1>1. /\ status = "ok" /\ prog # <<>> /\ Head(prog).op = "eat" /\ prog' = Tail(prog)
      /\ UNCHANGED <<status, active_p, ooo, conn, args, ch, cmdid, matched, toDev, toHost, dev, dresp, dreset>>
  BY DEF EatDone, In, Step, dev
<1>2. PICK x \in States, y \in States, z \in States :
        /\ Path(prog, x, z) /\ Edge(x, Head(prog), y) /\ Path(Tail(prog), y, z)
        /\ Hold(x, toHost) /\ Flags(x)
  BY <1>1, AtPlace
<1>3. x = F("start") /\ y = F("first")
  BY <1>1, <1>2, EdgeIs
<1>4. Hold(y, toHost)
  <2>1. toDev = <<>> /\ dresp = <<>> /\ Silent(toHost, Noise(x.st) \cup Old(x))
    BY <1>2, <1>3, Fields DEF Hold, Idle
  <2>2. Noise(y.st) = Noise(x.st) /\ Old(y) = Old(x)
    BY <1>3, Fields DEF Noise, Old
  <2>3. Silent(toHost, Noise(y.st) \cup Old(y))
    BY <2>1, <2>2
  <2> QED BY <1>3, <2>1, <2>3, Fields DEF Hold, Idle
<1>5. Flags(y)'
  BY <1>1, <1>2, <1>3, Fields DEF Flags, Dialled
<1>6. Placed'
  BY <1>1, <1>2, <1>4, <1>5, PlacedIf
<1> QED BY <1>1, <1>6, TakeLine DEF EspInv, Typed

\* The program becomes active.
LEMMA StepActivate == ASSUME EspInv, UNCHANGED <<role, quiet>>, Activate PROVE EspInv'
<1>1. /\ status = "ok" /\ prog # <<>> /\ Head(prog).op = "active"
      /\ UNCHANGED <<args, ch, cmdid, matched, toDev, toHost, dev, dresp, dreset>>
  BY DEF Activate, In, dev
<1>2. PICK x \in States, y \in States, z \in States :
        /\ Path(prog, x, z) /\ Edge(x, Head(prog), y) /\ Path(Tail(prog), y, z)
        /\ Hold(x, toHost) /\ Flags(x)
  BY <1>1, AtPlace
<1>3. /\ arg = role /\ y = F("active") /\ x = F(x.st) /\ x.st \in {"dialled", "setup"}
      /\ role = "client" => x.st = "dialled"
  <2>1. Head(prog).a = role /\ y = F("active") /\ x = F(IF role = "client" THEN "dialled" ELSE "setup")
    BY <1>1, <1>2, EdgeIs
  <2> QED BY <2>1, Fields DEF arg
<1>4. ~active_p /\ ~conn
  BY <1>2, <1>3 DEF Flags, EspInv
<1>5. prog' = Tail(prog) /\ status' = status /\ active_p' = TRUE /\ ooo' = arg /\ conn' = (arg = "client")
  BY <1>4 DEF Activate, Step
<1>6. toDev = <<>> /\ dresp = <<>> /\ Silent(toHost, Noise(x.st) \cup Old(x))
  BY <1>2, <1>3, Fields DEF Hold, Idle
<1>7. Silent(toHost, Noise(y.st) \cup Old(y))
  <2>1. Noise(x.st) \cup Old(x) \subseteq Noise(y.st)
    BY <1>3, Fields DEF Noise, Old
  <2> QED BY <1>6, <2>1 DEF Silent
<1>8. Hold(y, toHost)
  BY <1>3, <1>6, <1>7, Fields DEF Hold, Idle
<1>9. Flags(y)'
  <2>1. dreset = TRUE
    BY <1>2, <1>3 DEF Flags
  <2>2. cmdid >= 1
    <3>1. x # F("start") /\ x # F("first")
      BY <1>3, Fields
    <3> QED BY <1>2, <3>1 DEF Flags
  <2> QED BY <1>1, <1>3, <1>5, <2>1, <2>2, Fields DEF Flags, Dialled
<1>10. Placed'
  BY <1>1, <1>2, <1>5, <1>8, <1>9, PlacedIf
<1>11. ChannelStored'
  <2>1. quiet /\ role = "client" => ch = "stored"
    BY <1>2, <1>3 DEF Flags, Dialled
  <2> QED BY <1>1, <2>1 DEF ChannelStored
<1>12. role \in {"client", "server"}
  BY EspAssumption DEF EspInv, Typed
<1>13. Typed'
  BY <1>1, <1>3, <1>5, <1>12 DEF EspInv, Typed, dev
<1> QED BY <1>1, <1>4, <1>5, <1>10, <1>11, <1>13 DEF EspInv, AnswersMatch, Willing

\* More commands have been issued: what is on the line keeps its type.
LEMMA MoreTexts ==
    ASSUME NEW n \in Nat, NEW m \in Nat, n <= m, NEW X, NEW q \in Seq([t : X, id : 0 .. n])
    PROVE  q \in Seq([t : X, id : 0 .. m])
<1> DEFINE U == [t : X, id : 0 .. n]
           V == [t : X, id : 0 .. m]
<1>1. U \subseteq V
  OBVIOUS
<1>2. Len(q) \in Nat /\ q = [i \in 1 .. Len(q) |-> q[i]] /\ \A i \in 1 .. Len(q) : q[i] \in U
  BY SeqFacts, LenProperties
<1> HIDE DEF U, V
<1>3. \A i \in 1 .. Len(q) : q[i] \in V
  BY <1>1, <1>2
<1>4. q \in [1 .. Len(q) -> V]
  BY <1>2, <1>3
<1>5. q \in Seq(V)
  BY <1>2, <1>4, IsASeq
<1> QED BY <1>5 DEF V

\* A command is issued.
LEMMA StepPuts == ASSUME EspInv, UNCHANGED <<role, quiet>>, cmd_puts PROVE EspInv'
<1>1. /\ status = "ok" /\ prog # <<>> /\ Head(prog).op = "puts" /\ prog' = Tail(prog)
      /\ cmdid' = (IF arg = "data" THEN cmdid ELSE cmdid + 1)
      /\ toDev' = Append(toDev, [cmd |-> arg, id |-> cmdid'])
      /\ UNCHANGED <<status, active_p, ooo, conn, args, ch, matched, toHost, dev, dresp, dreset>>
  BY DEF cmd_puts, In, Step, dev
<1>2. PICK x \in States, y \in States, z \in States :
        /\ Path(prog, x, z) /\ Edge(x, Head(prog), y) /\ Path(Tail(prog), y, z)
        /\ Hold(x, toHost) /\ Flags(x)
  BY <1>1, AtPlace
<1>3. x = F(x.st) /\ Issues(x.st, arg) /\ y = S(x.st, arg, IF arg = "data" THEN "respv" ELSE "ack")
  BY <1>1, <1>2, EdgeIs DEF arg
<1>4. arg \in Commands /\ y.st = x.st /\ y.cmd = arg /\ y.wait = (IF arg = "data" THEN "respv" ELSE "ack")
      /\ y.wait # "free" /\ x.wait = "free"
  BY <1>3, Fields DEF Issues, Commands, Resets
<1>5. toDev = <<>> /\ dresp = <<>> /\ Silent(toHost, Noise(x.st) \cup Old(x))
  BY <1>2, <1>4 DEF Hold, Idle
<1>6. cmdid' \in Nat /\ cmdid <= cmdid' /\ cmdid' >= 1 /\ cmdid \in Nat
  <2>1. cmdid \in Nat
    BY DEF EspInv, Typed
  <2>2. arg = "data" => cmdid >= 1
    <3> SUFFICES ASSUME arg = "data" PROVE cmdid >= 1
      OBVIOUS
    <3>1. x.st = "sending"
      BY <1>3 DEF Issues
    <3>2. x # F("start") /\ x # F("first")
      BY <3>1, Fields
    <3> QED BY <1>2, <3>2 DEF Flags
  <2> QED BY <1>1, <2>1, <2>2
<1>7. toDev' = <<[cmd |-> arg, id |-> cmdid']>>
  BY <1>1, <1>5
<1>8. Hold(y, toHost)'
  <2>1. Old(y) = Old(x)
    BY <1>3, <1>4 DEF Old, Issues
  <2>2. Noise(y.st)' = Noise(x.st)
    BY <1>4 DEF Noise
  <2>3. Silent(toHost, Noise(x.st) \cup Old(y))
    BY <1>5, <2>1
  <2>4. Issued(y, toHost)'
    BY <1>1, <1>4, <1>5, <1>7, <2>2, <2>3 DEF Issued
  <2> QED BY <1>4, <2>4 DEF Hold
<1>9. toDev' # <<>> /\ Len(toDev') = 1
  BY <1>7
<1>10. Flags(y)'
  <2>1. ~Dialled(y)
    BY <1>3, <1>4 DEF Dialled, Issues
  <2>2. dreset = ~(x.st = "start" \/ x.st = "first")
    BY <1>2, <1>4 DEF Flags
  <2>3. active_p = (x.st \in {"active", "sending"})
    BY <1>2 DEF Flags
  <2> QED BY <1>1, <1>4, <1>6, <1>9, <2>1, <2>2, <2>3 DEF Flags
<1>11. Path(prog, y, z)'
  BY <1>1, <1>2, PathKeeps
<1>12. Placed'
  BY <1>8, <1>10, <1>11 DEF Placed
<1>13. Typed'
  <2>1. toHost' \in Seq([t : Texts, id : 0 .. cmdid']) /\ dresp' \in Seq([t : Texts, id : 0 .. cmdid'])
    BY <1>1, <1>6, MoreTexts DEF EspInv, Typed
  <2>2. toDev' \in Seq([cmd : Commands, id : 1 .. cmdid'])
    <3>1. [cmd |-> arg, id |-> cmdid'] \in [cmd : Commands, id : 1 .. cmdid']
      BY <1>4, <1>6
    <3> QED BY <1>7, <3>1
  <2> QED BY <1>1, <1>6, <2>1, <2>2 DEF EspInv, Typed, dev
<1> QED BY <1>1, <1>5, <1>9, <1>12, <1>13 DEF EspInv, AnswersMatch, ChannelStored, Willing

-----------------------------------------------------------------------------
(***************************************************************************)
(* The device's steps.                                                     *)
(***************************************************************************)
\* What a step of the device leaves to be shown.
LEMMA DeviceStep ==
    ASSUME EspInv, UNCHANGED <<role, quiet, host>>,
           dreset' \in BOOLEAN, noise' \in 0 .. MaxNoise,
           toHost' \in Seq([t : Texts, id : 0 .. cmdid]), dresp' \in Seq([t : Texts, id : 0 .. cmdid]),
           toDev' = toDev \/ toDev' = <<>>, toDev' # <<>> => dresp' = <<>>,
           NEW x \in States, NEW z \in States,
           status = "ok" => Path(prog, x, z) /\ Hold(x, toHost)' /\ Flags(x)'
    PROVE  EspInv'
<1>1. UNCHANGED <<prog, status, active_p, ooo, conn, args, ch, cmdid, matched>>
  BY DEF host
<1>2. toDev' \in Seq([cmd : Commands, id : 1 .. cmdid]) /\ Len(toDev') <= 1
  BY DEF EspInv, Typed
<1>3. Typed'
  BY <1>1, <1>2 DEF EspInv, Typed
<1>4. status' = "ok" => Placed'
  BY <1>1, PathKeeps DEF Placed
<1> QED BY <1>1, <1>2, <1>3, <1>4 DEF EspInv, AnswersMatch, ChannelStored, Willing

\* The host's place, when the device makes a step; any place once the host has stopped.
LEMMA SomePlace ==
    ASSUME EspInv
    PROVE  \E x, z \in States : status = "ok" => Path(prog, x, z) /\ Hold(x, toHost) /\ Flags(x)
<1>1. F("start") \in States
  BY Free DEF Stages
<1> QED BY <1>1 DEF EspInv, Placed

\* The sum of the lines is kept when the device's step touches none of it.
LEMMA HoldKeeps ==
    ASSUME NEW x, NEW q, Hold(x, q), toHost' = q, UNCHANGED <<quiet, toDev, dresp, cmdid>>
    PROVE  Hold(x, toHost)'
<1>1. Noise(x.st)' = Noise(x.st) /\ Answers(x.cmd)' = Answers(x.cmd)
  BY DEF Noise, Answers
<1>2. Idle(x, q) => Idle(x, toHost)'
  BY <1>1 DEF Idle
<1>3. Issued(x, q) => Issued(x, toHost)'
  BY <1>1 DEF Issued
<1>4. Answering(x, q) => Answering(x, toHost)'
  BY <1>1 DEF Answering
<1> QED BY <1>2, <1>3, <1>4 DEF Hold

\* An answer is a sequence of texts.
LEMMA AnswerSeq ==
    ASSUME NEW c, NEW a \in Answers(c)
    PROVE  a \in Seq(Texts)
<1>1. \A t \in {"ERROR", "Recv", "SEND OK", "OK", "info", "garbage", "ready", "WIFI CONNECTED",
               "WIFI GOT IP", "CONNECT", ">"} : t \in Texts
  BY DEF Texts
<1> HIDE DEF Texts
<1>2. /\ \A t \in Texts : <<t>> \in Seq(Texts)
      /\ \A t, u \in Texts : <<t, u>> \in Seq(Texts)
      /\ \A t, u, v \in Texts : <<t, u, v>> \in Seq(Texts)
  OBVIOUS
<1>3. /\ <<"OK">> \in Seq(Texts) /\ <<"ERROR">> \in Seq(Texts)
      /\ <<"OK", "garbage", "ready">> \in Seq(Texts) /\ <<"OK", "ready">> \in Seq(Texts)
      /\ <<"WIFI CONNECTED", "WIFI GOT IP", "OK">> \in Seq(Texts) /\ <<"CONNECT", "OK">> \in Seq(Texts)
      /\ <<"OK", ">">> \in Seq(Texts) /\ <<"Recv", "SEND OK">> \in Seq(Texts) /\ <<"info", "OK">> \in Seq(Texts)
  BY <1>1, <1>2
<1>4. Answer(c) \in Seq(Texts)
  <2>1. Answer(c) \in {<<"OK">>, <<"OK", "garbage", "ready">>, <<"OK", "ready">>,
                       <<"WIFI CONNECTED", "WIFI GOT IP", "OK">>, <<"CONNECT", "OK">>, <<"OK", ">">>,
                       <<"Recv", "SEND OK">>, <<"info", "OK">>}
    BY DEF Answer
  <2> QED BY <1>3, <2>1
<1>5. a = Answer(c) \/ a = <<"ERROR">>
  BY DEF Answers
<1> QED BY <1>3, <1>4, <1>5

\* The lines that the device gets ready when it takes a command.
Ready(d, n, a) ==
  (IF d = "data" THEN <<>> ELSE <<Line(d, n)>>) \o [i \in 1 .. Len(a) |-> Line(a[i], n)]

\* They are the answer.
LEMMA Readied ==
    ASSUME NEW d \in Commands, cmdid \in Nat, NEW n \in 1 .. cmdid, NEW a \in Answers(d)
    PROVE  /\ Ready(d, n, a) \in Seq([t : Texts, id : 0 .. cmdid])
           /\ Remains(Ready(d, n, a), Sent(d, a), n, 0)
<1> DEFINE A == Sent(d, a)
           T == [t : Texts, id : 0 .. cmdid]
           g == [i \in 1 .. Len(a) |-> Line(a[i], n)]
           l == Line(d, n)
           r == Ready(d, n, a)
<1>1. Shape(d, A) /\ Len(A) \in 1 .. 4 /\ \A i \in 1 .. Len(A) : A[i] \in Texts
  BY SentFor, AnswerTexts
<1>2. a \in Seq(Texts)
  BY AnswerSeq
<1>3. Len(a) \in Nat /\ \A i \in 1 .. Len(a) : a[i] \in Texts
  BY <1>2, SeqFacts
<1>4. g \in Seq(T) /\ Len(g) = Len(a) /\ \A i \in 1 .. Len(a) : g[i] = Line(a[i], n)
  <2>1. \A i \in 1 .. Len(a) : Line(a[i], n) \in T
    BY <1>3 DEF Line
  <2> HIDE DEF T
  <2>2. g \in [1 .. Len(a) -> T]
    BY <2>1
  <2>3. g \in Seq(T)
    BY <1>3, <2>2, IsASeq
  <2> QED BY <1>3, <2>2, <2>3, LenProperties
<1>5. l \in T
  <2>1. d \in Texts
    BY DEF Texts
  <2> QED BY <2>1 DEF Line
<1> HIDE DEF T, g
<1>6. CASE d = "data"
  <2>1. r = <<>> \o g /\ A = a
    BY <1>6 DEF Ready, Sent, g
  <2>2. <<>> \o g = g
    BY <1>4, ConcatEmptySeq
  <2>3. r = g
    BY <2>1, <2>2
  <2>4. Len(r) = Len(A) - 0 /\ \A i \in 1 .. Len(r) : r[i] = Line(A[0 + i], n)
    BY <1>3, <1>4, <2>1, <2>3
  <2> HIDE DEF r, A
  <2>5. Remains(r, A, n, 0)
    BY <2>4 DEF Remains
  <2> QED BY <1>4, <2>3, <2>5 DEF r, A, T
<1>7. CASE d # "data"
  <2>1. r = <<l>> \o g /\ A = <<d>> \o a
    BY <1>7 DEF Ready, Sent, g
  <2>2. Len(A) = Len(a) + 1 /\ A[1] = d /\ \A i \in 1 .. Len(a) : A[i + 1] = a[i]
    BY <1>2, <2>1, SentIs
  <2>3. Len(r) = Len(g) + 1 /\ r[1] = l /\ \A i \in 1 .. Len(g) : r[i + 1] = g[i]
    <3>1. Len(<<l>> \o g) = Len(g) + 1 /\ (<<l>> \o g)[1] = l /\ \A i \in 1 .. Len(g) : (<<l>> \o g)[i + 1] = g[i]
      <4> HIDE DEF l
      <4> QED BY <1>4, SentIs
    <3> QED BY <2>1, <3>1
  <2>4. r \in Seq(T)
    <3>1. <<l>> \in Seq(T)
      <4> HIDE DEF l
      <4> QED BY <1>5
    <3> HIDE DEF l
    <3>2. <<l>> \o g \in Seq(T)
      BY <1>4, <3>1, ConcatProperties
    <3> QED BY <2>1, <3>2
  <2> HIDE DEF r, A
  <2>5. \A i \in 1 .. Len(r) : r[i] = Line(A[0 + i], n)
    <3> SUFFICES ASSUME NEW i \in 1 .. Len(r) PROVE r[i] = Line(A[0 + i], n)
      OBVIOUS
    <3>1. 0 + i = i /\ Len(r) = Len(a) + 1
      BY <1>3, <1>4, <2>3
    <3>2. CASE i = 1
      <4>1. r[i] = Line(A[i], n)
        BY <2>2, <2>3, <3>2
      <4> QED BY <3>1, <4>1
    <3>3. CASE i # 1
      <4>1. i - 1 \in 1 .. Len(a) /\ (i - 1) + 1 = i
        BY <1>3, <3>1, <3>3
      <4>2. r[i] = g[i - 1] /\ A[i] = a[i - 1] /\ g[i - 1] = Line(a[i - 1], n)
        BY <1>4, <2>2, <2>3, <4>1
      <4> QED BY <3>1, <4>2
    <3> QED BY <3>2, <3>3
  <2>6. Len(r) = Len(A) - 0
    BY <1>3, <1>4, <2>2, <2>3
  <2>7. Remains(r, A, n, 0)
    BY <2>5, <2>6 DEF Remains
  <2> QED BY <2>4, <2>7 DEF r, A, T
<1> QED BY <1>6, <1>7

\* The device takes a command.
LEMMA StepTake == ASSUME EspInv, UNCHANGED <<role, quiet>>, DevTake PROVE EspInv'
<1> DEFINE c == Head(toDev)
           d == c.cmd
           n == c.id
<1>1. /\ toDev # <<>> /\ dresp = <<>> /\ dreset' = TRUE /\ toDev' = Tail(toDev)
      /\ UNCHANGED <<host, toHost, noise>> /\ UNCHANGED cmdid
  BY DEF DevTake, host
<1>2. PICK a \in Answers(d) : dresp' = Ready(d, n, a)
  <2>1. PICK a \in {Answer(c.cmd)} \cup (IF c.cmd \in Refuse /\ ~quiet THEN {<<"ERROR">>} ELSE {}) :
          dresp' = (IF c.cmd = "data" THEN <<>> ELSE <<Line(c.cmd, c.id)>>)
                   \o [i \in 1..Len(a) |-> Line(a[i], c.id)]
    BY DEF DevTake
  <2>2. a \in Answers(d)
    BY <2>1 DEF Answers
  <2> QED BY <2>1, <2>2 DEF Ready
<1>3. cmdid \in Nat /\ d \in Commands /\ n \in 1 .. cmdid /\ toDev' = <<>>
  <2>1. c \in [cmd : Commands, id : 1 .. cmdid] /\ Len(toDev') = Len(toDev) - 1 /\ toDev' \in Seq([cmd : Commands, id : 1 .. cmdid])
        /\ Len(toDev) >= 1
    BY <1>1, TailFacts DEF EspInv, Typed
  <2>2. Len(toDev) \in Nat /\ Len(toDev) <= 1
    BY SeqFacts DEF EspInv, Typed
  <2>3. Len(toDev') = 0
    BY <2>1, <2>2
  <2> QED BY <2>1, <2>3, SeqFacts DEF EspInv, Typed
<1>4. dresp' \in Seq([t : Texts, id : 0 .. cmdid]) /\ Remains(dresp', Sent(d, a), n, 0)
  BY <1>2, <1>3, Readied
<1>5. PICK x \in States, z \in States : status = "ok" => Path(prog, x, z) /\ Hold(x, toHost) /\ Flags(x)
  BY SomePlace
<1>6. ASSUME status = "ok" PROVE Hold(x, toHost)' /\ Flags(x)'
  <2>1. x.wait # "free" /\ Issued(x, toHost)
    BY <1>1, <1>5, <1>6 DEF Hold, Idle, Answering
  <2>2. x.cmd = d /\ n = cmdid /\ Silent(toHost, Noise(x.st) \cup Old(x))
        /\ x.wait = (IF x.cmd = "data" THEN "respv" ELSE "ack")
    BY <2>1 DEF Issued
  <2>3. From(d, x.wait) = 0 /\ To(d, x.wait) = 1
    BY <2>2 DEF From, To
  <2>4. Carries(toHost, Sent(d, a), cmdid, 0, 0, Noise(x.st), Old(x))
    <3> DEFINE T == [t : Texts, id : 0 .. cmdid]
               N == Noise(x.st)
               O == Old(x)
               A == Sent(d, a)
    <3>1. toHost \in Seq(T) /\ Silent(toHost, N \cup O)
      BY <2>2 DEF EspInv, Typed
    <3> HIDE DEF T, N, O, A
    <3>2. Carries(toHost, A, cmdid, 0, 0, N, O)
      BY <3>1, CarriesNone
    <3> QED BY <3>2 DEF N, O, A
  <2>5. Len(Sent(d, a)) \in 1 .. 4
    BY <1>3, SentFor, AnswerTexts
  <2>6. Noise(x.st)' = Noise(x.st) /\ Answers(x.cmd)' = Answers(x.cmd)
    BY DEF Noise, Answers
  <2> DEFINE k == 0
  <2>7. /\ k \in 0 .. 4 /\ From(d, x.wait) <= k /\ k < To(d, x.wait) /\ k <= k /\ k <= Len(Sent(d, a))
        /\ Remains(dresp', Sent(d, a), cmdid', k)
        /\ Carries(toHost', Sent(d, a), cmdid', k, k, Noise(x.st)', Old(x))
    BY <1>1, <1>4, <2>2, <2>3, <2>4, <2>5, <2>6
  <2> HIDE DEF k
  <2>8. Answering(x, toHost)'
    BY <1>2, <1>3, <2>2, <2>6, <2>7 DEF Answering
  <2>9. Flags(x)'
    <3>1. x.st # "start"
      BY <2>1, WaitState DEF Issues
    <3>2. UNCHANGED <<active_p, ch>>
      BY <1>1 DEF host
    <3> QED BY <1>1, <1>3, <1>5, <1>6, <2>1, <3>1, <3>2 DEF Flags
  <2> QED BY <2>1, <2>8, <2>9 DEF Hold
<1>7. toHost' \in Seq([t : Texts, id : 0 .. cmdid]) /\ noise' \in 0 .. MaxNoise
  BY <1>1 DEF EspInv, Typed
<1> QED BY <1>1, <1>3, <1>4, <1>5, <1>6, <1>7, DeviceStep

\* The device sends the next line of its answer.
LEMMA StepSend == ASSUME EspInv, UNCHANGED <<role, quiet>>, DevSend PROVE EspInv'
<1> DEFINE T == [t : Texts, id : 0 .. cmdid]
           l == Head(dresp)
<1>1. /\ dresp # <<>> /\ toHost' = Append(toHost, l) /\ dresp' = Tail(dresp)
      /\ UNCHANGED <<host, toDev, dreset, noise>> /\ UNCHANGED <<cmdid, active_p, ch>>
  BY DEF DevSend, host
<1>2. toHost \in Seq(T) /\ dresp \in Seq(T) /\ toDev = <<>>
  BY <1>1 DEF EspInv, Typed
<1>3. l \in T /\ dresp' \in Seq(T)
  <2> HIDE DEF T
  <2> QED BY <1>1, <1>2, TailFacts
<1>4. toHost' \in Seq(T)
  <2> HIDE DEF T, l
  <2> QED BY <1>1, <1>2, <1>3, AppendFacts
<1>5. PICK x \in States, z \in States : status = "ok" => Path(prog, x, z) /\ Hold(x, toHost) /\ Flags(x)
  BY SomePlace
<1>6. ASSUME status = "ok" PROVE Hold(x, toHost)' /\ Flags(x)'
  <2>1. x.wait # "free" /\ Answering(x, toHost)
    BY <1>1, <1>5, <1>6 DEF Hold, Idle, Issued
  <2> DEFINE c == x.cmd
             w == x.wait
             N == Noise(x.st)
             O == Old(x)
  <2>2. PICK a \in Answers(c), m \in 0 .. 4, h \in 0 .. 4 :
          /\ From(c, w) <= m /\ m < To(c, w)
          /\ m <= h /\ h <= Len(Sent(c, a))
          /\ Remains(dresp, Sent(c, a), cmdid, h)
          /\ Carries(toHost, Sent(c, a), cmdid, m, h, N, O)
    BY <2>1 DEF Answering
  <2> DEFINE A == Sent(c, a)
  <2>3. Len(A) \in 1 .. 4
    BY <2>1, WaitState, SentFor, AnswerTexts
  <2>4. h + 1 <= Len(A) /\ l = Line(A[h + 1], cmdid) /\ Remains(Tail(dresp), A, cmdid, h + 1)
    <3>1. Remains(dresp, A, cmdid, h) /\ h \in Nat /\ Len(A) \in Nat /\ h <= Len(A)
      BY <2>2, <2>3
    <3> HIDE DEF A, T
    <3> QED BY <1>1, <1>2, <3>1, RemainsTail
  <2>5. Carries(toHost', A, cmdid, m, h + 1, N, O)
    <3>1. Carries(toHost, A, cmdid, m, h, N, O) /\ m \in Nat /\ h \in Nat /\ m <= h
      BY <2>2
    <3>2. Line(A[h + 1], cmdid) \in T /\ toHost' = Append(toHost, Line(A[h + 1], cmdid))
      BY <1>1, <1>3, <2>4
    <3> HIDE DEF A, T, N, O, l
    <3> QED BY <1>2, <3>1, <3>2, CarriesReal
  <2>6. Noise(x.st)' = N /\ Answers(c)' = Answers(c)
    BY DEF Noise, Answers
  <2>7. PICK k \in 0 .. 4 : k = h + 1
    BY <2>2, <2>3, <2>4
  <2>8. /\ From(c, w) <= m /\ m < To(c, w) /\ m <= k /\ k <= Len(A)
        /\ Remains(dresp', A, cmdid', k) /\ Carries(toHost', A, cmdid', m, k, N, O)
    BY <1>1, <2>2, <2>4, <2>5, <2>7
  <2>9. Answering(x, toHost)'
    <3>1. toDev' = <<>> /\ a \in Answers(c)'
      BY <1>1, <1>2, <2>6
    <3> QED BY <2>6, <2>8, <3>1 DEF Answering
  <2>10. Flags(x)'
    BY <1>1, <1>5, <1>6, FlagsKeep
  <2> QED BY <2>1, <2>9, <2>10 DEF Hold
<1>7. dreset' \in BOOLEAN /\ noise' \in 0 .. MaxNoise
  BY <1>1 DEF EspInv, Typed
<1> QED BY <1>1, <1>2, <1>3, <1>4, <1>5, <1>6, <1>7, DeviceStep

\* A line that nobody asked for is sent.
LEMMA HoldNoise ==
    ASSUME NEW x \in States, NEW T, NEW q \in Seq(T), NEW l \in T, l.id = 0,
           \/ l.t \in Noise(x.st)
           \/ l.t \in Old(x) /\ ~(x.wait # "free" /\ Answering(x, q)),
           Hold(x, q)
    PROVE  Hold(x, Append(q, l))
<1> DEFINE N == Noise(x.st)
           O == Old(x)
           M == N \cup O
           p == Append(q, l)
<1>1. ASSUME Silent(q, M) PROVE Silent(p, M)
  <2>1. l.t \in M
    OBVIOUS
  <2> HIDE DEF M
  <2> QED BY <1>1, <2>1, SilentAppend
<1>2. Idle(x, q) => Idle(x, p)
  BY <1>1 DEF Idle
<1>3. Issued(x, q) => Issued(x, p)
  BY <1>1 DEF Issued
<1>4. ASSUME l.t \in N, Answering(x, q) PROVE Answering(x, p)
  <2>1. PICK a \in Answers(x.cmd), m \in 0 .. 4, h \in 0 .. 4 :
          /\ From(x.cmd, x.wait) <= m /\ m < To(x.cmd, x.wait)
          /\ m <= h /\ h <= Len(Sent(x.cmd, a))
          /\ Remains(dresp, Sent(x.cmd, a), cmdid, h)
          /\ Carries(q, Sent(x.cmd, a), cmdid, m, h, N, O)
    BY <1>4 DEF Answering
  <2> DEFINE A == Sent(x.cmd, a)
  <2>2. Carries(p, A, cmdid, m, h, N, O)
    <3>1. Carries(q, A, cmdid, m, h, N, O) /\ m \in Nat /\ h \in Nat
      BY <2>1
    <3> HIDE DEF A, N, O
    <3> QED BY <1>4, <3>1, CarriesNoise
  <2>3. toDev = <<>>
    BY <1>4 DEF Answering
  <2> QED BY <2>1, <2>2, <2>3 DEF Answering
<1> QED BY <1>2, <1>3, <1>4 DEF Hold

\* Lines of an earlier session, busy lines and notices.
LEMMA StepNoise ==
    ASSUME EspInv, UNCHANGED <<role, quiet>>, NEW t \in Stale \cup Notices \cup {"busy"}, DevNoise(t)
    PROVE  EspInv'
<1> DEFINE T == [t : Texts, id : 0 .. cmdid]
           l == Line(t, 0)
<1>1. /\ noise < MaxNoise /\ noise' = noise + 1 /\ toHost' = Append(toHost, l)
      /\ UNCHANGED <<host, toDev, dresp, dreset>> /\ UNCHANGED <<cmdid, active_p, ch>>
      /\ \/ t \in Stale /\ ~dreset
         \/ t = "busy" /\ ~quiet /\ dresp # <<>>
         \/ t \in Notices /\ ~quiet /\ active_p /\ dresp = <<>>
  BY DEF DevNoise, host
<1>2. toHost \in Seq(T) /\ dresp \in Seq(T) /\ cmdid \in Nat
  BY DEF EspInv, Typed
<1>3. l \in T /\ l.id = 0 /\ l.t = t
  <2>1. t \in Texts
    BY DEF Texts
  <2> QED BY <1>2, <2>1 DEF Line
<1>4. toHost' \in Seq(T)
  <2> HIDE DEF T, l
  <2> QED BY <1>1, <1>2, <1>3, AppendFacts
<1>5. PICK x \in States, z \in States : status = "ok" => Path(prog, x, z) /\ Hold(x, toHost) /\ Flags(x)
  BY SomePlace
<1>6. ASSUME status = "ok" PROVE Hold(x, toHost)' /\ Flags(x)'
  <2>1. Hold(x, toHost) /\ Flags(x)
    BY <1>5, <1>6
  <2>2. t \in Noise(x.st) \/ (t \in Old(x) /\ ~(x.wait # "free" /\ Answering(x, toHost)))
    <3>1. CASE t \in Stale /\ ~dreset
      <4>1. x.st = "start" \/ (x.st = "first" /\ (x.wait = "free" \/ toDev # <<>>))
        BY <2>1, <3>1 DEF Flags
      <4>2. CASE x.wait = "free"
        BY <3>1, <4>1, <4>2 DEF Old
      <4>3. CASE x.wait # "free"
        <5>1. x.st = "first" /\ x.cmd = "AT+RST" /\ toDev # <<>>
          BY <4>1, <4>3, WaitState DEF Issues
        <5>2. ~Answering(x, toHost) /\ x.wait = "ack"
          BY <2>1, <4>3, <5>1 DEF Hold, Answering, Issued
        <5> QED BY <3>1, <5>1, <5>2 DEF Old
      <4> QED BY <4>2, <4>3
    <3>2. CASE t = "busy" /\ ~quiet
      BY <3>2 DEF Noise
    <3>3. CASE t \in Notices /\ active_p
      BY <2>1, <3>3 DEF Noise, Flags
    <3> QED BY <1>1, <3>1, <3>2, <3>3
  <2>3. Hold(x, Append(toHost, l))
    <3> HIDE DEF T, l
    <3> QED BY <1>2, <1>3, <2>1, <2>2, HoldNoise
  <2>4. Hold(x, toHost)'
    BY <1>1, <2>3, HoldKeeps
  <2>5. Flags(x)'
    BY <1>1, <2>1, FlagsKeep
  <2> QED BY <2>4, <2>5
<1>7. noise' \in 0 .. MaxNoise /\ dreset' \in BOOLEAN /\ dresp' = dresp /\ toDev' = toDev
  BY <1>1, EspAssumption DEF EspInv, Typed
<1> QED BY <1>1, <1>2, <1>4, <1>5, <1>6, <1>7, DeviceStep DEF EspInv

\* The other side connects, or sends a packet.
LEMMA StepPeer == ASSUME EspInv, UNCHANGED <<role, quiet>>, DevPeer PROVE EspInv'
<1> DEFINE l == Line(arg, 0)
<1>1. /\ status = "ok" /\ prog # <<>> /\ (Head(prog).op = "conn" \/ Head(prog).op = "recv")
      /\ toHost = <<>> /\ dresp = <<>> /\ toHost' = <<l>>
      /\ UNCHANGED <<host, toDev, dev>> /\ UNCHANGED <<cmdid, active_p, ch, dresp, dreset, noise>>
  BY DEF DevPeer, In, host, dev
<1>2. PICK x \in States, y \in States, z \in States :
        /\ Path(prog, x, z) /\ Edge(x, Head(prog), y) /\ Path(Tail(prog), y, z)
        /\ Hold(x, toHost) /\ Flags(x)
  BY <1>1, AtPlace
<1>3. x = F("active") /\ arg \in {"CONNECT", "+IPD"}
  BY <1>1, <1>2, EdgeIs DEF arg
<1>4. x.st = "active" /\ x.wait = "free"
  BY <1>3, Fields
<1>5. l.id = 0 /\ l.t \in Noise(x.st) /\ l \in [t : Texts, id : 0 .. cmdid]
  <2>1. arg \in Texts /\ cmdid \in Nat
    BY <1>3 DEF Texts, EspInv, Typed
  <2> QED BY <1>3, <1>4, <2>1 DEF Line, Noise
<1>6. toHost' \in Seq([t : Texts, id : 0 .. cmdid]) /\ Len(toHost') = 1 /\ toHost'[1] = l
  <2> HIDE DEF l
  <2> QED BY <1>1, <1>5
<1>7. Hold(x, toHost)'
  <2>1. toDev = <<>>
    BY <1>2, <1>4 DEF Hold, Idle
  <2>2. Noise(x.st)' = Noise(x.st)
    BY DEF Noise
  <2>3. \A i \in 1 .. Len(toHost') : toHost'[i].id = 0 /\ toHost'[i].t \in Noise(x.st) \cup Old(x)
    <3>1. \A i \in 1 .. 1 : i = 1
      OBVIOUS
    <3> QED BY <1>5, <1>6, <3>1
  <2>4. Silent(toHost', Noise(x.st) \cup Old(x))
    BY <2>3 DEF Silent
  <2> QED BY <1>1, <1>4, <2>1, <2>2, <2>4 DEF Hold, Idle
<1>8. Flags(x)'
  BY <1>1, <1>2, FlagsKeep
<1>9. dreset' \in BOOLEAN /\ noise' \in 0 .. MaxNoise /\ dresp' \in Seq([t : Texts, id : 0 .. cmdid])
  BY <1>1 DEF EspInv, Typed
<1> QED BY <1>1, <1>2, <1>6, <1>7, <1>8, <1>9, DeviceStep

\* Nothing happens.
LEMMA StepNothing == ASSUME EspInv, UNCHANGED vars PROVE EspInv'
<1>1. UNCHANGED <<role, quiet, host, toHost, toDev, dresp, dreset, noise>>
      /\ UNCHANGED <<cmdid, active_p, ch>>
  BY DEF vars, dev, host
<1>2. PICK x \in States, z \in States : status = "ok" => Path(prog, x, z) /\ Hold(x, toHost) /\ Flags(x)
  BY SomePlace
<1>3. ASSUME status = "ok" PROVE Hold(x, toHost)' /\ Flags(x)'
  BY <1>1, <1>2, <1>3, HoldKeeps, FlagsKeep
<1>4. /\ dreset' \in BOOLEAN /\ noise' \in 0 .. MaxNoise
      /\ dresp' \in Seq([t : Texts, id : 0 .. cmdid]) /\ toHost' \in Seq([t : Texts, id : 0 .. cmdid])
      /\ toDev' # <<>> => dresp' = <<>>
  BY <1>1 DEF EspInv, Typed
<1> QED BY <1>1, <1>2, <1>3, <1>4, DeviceStep

-----------------------------------------------------------------------------
(***************************************************************************)
(* The theorems.                                                           *)
(***************************************************************************)
\* Both programs begin at the first place, with nothing on the line.
LEMMA EspInit == Init => EspInv
<1> SUFFICES ASSUME Init PROVE EspInv
  OBVIOUS
<1>1. F("start") \in States /\ F("active") \in States
  BY Free DEF Stages
<1>2. Path(prog, F("start"), F("active"))
  <2>1. role \in {"client", "server"}
    BY EspAssumption DEF Init
  <2>2. prog = IF role = "client" THEN client_main ELSE server_main
    BY DEF Init
  <2> QED BY <2>1, <2>2, Mains
<1>3. Len(toHost) = 0 /\ toHost = <<>> /\ toDev = <<>> /\ dresp = <<>> /\ Len(toDev) = 0 /\ matched = <<>>
  BY DEF Init
<1>4. Hold(F("start"), toHost)
  <2>1. Silent(toHost, Noise(F("start").st) \cup Old(F("start")))
    BY <1>3 DEF Silent
  <2> QED BY <1>3, <2>1, Fields DEF Hold, Idle
<1>5. Flags(F("start"))
  <2> DEFINE x == F("start")
  <2>1. x.st = "start" /\ x.cmd = "none"
    BY Fields
  <2>2. ~active_p /\ ~dreset /\ active_p = FALSE /\ dreset = FALSE
    BY DEF Init
  <2>3. x.st \notin {"active", "sending"} /\ ~Dialled(x) /\ x \in {F("start"), F("first")}
    BY <2>1 DEF Dialled
  <2> HIDE DEF x
  <2>4. active_p = (x.st \in {"active", "sending"})
    <3>1. (x.st \in {"active", "sending"}) = FALSE
      BY <2>1
    <3> QED BY <2>2, <3>1
  <2>5. dreset = ~(x.st = "start" \/ (x.st = "first" /\ (x.wait = "free" \/ toDev # <<>>)))
    BY <2>1, <2>2
  <2>6. Flags(x)
    BY <2>3, <2>4, <2>5 DEF Flags
  <2> QED BY <2>6 DEF x
<1>6. Placed
  BY <1>1, <1>2, <1>4, <1>5 DEF Placed
<1>7. Typed
  <2>1. \A X : <<>> \in Seq(X)
    OBVIOUS
  <2>2. toHost \in Seq([t : Texts, id : 0 .. cmdid]) /\ dresp \in Seq([t : Texts, id : 0 .. cmdid])
        /\ toDev \in Seq([cmd : Commands, id : 1 .. cmdid]) /\ matched \in Seq(Nat \X Nat)
    BY <1>3, <2>1
  <2>3. /\ role \in Roles /\ quiet \in Quiet /\ status \in {"ok", "panic"} /\ active_p \in BOOLEAN
        /\ conn \in BOOLEAN /\ dreset \in BOOLEAN
    BY DEF Init
  <2>4. /\ ooo \in {"default", "client", "server"} /\ args \in {"fresh", "used"}
        /\ ch \in {"unset", "stored", "astray"}
    BY DEF Init
  <2>5. cmdid \in Nat /\ noise \in 0 .. MaxNoise
    BY EspAssumption DEF Init
  <2> QED BY <2>2, <2>3, <2>4, <2>5 DEF Typed
<1> QED BY <1>3, <1>6, <1>7 DEF Init, EspInv, AnswersMatch, ChannelStored

\* Every step keeps the invariant.
LEMMA EspNext == ASSUME ToldApart, EspInv, [Next]_vars PROVE EspInv'
<1>1. CASE HostNext
  <2>1. UNCHANGED <<role, quiet>>
    BY <1>1 DEF HostNext
  <2>2. CASE cmd_puts
    BY <2>1, <2>2, StepPuts
  <2>3. CASE cmd_ack
    BY <2>1, <2>3, StepAck
  <2>4. CASE cmd_response
    BY <2>1, <2>4, StepResponse
  <2>5. CASE cmd_responsev
    BY <2>1, <2>5, StepResponsev
  <2>6. CASE DrainLine
    BY <2>1, <2>6, StepDrain
  <2>7. CASE EatLine
    BY <2>1, <2>7, StepEatLine
  <2>8. CASE EatDone
    BY <2>1, <2>8, StepEatDone
  <2>9. CASE TokOrRecv
    BY <2>1, <2>9, StepTokOrRecv
  <2>10. CASE WaitForConn
    BY <2>1, <2>10, StepWaitForConn
  <2>11. CASE Activate
    BY <2>1, <2>11, StepActivate
  <2> QED BY <1>1, <2>2, <2>3, <2>4, <2>5, <2>6, <2>7, <2>8, <2>9, <2>10, <2>11 DEF HostNext
<1>2. CASE DevAnswers
  BY <1>2, StepTake, StepSend DEF DevAnswers
<1>3. CASE PeerNext
  BY <1>3, StepPeer DEF PeerNext
<1>4. CASE DevUnasked
  <2>1. PICK t \in Stale \cup Notices \cup {"busy"} : DevNoise(t)
    BY <1>4 DEF DevUnasked
  <2> QED BY <1>4, <2>1, StepNoise DEF DevUnasked
<1>5. CASE Done
  BY <1>5, StepNothing DEF Done
<1>6. CASE UNCHANGED vars
  BY <1>6, StepNothing
<1> QED BY <1>1, <1>2, <1>3, <1>4, <1>5, <1>6 DEF Next

\* esp_hard_reset to the end of the program: at every call, the lines that are on
\* their way are those of the answer that the call belongs to.
THEOREM EspInvariant == ToldApart => (Spec => []EspInv)
<1>1. ASSUME ToldApart PROVE Spec => []EspInv
  <2>1. EspInv /\ [Next]_vars => EspInv'
    BY <1>1, EspNext
  <2> QED BY <2>1, EspInit, PTL DEF Spec
<1> QED BY <1>1

\* cmd_ack, cmd_response, cmd_responsev: no line is taken for the end of a command
\* but one that answers that very command, and one command is issued at a time.
THEOREM AnswersStayInStep == ToldApart => (Spec => []AnswersInStep)
<1>1. EspInv => AnswersInStep
  <2> SUFFICES ASSUME EspInv PROVE AnswersInStep
    OBVIOUS
  <2>1. \A i \in DOMAIN toHost : toHost[i].id \in 0 .. cmdid
    <3> DEFINE T == [t : Texts, id : 0 .. cmdid]
    <3>1. toHost \in Seq(T)
      BY DEF EspInv, Typed
    <3>2. \A e \in T : e.id \in 0 .. cmdid
      OBVIOUS
    <3> HIDE DEF T
    <3> QED BY <3>1, <3>2, SeqFacts
  <2>2. \A i \in DOMAIN toDev : toDev[i].id \in 1 .. cmdid
    <3> DEFINE T == [cmd : Commands, id : 1 .. cmdid]
    <3>1. toDev \in Seq(T)
      BY DEF EspInv, Typed
    <3>2. \A e \in T : e.id \in 1 .. cmdid
      OBVIOUS
    <3> HIDE DEF T
    <3> QED BY <3>1, <3>2, SeqFacts
  <2>3. TypeOK
    BY <2>1, <2>2 DEF EspInv, Typed, TypeOK
  <2>4. OneAtATime
    BY DEF EspInv, OneAtATime
  <2> QED BY <2>3, <2>4 DEF EspInv, AnswersInStep
<1> QED BY <1>1, EspInvariant, PTL

\* esp_hard_reset, esp_start_tcp_client: when the device refuses no command of the
\* set-up, nothing that is left over or says busy stops it, and with a quiet device
\* the channel number is stored where the program looks for it.
THEOREM SetupGetsThrough == ToldApart /\ Willing => (Spec => []SetupWorks)
<1>1. ASSUME ToldApart /\ Willing PROVE Spec => []SetupWorks
  <2>1. EspInv => SetupWorks
    BY <1>1 DEF EspInv, SetupWorks, SetupNeverPanics
  <2>2. ToldApart
    BY <1>1
  <2> QED BY <2>1, <2>2, EspInvariant, PTL
<1> QED BY <1>1

=============================================================================
