---------------------------- MODULE FakePi_proofs ----------------------------
(***************************************************************************)
(* Proofs about the fake pi: for any addresses, values, texts and number   *)
(* of calls, get32 returns what was put, the output comes in order, and    *)
(* with timeouts long enough nobody panics and nothing is left behind.     *)
(*                                                                         *)
(* The argument is about the two streams: what the unix side has sent and  *)
(* the pi not read (Up), and what the pi has sent and the unix side not    *)
(* read (Down).  Moving a byte from a writer to the line changes neither,  *)
(* so that the invariant only says how the rest of a stream parses from    *)
(* where its reader is.                                                    *)
(***************************************************************************)
EXTENDS FakePi, SequenceTheorems, TLAPS

Up   == toPi \o utx
Down == toUnix \o ptx

\* The bytes of put32(a, v) for each pair of puts, and what follows them.
Coded(puts, rest) ==
  [i \in 1 .. 3 * Len(puts) + Len(rest) |->
     IF i > 3 * Len(puts) THEN rest[i - 3 * Len(puts)]
     ELSE IF i % 3 = 1 THEN PI_PUT32
     ELSE IF i % 3 = 2 THEN puts[(i \div 3) + 1][1]
     ELSE puts[i \div 3][2]]

\* Memory will be as the program wrote it once these puts are done.
Applied(puts) ==
  \A a \in Word :
    \/ shadow[a] = mem[a] /\ \A j \in 1 .. Len(puts) : puts[j][1] # a
    \/ \E j \in 1 .. Len(puts) :
         /\ puts[j][1] = a /\ shadow[a] = puts[j][2]
         /\ \A k \in j + 1 .. Len(puts) : puts[k][1] # a

\* From where the pi is, it will read these puts and then rest.
ToRead(puts, rest) ==
  /\ Applied(puts)
  /\ \/ ppc = "op" /\ Up = Coded(puts, rest)
     \/ ppc = "put_addr" /\ puts # <<>> /\ Up = Tail(Coded(puts, rest))
     \/ ppc = "put_val" /\ puts # <<>> /\ Up = Tail(Tail(Coded(puts, rest))) /\ paddr = puts[1][1]
     \/ ppc = "get_addr" /\ puts = <<>> /\ rest = <<PI_GET32, uaddr>> /\ Up = Tail(Coded(puts, rest))

\* From where the unix side is, it will read the characters cs and then t.
ToHear(cs, t) ==
  /\ piout = printed \o cs
  /\ IF upc = "char" THEN cs # <<>> /\ Down = Tail(net_putchar(cs) \o t)
                     ELSE Down = net_putchar(cs) \o t

Puts == Seq(Word \X Word)

\* The unix side waits for the pi to come up.
Greeting == upc \in {"ping", "poll"} \/ (upc = "op" /\ expecting = PI_READY)

AllReady == \A i \in 1 .. Len(Up) : Up[i] = PI_READY

Silent ==
  /\ ppc \in {"boot", "hello"} /\ upc \in {"ping", "poll"} /\ AllReady
  /\ ppc = "boot" => toPi = <<>>
  /\ Down = <<>> /\ printed = <<>> /\ piout = <<>> /\ mem = shadow
  /\ patient => IF upc = "ping" THEN Up = <<>> ELSE Len(Up) <= 1

Handshake ==
  /\ ppc \in {"op", "panic"} /\ Greeting /\ AllReady
  /\ upc = "op" => toUnix # <<>>
  /\ Down = <<PI_READY>> \o net_putchar(Banner) /\ printed = <<>> /\ piout = Banner /\ mem = shadow
  /\ patient => Up = <<>> /\ ppc = "op" /\ upc # "ping"

\* A ping too many, after a timeout that fired too early: the pi will stop at it.
Doomed ==
  /\ ~patient
  /\ ppc = "panic" \/ (ppc = "op" /\ Up # <<>> /\ Head(Up) = PI_READY)
  /\ upc \in {"main", "op", "char", "drain"}
  /\ \E cs \in Seq(Word) : ToHear(cs, <<>>)

Commanding ==
  /\ upc \in {"main", "got"} /\ (upc = "got" => ret = shadow[uaddr])
  /\ \E puts \in Puts : ToRead(puts, <<>>)
  /\ \E cs \in Seq(Word) : ToHear(cs, <<>>)

Asking ==
  /\ upc \in {"op", "char"} /\ expecting = PI_GET32_REPLY
  /\ \E puts \in Puts, u \in Word : u = uaddr /\ ToRead(puts, <<PI_GET32, u>>)
  /\ \E cs \in Seq(Word) : ToHear(cs, <<>>)

Answered ==
  /\ expecting = PI_GET32_REPLY /\ ppc = "op" /\ Up = <<>> /\ mem = shadow
  /\ \/ /\ upc \in {"op", "char"}
        /\ \E cs \in Seq(Word), v \in Word : v = shadow[uaddr] /\ ToHear(cs, <<PI_GET32_REPLY, v>>)
     \/ upc = "val" /\ piout = printed /\ Down = <<shadow[uaddr]>>

Leaving ==
  /\ upc \in {"drain", "op", "char"} /\ expecting = PI_NULL
  /\ \E puts \in Puts : ToRead(puts, <<PI_REBOOT>>)
  /\ \E cs \in Seq(Word) : ToHear(cs, <<>>)

\* After PI_REBOOT: the farewell, and then the boot loader, which is no character.
Rebooted ==
  /\ upc \in {"drain", "op", "char"} /\ expecting = PI_NULL
  /\ ppc \in {"reboot", "off", "bootloader"} /\ Up = <<>> /\ mem = shadow
  /\ ppc = "off" => ptx = <<>>
  /\ \E cs, t \in Seq(Word) :
       /\ ToHear(cs, t)
       /\ ppc # "bootloader" => t = <<>>
       /\ ppc = "bootloader" /\ (cs # <<>> \/ upc \in {"op", "char"}) => t # <<>>
       /\ \A i \in 1 .. Len(t) : t[i] # PI_PRINT_CHAR

Over ==
  /\ upc \in {"exit", "panic"}
  /\ patient => /\ upc = "exit" /\ ppc = "bootloader" /\ ptx = <<>>
                /\ mem = shadow /\ printed = piout

Phases == Silent \/ Handshake \/ Doomed \/ Commanding \/ Asking \/ Answered \/ Leaving \/ Rebooted \/ Over

IInv == TypeOK /\ OutputInOrder /\ Phases

-----------------------------------------------------------------------------
(***************************************************************************)
(* Streams.                                                                *)
(***************************************************************************)

\* Writing a byte to the line moves it within the stream.
LEMMA Moved ==
  ASSUME NEW S, NEW x \in Seq(S), NEW y \in Seq(S), y # <<>>
  PROVE  Append(x, Head(y)) \o Tail(y) = x \o y
<1>1. /\ Head(y) \in S /\ Tail(y) \in Seq(S) /\ Len(Tail(y)) = Len(y) - 1
      /\ \A i \in 1 .. Len(Tail(y)) : Tail(y)[i] = y[i + 1]
      /\ Head(y) = y[1] /\ Len(y) \in Nat \ {0} /\ Len(x) \in Nat
  BY HeadTailProperties, EmptySeq, LenProperties
<1>2. /\ Append(x, Head(y)) \in Seq(S) /\ Len(Append(x, Head(y))) = Len(x) + 1
      /\ \A i \in 1 .. Len(x) : Append(x, Head(y))[i] = x[i]
      /\ Append(x, Head(y))[Len(x) + 1] = y[1]
  BY <1>1
<1> DEFINE l == Append(x, Head(y)) \o Tail(y)
           r == x \o y
<1>3. /\ l \in Seq(S) /\ Len(l) = Len(x) + Len(y)
      /\ \A i \in 1 .. Len(l) : l[i] = IF i <= Len(x) + 1 THEN Append(x, Head(y))[i] ELSE Tail(y)[i - (Len(x) + 1)]
  BY <1>1, <1>2, ConcatProperties
<1>4. /\ r \in Seq(S) /\ Len(r) = Len(x) + Len(y)
      /\ \A i \in 1 .. Len(r) : r[i] = IF i <= Len(x) THEN x[i] ELSE y[i - Len(x)]
  BY <1>1, ConcatProperties
<1>5. ASSUME NEW i \in 1 .. Len(l) PROVE l[i] = r[i]
  <2>1. CASE i <= Len(x)
    BY <2>1, <1>1, <1>2, <1>3, <1>4
  <2>2. CASE i = Len(x) + 1
    BY <2>2, <1>1, <1>2, <1>3, <1>4
  <2>3. CASE i > Len(x) + 1
    BY <2>3, <1>1, <1>2, <1>3, <1>4
  <2> QED
    BY <2>1, <2>2, <2>3, <1>1
<1> HIDE DEF l, r
<1>6. l = r
  BY <1>3, <1>4, <1>5, SeqEqual
<1> QED
  BY <1>6 DEF l, r

\* Reading from a stream takes its head.
LEMMA FirstOut ==
  ASSUME NEW S, NEW x \in Seq(S), NEW y \in Seq(S), x # <<>>
  PROVE  /\ x \o y # <<>> /\ Head(x \o y) = Head(x) /\ Tail(x \o y) = Tail(x) \o y
<1>1. /\ Head(x) \in S /\ Tail(x) \in Seq(S) /\ Len(Tail(x)) = Len(x) - 1
      /\ \A i \in 1 .. Len(Tail(x)) : Tail(x)[i] = x[i + 1]
      /\ Head(x) = x[1] /\ Len(x) \in Nat \ {0} /\ Len(y) \in Nat
  BY HeadTailProperties, EmptySeq, LenProperties
<1> DEFINE c == x \o y
           r == Tail(x) \o y
<1>2. /\ c \in Seq(S) /\ Len(c) = Len(x) + Len(y)
      /\ \A i \in 1 .. Len(c) : c[i] = IF i <= Len(x) THEN x[i] ELSE y[i - Len(x)]
  BY ConcatProperties
<1>3. c # <<>> /\ c[1] = x[1]
  BY <1>1, <1>2
<1>4. /\ r \in Seq(S) /\ Len(r) = Len(c) - 1
      /\ \A i \in 1 .. Len(r) : r[i] = IF i <= Len(x) - 1 THEN x[i + 1] ELSE y[i - (Len(x) - 1)]
  BY <1>1, <1>2, ConcatProperties
<1> HIDE DEF c, r
<1>5. /\ Tail(c) \in Seq(S) /\ Len(Tail(c)) = Len(c) - 1
      /\ \A i \in 1 .. Len(Tail(c)) : Tail(c)[i] = c[i + 1]
      /\ Head(c) = c[1]
  BY <1>2, <1>3, HeadTailProperties
<1>6. ASSUME NEW i \in 1 .. Len(r) PROVE Tail(c)[i] = r[i]
  BY <1>1, <1>2, <1>4, <1>5
<1>7. Tail(c) = r
  BY <1>4, <1>5, <1>6, SeqEqual
<1> QED
  BY <1>1, <1>3, <1>5, <1>7 DEF c, r

\* The same, for a sequence that starts with a known element.
LEMMA Consed ==
  ASSUME NEW S, NEW e \in S, NEW y \in Seq(S)
  PROVE  /\ <<e>> \o y # <<>> /\ Head(<<e>> \o y) = e /\ Tail(<<e>> \o y) = y
         /\ <<e>> \o y \in Seq(S) /\ Len(<<e>> \o y) = Len(y) + 1
<1>1. <<e>> \in Seq(S) /\ <<e>> # <<>> /\ Len(<<e>>) = 1 /\ Head(<<e>>) = e /\ Tail(<<e>>) = <<>>
  OBVIOUS
<1> QED
  BY <1>1, FirstOut, ConcatEmptySeq, ConcatProperties

-----------------------------------------------------------------------------
(***************************************************************************)
(* The bytes of a sequence of puts.                                        *)
(***************************************************************************)

\* The opcodes of the protocol are bytes of the line.
LEMMA Opcodes == {PI_NULL, PI_READY, PI_PRINT_CHAR, PI_REBOOT, PI_PUT32, PI_GET32, PI_GET32_REPLY} \subseteq Word
BY FakePiAssumption DEF Word, PI_NULL, PI_READY, PI_PRINT_CHAR, PI_REBOOT, PI_PUT32, PI_GET32, PI_GET32_REPLY

\* Position i of a stream of three-byte puts: which put, and which of its bytes.
LEMMA DivMod ==
  ASSUME NEW i \in Nat
  PROVE  /\ i % 3 \in 0 .. 2 /\ i \div 3 \in Nat /\ i = 3 * (i \div 3) + (i % 3)
         /\ (i + 3) % 3 = i % 3 /\ (i + 3) \div 3 = (i \div 3) + 1
OBVIOUS

\* The bytes of the puts p and then r, position by position.
LEMMA CodedIs ==
  ASSUME NEW p \in Puts, NEW r \in Seq(Word)
  PROVE  /\ Coded(p, r) \in Seq(Word)
         /\ Len(Coded(p, r)) = 3 * Len(p) + Len(r)
         /\ \A i \in 1 .. 3 * Len(p) + Len(r) :
              Coded(p, r)[i] =
                IF i > 3 * Len(p) THEN r[i - 3 * Len(p)]
                ELSE IF i % 3 = 1 THEN PI_PUT32
                ELSE IF i % 3 = 2 THEN p[(i \div 3) + 1][1]
                ELSE p[i \div 3][2]
<1> DEFINE n == 3 * Len(p) + Len(r)
<1>1. n \in Nat /\ Len(p) \in Nat /\ Len(r) \in Nat
  BY DEF Puts
<1>2. ASSUME NEW i \in 1 .. n
      PROVE  (IF i > 3 * Len(p) THEN r[i - 3 * Len(p)]
              ELSE IF i % 3 = 1 THEN PI_PUT32
              ELSE IF i % 3 = 2 THEN p[(i \div 3) + 1][1]
              ELSE p[i \div 3][2]) \in Word
  <2>1. CASE i > 3 * Len(p)
    BY <2>1, <1>1
  <2>2. CASE i <= 3 * Len(p) /\ i % 3 = 1
    BY <2>2, <1>1, Opcodes
  <2>3. CASE i <= 3 * Len(p) /\ i % 3 = 2
    <3>1. (i \div 3) + 1 \in 1 .. Len(p)
      BY <2>3, <1>1, DivMod
    <3>2. p[(i \div 3) + 1] \in Word \X Word
      BY <3>1 DEF Puts
    <3> QED
      BY <3>2, <2>3, <1>1
  <2>4. CASE i <= 3 * Len(p) /\ i % 3 = 0
    <3>1. i \div 3 \in 1 .. Len(p)
      BY <2>4, <1>1, DivMod
    <3>2. p[i \div 3] \in Word \X Word
      BY <3>1 DEF Puts
    <3> QED
      BY <3>2, <2>4, <1>1
  <2>5. i \in Nat
    BY <1>1
  <2> HIDE DEF n
  <2> QED
    BY <2>1, <2>2, <2>3, <2>4, <2>5, <1>1, DivMod
<1>3. Coded(p, r) \in [1 .. n -> Word]
  BY <1>2 DEF Coded
<1>4. Coded(p, r) \in Seq(Word) /\ Len(Coded(p, r)) = n
  BY <1>1, <1>3
<1> QED
  BY <1>4 DEF Coded

\* No puts: only the rest is on the line.
LEMMA CodedNone ==
  ASSUME NEW r \in Seq(Word)
  PROVE  Coded(<<>>, r) = r
<1> DEFINE p == <<>>
           d == Coded(p, r)
<1>1. p \in Puts /\ Len(p) = 0 /\ Len(r) \in Nat
  BY DEF Puts
<1> HIDE DEF p
<1>2. 3 * Len(p) = 0 /\ 3 * Len(p) + Len(r) = Len(r)
  BY <1>1
<1>3. /\ d \in Seq(Word) /\ Len(d) = 3 * Len(p) + Len(r)
      /\ \A i \in 1 .. 3 * Len(p) + Len(r) : i > 3 * Len(p) => d[i] = r[i - 3 * Len(p)]
  BY <1>1, CodedIs
<1> HIDE DEF d
<1>4. d \in Seq(Word) /\ Len(d) = Len(r) /\ \A i \in 1 .. Len(r) : d[i] = r[i]
  BY <1>1, <1>2, <1>3
<1>5. d = r
  BY <1>4, SeqEqual
<1> QED
  BY <1>5 DEF d, p

\* The rest may be appended after the puts have been coded.
LEMMA CodedRest ==
  ASSUME NEW p \in Puts, NEW r \in Seq(Word)
  PROVE  Coded(p, <<>>) \o r = Coded(p, r)
<1> DEFINE e == <<>>
           n == 3 * Len(p)
           t(i) == IF i % 3 = 1 THEN PI_PUT32
                   ELSE IF i % 3 = 2 THEN p[(i \div 3) + 1][1]
                   ELSE p[i \div 3][2]
           b == Coded(p, e)
           c == b \o r
           d == Coded(p, r)
<1>1. n \in Nat /\ Len(r) \in Nat /\ e \in Seq(Word) /\ Len(e) = 0
  BY DEF Puts
<1> HIDE DEF e
<1>2. /\ b \in Seq(Word) /\ Len(b) = n + Len(e)
      /\ \A i \in 1 .. n + Len(e) : b[i] = IF i > n THEN e[i - n] ELSE t(i)
  BY <1>1, CodedIs
<1>3. /\ d \in Seq(Word) /\ Len(d) = n + Len(r)
      /\ \A i \in 1 .. n + Len(r) : d[i] = IF i > n THEN r[i - n] ELSE t(i)
  BY <1>1, CodedIs
<1> HIDE DEF b, d, n, t
<1>4. Len(b) = n /\ \A i \in 1 .. n : b[i] = t(i)
  BY <1>1, <1>2
<1>5. /\ c \in Seq(Word) /\ Len(c) = Len(b) + Len(r)
      /\ \A i \in 1 .. Len(b) + Len(r) : c[i] = IF i <= Len(b) THEN b[i] ELSE r[i - Len(b)]
  BY <1>1, <1>2, ConcatProperties
<1> HIDE DEF c
<1>7. ASSUME NEW i \in 1 .. Len(c) PROVE c[i] = d[i]
  <2>1. i \in 1 .. n + Len(r) /\ Len(b) = n /\ Len(b) + Len(r) = n + Len(r)
    BY <1>1, <1>4, <1>5
  <2>2. CASE i > n
    <3>1. c[i] = r[i - n]
      <4>1. ~(i <= Len(b)) /\ i - Len(b) = i - n
        BY <1>1, <2>1, <2>2
      <4> QED
        BY <1>5, <2>1, <4>1
    <3>2. d[i] = r[i - n]
      BY <1>3, <2>1, <2>2
    <3> QED
      BY <3>1, <3>2
  <2>3. CASE ~(i > n)
    <3>1. i \in 1 .. n /\ i <= Len(b)
      BY <1>1, <2>1, <2>3
    <3>2. c[i] = b[i] /\ b[i] = t(i)
      BY <1>4, <1>5, <2>1, <3>1
    <3>3. d[i] = t(i)
      BY <1>3, <2>1, <2>3
    <3> QED
      BY <3>2, <3>3
  <2> QED
    BY <2>2, <2>3
<1>6. c = d
  BY <1>1, <1>3, <1>4, <1>5, <1>7, SeqEqual
<1> QED
  BY <1>6 DEF b, c, d, e

\* put32 queues one more put: opcode, address and value follow the others.
LEMMA CodedMore ==
  ASSUME NEW p \in Puts, NEW a \in Word, NEW v \in Word
  PROVE  /\ Append(p, <<a, v>>) \in Puts
         /\ Coded(p, <<>>) \o <<PI_PUT32, a, v>> = Coded(Append(p, <<a, v>>), <<>>)
<1> DEFINE w == <<PI_PUT32, a, v>>
           q == Append(p, <<a, v>>)
           c == Coded(p, w)
           e == <<>>
           d == Coded(q, e)
<1>1. Len(p) \in Nat /\ w \in Seq(Word) /\ Len(w) = 3 /\ w[1] = PI_PUT32 /\ w[2] = a /\ w[3] = v
  BY Opcodes DEF Puts
<1>2. /\ q \in Puts /\ Len(q) = Len(p) + 1 /\ q[Len(p) + 1] = <<a, v>>
      /\ \A i \in 1 .. Len(p) : q[i] = p[i]
  BY <1>1 DEF Puts
<1>3. e \in Seq(Word) /\ Len(e) = 0
  OBVIOUS
<1> HIDE DEF w, q, e
<1>4. /\ c \in Seq(Word) /\ Len(c) = 3 * Len(p) + 3
      /\ \A i \in 1 .. 3 * Len(p) + 3 :
           c[i] = IF i > 3 * Len(p) THEN w[i - 3 * Len(p)]
                  ELSE IF i % 3 = 1 THEN PI_PUT32
                  ELSE IF i % 3 = 2 THEN p[(i \div 3) + 1][1]
                  ELSE p[i \div 3][2]
  BY <1>1, CodedIs
<1>5. 3 * Len(q) + Len(e) = 3 * Len(p) + 3 /\ 3 * Len(q) = 3 * Len(p) + 3
  BY <1>1, <1>2, <1>3
<1>5a. /\ d \in Seq(Word) /\ Len(d) = 3 * Len(q) + Len(e)
       /\ \A i \in 1 .. 3 * Len(q) + Len(e) :
            d[i] = IF i > 3 * Len(q) THEN e[i - 3 * Len(q)]
                   ELSE IF i % 3 = 1 THEN PI_PUT32
                   ELSE IF i % 3 = 2 THEN q[(i \div 3) + 1][1]
                   ELSE q[i \div 3][2]
  BY <1>2, <1>3, CodedIs
<1>6. /\ d \in Seq(Word) /\ Len(d) = 3 * Len(p) + 3
      /\ \A i \in 1 .. 3 * Len(p) + 3 :
           d[i] = IF i > 3 * Len(p) + 3 THEN e[i - (3 * Len(p) + 3)]
                  ELSE IF i % 3 = 1 THEN PI_PUT32
                  ELSE IF i % 3 = 2 THEN q[(i \div 3) + 1][1]
                  ELSE q[i \div 3][2]
  BY <1>5, <1>5a
<1> HIDE DEF c, d
<1>7. ASSUME NEW i \in 1 .. 3 * Len(p) + 3 PROVE c[i] = d[i]
  <2>1. i \in Nat /\ i <= 3 * Len(p) + 3 /\ i >= 1
    BY <1>1
  <2>2. CASE i <= 3 * Len(p) /\ i % 3 = 1
    BY <2>1, <2>2, <1>1, <1>4, <1>6
  <2>3. CASE i <= 3 * Len(p) /\ i % 3 = 2
    <3>1. (i \div 3) + 1 \in 1 .. Len(p)
      BY <2>1, <2>3, <1>1, DivMod
    <3>2. c[i] = p[(i \div 3) + 1][1]
      BY <2>1, <2>3, <1>1, <1>4
    <3>3. d[i] = q[(i \div 3) + 1][1]
      BY <2>1, <2>3, <1>1, <1>6
    <3> QED
      BY <3>1, <3>2, <3>3, <1>2
  <2>4. CASE i <= 3 * Len(p) /\ i % 3 = 0
    <3>1. i \div 3 \in 1 .. Len(p)
      BY <2>1, <2>4, <1>1, DivMod
    <3>2. c[i] = p[i \div 3][2]
      BY <2>1, <2>4, <1>1, <1>4
    <3>3. d[i] = q[i \div 3][2]
      BY <2>1, <2>4, <1>1, <1>6
    <3> QED
      BY <3>1, <3>2, <3>3, <1>2
  <2>5. CASE i = 3 * Len(p) + 1
    BY <2>1, <2>5, <1>1, <1>4, <1>6
  <2>6. CASE i = 3 * Len(p) + 2
    <3>1. i % 3 = 2 /\ (i \div 3) + 1 = Len(p) + 1
      BY <2>6, <1>1
    <3>2. c[i] = w[2]
      <4>1. i > 3 * Len(p) /\ i - 3 * Len(p) = 2
        BY <2>1, <2>6, <1>1
      <4>2. c[i] = w[i - 3 * Len(p)]
        BY <4>1, <1>4
      <4> QED
        BY <4>1, <4>2
    <3>3. d[i] = q[Len(p) + 1][1]
      <4>1. i \in 1 .. 3 * Len(p) + 3 /\ ~(i > 3 * Len(p) + 3)
        BY <2>6, <1>1
      <4>2. d[i] = q[(i \div 3) + 1][1]
        BY <4>1, <3>1, <1>6
      <4> QED
        BY <4>2, <3>1
    <3> QED
      BY <3>2, <3>3, <1>1, <1>2
  <2>7. CASE i = 3 * Len(p) + 3
    <3>1. i % 3 = 0 /\ i \div 3 = Len(p) + 1
      BY <2>7, <1>1
    <3> QED
      BY <3>1, <2>1, <2>7, <1>1, <1>2, <1>4, <1>6
  <2> QED
    BY <2>1, <2>2, <2>3, <2>4, <2>5, <2>6, <2>7, <1>1, DivMod
<1>8. c = d
  BY <1>4, <1>6, <1>7, SeqEqual
<1>9. Coded(p, <<>>) \o w = c
  BY <1>1, CodedRest DEF c
<1> QED
  BY <1>2, <1>8, <1>9 DEF w, q, c, d, e

\* What the pi reads first, when puts are waiting: the three bytes of the first put.
LEMMA CodedFirst ==
  ASSUME NEW p \in Puts, NEW r \in Seq(Word), p # <<>>
  PROVE  /\ Tail(p) \in Puts /\ p[1] \in Word \X Word
         /\ Coded(p, r) # <<>> /\ Head(Coded(p, r)) = PI_PUT32
         /\ Tail(Coded(p, r)) # <<>> /\ Head(Tail(Coded(p, r))) = p[1][1]
         /\ Tail(Tail(Coded(p, r))) # <<>> /\ Head(Tail(Tail(Coded(p, r)))) = p[1][2]
         /\ Tail(Tail(Tail(Coded(p, r)))) = Coded(Tail(p), r)
<1> DEFINE c == Coded(p, r)
           q == Tail(p)
           d == Coded(q, r)
<1>1. /\ q \in Puts /\ Len(q) = Len(p) - 1 /\ \A i \in 1 .. Len(q) : q[i] = p[i + 1]
      /\ Len(p) \in Nat \ {0} /\ p[1] \in Word \X Word
  BY HeadTailProperties, EmptySeq DEF Puts
<1>2. Len(r) \in Nat
  OBVIOUS
<1>3. /\ c \in Seq(Word) /\ Len(c) = 3 * Len(p) + Len(r)
      /\ \A i \in 1 .. 3 * Len(p) + Len(r) :
           c[i] = IF i > 3 * Len(p) THEN r[i - 3 * Len(p)]
                  ELSE IF i % 3 = 1 THEN PI_PUT32
                  ELSE IF i % 3 = 2 THEN p[(i \div 3) + 1][1]
                  ELSE p[i \div 3][2]
  BY CodedIs
<1> HIDE DEF q
<1>4. /\ d \in Seq(Word) /\ Len(d) = 3 * Len(q) + Len(r)
      /\ \A i \in 1 .. 3 * Len(q) + Len(r) :
           d[i] = IF i > 3 * Len(q) THEN r[i - 3 * Len(q)]
                  ELSE IF i % 3 = 1 THEN PI_PUT32
                  ELSE IF i % 3 = 2 THEN q[(i \div 3) + 1][1]
                  ELSE q[i \div 3][2]
  BY <1>1, CodedIs
<1> HIDE DEF c, d
<1>5. c[1] = PI_PUT32 /\ c[2] = p[1][1] /\ c[3] = p[1][2] /\ Len(c) >= 3
  BY <1>1, <1>2, <1>3
<1>6. c # <<>>
  BY <1>5
<1>7. /\ Head(c) = c[1] /\ Tail(c) \in Seq(Word) /\ Len(Tail(c)) = Len(c) - 1
      /\ \A i \in 1 .. Len(c) - 1 : Tail(c)[i] = c[i + 1]
  BY <1>3, <1>6, HeadTailProperties
<1>7a. Len(c) \in Nat
  BY <1>3
<1>7b. Len(<<>>) = 0 /\ Len(c) - 1 # 0 /\ Len(c) - 2 # 0
  BY <1>5, <1>7a
<1>8. Tail(c) # <<>>
  BY <1>7, <1>7b, Zenon
<1>9. /\ Head(Tail(c)) = c[2] /\ Tail(Tail(c)) \in Seq(Word) /\ Len(Tail(Tail(c))) = Len(c) - 2
      /\ \A i \in 1 .. Len(c) - 2 : Tail(Tail(c))[i] = c[i + 2]
  <2>1. /\ Head(Tail(c)) = Tail(c)[1] /\ Tail(Tail(c)) \in Seq(Word) /\ Len(Tail(Tail(c))) = Len(Tail(c)) - 1
        /\ \A i \in 1 .. Len(Tail(c)) - 1 : Tail(Tail(c))[i] = Tail(c)[i + 1]
    BY <1>7, <1>8, HeadTailProperties
  <2> QED
    BY <2>1, <1>7, <1>5, <1>7a
<1>10. Tail(Tail(c)) # <<>>
  BY <1>9, <1>7b, Zenon
<1>11. /\ Head(Tail(Tail(c))) = c[3] /\ Tail(Tail(Tail(c))) \in Seq(Word)
       /\ Len(Tail(Tail(Tail(c)))) = Len(c) - 3
       /\ \A i \in 1 .. Len(c) - 3 : Tail(Tail(Tail(c)))[i] = c[i + 3]
  <2>1. /\ Head(Tail(Tail(c))) = Tail(Tail(c))[1] /\ Tail(Tail(Tail(c))) \in Seq(Word)
        /\ Len(Tail(Tail(Tail(c)))) = Len(Tail(Tail(c))) - 1
        /\ \A i \in 1 .. Len(Tail(Tail(c))) - 1 : Tail(Tail(Tail(c)))[i] = Tail(Tail(c))[i + 1]
    <3> DEFINE u == Tail(Tail(c))
    <3>1. u \in Seq(Word) /\ u # <<>>
      BY <1>9, <1>10
    <3> HIDE DEF u
    <3>2. /\ Head(u) = u[1] /\ Tail(u) \in Seq(Word) /\ Len(Tail(u)) = Len(u) - 1
          /\ \A i \in 1 .. Len(u) - 1 : Tail(u)[i] = u[i + 1]
      BY <3>1, HeadTailProperties
    <3> QED
      BY <3>2 DEF u
  <2>2. Len(c) - 2 - 1 = Len(c) - 3 /\ \A i \in 1 .. Len(c) - 3 : i \in 1 .. Len(c) - 2 - 1 /\ i + 1 \in 1 .. Len(c) - 2 /\ (i + 1) + 2 = i + 3
    BY <1>5, <1>7a
  <2>3. Len(Tail(Tail(Tail(c)))) = Len(c) - 3
    BY <2>1, <2>2, <1>9
  <2>4. ASSUME NEW i \in 1 .. Len(c) - 3 PROVE Tail(Tail(Tail(c)))[i] = c[i + 3]
    BY <2>1, <2>2, <1>9
  <2>5. Head(Tail(Tail(c))) = c[3]
    <3>1. 1 \in 1 .. Len(c) - 2 /\ 1 + 2 = 3
      BY <1>5, <1>7a
    <3> QED
      BY <3>1, <2>1, <1>9
  <2> QED
    BY <2>1, <2>3, <2>4, <2>5
<1>12. Len(c) - 3 = Len(d) /\ Len(d) = 3 * Len(p) - 3 + Len(r)
  BY <1>1, <1>2, <1>3, <1>4
<1>13. ASSUME NEW i \in 1 .. Len(d) PROVE c[i + 3] = d[i]
  <2>1. /\ i \in Nat /\ i >= 1 /\ i <= 3 * Len(p) - 3 + Len(r) /\ i + 3 \in 1 .. 3 * Len(p) + Len(r)
        /\ 3 * Len(q) = 3 * Len(p) - 3 /\ i \in 1 .. 3 * Len(q) + Len(r)
    BY <1>1, <1>2, <1>4, <1>12
  <2>2. CASE i > 3 * Len(p) - 3
    <3>1. i + 3 > 3 * Len(p) /\ i > 3 * Len(q) /\ (i + 3) - 3 * Len(p) = i - 3 * Len(q)
      BY <2>1, <2>2, <1>1
    <3>2. c[i + 3] = r[(i + 3) - 3 * Len(p)]
      BY <2>1, <3>1, <1>3
    <3>3. d[i] = r[i - 3 * Len(q)]
      BY <2>1, <3>1, <1>4
    <3> QED
      BY <3>1, <3>2, <3>3
  <2>3. CASE i <= 3 * Len(p) - 3
    <3>1. (i + 3) % 3 = i % 3 /\ (i + 3) \div 3 = (i \div 3) + 1 /\ i % 3 \in 0 .. 2
      BY <2>1, DivMod
    <3>2. CASE i % 3 = 1
      <4>1. ~(i > 3 * Len(q)) /\ ~(i + 3 > 3 * Len(p))
        BY <2>1, <2>3, <1>1
      <4>2. d[i] = PI_PUT32
        BY <4>1, <3>2, <2>1, <1>4
      <4>3. c[i + 3] = PI_PUT32
        BY <4>1, <3>1, <3>2, <2>1, <1>3
      <4> QED
        BY <4>2, <4>3
    <3>3. CASE i % 3 = 2
      <4>1. (i \div 3) + 1 \in 1 .. Len(q)
        BY <3>3, <2>1, <2>3, <1>1, DivMod
      <4>2. q[(i \div 3) + 1] = p[((i + 3) \div 3) + 1]
        BY <4>1, <3>1, <1>1
      <4>3. ~(i > 3 * Len(q)) /\ ~(i + 3 > 3 * Len(p))
        BY <2>1, <2>3, <1>1
      <4>4. d[i] = q[(i \div 3) + 1][1]
        BY <4>3, <3>3, <2>1, <1>4
      <4>5. c[i + 3] = p[((i + 3) \div 3) + 1][1]
        BY <4>3, <3>1, <3>3, <2>1, <1>3
      <4> QED
        BY <4>2, <4>4, <4>5
    <3>4. CASE i % 3 = 0
      <4>1. i \div 3 \in 1 .. Len(q)
        BY <3>4, <2>1, <2>3, <1>1, DivMod
      <4>2. q[i \div 3] = p[(i + 3) \div 3]
        BY <4>1, <3>1, <1>1
      <4>3. d[i] = q[i \div 3][2]
        BY <3>4, <2>1, <2>3, <1>1, <1>2, <1>4
      <4>4. c[i + 3] = p[(i + 3) \div 3][2]
        BY <3>1, <3>4, <2>1, <2>3, <1>1, <1>2, <1>3
      <4> QED
        BY <4>2, <4>3, <4>4
    <3> QED
      BY <3>1, <3>2, <3>3, <3>4
  <2> QED
    BY <2>1, <2>2, <2>3, <1>1
<1>14. Tail(Tail(Tail(c))) = d
  <2>1. /\ Tail(Tail(Tail(c))) \in Seq(Word) /\ d \in Seq(Word)
        /\ Len(Tail(Tail(Tail(c)))) = Len(d)
        /\ \A i \in 1 .. Len(Tail(Tail(Tail(c)))) : Tail(Tail(Tail(c)))[i] = d[i]
    BY <1>4, <1>11, <1>12, <1>13
  <2> QED
    BY <2>1, SeqEqual
<1> QED
  BY <1>1, <1>5, <1>6, <1>7, <1>8, <1>9, <1>10, <1>11, <1>14 DEF c, d, q

\* Memory once a put more is on its way, once one is done, and when none is left.
LEMMA AppliedMore ==
  ASSUME NEW p \in Puts, NEW a \in Word, NEW v \in Word, Applied(p),
         shadow \in [Word -> Word], shadow' = [shadow EXCEPT ![a] = v], mem' = mem
  PROVE  Applied(Append(p, <<a, v>>))'
<1> DEFINE q == Append(p, <<a, v>>)
           n == Len(p)
<1>1. /\ n \in Nat /\ Len(q) = n + 1 /\ q[n + 1] = <<a, v>>
      /\ \A i \in 1 .. n : q[i] = p[i]
  BY DEF Puts
<1> HIDE DEF q
<1>2. ASSUME NEW b \in Word
      PROVE  \/ shadow'[b] = mem'[b] /\ \A j \in 1 .. Len(q) : q[j][1] # b
             \/ \E j \in 1 .. Len(q) :
                  /\ q[j][1] = b /\ shadow'[b] = q[j][2]
                  /\ \A k \in j + 1 .. Len(q) : q[k][1] # b
  <2>1. CASE b = a
    <3>1. n + 1 \in 1 .. Len(q) /\ q[n + 1][1] = b /\ shadow'[b] = q[n + 1][2]
      BY <2>1, <1>1
    <3>2. \A k \in (n + 1) + 1 .. Len(q) : q[k][1] # b
      BY <1>1
    <3> QED
      BY <3>1, <3>2
  <2>2. CASE b # a
    <3>1. shadow'[b] = shadow[b] /\ mem'[b] = mem[b] /\ q[n + 1][1] # b
      BY <2>2, <1>1
    <3>2. CASE shadow[b] = mem[b] /\ \A j \in 1 .. n : p[j][1] # b
      <4>1. \A j \in 1 .. Len(q) : q[j][1] # b
        BY <3>1, <3>2, <1>1
      <4> QED
        BY <4>1, <3>1, <3>2
    <3>3. CASE \E j \in 1 .. n : /\ p[j][1] = b /\ shadow[b] = p[j][2]
                                /\ \A k \in j + 1 .. n : p[k][1] # b
      <4>1. PICK j \in 1 .. n : /\ p[j][1] = b /\ shadow[b] = p[j][2]
                               /\ \A k \in j + 1 .. n : p[k][1] # b
        BY <3>3
      <4>2. j \in 1 .. Len(q) /\ q[j][1] = b /\ shadow'[b] = q[j][2]
        BY <4>1, <3>1, <1>1
      <4>3. ASSUME NEW k \in j + 1 .. Len(q) PROVE q[k][1] # b
        <5>1. CASE k = n + 1
          BY <5>1, <3>1
        <5>2. CASE k # n + 1
          <6>1. k \in j + 1 .. n /\ k \in 1 .. n
            <7>1. n \in Nat /\ Len(q) = n + 1 /\ j \in 1 .. n
              BY <1>1
            <7> HIDE DEF n
            <7> QED
              BY <5>2, <7>1
          <6> QED
            BY <6>1, <4>1, <1>1
        <5> QED
          BY <5>1, <5>2
      <4> QED
        BY <4>2, <4>3
    <3> QED
      BY <3>2, <3>3 DEF Applied
  <2> QED
    BY <2>1, <2>2
<1> QED
  BY <1>2 DEF Applied, q

\* Once the pi has done the first put, the others still lead its memory to the unix side's.
LEMMA AppliedFirst ==
  ASSUME NEW p \in Puts, p # <<>>, Applied(p),
         mem \in [Word -> Word], mem' = [mem EXCEPT ![p[1][1]] = p[1][2]], shadow' = shadow
  PROVE  Applied(Tail(p))'
<1> DEFINE q == Tail(p)
           n == Len(p)
<1>1. /\ n \in Nat \ {0} /\ Len(q) = n - 1 /\ p[1] \in Word \X Word
      /\ \A i \in 1 .. Len(q) : q[i] = p[i + 1]
  BY HeadTailProperties, EmptySeq DEF Puts
<1>1a. p[1][1] \in Word /\ p[1][2] \in Word
  BY <1>1
<1> HIDE DEF q
<1>2. ASSUME NEW b \in Word
      PROVE  \/ shadow'[b] = mem'[b] /\ \A j \in 1 .. Len(q) : q[j][1] # b
             \/ \E j \in 1 .. Len(q) :
                  /\ q[j][1] = b /\ shadow'[b] = q[j][2]
                  /\ \A k \in j + 1 .. Len(q) : q[k][1] # b
  <2>1. mem'[b] = IF b = p[1][1] THEN p[1][2] ELSE mem[b]
    BY <1>1a
  <2>2. CASE shadow[b] = mem[b] /\ \A j \in 1 .. n : p[j][1] # b
    <3>1. \A j \in 1 .. Len(q) : j + 1 \in 1 .. n
      BY <1>1
    <3>2. \A j \in 1 .. Len(q) : q[j][1] # b
      BY <3>1, <2>2, <1>1
    <3>3. 1 \in 1 .. n
      BY <1>1
    <3>4. mem'[b] = mem[b]
      BY <3>3, <2>1, <2>2
    <3> QED
      BY <3>2, <3>4, <2>2
  <2>3. CASE \E j \in 1 .. n : /\ p[j][1] = b /\ shadow[b] = p[j][2]
                              /\ \A k \in j + 1 .. n : p[k][1] # b
    <3>1. PICK j \in 1 .. n : /\ p[j][1] = b /\ shadow[b] = p[j][2]
                             /\ \A k \in j + 1 .. n : p[k][1] # b
      BY <2>3
    <3>2. CASE j = 1
      <4>1. \A k \in 1 .. Len(q) : k + 1 \in j + 1 .. n
        BY <3>2, <1>1
      <4>2. \A k \in 1 .. Len(q) : q[k][1] # b
        BY <4>1, <3>1, <1>1
      <4> QED
        BY <4>2, <3>1, <3>2, <2>1
    <3>3. CASE j # 1
      <4> DEFINE i == j - 1
      <4>1. i \in 1 .. Len(q) /\ i + 1 = j /\ \A k \in i + 1 .. Len(q) : k + 1 \in j + 1 .. n /\ k \in 1 .. Len(q)
        BY <3>3, <1>1
      <4> HIDE DEF i
      <4>2. q[i][1] = b /\ shadow'[b] = q[i][2]
        BY <4>1, <3>1, <1>1
      <4>3. \A k \in i + 1 .. Len(q) : q[k][1] # b
        BY <4>1, <3>1, <1>1
      <4> QED
        BY <4>1, <4>2, <4>3
    <3> QED
      BY <3>2, <3>3
  <2> QED
    BY <2>2, <2>3 DEF Applied
<1> QED
  BY <1>2 DEF Applied, q

\* With no put under way the two memories are equal.
LEMMA AppliedNone ==
  ASSUME shadow \in [Word -> Word], mem \in [Word -> Word]
  PROVE  Applied(<<>>) <=> mem = shadow
<1>1. Len(<<>>) = 0 /\ \A j \in 1 .. 0 : FALSE
  OBVIOUS
<1>2. Applied(<<>>) <=> \A a \in Word : shadow[a] = mem[a]
  BY <1>1 DEF Applied
<1> QED
  BY <1>2

-----------------------------------------------------------------------------
(***************************************************************************)
(* The bytes of a text.                                                    *)
(***************************************************************************)

\* Position i of a stream of two-byte characters: which character, and which of its bytes.
LEMMA Halves ==
  ASSUME NEW i \in Nat
  PROVE  /\ i % 2 \in 0 .. 1 /\ i \div 2 \in Nat /\ i = 2 * (i \div 2) + (i % 2)
         /\ (i + 2) % 2 = i % 2 /\ (i + 2) \div 2 = (i \div 2) + 1
OBVIOUS

\* The bytes of a text printed by the pi, position by position: PI_PRINT_CHAR, then the character.
LEMMA TextIs ==
  ASSUME NEW s \in Seq(Word)
  PROVE  /\ net_putchar(s) \in Seq(Word)
         /\ Len(net_putchar(s)) = 2 * Len(s)
         /\ \A i \in 1 .. 2 * Len(s) :
              net_putchar(s)[i] = IF i % 2 = 1 THEN PI_PRINT_CHAR ELSE s[i \div 2]
<1> DEFINE n == 2 * Len(s)
<1>1. n \in Nat /\ Len(s) \in Nat
  OBVIOUS
<1>2. ASSUME NEW i \in 1 .. n
      PROVE  (IF i % 2 = 1 THEN PI_PRINT_CHAR ELSE s[i \div 2]) \in Word
  <2>1. CASE i % 2 = 1
    BY <2>1, Opcodes
  <2>2. CASE i % 2 # 1
    <3>1. i \div 2 \in 1 .. Len(s)
      BY <2>2, <1>1, Halves
    <3> QED
      BY <2>2, <3>1
  <2> QED
    BY <2>1, <2>2
<1>3. net_putchar(s) \in [1 .. n -> Word]
  BY <1>2 DEF net_putchar
<1>4. net_putchar(s) \in Seq(Word) /\ Len(net_putchar(s)) = n
  BY <1>1, <1>3
<1> QED
  BY <1>4 DEF net_putchar

\* An empty text sends nothing.
LEMMA TextNone == net_putchar(<<>>) = <<>>
<1> DEFINE e == <<>>
           t == net_putchar(e)
<1>1. e \in Seq(Word) /\ Len(e) = 0
  OBVIOUS
<1> HIDE DEF e
<1>2. t \in Seq(Word) /\ Len(t) = 2 * Len(e)
  BY <1>1, TextIs
<1> HIDE DEF t
<1>3. t = <<>>
  BY <1>1, <1>2, EmptySeq
<1> QED
  BY <1>3 DEF e, t

\* What the unix side reads first, when characters are waiting: the opcode and the first of them.
LEMMA TextFirst ==
  ASSUME NEW s \in Seq(Word), s # <<>>
  PROVE  /\ Tail(s) \in Seq(Word) /\ Head(s) \in Word
         /\ net_putchar(s) # <<>> /\ Head(net_putchar(s)) = PI_PRINT_CHAR
         /\ Tail(net_putchar(s)) # <<>> /\ Head(Tail(net_putchar(s))) = Head(s)
         /\ Tail(Tail(net_putchar(s))) = net_putchar(Tail(s))
<1> DEFINE c == net_putchar(s)
           q == Tail(s)
           d == net_putchar(q)
<1>1. /\ q \in Seq(Word) /\ Len(q) = Len(s) - 1 /\ \A i \in 1 .. Len(q) : q[i] = s[i + 1]
      /\ Len(s) \in Nat \ {0} /\ Head(s) \in Word /\ Head(s) = s[1]
  BY HeadTailProperties, EmptySeq
<1>2. /\ c \in Seq(Word) /\ Len(c) = 2 * Len(s)
      /\ \A i \in 1 .. 2 * Len(s) : c[i] = IF i % 2 = 1 THEN PI_PRINT_CHAR ELSE s[i \div 2]
  BY TextIs
<1> HIDE DEF q
<1>3. /\ d \in Seq(Word) /\ Len(d) = 2 * Len(q)
      /\ \A i \in 1 .. 2 * Len(q) : d[i] = IF i % 2 = 1 THEN PI_PRINT_CHAR ELSE q[i \div 2]
  BY <1>1, TextIs
<1> HIDE DEF c, d
<1>4. c[1] = PI_PRINT_CHAR /\ c[2] = s[1] /\ Len(c) >= 2 /\ Len(c) \in Nat
  BY <1>1, <1>2
<1>5. c # <<>> /\ Len(<<>>) = 0 /\ Len(c) - 1 # 0
  BY <1>4
<1>6. /\ Head(c) = c[1] /\ Tail(c) \in Seq(Word) /\ Len(Tail(c)) = Len(c) - 1
      /\ \A i \in 1 .. Len(c) - 1 : Tail(c)[i] = c[i + 1]
  BY <1>2, <1>5, HeadTailProperties
<1>7. Tail(c) # <<>>
  BY <1>5, <1>6, Zenon
<1>8. /\ Head(Tail(c)) = Tail(c)[1] /\ Tail(Tail(c)) \in Seq(Word) /\ Len(Tail(Tail(c))) = Len(Tail(c)) - 1
      /\ \A i \in 1 .. Len(Tail(c)) - 1 : Tail(Tail(c))[i] = Tail(c)[i + 1]
  BY <1>6, <1>7, HeadTailProperties
<1>9. /\ Head(Tail(c)) = c[2] /\ Len(Tail(Tail(c))) = Len(d)
      /\ \A i \in 1 .. Len(d) : Tail(Tail(c))[i] = c[i + 2]
  <2>1. 1 \in 1 .. Len(c) - 1 /\ Len(c) - 1 - 1 = Len(d)
    BY <1>1, <1>2, <1>3, <1>4
  <2>2. \A i \in 1 .. Len(d) : i \in 1 .. Len(c) - 1 - 1 /\ i + 1 \in 1 .. Len(c) - 1 /\ (i + 1) + 1 = i + 2
    BY <2>1, <1>4
  <2> QED
    BY <2>1, <2>2, <1>6, <1>8
<1>10. ASSUME NEW i \in 1 .. Len(d) PROVE c[i + 2] = d[i]
  <2>1. /\ i \in Nat /\ i >= 1 /\ i \in 1 .. 2 * Len(q) /\ i + 2 \in 1 .. 2 * Len(s)
        /\ (i + 2) % 2 = i % 2 /\ (i + 2) \div 2 = (i \div 2) + 1 /\ i % 2 \in 0 .. 1
    BY <1>1, <1>3, Halves
  <2>2. CASE i % 2 = 1
    BY <2>1, <2>2, <1>2, <1>3
  <2>3. CASE i % 2 = 0
    <3>1. i \div 2 \in 1 .. Len(q)
      BY <2>1, <2>3, <1>1, Halves
    <3>2. q[i \div 2] = s[(i \div 2) + 1]
      BY <3>1, <1>1
    <3>3. d[i] = q[i \div 2]
      BY <2>1, <2>3, <1>3
    <3>4. c[i + 2] = s[(i + 2) \div 2]
      BY <2>1, <2>3, <1>2
    <3> QED
      BY <2>1, <3>2, <3>3, <3>4
  <2> QED
    BY <2>1, <2>2, <2>3
<1>11. Tail(Tail(c)) = d
  <2>1. \A i \in 1 .. Len(Tail(Tail(c))) : Tail(Tail(c))[i] = d[i]
    BY <1>9, <1>10
  <2> QED
    BY <2>1, <1>3, <1>8, <1>9, SeqEqual
<1> QED
  BY <1>1, <1>4, <1>5, <1>6, <1>7, <1>9, <1>11 DEF c, d, q

\* One text printed after another is their concatenation.
LEMMA TextMore ==
  ASSUME NEW s \in Seq(Word), NEW u \in Seq(Word)
  PROVE  net_putchar(s) \o net_putchar(u) = net_putchar(s \o u)
<1> DEFINE b == net_putchar(s)
           e == net_putchar(u)
           c == b \o e
           w == s \o u
           d == net_putchar(w)
<1>1. /\ w \in Seq(Word) /\ Len(w) = Len(s) + Len(u) /\ Len(s) \in Nat /\ Len(u) \in Nat
      /\ \A i \in 1 .. Len(s) + Len(u) : w[i] = IF i <= Len(s) THEN s[i] ELSE u[i - Len(s)]
  BY ConcatProperties
<1>2. /\ b \in Seq(Word) /\ Len(b) = 2 * Len(s)
      /\ \A i \in 1 .. 2 * Len(s) : b[i] = IF i % 2 = 1 THEN PI_PRINT_CHAR ELSE s[i \div 2]
  BY TextIs
<1>3. /\ e \in Seq(Word) /\ Len(e) = 2 * Len(u)
      /\ \A i \in 1 .. 2 * Len(u) : e[i] = IF i % 2 = 1 THEN PI_PRINT_CHAR ELSE u[i \div 2]
  BY TextIs
<1> HIDE DEF w
<1>4. /\ d \in Seq(Word) /\ Len(d) = 2 * Len(w)
      /\ \A i \in 1 .. 2 * Len(w) : d[i] = IF i % 2 = 1 THEN PI_PRINT_CHAR ELSE w[i \div 2]
  BY <1>1, TextIs
<1> HIDE DEF b, e, d
<1>5. /\ c \in Seq(Word) /\ Len(c) = Len(b) + Len(e)
      /\ \A i \in 1 .. Len(b) + Len(e) : c[i] = IF i <= Len(b) THEN b[i] ELSE e[i - Len(b)]
  BY <1>2, <1>3, ConcatProperties
<1> HIDE DEF c
<1>6. Len(c) = Len(d)
  BY <1>1, <1>2, <1>3, <1>4, <1>5
<1>7. ASSUME NEW i \in 1 .. Len(c) PROVE c[i] = d[i]
  <2>1. /\ i \in Nat /\ i >= 1 /\ i <= 2 * Len(s) + 2 * Len(u)
        /\ i \in 1 .. Len(b) + Len(e) /\ i \in 1 .. 2 * Len(w)
    BY <1>1, <1>2, <1>3, <1>4, <1>5
  <2>2. CASE i <= 2 * Len(s)
    <3>1. i \in 1 .. 2 * Len(s) /\ c[i] = b[i]
      BY <2>1, <2>2, <1>1, <1>2, <1>5
    <3>2. CASE i % 2 = 1
      BY <3>1, <3>2, <2>1, <1>2, <1>4
    <3>3. CASE i % 2 = 0
      <4>1. i \div 2 \in 1 .. Len(s)
        BY <2>1, <2>2, <3>3, <1>1, Halves
      <4>2. w[i \div 2] = s[i \div 2]
        BY <4>1, <1>1
      <4>3. d[i] = w[i \div 2] /\ b[i] = s[i \div 2]
        BY <3>1, <3>3, <2>1, <1>2, <1>4
      <4> QED
        BY <4>2, <4>3, <3>1
    <3> QED
      BY <3>2, <3>3, <2>1, Halves
  <2>3. CASE i > 2 * Len(s)
    <3> DEFINE j == i - 2 * Len(s)
    <3>1. /\ j \in Nat /\ j \in 1 .. 2 * Len(u) /\ i = j + 2 * Len(s) /\ ~(i <= Len(b)) /\ j = i - Len(b)
      BY <2>1, <2>3, <1>1, <1>2
    <3>2. j % 2 = i % 2 /\ i \div 2 = (j \div 2) + Len(s)
      <4>1. j \in Nat /\ Len(s) \in Nat /\ i = j + 2 * Len(s)
        BY <3>1, <1>1
      <4> HIDE DEF j
      <4> QED
        BY <4>1
    <3> HIDE DEF j
    <3>3. c[i] = e[j]
      BY <3>1, <2>1, <1>5
    <3>4. CASE j % 2 = 1
      BY <3>1, <3>2, <3>3, <3>4, <2>1, <1>3, <1>4
    <3>5. CASE j % 2 = 0
      <4>1. j \div 2 \in 1 .. Len(u)
        <5>1. j \in Nat /\ Len(u) \in Nat /\ j >= 1 /\ j <= 2 * Len(u)
          BY <3>1, <1>1
        <5> QED
          BY <3>5, <5>1
      <4>2. w[i \div 2] = u[j \div 2]
        <5>1. i \div 2 \in 1 .. Len(s) + Len(u) /\ ~(i \div 2 <= Len(s)) /\ i \div 2 - Len(s) = j \div 2
          BY <4>1, <3>2, <1>1
        <5> QED
          BY <5>1, <1>1
      <4>3. d[i] = w[i \div 2]
        BY <3>2, <3>5, <2>1, <1>4
      <4>4. e[j] = u[j \div 2]
        <5>1. j \in 1 .. 2 * Len(u) /\ j % 2 # 1
          BY <3>1, <3>5
        <5> QED
          BY <5>1, <1>3
      <4> QED
        BY <4>2, <4>3, <4>4, <3>3
    <3> QED
      BY <3>4, <3>5, <3>1, Halves
  <2> QED
    BY <2>1, <2>2, <2>3, <1>1
<1>8. c = d
  BY <1>4, <1>5, <1>6, <1>7, SeqEqual
<1> QED
  BY <1>8 DEF b, c, d, e, w

-----------------------------------------------------------------------------
(***************************************************************************)
(* Types, and what a step does to the streams.                             *)
(***************************************************************************)

\* The texts of the program are byte sequences, and no byte of GET_PROG_INFO announces a character.
LEMMA Texts ==
  /\ Banner \in Seq(Word) /\ Bye \in Seq(Word) /\ GET_PROG_INFO \in Seq(Word) /\ GET_PROG_INFO # <<>>
  /\ \A i \in 1 .. Len(GET_PROG_INFO) : GET_PROG_INFO[i] # PI_PRINT_CHAR
<1>1. ASSUME NEW n \in Word PROVE [i \in 1 .. n |-> i] \in Seq(Word)
  <2>1. [i \in 1 .. n |-> i] \in [1 .. n -> Word] /\ n \in Nat
    BY FakePiAssumption DEF Word
  <2> QED
    BY <2>1
<1>2. Banner \in Seq(Word) /\ Bye \in Seq(Word)
  BY <1>1, FakePiAssumption DEF Banner, Bye
<1> QED
  <2>1. GET_PROG_INFO \in Seq(Word)
    BY FakePiAssumption DEF Word, GET_PROG_INFO
  <2> QED
    BY <1>2, <2>1 DEF GET_PROG_INFO, PI_PRINT_CHAR

\* The type invariant, as facts about sequences, before a step.
LEMMA Typed ==
  ASSUME TypeOK
  PROVE  /\ utx \in Seq(Word) /\ ptx \in Seq(Word) /\ toPi \in Seq(Word) /\ toUnix \in Seq(Word)
         /\ printed \in Seq(Word) /\ piout \in Seq(Word) /\ Up \in Seq(Word) /\ Down \in Seq(Word)
<1>1. /\ utx \in Seq(Word) /\ ptx \in Seq(Word) /\ toPi \in Seq(Word) /\ toUnix \in Seq(Word)
      /\ printed \in Seq(Word) /\ piout \in Seq(Word)
  BY DEF TypeOK
<1> QED
  BY <1>1, ConcatProperties DEF Up, Down

\* The same after the step.
LEMMA TypedNext ==
  ASSUME TypeOK'
  PROVE  /\ utx' \in Seq(Word) /\ ptx' \in Seq(Word) /\ toPi' \in Seq(Word) /\ toUnix' \in Seq(Word)
         /\ printed' \in Seq(Word) /\ piout' \in Seq(Word) /\ Up' \in Seq(Word) /\ Down' \in Seq(Word)
<1>1. /\ utx' \in Seq(Word) /\ ptx' \in Seq(Word) /\ toPi' \in Seq(Word) /\ toUnix' \in Seq(Word)
      /\ printed' \in Seq(Word) /\ piout' \in Seq(Word)
  BY DEF TypeOK
<1> QED
  BY <1>1, ConcatProperties DEF Up, Down

\* The values of the variables after a step.
LEMMA TypeKept == TypeOK /\ [Next]_vars => TypeOK'
<1> SUFFICES ASSUME TypeOK, [Next]_vars PROVE TypeOK'
  OBVIOUS
<1> USE DEF TypeOK
<1>t. /\ utx \in Seq(Word) /\ ptx \in Seq(Word) /\ toPi \in Seq(Word) /\ toUnix \in Seq(Word)
      /\ printed \in Seq(Word) /\ piout \in Seq(Word)
  BY Typed
<1>o. /\ PI_READY \in Word /\ PI_PUT32 \in Word /\ PI_GET32 \in Word /\ PI_REBOOT \in Word
      /\ PI_GET32_REPLY \in Word /\ PI_PRINT_CHAR \in Word
  BY Opcodes
<1>a. Addr \subseteq Word /\ Val \subseteq Word /\ MaxOps \in Nat
  BY FakePiAssumption
<1>h. /\ utx # <<>> => Head(utx) \in Word /\ Tail(utx) \in Seq(Word)
      /\ ptx # <<>> => Head(ptx) \in Word /\ Tail(ptx) \in Seq(Word)
      /\ toPi # <<>> => Head(toPi) \in Word /\ Tail(toPi) \in Seq(Word)
      /\ toUnix # <<>> => Head(toUnix) \in Word /\ Tail(toUnix) \in Seq(Word)
  BY <1>t, HeadTailProperties
<1>1. CASE UnixWrite
  BY <1>1, <1>t, <1>h DEF UnixWrite, pvars, hist
<1>2. CASE Ping \/ PingTimeout \/ PingAnswered
  <2>1. CASE Ping
    BY <2>1, <1>t, <1>o DEF Ping, pvars, line, hist
  <2>2. CASE PingTimeout
    BY <2>2, <1>t DEF PingTimeout, pvars, line, hist
  <2>3. CASE PingAnswered
    BY <2>3, <1>t DEF PingAnswered, pvars, line, hist
  <2> QED
    BY <1>2, <2>1, <2>2, <2>3
<1>3. CASE GetOp
  BY <1>3, <1>t, <1>h DEF GetOp, UnixStep, pvars, hist
<1>4. CASE GetChar
  BY <1>4, <1>t, <1>h DEF GetChar, UnixStep, pvars
<1>5. CASE ReadTimeout \/ GetReturn \/ DrainMore \/ DrainDone
  BY <1>5, <1>t DEF ReadTimeout, GetReturn, DrainMore, DrainDone, UnixStep, pvars, line, hist
<1>6. CASE \E a \in Addr, v \in Val : put32(a, v)
  <2>1. PICK a \in Addr, v \in Val : put32(a, v)
    BY <1>6
  <2>2. a \in Word /\ v \in Word /\ <<PI_PUT32, a, v>> \in Seq(Word)
    BY <1>a, <1>o
  <2>3. nops' \in 0 .. MaxOps /\ shadow' \in [Word -> Word]
    BY <2>1, <2>2, <1>a DEF put32
  <2> QED
    BY <2>1, <2>2, <2>3, <1>t DEF put32, UnixStep, pvars, line
<1>7. CASE \E a \in Addr : get32(a)
  <2>1. PICK a \in Addr : get32(a)
    BY <1>7
  <2>2. a \in Word /\ <<PI_GET32, a>> \in Seq(Word)
    BY <1>a, <1>o
  <2>3. nops' \in 0 .. MaxOps
    BY <2>1, <1>a DEF get32
  <2> QED
    BY <2>1, <2>2, <2>3, <1>t DEF get32, UnixStep, pvars, line, hist
<1>8. CASE GetVal
  BY <1>8, <1>t, <1>h DEF GetVal, UnixStep, pvars, hist
<1>9. CASE clean_reboot
  BY <1>9, <1>t, <1>o DEF clean_reboot, UnixStep, pvars, line, hist
<1>10. CASE PiWrite
  BY <1>10, <1>t, <1>h DEF PiWrite, uvars, hist
<1>11. CASE PiBoot \/ PiReboot
  BY <1>11, <1>t DEF PiBoot, PiReboot, uvars, line, hist
<1>12. CASE PiHello
  <2>1. <<PI_READY>> \o net_putchar(Banner) \in Seq(Word) /\ piout \o Banner \in Seq(Word)
    BY <1>t, <1>o, Texts, TextIs, Consed, ConcatProperties
  <2>2. ptx' \in Seq(Word) /\ piout' \in Seq(Word) /\ toPi' \in Seq(Word)
    BY <1>12, <2>1, <1>t, <1>h DEF PiHello, PiGets
  <2> QED
    BY <1>12, <2>2, <1>t DEF PiHello, PiGets, uvars
<1>13. CASE PiOp
  <2>1. net_putchar(Bye) \in Seq(Word) /\ piout \o Bye \in Seq(Word)
    BY <1>t, Texts, TextIs, ConcatProperties
  <2>2. ptx' \in Seq(Word) /\ piout' \in Seq(Word) /\ toPi' \in Seq(Word)
    BY <1>13, <2>1, <1>t, <1>h DEF PiOp, PiGets
  <2>3. ppc' \in {"reboot", "get_addr", "put_addr", "panic"}
    BY <1>13 DEF PiOp
  <2> QED
    BY <1>13, <2>2, <2>3, <1>t DEF PiOp, PiGets, uvars
<1>14. CASE PiGet32
  BY <1>14, <1>t, <1>h, <1>o DEF PiGet32, PiGets, uvars, hist
<1>15. CASE PiPutAddr
  BY <1>15, <1>t, <1>h DEF PiPutAddr, PiGets, uvars, hist
<1>16. CASE PiPutVal
  BY <1>16, <1>t, <1>h DEF PiPutVal, PiGets, uvars, hist
<1>17. CASE wait_for_data
  BY <1>17, <1>t, Texts DEF wait_for_data, uvars, line, hist
<1>18. CASE UNCHANGED vars
  BY <1>18 DEF vars, uvars, pvars, line, hist
<1> QED
  BY <1>1, <1>2, <1>3, <1>4, <1>5, <1>6, <1>7, <1>8, <1>9, <1>10, <1>11, <1>12, <1>13, <1>14,
     <1>15, <1>16, <1>17, <1>18 DEF Next, UnixNext, PiNext, Done

\* What is written moves within a stream.
LEMMA UnixWrites ==
  ASSUME TypeOK, UnixWrite, ppc \notin {"boot", "off"}
  PROVE  Up' = Up /\ Down' = Down /\ Up # <<>>
<1>1. utx \in Seq(Word) /\ toPi \in Seq(Word) /\ utx # <<>>
  BY Typed DEF UnixWrite
<1>2. toPi' \o utx' = toPi \o utx
  BY <1>1, Moved DEF UnixWrite
<1>3. UNCHANGED <<toUnix, ptx>>
  BY DEF UnixWrite, pvars
<1> QED
  BY <1>1, <1>2, <1>3, ConcatEqualIffEmpty DEF Up, Down

\* The pi writes a byte: neither stream changes, and the unix side has something to read.
LEMMA PiWrites ==
  ASSUME TypeOK, PiWrite
  PROVE  Up' = Up /\ Down' = Down /\ toUnix' # <<>>
<1>1. ptx \in Seq(Word) /\ toUnix \in Seq(Word) /\ ptx # <<>>
  BY Typed DEF PiWrite
<1>2. toUnix' \o ptx' = toUnix \o ptx
  BY <1>1, Moved DEF PiWrite
<1>3. UNCHANGED <<toPi, utx>>
  BY DEF PiWrite, uvars
<1>4. toUnix' # <<>>
  BY <1>1, HeadTailProperties DEF PiWrite
<1> QED
  BY <1>2, <1>3, <1>4 DEF Up, Down

\* A reader takes the head of its stream.
LEMMA UnixReads ==
  ASSUME TypeOK, toUnix # <<>>
  PROVE  /\ Down # <<>> /\ Head(Down) = Head(toUnix)
         /\ toUnix' = Tail(toUnix) /\ ptx' = ptx => Down' = Tail(Down)
<1>1. toUnix \in Seq(Word) /\ ptx \in Seq(Word)
  BY Typed
<1>2. /\ toUnix \o ptx # <<>> /\ Head(toUnix \o ptx) = Head(toUnix)
      /\ Tail(toUnix \o ptx) = Tail(toUnix) \o ptx
  BY <1>1, FirstOut
<1> QED
  BY <1>2 DEF Down

\* The pi takes the head of its stream.
LEMMA PiReads ==
  ASSUME TypeOK, toPi # <<>>
  PROVE  /\ Up # <<>> /\ Head(Up) = Head(toPi)
         /\ toPi' = Tail(toPi) /\ utx' = utx => Up' = Tail(Up)
<1>1. toPi \in Seq(Word) /\ utx \in Seq(Word)
  BY Typed
<1>2. /\ toPi \o utx # <<>> /\ Head(toPi \o utx) = Head(toPi)
      /\ Tail(toPi \o utx) = Tail(toPi) \o utx
  BY <1>1, FirstOut
<1> QED
  BY <1>2 DEF Up

\* A writer that has written all adds to its stream.
LEMMA UnixSends ==
  ASSUME TypeOK, TypeOK', utx = <<>>, toPi' = toPi
  PROVE  Up = toPi /\ Up' = Up \o utx'
BY Typed, ConcatEmptySeq DEF Up

\* The pi, having written all, adds to its stream.
LEMMA PiSends ==
  ASSUME TypeOK, TypeOK', ptx = <<>>, toUnix' = toUnix
  PROVE  Down = toUnix /\ Down' = Down \o ptx'
BY Typed, ConcatEmptySeq DEF Down

\* The stream to the pi changes only with its two parts.
LEMMA UpSame == toPi' = toPi /\ utx' = utx => Up' = Up
BY DEF Up

\* The stream to the unix side changes only with its two parts.
LEMMA DownSame == toUnix' = toUnix /\ ptx' = ptx => Down' = Down
BY DEF Down

\* A stream is empty when its line is and its writer has written all.
LEMMA Empty ==
  ASSUME TypeOK
  PROVE  /\ Up = <<>> <=> toPi = <<>> /\ utx = <<>>
         /\ Down = <<>> <=> toUnix = <<>> /\ ptx = <<>>
BY Typed, ConcatEqualIffEmpty DEF Up, Down

-----------------------------------------------------------------------------
(***************************************************************************)
(* How the unix side's stream parses, before and after a step.             *)
(***************************************************************************)

\* A step that leaves the stream, the output and the reader alone leaves what is to be heard.
LEMMA HearSame ==
  ASSUME NEW cs \in Seq(Word), NEW t \in Seq(Word), ToHear(cs, t),
         Down' = Down, piout' = piout, printed' = printed,
         upc' = upc \/ (upc # "char" /\ upc' # "char")
  PROVE  ToHear(cs, t)'
BY DEF ToHear

\* Waiting for an opcode: a character comes, or what is after the characters.
LEMMA HearOp ==
  ASSUME NEW cs \in Seq(Word), NEW t \in Seq(Word), ToHear(cs, t), upc # "char"
  PROVE  /\ cs = <<>> => Down = t
         /\ cs # <<>> => Down # <<>> /\ Head(Down) = PI_PRINT_CHAR
<1>1. Down = net_putchar(cs) \o t
  BY DEF ToHear
<1>2. CASE cs = <<>>
  BY <1>1, <1>2, TextNone, ConcatEmptySeq
<1>3. CASE cs # <<>>
  BY <1>1, <1>3, TextFirst, TextIs, FirstOut
<1> QED
  BY <1>2, <1>3

\* The opcode of a character was read.
LEMMA HearChar ==
  ASSUME NEW cs \in Seq(Word), NEW t \in Seq(Word), ToHear(cs, t), upc # "char", cs # <<>>,
         Down' = Tail(Down), piout' = piout, printed' = printed, upc' = "char"
  PROVE  ToHear(cs, t)'
BY DEF ToHear

\* The character itself.
LEMMA HearLetter ==
  ASSUME TypeOK, NEW cs \in Seq(Word), NEW t \in Seq(Word), ToHear(cs, t), upc = "char"
  PROVE  /\ cs # <<>> /\ Tail(cs) \in Seq(Word) /\ Down # <<>>
         /\ piout = Append(printed, Head(Down)) \o Tail(cs)
         /\ (Down' = Tail(Down) /\ piout' = piout /\ printed' = Append(printed, Head(Down))
             /\ upc' # "char") => ToHear(Tail(cs), t)'
<1>1. cs # <<>> /\ Down = Tail(net_putchar(cs) \o t) /\ piout = printed \o cs
  BY DEF ToHear
<1>2. net_putchar(cs) \in Seq(Word) /\ net_putchar(cs) # <<>>
  BY <1>1, TextIs, TextFirst
<1>3. Down = Tail(net_putchar(cs)) \o t
  BY <1>1, <1>2, FirstOut
<1>4. /\ Tail(net_putchar(cs)) \in Seq(Word) /\ Tail(net_putchar(cs)) # <<>>
      /\ Head(Tail(net_putchar(cs))) = Head(cs) /\ Tail(Tail(net_putchar(cs))) = net_putchar(Tail(cs))
      /\ Tail(cs) \in Seq(Word)
  BY <1>1, <1>2, TextFirst, HeadTailProperties
<1>5. Head(Down) = Head(cs) /\ Tail(Down) = net_putchar(Tail(cs)) \o t /\ Down # <<>>
  <2> DEFINE u == Tail(net_putchar(cs))
  <2>1. u \in Seq(Word) /\ u # <<>> /\ Down = u \o t
    BY <1>3, <1>4
  <2> HIDE DEF u
  <2>2. Down # <<>> /\ Head(Down) = Head(u) /\ Tail(Down) = Tail(u) \o t
    BY <2>1, FirstOut
  <2> QED
    BY <2>2, <1>4 DEF u
<1>6. printed \in Seq(Word)
  BY Typed
<1>7. piout = Append(printed, Head(Down)) \o Tail(cs)
  BY <1>1, <1>5, <1>6, Moved
<1>8. ASSUME Down' = Tail(Down), piout' = piout, printed' = Append(printed, Head(Down)), upc' # "char"
      PROVE  ToHear(Tail(cs), t)'
  BY <1>5, <1>7, <1>8 DEF ToHear
<1> QED
  BY <1>1, <1>4, <1>5, <1>7, <1>8

\* The pi adds something that is no text.
LEMMA HearTail ==
  ASSUME NEW cs \in Seq(Word), NEW w \in Seq(Word), ToHear(cs, <<>>),
         Down' = Down \o w, piout' = piout, printed' = printed, upc' = upc
  PROVE  ToHear(cs, w)'
<1>1. net_putchar(cs) \in Seq(Word) /\ net_putchar(cs) \o <<>> = net_putchar(cs)
  BY TextIs, ConcatEmptySeq
<1>2. CASE upc = "char"
  <2>1. cs # <<>> /\ Down = Tail(net_putchar(cs))
    BY <1>1, <1>2 DEF ToHear
  <2>2. Down' = Tail(net_putchar(cs) \o w)
    <3> DEFINE u == net_putchar(cs)
    <3>1. u \in Seq(Word) /\ u # <<>> /\ Down' = Tail(u) \o w
      BY <2>1, <1>1, TextFirst
    <3> HIDE DEF u
    <3>2. Tail(u \o w) = Tail(u) \o w
      BY <3>1, FirstOut
    <3> QED
      BY <3>1, <3>2 DEF u
  <2> QED
    BY <2>1, <2>2, <1>2 DEF ToHear
<1>3. CASE upc # "char"
  BY <1>1, <1>3 DEF ToHear
<1> QED
  BY <1>2, <1>3

\* Concatenation is associative.
LEMMA Grouped == \A x, y, z \in Seq(Word) : (x \o y) \o z = x \o (y \o z)
OBVIOUS

\* The pi adds a text.
LEMMA HearMore ==
  ASSUME TypeOK, NEW cs \in Seq(Word), NEW s \in Seq(Word), ToHear(cs, <<>>),
         Down' = Down \o net_putchar(s), piout' = piout \o s, printed' = printed, upc' = upc
  PROVE  cs \o s \in Seq(Word) /\ ToHear(cs \o s, <<>>)'
<1> DEFINE d == cs \o s
<1>1. /\ net_putchar(cs) \in Seq(Word) /\ net_putchar(cs) \o <<>> = net_putchar(cs)
      /\ net_putchar(s) \in Seq(Word) /\ printed \in Seq(Word)
      /\ d \in Seq(Word) /\ net_putchar(d) \in Seq(Word) /\ net_putchar(d) \o <<>> = net_putchar(d)
  <2>1. d \in Seq(Word) /\ printed \in Seq(Word)
    BY ConcatProperties, Typed
  <2>2. ASSUME NEW z \in Seq(Word)
        PROVE  net_putchar(z) \in Seq(Word) /\ net_putchar(z) \o <<>> = net_putchar(z)
    <3>1. net_putchar(z) \in Seq(Word)
      BY TextIs
    <3> QED
      BY <3>1, ConcatEmptySeq
  <2> HIDE DEF d
  <2> QED
    BY <2>1, <2>2
<1>2. net_putchar(d) = net_putchar(cs) \o net_putchar(s)
  BY TextMore
<1>3. piout' = printed \o d
  <2>1. piout = printed \o cs
    BY DEF ToHear
  <2>2. (printed \o cs) \o s = printed \o (cs \o s)
    <3>1. printed \in Seq(Word)
      BY <1>1
    <3> QED
      BY <3>1, Grouped
  <2> QED
    BY <2>1, <2>2
<1>4. CASE upc = "char"
  <2>1. cs # <<>> /\ Down = Tail(net_putchar(cs))
    BY <1>1, <1>4 DEF ToHear
  <2>2. Down' = Tail(net_putchar(cs) \o net_putchar(s))
    <3> DEFINE u == net_putchar(cs)
               v == net_putchar(s)
    <3>1. u \in Seq(Word) /\ v \in Seq(Word) /\ u # <<>> /\ Down = Tail(u)
      BY <2>1, <1>1, TextFirst
    <3> HIDE DEF u, v
    <3>2. Tail(u \o v) = Tail(u) \o v
      BY <3>1, FirstOut
    <3> QED
      BY <3>1, <3>2 DEF u, v
  <2>3. d # <<>>
    BY <2>1, ConcatEqualIffEmpty
  <2> HIDE DEF d
  <2>4. ToHear(d, <<>>)'
    BY <2>2, <2>3, <1>1, <1>2, <1>3, <1>4 DEF ToHear
  <2> QED
    BY <2>4, <1>1 DEF d
<1>5. CASE upc # "char"
  <2> HIDE DEF d
  <2>1. ToHear(d, <<>>)'
    BY <1>1, <1>2, <1>3, <1>5 DEF ToHear
  <2> QED
    BY <2>1, <1>1 DEF d
<1> QED
  BY <1>4, <1>5

-----------------------------------------------------------------------------
(***************************************************************************)
(* How the pi's stream parses, before and after a step.                    *)
(***************************************************************************)

\* A step that leaves the stream, the memories and the reader alone leaves what is to be read.
LEMMA ReadSame ==
  ASSUME NEW p \in Puts, NEW r \in Seq(Word), ToRead(p, r),
         Up' = Up, UNCHANGED <<shadow, mem, ppc, paddr>>,
         uaddr' = uaddr \/ ppc # "get_addr"
  PROVE  ToRead(p, r)'
<1>1. Applied(p)'
  BY DEF ToRead, Applied
<1> QED
  BY <1>1 DEF ToRead

\* Once the commands are known to be no get32, the pi is not in one.
LEMMA ReadNoGet ==
  ASSUME NEW p \in Puts, NEW r \in Seq(Word), ToRead(p, r), r = <<>> \/ Head(r) # PI_GET32
  PROVE  ppc \in {"op", "put_addr", "put_val"}
BY DEF ToRead

\* The pi stops in the middle of nothing.
LEMMA ReadOn ==
  ASSUME NEW p \in Puts, NEW r \in Seq(Word), ToRead(p, r), r # <<>>
  PROVE  Up # <<>> /\ ppc \in {"op", "put_addr", "put_val", "get_addr"}
<1>1. CASE p # <<>>
  <2>1. Coded(p, r) # <<>> /\ Tail(Coded(p, r)) # <<>> /\ Tail(Tail(Coded(p, r))) # <<>>
    BY <1>1, CodedFirst
  <2> QED
    BY <1>1, <2>1 DEF ToRead
<1>2. CASE p = <<>>
  <2>1. Coded(p, r) = r
    BY <1>2, CodedNone
  <2>2. CASE ppc = "op"
    BY <1>2, <2>1, <2>2 DEF ToRead
  <2>3. CASE ppc # "op"
    <3>1. ppc = "get_addr" /\ r = <<PI_GET32, uaddr>> /\ Up = Tail(r)
      BY <1>2, <2>1, <2>3 DEF ToRead
    <3> QED
      BY <3>1
  <2> QED
    BY <2>2, <2>3
<1> QED
  BY <1>1, <1>2

\* The pi at the start of a command.
LEMMA ReadOp ==
  ASSUME NEW p \in Puts, NEW r \in Seq(Word), ToRead(p, r), ppc = "op"
  PROVE  /\ p # <<>> => Up # <<>> /\ Head(Up) = PI_PUT32
         /\ p = <<>> => Up = r
<1>1. Up = Coded(p, r)
  BY DEF ToRead
<1>2. p # <<>> => Coded(p, r) # <<>> /\ Head(Coded(p, r)) = PI_PUT32
  BY CodedFirst
<1>3. p = <<>> => Coded(p, r) = r
  BY CodedNone
<1> QED
  BY <1>1, <1>2, <1>3

\* The pi reads the opcode of a put.
LEMMA ReadPut ==
  ASSUME NEW p \in Puts, NEW r \in Seq(Word), ToRead(p, r), ppc = "op", p # <<>>,
         Up' = Tail(Up), ppc' = "put_addr", UNCHANGED <<shadow, mem>>
  PROVE  ToRead(p, r)'
<1>1. Applied(p)'
  BY DEF ToRead, Applied
<1> QED
  BY <1>1 DEF ToRead

\* The pi reads the opcode of a get, when no put is left before it.
LEMMA ReadGet ==
  ASSUME NEW u \in Word, ToRead(<<>>, <<PI_GET32, u>>), ppc = "op", u = uaddr,
         Up' = Tail(Up), ppc' = "get_addr", UNCHANGED <<shadow, mem, uaddr>>
  PROVE  ToRead(<<>>, <<PI_GET32, u>>)'
<1>1. Applied(<<>>)'
  BY DEF ToRead, Applied
<1> QED
  BY <1>1 DEF ToRead

\* The pi reads the address of a put.
LEMMA ReadAddr ==
  ASSUME NEW p \in Puts, NEW r \in Seq(Word), ToRead(p, r), ppc = "put_addr",
         Up' = Tail(Up), ppc' = "put_val", paddr' = Head(Up), UNCHANGED <<shadow, mem>>
  PROVE  ToRead(p, r)'
<1>1. Applied(p)'
  BY DEF ToRead, Applied
<1>2. p # <<>> /\ Up = Tail(Coded(p, r))
  BY DEF ToRead
<1>3. Head(Up) = p[1][1]
  BY <1>2, CodedFirst
<1> QED
  BY <1>1, <1>2, <1>3 DEF ToRead

\* The pi reads the value, does the put, and the next one is the first.
LEMMA ReadValue ==
  ASSUME TypeOK, NEW p \in Puts, NEW r \in Seq(Word), ToRead(p, r), ppc = "put_val",
         Up' = Tail(Up), ppc' = "op", mem' = [mem EXCEPT ![paddr] = Head(Up)], shadow' = shadow
  PROVE  Tail(p) \in Puts /\ ToRead(Tail(p), r)'
<1>1. p # <<>> /\ Up = Tail(Tail(Coded(p, r))) /\ paddr = p[1][1] /\ Applied(p)
  BY DEF ToRead
<1>2. /\ Tail(p) \in Puts /\ Head(Up) = p[1][2] /\ Tail(Up) = Coded(Tail(p), r)
  BY <1>1, CodedFirst
<1>3. Applied(Tail(p))'
  BY <1>1, <1>2, AppliedFirst DEF TypeOK
<1> QED
  BY <1>2, <1>3 DEF ToRead

\* A put32 more, behind the others.
LEMMA ReadMore ==
  ASSUME TypeOK, NEW p \in Puts, NEW a \in Word, NEW v \in Word, ToRead(p, <<>>),
         Up' = Up \o <<PI_PUT32, a, v>>, shadow' = [shadow EXCEPT ![a] = v],
         UNCHANGED <<ppc, mem, paddr>>
  PROVE  Append(p, <<a, v>>) \in Puts /\ ToRead(Append(p, <<a, v>>), <<>>)'
<1> DEFINE q == Append(p, <<a, v>>)
           w == <<PI_PUT32, a, v>>
           c == Coded(p, <<>>)
           d == Coded(q, <<>>)
<1>1. q \in Puts /\ c \o w = d
  BY CodedMore
<1>2. Applied(q)'
  BY AppliedMore DEF ToRead, TypeOK
<1>e. <<>> \in Seq(Word)
  OBVIOUS
<1>3. w \in Seq(Word) /\ c \in Seq(Word)
  <2>1. PI_PUT32 \in Word
    BY Opcodes
  <2>2. w \in Seq(Word)
    BY <2>1
  <2> QED
    BY <2>2, <1>e, CodedIs
<1>4. p # <<>> => q # <<>> /\ q[1] = p[1]
  BY DEF Puts
<1> HIDE DEF q, w, c
<1>5. CASE ppc = "op"
  <2>1. Up = c
    BY <1>5 DEF ToRead, c
  <2>2. Up' = d
    BY <2>1, <1>1 DEF w
  <2>3. ppc' = "op"
    BY <1>5
  <2>4. ToRead(q, <<>>)'
    BY <2>2, <2>3, <1>2 DEF ToRead
  <2> QED
    BY <2>4, <1>1 DEF q
<1>6. CASE ppc = "put_addr"
  <2>1. p # <<>> /\ Up = Tail(c)
    BY <1>6 DEF ToRead, c
  <2>2. c # <<>>
    BY <2>1, <1>e, CodedFirst DEF c
  <2>3. Up' = Tail(d)
    BY <2>1, <2>2, <1>1, <1>3, FirstOut DEF w
  <2> QED
    BY <2>1, <2>3, <1>1, <1>2, <1>4, <1>6 DEF ToRead, q
<1>7. CASE ppc = "put_val"
  <2>1. p # <<>> /\ Up = Tail(Tail(c)) /\ paddr = p[1][1]
    BY <1>7 DEF ToRead, c
  <2>2. c # <<>> /\ Tail(c) # <<>>
    BY <2>1, <1>e, CodedFirst DEF c
  <2>3. Tail(c) \in Seq(Word)
    BY <2>2, <1>3, HeadTailProperties
  <2>4. Tail(d) = Tail(c) \o w
    BY <2>2, <1>1, <1>3, FirstOut
  <2>5. Tail(Tail(d)) = Tail(Tail(c)) \o w
    BY <2>2, <2>3, <2>4, <1>3, FirstOut
  <2>6. Up' = Tail(Tail(d)) /\ paddr' = q[1][1]
    BY <2>1, <2>5, <1>4 DEF w
  <2> QED
    BY <2>1, <2>6, <1>1, <1>2, <1>4, <1>7 DEF ToRead, q
<1>8. ppc \in {"op", "put_addr", "put_val"}
  BY DEF ToRead
<1> QED
  BY <1>5, <1>6, <1>7, <1>8

\* The last command, behind the puts.
LEMMA ReadLast ==
  ASSUME NEW p \in Puts, NEW r \in Seq(Word), ToRead(p, <<>>),
         Up' = Up \o r, UNCHANGED <<shadow, ppc, mem, paddr>>
  PROVE  ToRead(p, r)'
<1> DEFINE c == Coded(p, <<>>)
           d == Coded(p, r)
<1>e. <<>> \in Seq(Word)
  OBVIOUS
<1>1. c \o r = d /\ c \in Seq(Word)
  BY <1>e, CodedRest, CodedIs
<1>2. Applied(p)'
  BY DEF ToRead, Applied
<1>5. CASE ppc = "op"
  BY <1>1, <1>2, <1>5 DEF ToRead
<1>6. CASE ppc = "put_addr"
  <2>1. p # <<>> /\ Up = Tail(c)
    BY <1>6 DEF ToRead
  <2>2. c # <<>>
    BY <2>1, <1>e, CodedFirst
  <2> HIDE DEF c, d
  <2>3. Up' = Tail(d)
    BY <2>1, <2>2, <1>1, FirstOut
  <2> QED
    BY <2>1, <2>3, <1>2, <1>6 DEF ToRead, d
<1>7. CASE ppc = "put_val"
  <2>1. p # <<>> /\ Up = Tail(Tail(c)) /\ paddr = p[1][1]
    BY <1>7 DEF ToRead
  <2>2. c # <<>> /\ Tail(c) # <<>>
    BY <2>1, <1>e, CodedFirst
  <2> HIDE DEF c, d
  <2>3. Tail(c) \in Seq(Word)
    BY <2>2, <1>1, HeadTailProperties
  <2>4. Tail(d) = Tail(c) \o r
    BY <2>2, <1>1, FirstOut
  <2>5. Up' = Tail(Tail(d))
    BY <2>1, <2>2, <2>3, <2>4, FirstOut
  <2> QED
    BY <2>1, <2>5, <1>2, <1>7 DEF ToRead, d
<1>8. ppc \in {"op", "put_addr", "put_val"}
  BY DEF ToRead
<1> QED
  BY <1>5, <1>6, <1>7, <1>8

-----------------------------------------------------------------------------
(***************************************************************************)
(* Every phase leads to a phase.                                           *)
(***************************************************************************)

\* A stream of PI_READYs stays one when it is read, or when another ping is sent.
LEMMA ReadyKept ==
  ASSUME TypeOK, AllReady
  PROVE  /\ Up' = Up => AllReady'
         /\ Up # <<>> => /\ Head(Up) = PI_READY
                         /\ Up' = Tail(Up) => AllReady' /\ Len(Up') = Len(Up) - 1
         /\ Up' = Up \o <<PI_READY>> => AllReady' /\ Len(Up') = Len(Up) + 1
<1>1. Up \in Seq(Word) /\ PI_READY \in Word /\ Len(Up) \in Nat /\ \A i \in 1 .. Len(Up) : Up[i] = PI_READY
  BY Typed, Opcodes DEF AllReady
<1>2. Up' = Up => AllReady'
  BY DEF AllReady
<1>3. ASSUME Up # <<>> PROVE /\ Head(Up) = PI_READY
                             /\ Up' = Tail(Up) => AllReady' /\ Len(Up') = Len(Up) - 1
  <2>1. /\ Head(Up) = Up[1] /\ Len(Tail(Up)) = Len(Up) - 1 /\ Len(Up) # 0
        /\ \A i \in 1 .. Len(Tail(Up)) : Tail(Up)[i] = Up[i + 1]
    BY <1>1, <1>3, HeadTailProperties, EmptySeq
  <2>2. \A i \in 1 .. Len(Tail(Up)) : i + 1 \in 1 .. Len(Up)
    BY <1>1, <2>1
  <2>3. Head(Up) = PI_READY
    BY <1>1, <2>1
  <2>4. \A i \in 1 .. Len(Tail(Up)) : Tail(Up)[i] = PI_READY
    BY <1>1, <2>1, <2>2
  <2> QED
    BY <2>1, <2>3, <2>4 DEF AllReady
<1>4. ASSUME Up' = Up \o <<PI_READY>> PROVE AllReady' /\ Len(Up') = Len(Up) + 1
  <2> DEFINE w == <<PI_READY>>
  <2>1. w \in Seq(Word) /\ Len(w) = 1 /\ w[1] = PI_READY
    BY <1>1
  <2> HIDE DEF w
  <2>2. /\ Len(Up \o w) = Len(Up) + 1
        /\ \A i \in 1 .. Len(Up) + 1 : (Up \o w)[i] = IF i <= Len(Up) THEN Up[i] ELSE w[i - Len(Up)]
    <3>1. /\ Len(Up \o w) = Len(Up) + Len(w)
          /\ \A i \in 1 .. Len(Up) + Len(w) : (Up \o w)[i] = IF i <= Len(Up) THEN Up[i] ELSE w[i - Len(Up)]
      BY <1>1, <2>1, ConcatProperties
    <3> QED
      BY <3>1, <2>1
  <2>3. \A i \in 1 .. Len(Up) + 1 : (Up \o w)[i] = PI_READY
    BY <1>1, <2>1, <2>2
  <2>4. Up' = Up \o w
    BY <1>4 DEF w
  <2> QED
    BY <2>2, <2>3, <2>4 DEF AllReady
<1> QED
  BY <1>2, <1>3, <1>4

\* No step leaves the phases from the one before the pi has greeted.
LEMMA SilentStep ==
  ASSUME TypeOK, TypeOK', Silent, [Next]_vars
  PROVE  Phases'
<1>p. patient' = patient
  BY DEF Next, UnixNext, PiNext, Done, vars
<1>d. /\ toUnix = <<>> /\ ptx = <<>> /\ ppc \in {"boot", "hello"} /\ upc \in {"ping", "poll"}
      /\ Up \in Seq(Word) /\ toPi \in Seq(Word) /\ utx \in Seq(Word)
  BY Empty, Typed DEF Silent
<1>1. CASE UnixWrite
  <2>1. utx # <<>> /\ utx' = Tail(utx) /\ UNCHANGED <<upc, ppc, mem, toUnix, ptx, printed, piout, shadow>>
    BY <1>1 DEF UnixWrite, pvars, hist
  <2>2. Down' = Down
    BY <2>1, DownSame
  <2>3. Up # <<>>
    BY <2>1, Empty
  <2>4. CASE ppc = "boot"
    <3>1. toPi = <<>> /\ toPi' = <<>>
      BY <1>1, <2>4 DEF UnixWrite, Silent
    <3>2. Up = utx /\ Up' = Tail(Up)
      BY <3>1, <2>1, <1>d, HeadTailProperties, ConcatEmptySeq DEF Up
    <3>3. AllReady' /\ Len(Up') = Len(Up) - 1 /\ Len(Up) \in Nat
      <4>1. AllReady /\ Len(Up) \in Nat
        BY <1>d DEF Silent
      <4> QED
        BY <4>1, <3>2, <2>3, ReadyKept
    <3> QED
      BY <3>1, <3>3, <2>1, <2>2, <2>3, <2>4, <1>p DEF Silent, Phases
  <2>5. CASE ppc = "hello"
    <3>1. Up' = Up
      BY <1>1, <2>5, UnixWrites
    <3> QED
      BY <3>1, <2>1, <2>2, <2>5, <1>p, ReadyKept DEF Silent, Phases
  <2> QED
    BY <2>4, <2>5, <1>d
<1>2. CASE Ping
  <2>1. /\ utx = <<>> /\ utx' = <<PI_READY>> /\ upc = "ping" /\ upc' = "poll"
        /\ UNCHANGED <<toPi, ppc, mem, toUnix, ptx, printed, piout, shadow>>
    BY <1>2 DEF Ping, UnixStep, pvars, line, hist
  <2>2. Down' = Down /\ Up' = Up \o <<PI_READY>>
    BY <2>1, DownSame, UnixSends
  <2>3. AllReady' /\ Len(Up') = Len(Up) + 1
    BY <2>2, ReadyKept DEF Silent
  <2>4. patient => Len(Up') <= 1
    BY <2>1, <2>3 DEF Silent
  <2> QED
    BY <2>1, <2>2, <2>3, <2>4, <1>p DEF Silent, Phases
<1>3. CASE PingTimeout
  <2>1. /\ utx = <<>> /\ upc' = "ping" /\ TimedOut
        /\ UNCHANGED <<toPi, utx, ppc, mem, toUnix, ptx, printed, piout, shadow>>
    BY <1>3 DEF PingTimeout, UnixStep, pvars, line, hist
  <2>2. Down' = Down /\ Up' = Up
    BY <2>1, DownSame, UpSame
  <2>3. patient => Up = <<>>
    BY <2>1, <1>d, Empty DEF TimedOut, PiQuiet, Silent
  <2> QED
    BY <2>1, <2>2, <2>3, <1>p, ReadyKept DEF Silent, Phases
<1>4. CASE PiBoot
  <2>1. /\ ppc' = "hello" /\ UNCHANGED <<toPi, utx, upc, mem, toUnix, ptx, printed, piout, shadow>>
    BY <1>4 DEF PiBoot, uvars, line, hist
  <2>2. Down' = Down /\ Up' = Up
    BY <2>1, DownSame, UpSame
  <2> QED
    BY <2>1, <2>2, <1>p, ReadyKept DEF Silent, Phases
<1>5. CASE PiHello
  <2>1. /\ toPi # <<>> /\ toPi' = Tail(toPi)
        /\ UNCHANGED <<utx, upc, expecting, mem, toUnix, printed, shadow>>
    BY <1>5 DEF PiHello, PiGets, uvars
  <2>2. Up # <<>> /\ Head(Up) = Head(toPi) /\ Up' = Tail(Up)
    BY <2>1, PiReads
  <2>3. Head(toPi) = PI_READY /\ AllReady' /\ Len(Up') = Len(Up) - 1
    BY <2>2, ReadyKept DEF Silent
  <2>4. ppc' = "op" /\ ptx' = <<PI_READY>> \o net_putchar(Banner) /\ piout' = piout \o Banner
    BY <2>3, <1>5 DEF PiHello
  <2>5. Down' = ptx' /\ piout' = Banner
    <3>1. Down' = Down \o ptx'
      BY <2>1, <1>d, PiSends
    <3> QED
      BY <3>1, <2>4, Typed, Texts, ConcatEmptySeq DEF Silent
  <2>6. patient => Up' = <<>> /\ upc # "ping"
    <3>1. ASSUME patient PROVE upc = "poll" /\ Len(Up) <= 1 /\ Len(Up) \in Nat
      BY <3>1, <2>2, <1>d DEF Silent
    <3>2. ASSUME patient PROVE Len(Up') = 0
      BY <3>2, <3>1, <2>2, <2>3, <1>d, EmptySeq
    <3>3. Up' \in Seq(Word)
      BY TypedNext
    <3> QED
      BY <3>1, <3>2, <3>3, EmptySeq
  <2> QED
    BY <2>1, <2>3, <2>4, <2>5, <2>6, <1>d, <1>p DEF Silent, Handshake, Greeting, Phases
<1>6. CASE UNCHANGED vars
  BY <1>6, <1>d, UpSame, DownSame, ReadyKept DEF Silent, Phases, vars, uvars, pvars, line, hist
<1> QED
  BY <1>1, <1>2, <1>3, <1>4, <1>5, <1>6, <1>d
  DEF Next, UnixNext, PiNext, Done, PingAnswered, GetOp, GetChar, ReadTimeout, put32, get32, GetVal, GetReturn,
      clean_reboot, DrainMore, DrainDone, UnixStep, PiWrite, PiOp, PiGet32, PiPutAddr, PiPutVal, PiGets, PiReboot,
      wait_for_data

\* The commands that may follow the handshake, when no ping was sent in vain.
LEMMA FromHandshake ==
  ASSUME TypeOK, TypeOK', upc' = "main", Down' = net_putchar(Banner), printed' = <<>>, piout' = Banner,
         mem' = shadow', AllReady', ppc' \in {"op", "panic"}, patient' => Up' = <<>> /\ ppc' = "op"
  PROVE  Phases'
<1>1. Banner \in Seq(Word) /\ ToHear(Banner, <<>>)'
  BY Texts, TextIs, ConcatEmptySeq DEF ToHear
<1>2. CASE ppc' = "op" /\ Up' = <<>>
  <2>1. <<>> \in Puts /\ <<>> \in Seq(Word)
    BY DEF Puts
  <2>2. Applied(<<>>)'
    BY DEF Applied, TypeOK
  <2>3. ToRead(<<>>, <<>>)'
    BY <1>2, <2>1, <2>2, CodedNone DEF ToRead
  <2> QED
    BY <1>1, <2>1, <2>3 DEF Commanding, Phases
<1>3. CASE ~(ppc' = "op" /\ Up' = <<>>)
  <2>1. ~patient'
    BY <1>3
  <2>2. Up' # <<>> => Head(Up)' = PI_READY
    <3>1. Up' \in Seq(Word)
      BY TypedNext
    <3>2. Up' # <<>> => 1 \in 1 .. Len(Up') /\ Head(Up') = Up'[1]
      BY <3>1, EmptySeq
    <3> QED
      BY <3>2 DEF AllReady
  <2> QED
    BY <1>1, <1>3, <2>1, <2>2 DEF Doomed, Phases
<1> QED
  BY <1>2, <1>3

\* Nor from the one in which greeting and pings cross.
LEMMA HandshakeStep ==
  ASSUME TypeOK, TypeOK', Handshake, [Next]_vars
  PROVE  Phases'
<1>p. patient' = patient
  BY DEF Next, UnixNext, PiNext, Done, vars
<1>d. /\ ppc \in {"op", "panic"} /\ upc \in {"ping", "poll", "op"} /\ Up \in Seq(Word)
      /\ Down # <<>> /\ Head(Down) = PI_READY /\ Tail(Down) = net_putchar(Banner)
  <2>1. ppc \in {"op", "panic"} /\ upc \in {"ping", "poll", "op"} /\ Up \in Seq(Word)
    BY Typed DEF Handshake, Greeting
  <2>2. net_putchar(Banner) \in Seq(Word) /\ PI_READY \in Word
    BY Texts, TextIs, Opcodes
  <2>3. Down = <<PI_READY>> \o net_putchar(Banner)
    BY DEF Handshake
  <2>4. /\ <<PI_READY>> \o net_putchar(Banner) # <<>>
        /\ Head(<<PI_READY>> \o net_putchar(Banner)) = PI_READY
        /\ Tail(<<PI_READY>> \o net_putchar(Banner)) = net_putchar(Banner)
    BY <2>2, Consed
  <2> QED
    BY <2>1, <2>3, <2>4
<1>1. CASE UnixWrite
  <2>1. UNCHANGED <<upc, expecting, ppc, mem, toUnix, printed, piout, shadow>>
    BY <1>1 DEF UnixWrite, pvars, hist
  <2>2. Up' = Up /\ Down' = Down
    BY <1>1, <1>d, UnixWrites
  <2> QED
    BY <2>1, <2>2, <1>p, ReadyKept DEF Handshake, Greeting, Phases
<1>2. CASE Ping
  <2>1. /\ utx = <<>> /\ utx' = <<PI_READY>> /\ upc = "ping" /\ upc' = "poll"
        /\ UNCHANGED <<toPi, ppc, mem, toUnix, ptx, printed, piout, shadow>>
    BY <1>2 DEF Ping, UnixStep, pvars, line, hist
  <2>2. Down' = Down /\ Up' = Up \o <<PI_READY>>
    BY <2>1, DownSame, UnixSends
  <2>3. AllReady'
    BY <2>2, ReadyKept DEF Handshake
  <2>4. ~patient
    BY <2>1 DEF Handshake
  <2> QED
    BY <2>1, <2>2, <2>3, <2>4, <1>p DEF Handshake, Greeting, Phases
<1>3. CASE PingTimeout
  <2>1. /\ upc' = "ping" /\ TimedOut
        /\ UNCHANGED <<toPi, utx, ppc, mem, toUnix, ptx, printed, piout, shadow>>
    BY <1>3 DEF PingTimeout, UnixStep, pvars, line, hist
  <2>2. Down' = Down /\ Up' = Up
    BY <2>1, DownSame, UpSame
  <2>3. ~patient
    BY <2>1, <1>d, Empty DEF TimedOut, PiQuiet
  <2> QED
    BY <2>1, <2>2, <2>3, <1>p, ReadyKept DEF Handshake, Greeting, Phases
<1>4. CASE PingAnswered
  <2>1. /\ toUnix # <<>> /\ upc' = "op" /\ expecting' = PI_READY
        /\ UNCHANGED <<toPi, utx, ppc, mem, toUnix, ptx, printed, piout, shadow>>
    BY <1>4 DEF PingAnswered, UnixStep, pvars, line, hist
  <2>2. Down' = Down /\ Up' = Up
    BY <2>1, DownSame, UpSame
  <2> QED
    BY <2>1, <2>2, <1>p, ReadyKept DEF Handshake, Greeting, Phases
<1>5. CASE GetOp
  <2>1. /\ toUnix # <<>> /\ toUnix' = Tail(toUnix) /\ expecting = PI_READY
        /\ UNCHANGED <<toPi, utx, ppc, mem, ptx, printed, piout, shadow>>
    BY <1>5, <1>d DEF GetOp, UnixStep, pvars, hist, Handshake, Greeting
  <2>2. Head(toUnix) = PI_READY /\ Down' = net_putchar(Banner) /\ Up' = Up
    BY <2>1, <1>d, UnixReads, UpSame
  <2>3. upc' = "main"
    BY <2>1, <2>2, <1>5 DEF GetOp, PI_READY, PI_PRINT_CHAR, PI_NULL
  <2>4. AllReady'
    BY <2>2, ReadyKept DEF Handshake
  <2> QED
    BY <2>1, <2>2, <2>3, <2>4, <1>p, FromHandshake DEF Handshake
<1>6. CASE PiWrite
  <2>1. UNCHANGED <<upc, expecting, ppc, mem, printed, piout, shadow>>
    BY <1>6 DEF PiWrite, uvars, hist
  <2>2. Up' = Up /\ Down' = Down /\ toUnix' # <<>>
    BY <1>6, PiWrites
  <2> QED
    BY <2>1, <2>2, <1>p, ReadyKept DEF Handshake, Greeting, Phases
<1>7. CASE PiOp
  <2>1. /\ toPi # <<>> /\ toPi' = Tail(toPi)
        /\ UNCHANGED <<utx, upc, expecting, mem, toUnix, printed, shadow>>
    BY <1>7 DEF PiOp, PiGets, uvars
  <2>2. Up # <<>> /\ Head(Up) = Head(toPi) /\ Up' = Tail(Up)
    BY <2>1, PiReads
  <2>3. Head(toPi) = PI_READY /\ AllReady'
    BY <2>2, ReadyKept DEF Handshake
  <2>4. ppc' = "panic" /\ UNCHANGED <<ptx, piout>>
    BY <2>3, <1>7 DEF PiOp, PI_READY, PI_REBOOT, PI_GET32, PI_PUT32
  <2>5. Down' = Down /\ ~patient
    BY <2>1, <2>2, <2>4, DownSame DEF Handshake
  <2> QED
    BY <2>1, <2>3, <2>4, <2>5, <1>p DEF Handshake, Greeting, Phases
<1>8. CASE UNCHANGED vars
  BY <1>8, <1>d, UpSame, DownSame, ReadyKept DEF Handshake, Greeting, Phases, vars, uvars, pvars, line, hist
<1>9. ~ReadTimeout
  BY <1>d DEF ReadTimeout, TimedOut, Handshake
<1> QED
  BY <1>1, <1>2, <1>3, <1>4, <1>5, <1>6, <1>7, <1>8, <1>9, <1>d
  DEF Next, UnixNext, PiNext, Done, GetChar, put32, get32, GetVal, GetReturn,
      clean_reboot, DrainMore, DrainDone, UnixStep, PiBoot, PiHello, PiGet32, PiPutAddr, PiPutVal, PiGets, PiReboot,
      wait_for_data

\* An impatient run that has exited or panicked is over.
LEMMA GivenUp == ~patient' /\ upc' \in {"exit", "panic"} => Phases'
BY DEF Over, Phases

\* Nor from the one in which a ping too many waits for the pi.
LEMMA DoomedStep ==
  ASSUME TypeOK, TypeOK', Doomed, [Next]_vars
  PROVE  Phases'
<1>p. ~patient'
  BY DEF Next, UnixNext, PiNext, Done, vars, Doomed
<1>d. /\ ppc \in {"op", "panic"} /\ upc \in {"main", "op", "char", "drain"}
      /\ Up \in Seq(Word) /\ Down \in Seq(Word)
      /\ ppc = "op" => Up # <<>> /\ Head(Up) = PI_READY
  BY Typed DEF Doomed
<1> PICK cs \in Seq(Word) : ToHear(cs, <<>>)
  BY DEF Doomed
<1>e. <<>> \in Seq(Word)
  OBVIOUS
\* What is left of the text is heard, whatever was sent to the pi.
<1>q. ASSUME upc' \in {"main", "op", "char", "drain"}, \E d \in Seq(Word) : ToHear(d, <<>>)',
             ppc' = ppc, \/ Up' = Up
                         \/ \E w \in Seq(Word) : Up' = Up \o w
      PROVE  Phases'
  <2>1. ppc = "op" => Up' # <<>> /\ Head(Up') = PI_READY
    BY <1>q, <1>d, FirstOut
  <2> QED
    BY <1>q, <2>1, <1>p, <1>d DEF Doomed, Phases
<1>1. CASE UnixWrite
  <2>1. UNCHANGED <<upc, ppc, printed, piout>>
    BY <1>1 DEF UnixWrite, pvars, hist
  <2>2. Up' = Up /\ Down' = Down
    BY <1>1, <1>d, UnixWrites
  <2>3. ToHear(cs, <<>>)'
    BY <2>1, <2>2, <1>e, HearSame
  <2> QED
    BY <2>1, <2>2, <2>3, <1>d, <1>q
<1>2. CASE GetOp
  <2>1. /\ toUnix # <<>> /\ toUnix' = Tail(toUnix) /\ upc = "op"
        /\ UNCHANGED <<toPi, utx, ppc, ptx, printed, piout>>
    BY <1>2 DEF GetOp, UnixStep, pvars, hist
  <2>2. Down # <<>> /\ Head(toUnix) = Head(Down) /\ Down' = Tail(Down) /\ Up' = Up
    BY <2>1, UnixReads, UpSame
  <2>3. cs # <<>> /\ Head(toUnix) = PI_PRINT_CHAR
    BY <2>1, <2>2, <1>e, HearOp
  <2>4. upc' = "char"
    BY <2>3, <1>2 DEF GetOp
  <2>5. ToHear(cs, <<>>)'
    BY <2>1, <2>2, <2>3, <2>4, <1>e, HearChar
  <2> QED
    BY <2>1, <2>2, <2>4, <2>5, <1>q
<1>3. CASE GetChar
  <2>1. /\ toUnix # <<>> /\ toUnix' = Tail(toUnix) /\ upc = "char" /\ upc' = "op"
        /\ printed' = Append(printed, Head(toUnix))
        /\ UNCHANGED <<toPi, utx, ppc, ptx, piout>>
    BY <1>3 DEF GetChar, UnixStep, pvars
  <2>2. Head(toUnix) = Head(Down) /\ Down' = Tail(Down) /\ Up' = Up
    BY <2>1, UnixReads, UpSame
  <2>3. Tail(cs) \in Seq(Word) /\ ToHear(Tail(cs), <<>>)'
    BY <2>1, <2>2, <1>e, HearLetter
  <2> QED
    BY <2>1, <2>2, <2>3, <1>q
<1>4. CASE ReadTimeout \/ DrainDone
  BY <1>4, <1>p, GivenUp DEF ReadTimeout, DrainDone
<1>5. CASE (\E a \in Addr, v \in Val : put32(a, v)) \/ (\E a \in Addr : get32(a)) \/ clean_reboot
  <2>1. /\ utx = <<>> /\ upc = "main" /\ upc' \in {"main", "op", "drain"}
        /\ UNCHANGED <<toPi, ppc, toUnix, ptx, printed, piout>>
    BY <1>5 DEF put32, get32, clean_reboot, UnixStep, pvars, line, hist
  <2>2. Down' = Down /\ Up' = Up \o utx' /\ utx' \in Seq(Word)
    BY <2>1, DownSame, UnixSends, TypedNext
  <2>3. ToHear(cs, <<>>)'
    BY <2>1, <2>2, <1>e, HearSame
  <2> QED
    BY <2>1, <2>2, <2>3, <1>q
<1>6. CASE DrainMore
  <2>1. /\ upc = "drain" /\ upc' = "op"
        /\ UNCHANGED <<toPi, utx, ppc, toUnix, ptx, printed, piout>>
    BY <1>6 DEF DrainMore, UnixStep, pvars, line, hist
  <2>2. Down' = Down /\ Up' = Up
    BY <2>1, DownSame, UpSame
  <2>3. ToHear(cs, <<>>)'
    BY <2>1, <2>2, <1>e, HearSame
  <2> QED
    BY <2>1, <2>2, <2>3, <1>q
<1>7. CASE PiWrite
  <2>1. UNCHANGED <<upc, ppc, printed, piout>>
    BY <1>7 DEF PiWrite, uvars, hist
  <2>2. Up' = Up /\ Down' = Down
    BY <1>7, PiWrites
  <2>3. ToHear(cs, <<>>)'
    BY <2>1, <2>2, <1>e, HearSame
  <2> QED
    BY <2>1, <2>2, <2>3, <1>d, <1>q
<1>8. CASE PiOp
  <2>1. toPi # <<>> /\ ppc = "op" /\ UNCHANGED <<upc, toUnix, printed>>
    BY <1>8 DEF PiOp, PiGets, uvars
  <2>2. Head(toPi) = PI_READY
    BY <2>1, <1>d, PiReads
  <2>3. ppc' = "panic" /\ UNCHANGED <<ptx, piout>>
    BY <2>2, <1>8 DEF PiOp, PI_READY, PI_REBOOT, PI_GET32, PI_PUT32
  <2>4. Down' = Down
    BY <2>1, <2>3, DownSame
  <2>5. ToHear(cs, <<>>)'
    BY <2>1, <2>3, <2>4, <1>e, HearSame
  <2> QED
    BY <2>1, <2>3, <2>5, <1>d, <1>p DEF Doomed, Phases
<1>9. CASE UNCHANGED vars
  <2>1. UNCHANGED <<upc, ppc, toPi, utx, toUnix, ptx, printed, piout>>
    BY <1>9 DEF vars, uvars, pvars, line, hist
  <2>2. Down' = Down /\ Up' = Up
    BY <2>1, DownSame, UpSame
  <2>3. ToHear(cs, <<>>)'
    BY <2>1, <2>2, <1>e, HearSame
  <2> QED
    BY <2>1, <2>2, <2>3, <1>d, <1>q
<1> QED
  BY <1>1, <1>2, <1>3, <1>4, <1>5, <1>6, <1>7, <1>8, <1>9, <1>d
  DEF Next, UnixNext, PiNext, Done, Ping, PingTimeout, PingAnswered, GetVal, GetReturn,
      UnixStep, PiBoot, PiHello, PiGet32, PiPutAddr, PiPutVal, PiGets, PiReboot, wait_for_data

\* Bytes are written and puts are executed while the program goes on.
LEMMA Executes ==
  ASSUME TypeOK, TypeOK', NEW p \in Puts, NEW r \in Seq(Word), NEW cs \in Seq(Word),
         ToRead(p, r), ToHear(cs, <<>>),
         UnixWrite \/ PiWrite \/ (PiOp /\ p # <<>>) \/ PiPutAddr \/ PiPutVal
  PROVE  /\ UNCHANGED <<upc, expecting, ret, uaddr, shadow>>
         /\ \E q \in Puts : ToRead(q, r)'
         /\ \E d \in Seq(Word) : ToHear(d, <<>>)'
<1>d. ppc \in {"op", "put_addr", "put_val", "get_addr"} /\ <<>> \in Seq(Word)
  BY DEF ToRead
<1>1. CASE UnixWrite \/ PiWrite
  <2>1. UNCHANGED <<upc, expecting, ret, uaddr, shadow, ppc, paddr, mem, printed, piout>>
    BY <1>1 DEF UnixWrite, PiWrite, pvars, uvars, hist
  <2>2. Up' = Up /\ Down' = Down
    BY <1>1, <1>d, UnixWrites, PiWrites
  <2>3. ToRead(p, r)' /\ ToHear(cs, <<>>)'
    BY <2>1, <2>2, <1>d, ReadSame, HearSame
  <2> QED
    BY <2>1, <2>3
<1>2. CASE PiOp /\ p # <<>>
  <2>1. /\ ppc = "op" /\ toPi # <<>> /\ toPi' = Tail(toPi)
        /\ UNCHANGED <<upc, expecting, ret, uaddr, utx, mem, toUnix, shadow, printed>>
    BY <1>2 DEF PiOp, PiGets, uvars
  <2>2. Head(toPi) = PI_PUT32 /\ Up' = Tail(Up)
    BY <2>1, <1>2, PiReads, ReadOp
  <2>3. ppc' = "put_addr" /\ UNCHANGED <<ptx, piout>>
    BY <2>2, <1>2 DEF PiOp, PI_PUT32, PI_REBOOT, PI_GET32
  <2>4. ToRead(p, r)'
    BY <2>1, <2>2, <2>3, <1>2, ReadPut
  <2>5. Down' = Down
    BY <2>1, <2>3, DownSame
  <2>6. ToHear(cs, <<>>)'
    BY <2>1, <2>3, <2>5, <1>d, HearSame
  <2> QED
    BY <2>1, <2>4, <2>6
<1>3. CASE PiPutAddr
  <2>1. /\ ppc = "put_addr" /\ toPi # <<>> /\ toPi' = Tail(toPi) /\ ppc' = "put_val" /\ paddr' = Head(toPi)
        /\ UNCHANGED <<upc, expecting, ret, uaddr, utx, ptx, mem, toUnix, shadow, printed, piout>>
    BY <1>3 DEF PiPutAddr, PiGets, uvars, hist
  <2>2. Head(toPi) = Head(Up) /\ Up' = Tail(Up) /\ Down' = Down
    BY <2>1, PiReads, DownSame
  <2>3. ToRead(p, r)'
    BY <2>1, <2>2, ReadAddr
  <2>4. ToHear(cs, <<>>)'
    BY <2>1, <2>2, <1>d, HearSame
  <2> QED
    BY <2>1, <2>3, <2>4
<1>4. CASE PiPutVal
  <2>1. /\ ppc = "put_val" /\ toPi # <<>> /\ toPi' = Tail(toPi) /\ ppc' = "op"
        /\ mem' = [mem EXCEPT ![paddr] = Head(toPi)]
        /\ UNCHANGED <<upc, expecting, ret, uaddr, utx, ptx, toUnix, shadow, printed, piout>>
    BY <1>4 DEF PiPutVal, PiGets, uvars, hist
  <2>2. Head(toPi) = Head(Up) /\ Up' = Tail(Up) /\ Down' = Down
    BY <2>1, PiReads, DownSame
  <2>3. Tail(p) \in Puts /\ ToRead(Tail(p), r)'
    BY <2>1, <2>2, ReadValue
  <2>4. ToHear(cs, <<>>)'
    BY <2>1, <2>2, <1>d, HearSame
  <2> QED
    BY <2>1, <2>3, <2>4
<1> QED
  BY <1>1, <1>2, <1>3, <1>4

\* Output is heard while the program waits.
LEMMA Hears ==
  ASSUME TypeOK, NEW cs \in Seq(Word), NEW t \in Seq(Word), ToHear(cs, t),
         GetChar \/ (GetOp /\ cs # <<>>)
  PROVE  /\ UNCHANGED <<expecting, ret, uaddr, shadow, mem, ppc, paddr, ptx>> /\ Up' = Up
         /\ upc \in {"op", "char"} /\ upc' \in {"op", "char"}
         /\ \E d \in Seq(Word) : ToHear(d, t)'
<1>1. CASE GetOp /\ cs # <<>>
  <2>1. /\ toUnix # <<>> /\ toUnix' = Tail(toUnix) /\ upc = "op"
        /\ UNCHANGED <<toPi, utx, ppc, ptx, printed, piout, expecting, ret, uaddr, shadow, mem, paddr>>
    BY <1>1 DEF GetOp, UnixStep, pvars, hist
  <2>2. Head(toUnix) = Head(Down) /\ Down' = Tail(Down) /\ Up' = Up
    BY <2>1, UnixReads, UpSame
  <2>3. Head(toUnix) = PI_PRINT_CHAR
    BY <2>1, <2>2, <1>1, HearOp
  <2>4. upc' = "char"
    BY <2>3, <1>1 DEF GetOp
  <2>5. ToHear(cs, t)'
    BY <2>1, <2>2, <2>4, <1>1, HearChar
  <2> QED
    BY <2>1, <2>2, <2>4, <2>5
<1>2. CASE GetChar
  <2>1. /\ toUnix # <<>> /\ toUnix' = Tail(toUnix) /\ upc = "char" /\ upc' = "op"
        /\ printed' = Append(printed, Head(toUnix))
        /\ UNCHANGED <<toPi, utx, ppc, ptx, piout, expecting, ret, uaddr, shadow, mem, paddr>>
    BY <1>2 DEF GetChar, UnixStep, pvars
  <2>2. Head(toUnix) = Head(Down) /\ Down' = Tail(Down) /\ Up' = Up
    BY <2>1, UnixReads, UpSame
  <2>3. Tail(cs) \in Seq(Word) /\ ToHear(Tail(cs), t)'
    BY <2>1, <2>2, HearLetter
  <2> QED
    BY <2>1, <2>2, <2>3
<1> QED
  BY <1>1, <1>2

\* A timeout of the patient unix side means that the pi has read all.
LEMMA Patient ==
  ASSUME TypeOK, TimedOut, patient, utx = <<>>
  PROVE  /\ Down = <<>> /\ ptx = <<>> /\ ppc \notin {"reboot", "off"}
         /\ ppc \in {"op", "put_addr", "put_val", "get_addr"} => Up = <<>>
BY Empty DEF TimedOut, PiQuiet

\* Nor from the one in which main puts and computes.
LEMMA CommandingStep ==
  ASSUME TypeOK, TypeOK', Commanding, [Next]_vars
  PROVE  Phases'
<1> PICK p \in Puts : ToRead(p, <<>>)
  BY DEF Commanding
<1> PICK cs \in Seq(Word) : ToHear(cs, <<>>)
  BY DEF Commanding
<1>d. /\ ppc \in {"op", "put_addr", "put_val"} /\ upc \in {"main", "got"} /\ <<>> \in Seq(Word)
      /\ upc = "got" => ret = shadow[uaddr]
  <2>1. <<>> \in Seq(Word)
    OBVIOUS
  <2>2. ppc \in {"op", "put_addr", "put_val"}
    BY <2>1, ReadNoGet
  <2> QED
    BY <2>1, <2>2 DEF Commanding
<1>o. PI_GET32 \in Word /\ PI_REBOOT \in Word
  BY Opcodes
<1>a. Addr \subseteq Word /\ Val \subseteq Word
  BY FakePiAssumption
<1>1. ASSUME UnixWrite \/ PiWrite \/ (PiOp /\ p # <<>>) \/ PiPutAddr \/ PiPutVal PROVE Phases'
  BY <1>1, <1>d, Executes DEF Commanding, Phases
<1>2. ASSUME PiOp PROVE p # <<>>
  BY <1>2, <1>d, PiReads, ReadOp DEF PiOp, PiGets
<1>3. CASE \E a \in Addr, v \in Val : put32(a, v)
  <2>1. PICK a \in Addr, v \in Val : put32(a, v)
    BY <1>3
  <2>2. /\ a \in Word /\ v \in Word /\ utx = <<>> /\ upc = "main" /\ upc' = "main"
        /\ utx' = <<PI_PUT32, a, v>> /\ shadow' = [shadow EXCEPT ![a] = v]
        /\ UNCHANGED <<toPi, ppc, paddr, mem, toUnix, ptx, printed, piout>>
    BY <2>1, <1>a DEF put32, UnixStep, pvars, line
  <2>3. Down' = Down /\ Up' = Up \o <<PI_PUT32, a, v>>
    BY <2>2, DownSame, UnixSends
  <2>4. Append(p, <<a, v>>) \in Puts /\ ToRead(Append(p, <<a, v>>), <<>>)'
    BY <2>2, <2>3, ReadMore
  <2>5. ToHear(cs, <<>>)'
    BY <2>2, <2>3, <1>d, HearSame
  <2> QED
    BY <2>2, <2>4, <2>5 DEF Commanding, Phases
<1>4. CASE \E a \in Addr : get32(a)
  <2>1. PICK a \in Addr : get32(a)
    BY <1>4
  <2>2. /\ a \in Word /\ utx = <<>> /\ upc = "main" /\ upc' = "op" /\ expecting' = PI_GET32_REPLY
        /\ utx' = <<PI_GET32, a>> /\ uaddr' = a
        /\ UNCHANGED <<toPi, ppc, paddr, mem, toUnix, ptx, printed, piout, shadow>>
    BY <2>1, <1>a DEF get32, UnixStep, pvars, line, hist
  <2>3. Down' = Down /\ Up' = Up \o <<PI_GET32, a>>
    BY <2>2, DownSame, UnixSends
  <2>4. <<PI_GET32, a>> \in Seq(Word)
    BY <2>2, <1>o
  <2>5. ToRead(p, <<PI_GET32, a>>)'
    BY <2>2, <2>3, <2>4, ReadLast
  <2>6. ToHear(cs, <<>>)'
    BY <2>2, <2>3, <1>d, HearSame
  <2> QED
    BY <2>2, <2>5, <2>6 DEF Asking, Phases
<1>5. CASE clean_reboot
  <2>1. /\ utx = <<>> /\ upc = "main" /\ upc' = "drain" /\ expecting' = PI_NULL
        /\ utx' = <<PI_REBOOT>>
        /\ UNCHANGED <<toPi, ppc, paddr, mem, toUnix, ptx, printed, piout, shadow>>
    BY <1>5 DEF clean_reboot, UnixStep, pvars, line, hist
  <2>2. Down' = Down /\ Up' = Up \o <<PI_REBOOT>>
    BY <2>1, DownSame, UnixSends
  <2>3. <<PI_REBOOT>> \in Seq(Word)
    BY <1>o
  <2>4. ToRead(p, <<PI_REBOOT>>)'
    BY <2>1, <2>2, <2>3, ReadLast
  <2>5. ToHear(cs, <<>>)'
    BY <2>1, <2>2, <1>d, HearSame
  <2> QED
    BY <2>1, <2>4, <2>5 DEF Leaving, Phases
<1>6. CASE GetReturn \/ UNCHANGED vars
  <2>1. /\ upc' \in {"main", upc}
        /\ UNCHANGED <<toPi, utx, ppc, paddr, mem, toUnix, ptx, printed, piout, shadow, ret, uaddr>>
    BY <1>6 DEF GetReturn, vars, uvars, pvars, line, hist
  <2>2. Down' = Down /\ Up' = Up
    BY <2>1, DownSame, UpSame
  <2>3. ToRead(p, <<>>)' /\ ToHear(cs, <<>>)'
    BY <2>1, <2>2, <1>d, ReadSame, HearSame
  <2> QED
    BY <2>1, <2>3, <1>d DEF Commanding, Phases
<1> QED
  BY <1>1, <1>2, <1>3, <1>4, <1>5, <1>6, <1>d
  DEF Next, UnixNext, PiNext, Done, Ping, PingTimeout, PingAnswered, GetOp, GetChar, ReadTimeout, GetVal,
      DrainMore, DrainDone, UnixStep, PiBoot, PiHello, PiGet32, PiGets, PiReboot, wait_for_data

\* Nor while a get is on its way to the pi.
LEMMA AskingStep ==
  ASSUME TypeOK, TypeOK', Asking, [Next]_vars
  PROVE  Phases'
<1>p. patient' = patient
  BY DEF Next, UnixNext, PiNext, Done, vars
<1> PICK p \in Puts, u \in Word : u = uaddr /\ ToRead(p, <<PI_GET32, u>>)
  BY DEF Asking
<1> PICK cs \in Seq(Word) : ToHear(cs, <<>>)
  BY DEF Asking
<1> DEFINE r == <<PI_GET32, u>>
<1>o. PI_GET32 \in Word /\ PI_GET32_REPLY \in Word
  BY Opcodes
<1>r. r \in Seq(Word) /\ r # <<>> /\ Head(r) = PI_GET32 /\ Tail(r) = <<u>>
  BY <1>o
<1>d. /\ ppc \in {"op", "put_addr", "put_val", "get_addr"} /\ upc \in {"op", "char"} /\ <<>> \in Seq(Word)
      /\ Up # <<>> /\ expecting = PI_GET32_REPLY
  <2>1. Up # <<>> /\ ppc \in {"op", "put_addr", "put_val", "get_addr"}
    BY <1>r, ReadOn
  <2> QED
    BY <2>1 DEF Asking
<1>1. ASSUME UnixWrite \/ PiWrite \/ (PiOp /\ p # <<>>) \/ PiPutAddr \/ PiPutVal PROVE Phases'
  <2>1. /\ UNCHANGED <<upc, expecting, uaddr>>
        /\ \E q \in Puts : ToRead(q, r)'
        /\ \E d \in Seq(Word) : ToHear(d, <<>>)'
    BY <1>1, <1>r, Executes
  <2> QED
    BY <2>1, <1>d DEF Asking, Phases
<1>2. ASSUME GetOp PROVE cs # <<>>
  BY <1>2, <1>d, UnixReads, HearOp DEF GetOp, UnixStep
<1>3. CASE GetOp \/ GetChar
  <2>1. /\ UNCHANGED <<expecting, uaddr, shadow, mem, ppc, paddr>> /\ Up' = Up /\ upc' \in {"op", "char"}
        /\ \E d \in Seq(Word) : ToHear(d, <<>>)'
    BY <1>2, <1>3, <1>d, Hears
  <2>2. ToRead(p, r)'
    BY <2>1, <1>r, ReadSame
  <2> QED
    BY <2>1, <2>2, <1>d DEF Asking, Phases
<1>4. CASE ReadTimeout
  <2>1. ~patient
    BY <1>4, <1>d, Patient DEF ReadTimeout
  <2> QED
    BY <2>1, <1>4, <1>p, GivenUp DEF ReadTimeout
<1>5. CASE PiOp /\ p = <<>>
  <2>1. /\ ppc = "op" /\ toPi # <<>> /\ toPi' = Tail(toPi)
        /\ UNCHANGED <<upc, expecting, uaddr, utx, mem, toUnix, shadow, printed>>
    BY <1>5 DEF PiOp, PiGets, uvars
  <2>2. Head(toPi) = PI_GET32 /\ Up' = Tail(Up)
    BY <2>1, <1>5, <1>r, PiReads, ReadOp
  <2>3. ppc' = "get_addr" /\ UNCHANGED <<ptx, piout>>
    BY <2>2, <1>5 DEF PiOp, PI_PUT32, PI_REBOOT, PI_GET32
  <2>4. ToRead(<<>>, <<PI_GET32, u>>)'
    BY <2>1, <2>2, <2>3, <1>5, ReadGet
  <2>5. Down' = Down
    BY <2>1, <2>3, DownSame
  <2>6. ToHear(cs, <<>>)'
    BY <2>1, <2>3, <2>5, <1>d, HearSame
  <2> QED
    BY <2>1, <2>4, <2>6, <1>5, <1>d DEF Asking, Phases
<1>6. CASE PiGet32
  <2>1. /\ ppc = "get_addr" /\ ppc' = "op" /\ toPi # <<>> /\ toPi' = Tail(toPi) /\ ptx = <<>>
        /\ ptx' = <<PI_GET32_REPLY, mem[Head(toPi)]>>
        /\ UNCHANGED <<upc, expecting, uaddr, utx, mem, toUnix, shadow, printed, piout>>
    BY <1>6 DEF PiGet32, PiGets, uvars, hist
  <2>2. p = <<>> /\ Up = Tail(Coded(<<>>, r)) /\ Applied(<<>>)
    BY <2>1 DEF ToRead
  <2>3. Up = <<u>> /\ mem = shadow
    BY <2>2, <1>r, CodedNone, AppliedNone DEF TypeOK
  <2>4. Head(toPi) = u /\ Up' = <<>>
    BY <2>1, <2>3, PiReads
  <2>5. PICK v \in Word : v = shadow[uaddr]
    BY DEF TypeOK
  <2>6. Down' = Down \o <<PI_GET32_REPLY, v>>
    BY <2>1, <2>3, <2>4, <2>5, PiSends
  <2>7. <<PI_GET32_REPLY, v>> \in Seq(Word)
    BY <1>o
  <2>8. ToHear(cs, <<PI_GET32_REPLY, v>>)'
    BY <2>1, <2>6, <2>7, HearTail
  <2>9. v = shadow'[uaddr'] /\ mem' = shadow'
    BY <2>1, <2>3, <2>5
  <2> QED
    BY <2>1, <2>4, <2>8, <2>9, <1>d DEF Answered, Phases
<1>7. CASE UNCHANGED vars
  <2>1. UNCHANGED <<toPi, utx, ppc, paddr, mem, toUnix, ptx, printed, piout, shadow, uaddr, upc, expecting>>
    BY <1>7 DEF vars, uvars, pvars, line, hist
  <2>2. Down' = Down /\ Up' = Up
    BY <2>1, DownSame, UpSame
  <2>3. ToRead(p, r)' /\ ToHear(cs, <<>>)'
    BY <2>1, <2>2, <1>d, <1>r, ReadSame, HearSame
  <2> QED
    BY <2>1, <2>3, <1>d DEF Asking, Phases
<1> QED
  BY <1>1, <1>3, <1>4, <1>5, <1>6, <1>7, <1>d
  DEF Next, UnixNext, PiNext, Done, Ping, PingTimeout, PingAnswered, put32, get32, GetVal, GetReturn, clean_reboot,
      DrainMore, DrainDone, UnixStep, PiBoot, PiHello, PiGets, PiReboot, wait_for_data

\* Nor while its reply is on its way back.
LEMMA AnsweredStep ==
  ASSUME TypeOK, TypeOK', Answered, [Next]_vars
  PROVE  Phases'
<1>p. patient' = patient
  BY DEF Next, UnixNext, PiNext, Done, vars
<1>d. /\ ppc = "op" /\ upc \in {"op", "char", "val"} /\ expecting = PI_GET32_REPLY
      /\ Up = <<>> /\ toPi = <<>> /\ utx = <<>> /\ mem = shadow
  BY Empty DEF Answered
<1>o. PI_GET32_REPLY \in Word
  BY Opcodes
<1>1. CASE upc # "val"
  <2> PICK cs \in Seq(Word), v \in Word : v = shadow[uaddr] /\ ToHear(cs, <<PI_GET32_REPLY, v>>)
    BY <1>1 DEF Answered
  <2> DEFINE t == <<PI_GET32_REPLY, v>>
  <2>t. t \in Seq(Word) /\ t # <<>> /\ Head(t) = PI_GET32_REPLY /\ Tail(t) = <<v>>
    BY <1>o
  <2>d. Down # <<>>
    BY <2>t, <1>1, HearOp, HearLetter
  \* The answer is still to come.
  <2>q. ASSUME upc' \in {"op", "char"}, UNCHANGED <<expecting, uaddr, shadow, mem, ppc>>, Up' = Up,
               \E d \in Seq(Word) : ToHear(d, t)'
        PROVE  Phases'
    BY <2>q, <1>d DEF Answered, Phases
  <2>1. CASE GetChar \/ (GetOp /\ cs # <<>>)
    <3>1. /\ UNCHANGED <<expecting, uaddr, shadow, mem, ppc>> /\ Up' = Up /\ upc' \in {"op", "char"}
          /\ \E d \in Seq(Word) : ToHear(d, t)'
      BY <2>1, <2>t, Hears
    <3> QED
      BY <3>1, <2>q
  <2>2. CASE GetOp /\ cs = <<>>
    <3>1. /\ toUnix # <<>> /\ toUnix' = Tail(toUnix) /\ upc = "op"
          /\ UNCHANGED <<toPi, utx, ppc, ptx, printed, piout, expecting, uaddr, shadow, mem>>
      BY <2>2 DEF GetOp, UnixStep, pvars, hist
    <3>2. Head(toUnix) = PI_GET32_REPLY /\ Down' = <<v>> /\ Up' = Up
      BY <3>1, <2>2, <2>t, HearOp, UnixReads, UpSame
    <3>3. upc' = "val"
      BY <3>2, <2>2, <1>d DEF GetOp, PI_GET32_REPLY, PI_PRINT_CHAR, PI_NULL, PI_READY
    <3>4. piout = printed
      BY <2>2, Typed, ConcatEmptySeq DEF ToHear
    <3>5. Down' = <<shadow'[uaddr']>>
      BY <3>1, <3>2
    <3> QED
      BY <3>1, <3>2, <3>3, <3>4, <3>5, <1>d DEF Answered, Phases
  <2>3. CASE ReadTimeout
    <3>1. ~patient
      BY <2>3, <2>d, Patient DEF ReadTimeout
    <3> QED
      BY <3>1, <2>3, <1>p, GivenUp DEF ReadTimeout
  <2>4. CASE PiWrite \/ UNCHANGED vars
    <3>1. UNCHANGED <<upc, expecting, uaddr, shadow, mem, ppc, printed, piout>>
      BY <2>4 DEF PiWrite, uvars, hist, vars, pvars
    <3>2. Up' = Up /\ Down' = Down
      BY <2>4, PiWrites, UpSame, DownSame DEF vars, uvars, pvars, line
    <3>3. ToHear(cs, t)'
      BY <3>1, <3>2, <2>t, HearSame
    <3> QED
      BY <3>1, <3>2, <3>3, <2>q, <1>d, <1>1
  <2> QED
    BY <2>1, <2>2, <2>3, <2>4, <1>d, <1>1
    DEF Next, UnixNext, PiNext, Done, UnixWrite, Ping, PingTimeout, PingAnswered, put32, get32, GetVal, GetReturn,
        clean_reboot, DrainMore, DrainDone, UnixStep, PiBoot, PiHello, PiOp, PiGet32, PiPutAddr, PiPutVal, PiGets,
        PiReboot, wait_for_data
<1>2. CASE upc = "val"
  <2>d. piout = printed /\ Down = <<shadow[uaddr]>>
    BY <1>2 DEF Answered
  <2>1. CASE GetVal
    <3>1. /\ toUnix # <<>> /\ toUnix' = Tail(toUnix) /\ ret' = Head(toUnix) /\ upc' = "got"
          /\ UNCHANGED <<toPi, utx, ppc, paddr, ptx, printed, piout, uaddr, shadow, mem>>
      BY <2>1 DEF GetVal, UnixStep, pvars, hist
    <3>2. ret' = shadow'[uaddr'] /\ Down' = <<>> /\ Up' = <<>>
      BY <3>1, <2>d, <1>d, UnixReads, UpSame
    <3>3. <<>> \in Puts /\ <<>> \in Seq(Word)
      BY DEF Puts
    <3>4. Applied(<<>>)'
      BY <3>1, <1>d DEF Applied, TypeOK
    <3>5. ToRead(<<>>, <<>>)'
      BY <3>1, <3>2, <3>3, <3>4, <1>d, CodedNone DEF ToRead
    <3>6. ToHear(<<>>, <<>>)'
      BY <3>1, <3>2, <3>3, <2>d, Typed, TextNone, ConcatEmptySeq DEF ToHear
    <3> QED
      BY <3>1, <3>2, <3>3, <3>5, <3>6 DEF Commanding, Phases
  <2>2. CASE ReadTimeout
    <3>1. ~patient
      BY <2>2, <2>d, Patient DEF ReadTimeout
    <3> QED
      BY <3>1, <2>2, <1>p, GivenUp DEF ReadTimeout
  <2>3. CASE PiWrite \/ UNCHANGED vars
    <3>1. UNCHANGED <<upc, expecting, uaddr, shadow, mem, ppc, printed, piout>>
      BY <2>3 DEF PiWrite, uvars, hist, vars, pvars
    <3>2. Up' = Up /\ Down' = Down
      BY <2>3, PiWrites, UpSame, DownSame DEF vars, uvars, pvars, line
    <3> QED
      BY <3>1, <3>2, <2>d, <1>d, <1>2 DEF Answered, Phases
  <2> QED
    BY <2>1, <2>2, <2>3, <1>d, <1>2
    DEF Next, UnixNext, PiNext, Done, UnixWrite, Ping, PingTimeout, PingAnswered, GetOp, GetChar, put32, get32,
        GetReturn, clean_reboot, DrainMore, DrainDone, UnixStep, PiBoot, PiHello, PiOp, PiGet32, PiPutAddr, PiPutVal,
        PiGets, PiReboot, wait_for_data
<1> QED
  BY <1>1, <1>2

\* Nor while PI_REBOOT is on its way.
LEMMA LeavingStep ==
  ASSUME TypeOK, TypeOK', Leaving, [Next]_vars
  PROVE  Phases'
<1>p. patient' = patient
  BY DEF Next, UnixNext, PiNext, Done, vars
<1> PICK p \in Puts : ToRead(p, <<PI_REBOOT>>)
  BY DEF Leaving
<1> PICK cs \in Seq(Word) : ToHear(cs, <<>>)
  BY DEF Leaving
<1> DEFINE r == <<PI_REBOOT>>
<1>o. PI_REBOOT \in Word
  BY Opcodes
<1>r. r \in Seq(Word) /\ r # <<>> /\ Head(r) = PI_REBOOT /\ Tail(r) = <<>> /\ Head(r) # PI_GET32
  BY <1>o DEF PI_REBOOT, PI_GET32
<1>d. /\ ppc \in {"op", "put_addr", "put_val"} /\ upc \in {"drain", "op", "char"} /\ <<>> \in Seq(Word)
      /\ Up # <<>> /\ expecting = PI_NULL
  <2>1. Up # <<>> /\ ppc \in {"op", "put_addr", "put_val"}
    BY <1>r, ReadOn, ReadNoGet
  <2> QED
    BY <2>1 DEF Leaving
<1>1. ASSUME UnixWrite \/ PiWrite \/ (PiOp /\ p # <<>>) \/ PiPutAddr \/ PiPutVal PROVE Phases'
  <2>1. /\ UNCHANGED <<upc, expecting>>
        /\ \E q \in Puts : ToRead(q, r)'
        /\ \E d \in Seq(Word) : ToHear(d, <<>>)'
    BY <1>1, <1>r, Executes
  <2> QED
    BY <2>1, <1>d DEF Leaving, Phases
<1>2. ASSUME GetOp PROVE cs # <<>>
  BY <1>2, <1>d, UnixReads, HearOp DEF GetOp, UnixStep
<1>3. CASE GetOp \/ GetChar
  <2>1. /\ UNCHANGED <<expecting, uaddr, shadow, mem, ppc, paddr>> /\ Up' = Up /\ upc' \in {"op", "char"}
        /\ \E d \in Seq(Word) : ToHear(d, <<>>)'
    BY <1>2, <1>3, <1>d, Hears
  <2>2. ToRead(p, r)'
    BY <2>1, <1>r, ReadSame
  <2> QED
    BY <2>1, <2>2, <1>d DEF Leaving, Phases
<1>4. CASE ReadTimeout \/ DrainDone
  <2>1. utx = <<>> /\ TimedOut /\ upc' \in {"exit", "panic"}
    BY <1>4 DEF ReadTimeout, DrainDone, UnixStep
  <2>2. ~patient
    BY <2>1, <1>d, Patient
  <2> QED
    BY <2>1, <2>2, <1>p, GivenUp
<1>5. CASE PiOp /\ p = <<>>
  <2>1. /\ ppc = "op" /\ ptx = <<>> /\ toPi # <<>> /\ toPi' = Tail(toPi)
        /\ UNCHANGED <<upc, expecting, utx, mem, toUnix, shadow, printed>>
    BY <1>5 DEF PiOp, PiGets, uvars
  <2>2. Up = r
    BY <2>1, <1>5, <1>r, ReadOp
  <2>3. Head(toPi) = PI_REBOOT /\ Up' = <<>>
    BY <2>1, <2>2, <1>r, PiReads
  <2>4. ppc' = "reboot" /\ ptx' = net_putchar(Bye) /\ piout' = piout \o Bye
    BY <2>3, <1>5 DEF PiOp, PI_PUT32, PI_REBOOT, PI_GET32
  <2>5. Down' = Down \o net_putchar(Bye)
    BY <2>1, <2>4, PiSends
  <2>6. cs \o Bye \in Seq(Word) /\ ToHear(cs \o Bye, <<>>)'
    BY <2>1, <2>4, <2>5, Texts, HearMore
  <2>7. mem' = shadow'
    BY <2>1, <1>5, AppliedNone DEF ToRead, TypeOK
  <2>8. \A i \in 1 .. Len(<<>>) : <<>>[i] # PI_PRINT_CHAR
    OBVIOUS
  <2> QED
    BY <2>1, <2>3, <2>4, <2>6, <2>7, <2>8, <1>d DEF Rebooted, Phases
<1>6. CASE DrainMore \/ UNCHANGED vars
  <2>1. /\ upc' = upc \/ (upc = "drain" /\ upc' = "op")
        /\ UNCHANGED <<toPi, utx, ppc, paddr, mem, toUnix, ptx, printed, piout, shadow, uaddr, expecting>>
    BY <1>6 DEF DrainMore, UnixStep, vars, uvars, pvars, line, hist
  <2>2. Down' = Down /\ Up' = Up
    BY <2>1, DownSame, UpSame
  <2>3. ToRead(p, r)' /\ ToHear(cs, <<>>)'
    BY <2>1, <2>2, <1>d, <1>r, ReadSame, HearSame
  <2> QED
    BY <2>1, <2>3, <1>d DEF Leaving, Phases
<1> QED
  BY <1>1, <1>3, <1>4, <1>5, <1>6, <1>d
  DEF Next, UnixNext, PiNext, Done, Ping, PingTimeout, PingAnswered, put32, get32, GetVal, GetReturn, clean_reboot,
      UnixStep, PiBoot, PiHello, PiGet32, PiGets, PiReboot, wait_for_data

\* Nor while the unix side drains what the pi still says.
LEMMA RebootedStep ==
  ASSUME TypeOK, TypeOK', Rebooted, [Next]_vars
  PROVE  Phases'
<1>p. patient' = patient
  BY DEF Next, UnixNext, PiNext, Done, vars
<1> PICK cs \in Seq(Word), t \in Seq(Word) :
      /\ ToHear(cs, t)
      /\ ppc # "bootloader" => t = <<>>
      /\ ppc = "bootloader" /\ (cs # <<>> \/ upc \in {"op", "char"}) => t # <<>>
      /\ \A i \in 1 .. Len(t) : t[i] # PI_PRINT_CHAR
  BY DEF Rebooted
<1>d. /\ ppc \in {"reboot", "off", "bootloader"} /\ upc \in {"drain", "op", "char"} /\ expecting = PI_NULL
      /\ Up = <<>> /\ toPi = <<>> /\ utx = <<>> /\ mem = shadow
      /\ ppc = "off" => ptx = <<>>
  BY Empty DEF Rebooted
<1>e. /\ upc = "char" => Down # <<>>
      /\ upc # "char" => (cs = <<>> => Down = t) /\ (cs # <<>> => Down # <<>>)
  BY HearOp, HearLetter
\* What is still to be heard, whoever moved.
<1>q. ASSUME UNCHANGED <<expecting, mem, shadow>>, Up' = Up, upc' \in {"drain", "op", "char"},
             ppc' \in {"reboot", "off", "bootloader"}, ppc' = "off" => ptx' = <<>>,
             NEW c \in Seq(Word), NEW w \in Seq(Word), ToHear(c, w)',
             ppc' # "bootloader" => w = <<>>,
             ppc' = "bootloader" /\ (c # <<>> \/ upc' \in {"op", "char"}) => w # <<>>,
             \A i \in 1 .. Len(w) : w[i] # PI_PRINT_CHAR
      PROVE  Phases'
  BY <1>q, <1>d DEF Rebooted, Phases
<1>1. CASE PiWrite
  <2>1. ptx # <<>> /\ UNCHANGED <<upc, ppc, expecting, mem, shadow, printed, piout>>
    BY <1>1 DEF PiWrite, uvars, hist
  <2>2. Up' = Up /\ Down' = Down
    BY <1>1, PiWrites
  <2>3. ToHear(cs, t)'
    BY <2>1, <2>2, HearSame
  <2> QED
    BY <2>1, <2>2, <2>3, <1>d, <1>q
<1>2. CASE PiReboot \/ UNCHANGED vars
  <2>1. /\ UNCHANGED <<upc, expecting, mem, shadow, printed, piout, toPi, utx, toUnix, ptx>>
        /\ ppc' = ppc \/ (ppc = "reboot" /\ ppc' = "off" /\ ptx = <<>>)
    BY <1>2 DEF PiReboot, vars, uvars, pvars, line, hist
  <2>2. Up' = Up /\ Down' = Down
    BY <2>1, UpSame, DownSame
  <2>3. ToHear(cs, t)'
    BY <2>1, <2>2, HearSame
  <2>4. /\ ppc' \in {"reboot", "off", "bootloader"}
        /\ ppc' = "off" => ptx' = <<>>
        /\ ppc' # "bootloader" => t = <<>>
        /\ ppc' = "bootloader" /\ (cs # <<>> \/ upc' \in {"op", "char"}) => t # <<>>
    BY <2>1, <1>d
  <2> QED
    BY <2>1, <2>2, <2>3, <2>4, <1>d, <1>q
<1>3. CASE wait_for_data
  <2>1. /\ ppc = "off" /\ ppc' = "bootloader" /\ ptx' = GET_PROG_INFO
        /\ UNCHANGED <<upc, expecting, mem, shadow, printed, piout, toPi, utx, toUnix>>
    BY <1>3 DEF wait_for_data, uvars, line, hist
  <2>2. Up' = Up /\ Down' = Down \o GET_PROG_INFO
    BY <2>1, <1>d, UpSame, PiSends
  <2>3. ToHear(cs, GET_PROG_INFO)'
    BY <2>1, <2>2, Texts, HearTail
  <2> QED
    BY <2>1, <2>2, <2>3, <1>d, <1>q, Texts
<1>4. CASE GetChar \/ (GetOp /\ cs # <<>>)
  <2>1. /\ UNCHANGED <<expecting, shadow, mem, ppc, ptx>> /\ Up' = Up
        /\ upc \in {"op", "char"} /\ upc' \in {"op", "char"}
        /\ \E d \in Seq(Word) : ToHear(d, t)'
    BY <1>4, Hears
  <2>2. PICK d \in Seq(Word) : ToHear(d, t)'
    BY <2>1
  <2> QED
    BY <2>1, <2>2, <1>d, <1>q
<1>5. CASE GetOp /\ cs = <<>>
  <2>1. /\ toUnix # <<>> /\ toUnix' = Tail(toUnix) /\ upc = "op"
        /\ UNCHANGED <<toPi, utx, ppc, ptx, printed, piout, expecting, shadow, mem>>
    BY <1>5 DEF GetOp, UnixStep, pvars, hist
  <2>2. Head(toUnix) = Head(t) /\ Down' = Tail(t) /\ Up' = Up /\ t # <<>>
    BY <2>1, <1>5, <1>e, UnixReads, UpSame
  <2>3. /\ Tail(t) \in Seq(Word) /\ Head(t) = t[1] /\ t[1] # PI_PRINT_CHAR
        /\ \A i \in 1 .. Len(Tail(t)) : Tail(t)[i] # PI_PRINT_CHAR
    <3>1. /\ Tail(t) \in Seq(Word) /\ Head(t) = t[1] /\ Len(t) \in Nat \ {0} /\ Len(Tail(t)) = Len(t) - 1
          /\ \A i \in 1 .. Len(Tail(t)) : Tail(t)[i] = t[i + 1]
      BY <2>2, HeadTailProperties, EmptySeq
    <3>2. 1 \in 1 .. Len(t) /\ \A i \in 1 .. Len(Tail(t)) : i + 1 \in 1 .. Len(t)
      BY <3>1
    <3> QED
      BY <3>1, <3>2
  <2>4. upc' = "drain"
    <3>1. Head(toUnix) # PI_PRINT_CHAR
      BY <2>2, <2>3
    <3> QED
      BY <3>1, <1>5, <1>d DEF GetOp
  <2>5. ToHear(<<>>, Tail(t))'
    BY <2>1, <2>2, <2>3, <2>4, <1>5, TextNone, ConcatEmptySeq DEF ToHear
  <2>6. <<>> \in Seq(Word) /\ ppc = "bootloader"
    BY <2>2
  <2> QED
    BY <2>1, <2>2, <2>3, <2>4, <2>5, <2>6, <1>q
<1>6. CASE DrainMore
  <2>1. /\ toUnix # <<>> /\ upc = "drain" /\ upc' = "op"
        /\ UNCHANGED <<toPi, utx, ppc, ptx, toUnix, printed, piout, expecting, shadow, mem>>
    BY <1>6 DEF DrainMore, UnixStep, pvars, line, hist
  <2>2. Up' = Up /\ Down' = Down /\ Down # <<>>
    BY <2>1, UpSame, DownSame, UnixReads
  <2>3. ToHear(cs, t)'
    BY <2>1, <2>2, HearSame
  <2>4. ppc = "bootloader" => t # <<>>
    BY <2>1, <2>2, <1>e
  <2> QED
    BY <2>1, <2>2, <2>3, <2>4, <1>d, <1>q
<1>7. CASE ReadTimeout
  <2>1. TimedOut /\ utx = <<>> /\ upc' = "panic" /\ upc \in {"op", "char"}
    BY <1>7, <1>d DEF ReadTimeout
  <2>2. ~patient
    BY <2>1, <1>d, <1>e, Patient
  <2> QED
    BY <2>1, <2>2, <1>p, GivenUp
<1>8. CASE DrainDone
  <2>1. /\ TimedOut /\ utx = <<>> /\ upc = "drain" /\ upc' = "exit"
        /\ UNCHANGED <<ppc, ptx, printed, piout, shadow, mem>>
    BY <1>8 DEF DrainDone, UnixStep, pvars, line, hist
  <2>2. ASSUME patient PROVE ppc = "bootloader" /\ ptx = <<>> /\ printed = piout
    <3>1. Down = <<>> /\ ptx = <<>> /\ ppc = "bootloader"
      BY <2>1, <2>2, <1>d, Patient
    <3>2. cs = <<>>
      BY <3>1, <2>1, <1>e
    <3> QED
      BY <3>1, <3>2, Typed, ConcatEmptySeq DEF ToHear
  <2> QED
    BY <2>1, <2>2, <1>d, <1>p DEF Over, Phases
<1> QED
  BY <1>1, <1>2, <1>3, <1>4, <1>5, <1>6, <1>7, <1>8, <1>d
  DEF Next, UnixNext, PiNext, Done, UnixWrite, Ping, PingTimeout, PingAnswered, put32, get32, GetVal, GetReturn,
      clean_reboot, UnixStep, PiBoot, PiHello, PiOp, PiGet32, PiPutAddr, PiPutVal, PiGets

\* Nor once the unix side has ended.
LEMMA OverStep ==
  ASSUME Over, [Next]_vars
  PROVE  Phases'
<1>1. patient' = patient /\ upc \in {"exit", "panic"}
  BY DEF Next, UnixNext, PiNext, Done, vars, Over
<1>2. upc' = upc
  BY <1>1 DEF Next, UnixNext, PiNext, Done, UnixWrite, Ping, PingTimeout, PingAnswered, GetOp, GetChar, ReadTimeout,
     put32, get32, GetVal, GetReturn, clean_reboot, DrainMore, DrainDone, UnixStep, PiWrite, PiBoot, PiHello, PiOp,
     PiGet32, PiPutAddr, PiPutVal, PiReboot, wait_for_data, vars, uvars
<1>3. CASE patient
  <2>1. ppc = "bootloader" /\ ptx = <<>> /\ upc = "exit" /\ mem = shadow /\ printed = piout
    BY <1>3 DEF Over
  <2>2. UNCHANGED <<ppc, ptx, mem, shadow, printed, piout>>
    BY <2>1 DEF Next, UnixNext, PiNext, Done, UnixWrite, Ping, PingTimeout, PingAnswered, GetOp, GetChar, ReadTimeout,
       put32, get32, GetVal, GetReturn, clean_reboot, DrainMore, DrainDone, UnixStep, PiWrite, PiBoot, PiHello, PiOp,
       PiGet32, PiPutAddr, PiPutVal, PiGets, PiReboot, wait_for_data, vars, uvars, pvars, hist
  <2> QED
    BY <2>1, <2>2, <1>2 DEF Over, Phases
<1>4. CASE ~patient
  BY <1>1, <1>2, <1>4, GivenUp
<1> QED
  BY <1>3, <1>4

-----------------------------------------------------------------------------
(***************************************************************************)
(* The invariant, and the properties it implies.                           *)
(***************************************************************************)

\* The program starts in the invariant.
LEMMA InitInv == Init => IInv
<1> SUFFICES ASSUME Init PROVE IInv
  OBVIOUS
<1>1. TypeOK
  <2>1. 0 \in Word /\ {PI_NULL} \subseteq {PI_NULL, PI_READY, PI_GET32_REPLY} /\ 0 \in 0 .. MaxOps
    BY FakePiAssumption DEF Word
  <2> QED
    BY <2>1 DEF Init, TypeOK
<1>2. Up = <<>> /\ Down = <<>>
  BY DEF Init, Up, Down
<1>3. Len(Up) = 0 /\ AllReady
  BY <1>2 DEF AllReady
<1>4. Silent
  BY <1>2, <1>3 DEF Init, Silent
<1>5. OutputInOrder
  BY DEF Init, OutputInOrder
<1> QED
  BY <1>1, <1>4, <1>5 DEF IInv, Phases

\* What was printed is a beginning of what the pi put out.
LEMMA Beginning ==
  ASSUME NEW x \in Seq(Word), NEW y \in Seq(Word), NEW z, z = x \o y
  PROVE  Len(x) <= Len(z) /\ \A i \in 1 .. Len(x) : x[i] = z[i]
<1>1. /\ Len(z) = Len(x) + Len(y) /\ Len(x) \in Nat /\ Len(y) \in Nat
      /\ \A i \in 1 .. Len(x) + Len(y) : z[i] = IF i <= Len(x) THEN x[i] ELSE y[i - Len(x)]
  BY ConcatProperties, LenProperties
<1> QED
  BY <1>1

\* OutputInOrder is kept by every step from a known phase.
LEMMA OrderKept == TypeOK /\ TypeOK' /\ OutputInOrder /\ Phases /\ [Next]_vars => OutputInOrder'
<1> SUFFICES ASSUME TypeOK, TypeOK', OutputInOrder, Phases, [Next]_vars PROVE OutputInOrder'
  OBVIOUS
<1>t. /\ printed \in Seq(Word) /\ piout \in Seq(Word) /\ Banner \in Seq(Word) /\ Bye \in Seq(Word)
      /\ printed' \in Seq(Word)
  BY Typed, TypedNext, Texts
<1>1. CASE GetChar
  <2>1. /\ toUnix # <<>> /\ upc = "char" /\ printed' = Append(printed, Head(toUnix)) /\ piout' = piout
    BY <1>1 DEF GetChar, UnixStep
  <2>2. \E cs, t \in Seq(Word) : ToHear(cs, t)
    <3>1. CASE Doomed \/ Commanding \/ Asking \/ Leaving
      <4>1. <<>> \in Seq(Word)
        OBVIOUS
      <4> QED
        BY <3>1, <4>1 DEF Doomed, Commanding, Asking, Leaving
    <3>2. CASE Answered
      <4>1. PICK cs \in Seq(Word), v \in Word : ToHear(cs, <<PI_GET32_REPLY, v>>)
        BY <3>2, <2>1 DEF Answered
      <4>2. <<PI_GET32_REPLY, v>> \in Seq(Word)
        BY Opcodes
      <4> QED
        BY <4>1, <4>2
    <3>3. CASE Rebooted
      BY <3>3 DEF Rebooted
    <3> QED
      BY <3>1, <3>2, <3>3, <2>1 DEF Phases, Silent, Handshake, Greeting, Over
  <2>3. PICK cs \in Seq(Word), t \in Seq(Word) : ToHear(cs, t)
    BY <2>2
  <2>4. Tail(cs) \in Seq(Word) /\ piout = Append(printed, Head(Down)) \o Tail(cs)
    BY <2>1, <2>3, HearLetter
  <2>5. piout' = printed' \o Tail(cs)
    BY <2>1, <2>4, UnixReads
  <2> QED
    BY <2>4, <2>5, <1>t, Beginning DEF OutputInOrder
<1>2. CASE ~GetChar
  <2>1. printed' = printed
    BY <1>2 DEF Next, UnixNext, PiNext, Done, UnixWrite, Ping, PingTimeout, PingAnswered, GetOp, ReadTimeout,
       put32, get32, GetVal, GetReturn, clean_reboot, DrainMore, DrainDone, UnixStep, PiWrite, PiBoot, PiHello, PiOp,
       PiGet32, PiPutAddr, PiPutVal, PiReboot, wait_for_data, vars, hist
  <2>2. piout' = piout \/ \E s \in Seq(Word) : piout' = piout \o s
    BY <1>2, <1>t DEF Next, UnixNext, PiNext, Done, UnixWrite, Ping, PingTimeout, PingAnswered, GetOp, ReadTimeout,
       put32, get32, GetVal, GetReturn, clean_reboot, DrainMore, DrainDone, UnixStep, PiWrite, PiBoot, PiHello, PiOp,
       PiGet32, PiPutAddr, PiPutVal, PiReboot, wait_for_data, vars, hist
  <2>3. CASE piout' = piout
    BY <2>1, <2>3 DEF OutputInOrder
  <2>4. ASSUME NEW s \in Seq(Word), piout' = piout \o s PROVE OutputInOrder'
    <3>1. Len(piout) <= Len(piout') /\ \A i \in 1 .. Len(piout) : piout[i] = piout'[i]
      BY <2>4, <1>t, Beginning
    <3>2. /\ Len(piout) \in Nat /\ Len(printed) \in Nat /\ Len(printed) <= Len(piout)
          /\ \A i \in 1 .. Len(printed) : printed[i] = piout[i]
      BY <1>t DEF OutputInOrder
    <3>3. Len(piout') \in Nat
      BY TypedNext
    <3> QED
      BY <2>1, <3>1, <3>2, <3>3 DEF OutputInOrder
  <2> QED
    BY <2>2, <2>3, <2>4
<1> QED
  BY <1>1, <1>2

\* Every step keeps the invariant.
LEMMA StepInv == IInv /\ [Next]_vars => IInv'
<1> SUFFICES ASSUME IInv, [Next]_vars PROVE IInv'
  OBVIOUS
<1>1. TypeOK /\ TypeOK' /\ OutputInOrder'
  BY TypeKept, OrderKept DEF IInv
<1>2. Phases'
  BY <1>1, SilentStep, HandshakeStep, DoomedStep, CommandingStep, AskingStep, AnsweredStep, LeavingStep, RebootedStep,
     OverStep DEF IInv, Phases
<1> QED
  BY <1>1, <1>2 DEF IInv

\* The invariant holds in every behaviour.
LEMMA Invariance == Spec => []IInv
BY InitInv, StepInv, PTL DEF Spec

(***************************************************************************)
(* get32 returns what the program put last (fake-pi.c, get32 and put32),   *)
(* although put32 does not wait for the pi: the answer is sent once the    *)
(* puts before it are done, and no byte of the pi's output is taken for    *)
(* it.  Also when timeouts fire too early and a side panics.               *)
(***************************************************************************)
THEOREM GetsReturnLastPut == Spec => []GetReturnsLastPut
<1>1. IInv => GetReturnsLastPut
  BY DEF IInv, Phases, Silent, Handshake, Greeting, Doomed, Commanding, Asking, Answered, Leaving, Rebooted, Over,
         GetReturnsLastPut
<1> QED
  BY <1>1, Invariance, PTL

(***************************************************************************)
(* What the pi prints comes out on the laptop in order, and no character   *)
(* is lost, added or taken for an opcode (get_op).                         *)
(***************************************************************************)
THEOREM OutputComesInOrder == Spec => []OutputInOrder
<1>1. IInv => OutputInOrder
  BY DEF IInv
<1> QED
  BY <1>1, Invariance, PTL

(***************************************************************************)
(* With timeouts long enough no side panics, and a program that exits      *)
(* leaves memory as it wrote it and all of the pi's output printed         *)
(* (clean_reboot waits for the pi's last words before it exits).           *)
(***************************************************************************)
THEOREM RunsExitClean == Spec => []ExitsClean
<1>1. IInv => ExitsClean
  <2> SUFFICES ASSUME IInv PROVE ExitsClean
    OBVIOUS
  <2>1. ASSUME patient PROVE upc # "panic" /\ ppc # "panic"
    <3>1. \A p \in Puts, r \in Seq(Word) : ToRead(p, r) => ppc # "panic"
      BY DEF ToRead
    <3>2. <<>> \in Seq(Word) /\ <<PI_REBOOT>> \in Seq(Word) /\ \A u \in Word : <<PI_GET32, u>> \in Seq(Word)
      BY Opcodes
    <3>3. CASE Commanding \/ Asking \/ Leaving
      BY <3>1, <3>2, <3>3 DEF Commanding, Asking, Leaving
    <3> QED
      BY <2>1, <3>3 DEF IInv, Phases, Silent, Handshake, Greeting, Doomed, Answered, Rebooted, Over
  <2>2. ASSUME patient, upc = "exit" PROVE mem = shadow /\ printed = piout
    BY <2>2 DEF IInv, Phases, Silent, Handshake, Greeting, Doomed, Commanding, Asking, Answered, Leaving, Rebooted, Over
  <2> QED
    BY <2>1, <2>2 DEF IInv, ExitsClean, NoPanics, ExitComplete
<1> QED
  BY <1>1, Invariance, PTL

=============================================================================
