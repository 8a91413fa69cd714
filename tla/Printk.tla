------------------------------- MODULE Printk -------------------------------
(***************************************************************************)
(* Formatted printing on the pi (libpi/libc/va-printk.c): the format is      *)
(* taken item by item into a buffer of n bytes.  A format is a sequence of   *)
(* items, a character or a specifier with its width; int has Bits bits.      *)
(***************************************************************************)
EXTENDS Integers, SequencesExt

CONSTANTS Bits,         \* of an int
          MaxWidth      \* the assertion on a width: width < 32

VARIABLES fmt, room,    \* the items left; n
          pbuf,         \* what is in the buffer
          args,         \* the items taken and their arguments, for the properties
          ret           \* returned, -1 before, -2 if it panicked
prvars == <<fmt, room, pbuf, args, ret>>

NumLen == 128           \* char num[128]
Blank == 32
Minus == 45
Percent == 37
Least == -(2 ^ (Bits - 1))
\* An int from any number, and an unsigned from an int
Wrap(v) == ((v - Least) % (2 ^ Bits)) + Least
Unsigned(v) == v % (2 ^ Bits)
Smallest(S) == CHOOSE x \in S : \A y \in S : x <= y

---------------------------------------------------------------------------
\* From here on the number is written from its last digit.
pad(p, width) == p \o [i \in 1 .. (IF width > Len(p) THEN width - Len(p) ELSE 0) |-> Blank]
\* "drop the lower chars if the string is too big"
reverse(n, p) == Reverse(IF Len(p) + 1 > n THEN SubSeq(p, Len(p) + 2 - n, Len(p)) ELSE p)
\* The do-while loop: at least one digit
Digits(u, base) ==
    LET n == Smallest({k \in 1 .. Bits + 1 : base ^ k > u})
        c == [i \in 1 .. n |-> (u \div (base ^ (i - 1))) % base]
    IN  [i \in 1 .. n |-> IF c[i] < 10 THEN 48 + c[i] ELSE 87 + c[i]]

\* Seeded fault: a negative number is printed as an unsigned one.
emit_plain(base, n, val, width, signed) ==
    reverse(n, pad(IF base = 8 THEN <<val>> ELSE Digits(Unsigned(val), base), IF width > n THEN n - 1 ELSE width))
emit(base, n, val, width, signed) ==
    LET w == IF width > n THEN n - 1 ELSE width
        neg == val < 0 /\ signed
        p == CASE base = 10 /\ neg -> Append(Digits(Unsigned(Wrap(-val)), 10), Minus)
               [] base = 8 -> <<val>>
               [] OTHER -> Digits(Unsigned(val), base)
    IN  reverse(n, pad(p, w))

\* Up to the NUL
Cut0(s) == SubSeq(s, 1, Smallest({i \in 1 .. Len(s) + 1 : i = Len(s) + 1 \/ s[i] = 0}) - 1)
ItemText(spec, width, arg) ==
    CASE spec = "d" -> emit(10, NumLen, arg, width, TRUE)
      [] spec = "u" -> emit(10, NumLen, arg, width, FALSE)
      [] spec \in {"x", "p"} -> emit(16, NumLen, arg, width, FALSE)
      [] spec = "b" -> emit(2, NumLen, arg, width, FALSE)
      [] spec = "c" -> emit(8, NumLen, arg, width, FALSE)
      [] spec = "s" -> arg

---------------------------------------------------------------------------
Vals == {Least, Least + 1, -10, -1, 0, 1, 9, 10, -Least - 1}
Args(spec) == CASE spec = "s" -> {<<>>, <<65, 66, 67, 68>>} [] spec = "c" -> {0, 65} [] OTHER -> Vals
Specs == [spec : {"d", "u", "x", "p", "b", "c"}, width : {0, 3, 5}] \cup {[spec |-> "s", width |-> 0]}
Items == {[chr |-> 66], [spec |-> "%", width |-> 0], [spec |-> "f", width |-> 0], [spec |-> "q", width |-> 0],
          [spec |-> "d", width |-> MaxWidth]} \cup Specs
PrInit ==
    /\ fmt \in {<<>>} \cup {<<a>> : a \in Items} \cup {<<a, b>> : a \in Items, b \in {[chr |-> 66], [spec |-> "d", width |-> 3]}}
    /\ room \in {1, 3, 6, 20}
    /\ pbuf = <<>> /\ args = <<>> /\ ret = -1

IsSpec == fmt # <<>> /\ "spec" \in DOMAIN fmt[1]
More == ret = -1 /\ fmt # <<>> /\ Len(pbuf) < room - 1
Taken(spec, width, arg, s) ==
    /\ fmt' = Tail(fmt) /\ args' = Append(args, [spec |-> spec, width |-> width, arg |-> arg, text |-> s])
    /\ UNCHANGED <<room, ret>>
put_char == /\ More /\ ~IsSpec
            /\ pbuf' = Append(pbuf, fmt[1].chr) /\ Taken("none", 0, 0, <<fmt[1].chr>>)
put_percent == /\ More /\ IsSpec /\ fmt[1].spec = "%"
               /\ pbuf' = Append(pbuf, Percent) /\ Taken("none", 0, 0, <<Percent>>)
\* "safe string copy"
Copied(s) == pbuf \o SubSeq(s, 1, IF Len(s) < room - 1 - Len(pbuf) THEN Len(s) ELSE room - 1 - Len(pbuf))
put_spec ==
    /\ More /\ IsSpec /\ fmt[1].spec \in {"d", "u", "x", "p", "b", "c", "s"} /\ fmt[1].width < MaxWidth
    /\ \E arg \in Args(fmt[1].spec) :
         LET s == Cut0(ItemText(fmt[1].spec, fmt[1].width, arg)) IN
         pbuf' = Copied(s) /\ Taken(fmt[1].spec, fmt[1].width, arg, s)
\* A width that is too large, %f without floating point, an unknown specifier
put_panic ==
    /\ More /\ IsSpec /\ (fmt[1].width >= MaxWidth \/ fmt[1].spec \notin {"%", "d", "u", "x", "p", "b", "c", "s"})
    /\ ret' = -2 /\ UNCHANGED <<fmt, room, pbuf, args>>
\* The NUL counts.
va_printk_end ==
    /\ ret = -1 /\ ~(fmt # <<>> /\ Len(pbuf) < room - 1)
    /\ ret' = Len(pbuf) + 1 /\ UNCHANGED <<fmt, room, pbuf, args>>
PrNext == put_char \/ put_percent \/ put_spec \/ put_panic \/ va_printk_end

---------------------------------------------------------------------------
TextsOf == FlattenSeq([i \in DOMAIN args |-> args[i].text])
\* The buffer never holds more than n bytes with its NUL, and what it holds is
\* the beginning of the whole text, cut nowhere else: nothing is written once it
\* is full, in the middle of a number too.
TruncatesOnly == /\ Len(pbuf) < room
                 /\ pbuf = SubSeq(TextsOf, 1, IF Len(TextsOf) < room - 1 THEN Len(TextsOf) ELSE room - 1)

\* Reading a text back, as another program would
Shown(s) == SelectSeq(s, LAMBDA c : c # Blank)
Read(s, base) ==
    LET neg == s # <<>> /\ s[1] = Minus
        d == IF neg THEN Tail(s) ELSE s
        v == FoldLeft(LAMBDA a, c : a * base + (IF c < 58 THEN c - 48 ELSE c - 87), 0, d)
    IN  IF neg THEN -v ELSE v
\* What is printed for a number reads as that number in its base, the least
\* int included, without a leading zero and as wide as asked for.
NumbersReadBack ==
    \A i \in DOMAIN args : args[i].spec \notin {"s", "c", "none"} =>
        LET a == args[i]
            s == Shown(a.text)
            base == CASE a.spec \in {"d", "u"} -> 10 [] a.spec = "b" -> 2 [] OTHER -> 16
        IN  /\ Read(s, base) = IF a.spec = "d" THEN a.arg ELSE Unsigned(a.arg)
            /\ Len(s) > 1 => s[1] # 48
            /\ Len(a.text) >= a.width
            /\ Len(a.text) > Len(s) => Len(a.text) = a.width /\ a.text[1] = Blank

\* Numbers print as numbers and the buffer is cut only at its end.
PrintkRight == TruncatesOnly /\ NumbersReadBack

=============================================================================
