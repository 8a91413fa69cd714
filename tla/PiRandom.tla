------------------------------ MODULE PiRandom ------------------------------
(***************************************************************************)
(* The random number generator of libpi-fake/pi-random.c: an additive      *)
(* feedback generator over a caller's array of words, with two pointers    *)
(* that chase each other round it.  A program may keep several arrays and  *)
(* switch between them; where the pointers stand in an array that is not   *)
(* in use is kept in the word before it (hdr).                             *)
(*                                                                         *)
(* Loops are steps of their own.  Words are kept modulo WORD: addition and *)
(* multiplication in 32 bits agree with it on the low-order bits.          *)
(***************************************************************************)
EXTENDS Integers, Sequences

CONSTANTS
  Array,     \* the state arrays a program uses
  NONE,      \* buf->state before the first pi_initstate_r
  NSlots,    \* words of the longest one
  Seeds,     \* seeds it passes
  Sizes,     \* sizes it passes, in bytes
  Degrees,   \* random_poly_info.degrees, from 1
  Seps,      \* random_poly_info.seps
  MULT, MODULUS,  \* 16807 and 2147483647
  WORD,      \* a power of two: the low-order bits the model keeps
  Careful,   \* TRUE: pi_initstate_r is called only when hdr is up to date
  MaxSeeds,  \* bound: calls that seed
  MaxCalls   \* bound: other calls the program makes

MAX_TYPES == 5
Type   == 0..MAX_TYPES-1
Deg(t) == Degrees[t + 1]
Sep(t) == Seps[t + 1]

\* The quotient and remainder that let 16807 * word be computed in 31 bits.
QUOT == MODULUS \div MULT
REM  == MODULUS % MULT

ASSUME TableAssumption ==
  /\ Degrees \in [1..MAX_TYPES -> Nat] /\ Seps \in [1..MAX_TYPES -> Nat]
  /\ \A t \in Type \ {0} : 0 < Sep(t) /\ Sep(t) < Deg(t) /\ Deg(t) <= NSlots

ASSUME ArithAssumption ==
  /\ NSlots \in Nat \ {0} /\ WORD \in Nat \ {0} /\ Seeds \subseteq Nat /\ Sizes \subseteq Nat
  /\ MULT \in Nat \ {0} /\ MODULUS \in Nat /\ QUOT > REM
  /\ 1 < QUOT /\ \A s \in Seeds : REM * (s \div QUOT) < MODULUS

ASSUME UseAssumption == NONE \notin Array \cup Nat /\ Careful \in BOOLEAN /\ MaxSeeds \in Nat /\ MaxCalls \in Nat

VARIABLES
  arr, hdr,                      \* the words of each array, the word before them
  rand_type, state, fptr, rptr,  \* struct pi_random_data; the pointers as offsets
  pin,                           \* the array they point into
  result,                        \* what pi_random_r returned last
  pc, then, i, seedword, kc,     \* inside pi_srandom_r, and what follows it
  seeds, calls, drawn            \* history: calls; steps of the pointers in each array

table   == <<arr, hdr>>
buf     == <<rand_type, state, fptr, rptr, pin>>
loop    == <<pc, then, i, seedword, kc>>
rndvars == <<table, buf, result, loop, seeds, calls, drawn>>

Slots == 0..NSlots-1

RndInit ==
  /\ arr = [a \in Array |-> [k \in Slots |-> 0]] /\ hdr = [a \in Array |-> NONE]
  /\ rand_type = 0 /\ state = NONE /\ fptr = 0 /\ rptr = 0 /\ pin = NONE
  /\ result = 0 /\ pc = "idle" /\ then = "idle" /\ i = 0 /\ seedword = 0 /\ kc = 0
  /\ seeds = 0 /\ calls = 0 /\ drawn = [a \in Array |-> 0]

-----------------------------------------------------------------------------
(***************************************************************************)
(* pi_random_r                                                             *)
(***************************************************************************)
lcg(x) == (x * (1103515245 % WORD) + 12345) % WORD

sum == (arr[pin][fptr] + arr[pin][rptr]) % WORD

Wraps == fptr + 1 >= Deg(rand_type)

\* Seeded fault: both pointers advance before the sum is stored.
Advance_stores_late ==
  /\ fptr' = IF Wraps THEN 0 ELSE fptr + 1
  /\ rptr' = IF Wraps THEN rptr + 1 ELSE IF rptr + 1 >= Deg(rand_type) THEN 0 ELSE rptr + 1
  /\ arr' = [arr EXCEPT ![pin][fptr'] = sum]
  /\ drawn' = [drawn EXCEPT ![pin] = @ + 1]

\* The trinomial step: add the word at the rear pointer to the one at the front
\* and advance both; the rear one is not tested when the front one has wrapped.
Advance ==
  /\ arr' = [arr EXCEPT ![pin][fptr] = sum]
  /\ fptr' = IF Wraps THEN 0 ELSE fptr + 1
  /\ rptr' = IF Wraps THEN rptr + 1 ELSE IF rptr + 1 >= Deg(rand_type) THEN 0 ELSE rptr + 1
  /\ drawn' = [drawn EXCEPT ![pin] = @ + 1]

Called == calls < MaxCalls /\ calls' = calls + 1 /\ UNCHANGED seeds

SeedCalled == seeds < MaxSeeds /\ seeds' = seeds + 1 /\ UNCHANGED calls

pi_random_r ==
  /\ pc = "idle" /\ state # NONE /\ Called
  /\ IF rand_type = 0
     THEN /\ arr' = [arr EXCEPT ![state][0] = lcg(@)]
          /\ result' = lcg(arr[state][0])
          /\ UNCHANGED <<fptr, rptr, drawn>>
     ELSE Advance /\ result' = sum \div 2
  /\ UNCHANGED <<hdr, rand_type, state, pin, loop>>

-----------------------------------------------------------------------------
(***************************************************************************)
(* pi_srandom_r                                                            *)
(***************************************************************************)

\* Its start, for array a, which holds a generator of type t.
SeedFirst(seed, a, t, after) ==
  LET s == IF seed = 0 THEN 1 ELSE seed IN
  /\ arr' = [arr EXCEPT ![a][0] = s % WORD]
  /\ then' = after
  /\ IF t = 0 THEN pc' = after /\ UNCHANGED <<i, seedword>>
     ELSE pc' = "fill" /\ seedword' = s /\ i' = 1
  /\ UNCHANGED <<result, kc>>

pi_srandom_r(seed) ==
  /\ pc = "idle" /\ state # NONE /\ SeedCalled
  /\ SeedFirst(seed, state, rand_type, "idle")
  /\ UNCHANGED <<hdr, buf, drawn>>

\* Seeded fault: a negative difference is not brought back into range.
Schrage_negative(w) == (MULT * (w % QUOT)) - (REM * (w \div QUOT))

Schrage(w) ==
  LET x == (MULT * (w % QUOT)) - (REM * (w \div QUOT)) IN
  IF x < 0 THEN x + MODULUS ELSE x

SeedFill ==
  /\ pc = "fill" /\ i < Deg(rand_type)
  /\ seedword' = Schrage(seedword) /\ i' = i + 1
  /\ arr' = [arr EXCEPT ![state][i] = seedword' % WORD]
  /\ UNCHANGED <<hdr, buf, result, pc, then, kc, seeds, calls, drawn>>

SeedPointers ==
  /\ pc = "fill" /\ i = Deg(rand_type)
  /\ fptr' = Sep(rand_type) /\ rptr' = 0 /\ pin' = state
  /\ kc' = Deg(rand_type) * 10 /\ pc' = "cycle"
  /\ drawn' = [drawn EXCEPT ![state] = 0]
  /\ UNCHANGED <<table, rand_type, state, result, then, i, seedword, seeds, calls>>

SeedCycle ==
  /\ pc = "cycle" /\ kc > 0 /\ kc' = kc - 1
  /\ Advance
  /\ UNCHANGED <<hdr, rand_type, state, pin, result, pc, then, i, seedword, seeds, calls>>

SeedDone ==
  /\ pc = "cycle" /\ kc = 0 /\ pc' = then
  /\ UNCHANGED <<table, buf, result, then, i, seedword, kc, seeds, calls, drawn>>

-----------------------------------------------------------------------------
(***************************************************************************)
(* pi_initstate_r and pi_setstate_r                                        *)
(***************************************************************************)

\* The generator a state of n bytes has room for, by the break values.
TypeFor(n) == CASE n < 32 -> 0 [] n \in 32..63 -> 1 [] n \in 64..127 -> 2
                [] n \in 128..255 -> 3 [] OTHER -> 4

\* What the header of the array in use should say.
Header == IF rand_type = 0 THEN 0 ELSE MAX_TYPES * rptr + rand_type

\* Fewer than 8 bytes are refused; the array in use until now is not saved.
pi_initstate_r(seed, a, n) ==
  /\ pc = "idle" /\ n >= 8 /\ SeedCalled
  /\ Careful /\ state \notin {NONE, a} => hdr[state] = Header
  /\ rand_type' = TypeFor(n) /\ state' = a
  /\ SeedFirst(seed, a, TypeFor(n), "header")
  /\ UNCHANGED <<hdr, fptr, rptr, pin, drawn>>

InitHeader ==
  /\ pc = "header" /\ pc' = "idle"
  /\ hdr' = [hdr EXCEPT ![state] = Header]
  /\ UNCHANGED <<arr, buf, result, then, i, seedword, kc, seeds, calls, drawn>>

\* Seeded fault: the array in use until now is not saved.
pi_setstate_r_unsaved(a) ==
  /\ pc = "idle" /\ state # NONE /\ hdr[a] # NONE /\ Called
  /\ LET t == hdr[a] % MAX_TYPES
         rear == hdr[a] \div MAX_TYPES IN
     /\ rand_type' = t /\ state' = a
     /\ IF t = 0 THEN UNCHANGED <<fptr, rptr, pin>>
        ELSE /\ rptr' = rear /\ pin' = a
             /\ fptr' = (rear + Sep(t)) % Deg(t)
  /\ UNCHANGED <<arr, hdr, result, loop, drawn>>

\* Save where the pointers are, then take up those of the other array.
pi_setstate_r(a) ==
  /\ pc = "idle" /\ state # NONE /\ hdr[a] # NONE /\ Called
  /\ hdr' = [hdr EXCEPT ![state] = Header]
  /\ LET t == hdr'[a] % MAX_TYPES
         rear == hdr'[a] \div MAX_TYPES IN
     /\ rand_type' = t /\ state' = a
     /\ IF t = 0 THEN UNCHANGED <<fptr, rptr, pin>>
        ELSE /\ rptr' = rear /\ pin' = a
             /\ fptr' = (rear + Sep(t)) % Deg(t)
  /\ UNCHANGED <<arr, result, loop, drawn>>

RndNext ==
  \/ pi_random_r
  \/ \E seed \in Seeds : pi_srandom_r(seed)
  \/ SeedFill \/ SeedPointers \/ SeedCycle \/ SeedDone \/ InitHeader
  \/ \E a \in Array, n \in Sizes, seed \in Seeds : pi_initstate_r(seed, a, n)
  \/ \E a \in Array : pi_setstate_r(a)

RndSpec == RndInit /\ [][RndNext]_rndvars

-----------------------------------------------------------------------------
\* The values each variable may take.
RndTypeOK ==
  /\ arr \in [Array -> [Slots -> 0..WORD-1]] /\ hdr \in [Array -> Nat \cup {NONE}]
  /\ rand_type \in Type /\ state \in Array \cup {NONE} /\ pin \in Array \cup {NONE}
  /\ fptr \in Nat /\ rptr \in Nat /\ result \in Nat
  /\ pc \in {"idle", "fill", "cycle", "header"} /\ then \in {"idle", "header"}
  /\ i \in 0..NSlots /\ seedword \in Nat /\ kc \in Nat
  /\ seeds \in 0..MaxSeeds /\ calls \in 0..MaxCalls /\ drawn \in [Array -> Nat]

\* The place k further on in a ring of d.
Slot(d, p, k) == IF p + k < d THEN p + k ELSE p + k - d

\* A generator is being used: not while pi_srandom_r is still filling its words.
Running == state # NONE /\ rand_type # 0 /\ pc # "fill"

\* The pointers lie inside the array in use, exactly rand_sep apart, so that they
\* never wrap on the same call (the comment above pi_random_r), also after
\* changing between generators with and without pointers.
PointersApart ==
  Running => /\ pin = state
             /\ rptr \in 0..Deg(rand_type)-1
             /\ fptr = Slot(Deg(rand_type), rptr, Sep(rand_type))

\* The generator an array holds, and where its rear pointer is.
Kind(a) == IF a = state THEN rand_type ELSE hdr[a] % MAX_TYPES
Rear(a) == IF a = state THEN rptr ELSE hdr[a] \div MAX_TYPES

Seeded(a) == IF a = state THEN pc = "idle" ELSE hdr[a] # NONE

\* An array taken up again goes on where it was left: its rear pointer has made as
\* many steps as numbers were drawn from it ("so that it doesn't matter when
\* initstate is called").
ResumesWhereLeft ==
  \A a \in Array : Seeded(a) /\ Kind(a) # 0 => Rear(a) = drawn[a] % Deg(Kind(a))

\* Filling the table does what the comment says, 16807 * state[i-1] % 2147483647,
\* for every seed, those of 2147483647 and above too.
SeedsByTheBook ==
  [][pc = "fill" /\ pc' = "fill" => seedword' = (MULT * seedword) % MODULUS]_rndvars

-----------------------------------------------------------------------------
\* The last words an array has produced, oldest first.
window(a) ==
  IF Seeded(a) /\ Kind(a) = 0 THEN <<arr[a][0]>>
  ELSE IF Seeded(a)
  THEN LET d == Deg(Kind(a))
           f == Slot(d, Rear(a), Sep(Kind(a))) IN
       [k \in 1..d |-> arr[a][Slot(d, f, k - 1)]]
  ELSE <<>>

Generators == INSTANCE AbsRandom WITH
  seeding <- pc # "idle", win <- [a \in Array |-> window(a)],
  kind <- [a \in Array |-> IF Seeded(a) THEN Kind(a) ELSE 0]

\* The arrays are independent generators, each the recurrence of its trinomial,
\* whatever is drawn from the others in between.
ImplementsGenerators == Generators!GenSpec

\* The place in every array is kept: in the pointers while it is in use, in the
\* word before it otherwise, and taking it up again goes on from there.
PositionsKept == RndTypeOK /\ PointersApart /\ ResumesWhereLeft

-----------------------------------------------------------------------------
\* Short tables with the separations of the real ones, for checking on a small
\* instance.
MCDegrees == <<0, 3, 4, 5, 5>>
MCSeps    == <<0, 1, 3, 3, 1>>

\* The real tables fit the assumptions too, and each array has room for its
\* header and as many words as its generator's degree.
ASSUME RealTables ==
  LET degrees == <<0, 7, 15, 31, 63>>
      seps    == <<0, 3, 1, 3, 1>>
      breaks  == <<8, 32, 64, 128, 256>> IN
  \A t \in 1..5 : /\ breaks[t] >= 4 * (degrees[t] + 1)
                  /\ t > 1 => 0 < seps[t] /\ seps[t] < degrees[t]

=============================================================================
