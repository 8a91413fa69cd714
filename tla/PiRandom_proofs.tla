--------------------------- MODULE PiRandom_proofs ---------------------------
(***************************************************************************)
(* Proofs about the random number generator, for any tables, arrays, seeds *)
(* and number of calls that the assumptions of PiRandom allow.             *)
(***************************************************************************)
EXTENDS PiRandom, SequenceTheorems, TLAPS

(***************************************************************************)
(* The strengthening of the invariants.                                    *)
(***************************************************************************)

\* Inside pi_srandom_r there is an array in use; the loops are about one with
\* pointers, and the next word they compute is in range.
LoopInv ==
  /\ pc # "idle" => state # NONE
  /\ pc = "fill" => rand_type # 0 /\ i \in 1 .. Deg(rand_type) /\ REM * (seedword \div QUOT) < MODULUS
  /\ pc = "cycle" => rand_type # 0
  /\ pc = "header" => then = "header"

\* The place in the array in use: the rear pointer, also while the table is stirred.
InUseInv == Running => rptr = drawn[state] % Deg(rand_type)

\* The place in an array that is not in use: its header.
SavedInv ==
  \A a \in Array : a # state /\ hdr[a] # NONE /\ hdr[a] % MAX_TYPES # 0 =>
    hdr[a] \div MAX_TYPES = drawn[a] % Deg(hdr[a] % MAX_TYPES)

\* Only an array that was in use has a header or words.
PlaceInv == LoopInv /\ InUseInv /\ SavedInv /\ PointersApart

IInv == RndTypeOK /\ PlaceInv

-----------------------------------------------------------------------------
(***************************************************************************)
(* Arithmetic.                                                             *)
(***************************************************************************)

\* Counting round a ring.
LEMMA ModNext ==
  ASSUME NEW d \in Nat \ {0}, NEW m \in Nat
  PROVE  /\ m % d \in 0 .. d - 1
         /\ (m + 1) % d = IF (m % d) + 1 >= d THEN 0 ELSE (m % d) + 1
<1> DEFINE q == m \div d
           r == m % d
<1>1. q \in Nat /\ r \in 0 .. d - 1 /\ m = q * d + r
  OBVIOUS
<1> HIDE DEF q, r
<1>2. CASE r + 1 < d
  <2>1. m + 1 = q * d + (r + 1) /\ r + 1 \in 0 .. d - 1
    BY <1>1, <1>2
  <2>2. (q * d + (r + 1)) % d = r + 1
    BY <1>1, <2>1
  <2> QED BY <1>1, <1>2, <2>1, <2>2 DEF r
<1>3. CASE r + 1 >= d
  <2>1. r + 1 = d
    BY <1>1, <1>3
  <2>2. m + 1 = (q + 1) * d + 0
    BY <1>1, <2>1
  <2>3. ((q + 1) * d + 0) % d = 0
    BY <1>1
  <2> QED BY <1>1, <1>3, <2>2, <2>3 DEF r
<1> QED BY <1>1, <1>2, <1>3 DEF r

\* A sum of two indices of a ring wraps at most once.
LEMMA ModOnce ==
  ASSUME NEW d \in Nat \ {0}, NEW x \in 0 .. d - 1, NEW y \in 0 .. d - 1
  PROVE  (x + y) % d = Slot(d, x, y)
BY DEF Slot

\* A multiple of the divisor does not change a remainder.
LEMMA ModMult ==
  ASSUME NEW d \in Nat \ {0}, NEW k \in Nat, NEW x \in 0 .. d - 1
  PROVE  (k * d + x) % d = x
OBVIOUS

\* What QUOT and REM are: the factors of MODULUS.
LEMMA Factors ==
  /\ QUOT \in Nat /\ REM \in Nat /\ REM < QUOT /\ 1 < QUOT
  /\ MODULUS = MULT * QUOT + REM /\ MULT * QUOT <= MODULUS
<1>1. MULT \in Nat \ {0} /\ MODULUS \in Nat /\ REM < QUOT /\ 1 < QUOT
  BY ArithAssumption
<1>2. QUOT \in Nat /\ REM \in Nat /\ MODULUS = QUOT * MULT + REM
  BY <1>1 DEF QUOT, REM
<1>3. QUOT * MULT = MULT * QUOT /\ QUOT * MULT \in Nat
  BY <1>1, <1>2
<1> QED BY <1>1, <1>2, <1>3

\* Schrage's computation stays in range and is the product, modulo MODULUS.
LEMMA SchrageRight ==
  ASSUME NEW w \in Nat, REM * (w \div QUOT) < MODULUS
  PROVE  /\ Schrage(w) \in 0 .. MODULUS - 1
         /\ Schrage(w) = (MULT * w) % MODULUS
<1> DEFINE Q == QUOT
           R == REM
           d == w \div QUOT
           r == w % QUOT
           M == MODULUS
           A == MULT
<1>0. A \in Nat \ {0} /\ M \in Nat /\ Q \in Nat \ {0} /\ R \in Nat /\ M = A * Q + R /\ A * Q <= M
  BY Factors, ArithAssumption
<1>1. d \in Nat /\ r \in 0 .. Q - 1 /\ w = Q * d + r
  BY <1>0
<1>2. Schrage(w) = IF A * r - R * d < 0 THEN A * r - R * d + M ELSE A * r - R * d
  BY DEF Schrage
<1>3. R * d < M
  OBVIOUS
<1> HIDE DEF Q, R, d, r, M, A
<1> DEFINE x == A * r - R * d
<1>4. A * r \in Nat /\ R * d \in Nat /\ A * r < M
  <2>1. A * r \in Nat /\ R * d \in Nat
    BY <1>0, <1>1
  <2>2. A * r <= A * (Q - 1)
    BY <1>0, <1>1
  <2>3. A * (Q - 1) = A * Q - A
    BY <1>0
  <2>4. A * Q \in Nat
    BY <1>0
  <2> QED BY <1>0, <2>1, <2>2, <2>3, <2>4
<1>5. A * w = d * M + x
  <2>1. A * w = A * (Q * d) + A * r
    BY <1>0, <1>1
  <2>2. d * M = d * (A * Q) + d * R
    BY <1>0, <1>1
  <2>3. A * (Q * d) = d * (A * Q) /\ d * R = R * d
    BY <1>0, <1>1
  <2>4. A * (Q * d) \in Nat /\ d * M \in Nat
    BY <1>0, <1>1
  <2> QED BY <1>4, <2>1, <2>2, <2>3, <2>4
<1>6. x \in Int /\ x < M /\ x + M > 0
  BY <1>0, <1>3, <1>4
<1> HIDE DEF x
<1>7. M \in Nat \ {0}
  BY <1>0, <1>3, <1>4
<1>8. CASE x >= 0
  <2>1. (d * M + x) % M = x
    BY <1>1, <1>6, <1>7, <1>8, ModMult
  <2>2. Schrage(w) = x
    BY <1>2, <1>6, <1>8 DEF x
  <2> QED BY <1>5, <1>6, <1>7, <1>8, <2>1, <2>2 DEF M, A
<1>9. CASE x < 0
  <2>1. d # 0
    <3>1. d = 0 => R * d = 0
      BY <1>0
    <3> QED BY <1>4, <1>9, <3>1 DEF x
  <2>2. d - 1 \in Nat /\ x + M \in 0 .. M - 1
    BY <1>1, <1>6, <1>7, <1>9, <2>1
  <2>3. ((d - 1) * M + (x + M)) % M = x + M
    BY <1>7, <2>2, ModMult
  <2>4. (d - 1) * M + (x + M) = d * M + x
    BY <1>1, <1>6, <1>7
  <2>5. Schrage(w) = x + M
    BY <1>2, <1>9 DEF x
  <2> QED BY <1>5, <2>2, <2>3, <2>4, <2>5 DEF M, A
<1> QED BY <1>6, <1>8, <1>9

\* A word below MODULUS is small enough for the next step.
LEMMA SchrageNext ==
  ASSUME NEW w \in 0 .. MODULUS - 1 PROVE REM * (w \div QUOT) < MODULUS
<1> DEFINE Q == QUOT
           R == REM
           d == w \div QUOT
           M == MODULUS
           A == MULT
<1>0. A \in Nat \ {0} /\ M \in Nat /\ Q \in Nat \ {0} /\ R \in Nat /\ R < Q /\ M = A * Q + R /\ A * Q <= M
  BY Factors, ArithAssumption
<1>1. w \in Nat /\ w < M /\ d \in Nat /\ Q * d <= w
  BY <1>0
<1> HIDE DEF Q, R, d, M, A
<1>2. d <= A
  <2> SUFFICES ASSUME d >= A + 1 PROVE FALSE
    BY <1>0, <1>1
  <2>1. Q * d >= Q * (A + 1)
    BY <1>0, <1>1
  <2>2. Q * (A + 1) = A * Q + Q
    BY <1>0
  <2>3. A * Q \in Nat /\ Q * d \in Nat
    BY <1>0, <1>1
  <2> QED BY <1>0, <1>1, <2>1, <2>2, <2>3
<1>3. R * d <= R * A
  BY <1>0, <1>1, <1>2
<1>4. R * A < Q * A
  BY <1>0
<1>5. Q * A = A * Q /\ R * d \in Nat /\ R * A \in Nat /\ A * Q \in Nat
  BY <1>0, <1>1
<1>6. R * d < M
  BY <1>0, <1>3, <1>4, <1>5
<1> QED BY <1>6 DEF R, d, M

-----------------------------------------------------------------------------
(***************************************************************************)
(* Tables, headers and pointers.                                           *)
(***************************************************************************)
LEMMA TypeFacts ==
  /\ Type = {0, 1, 2, 3, 4}
  /\ \A t \in Type : Deg(t) \in Nat /\ Sep(t) \in Nat
  /\ \A t \in Type \ {0} : Deg(t) \in Nat \ {0} /\ Sep(t) \in 1 .. Deg(t) - 1 /\ Deg(t) <= NSlots
  /\ NSlots \in Nat \ {0}
<1>1. Type = {0, 1, 2, 3, 4}
  BY DEF Type, MAX_TYPES
<1>2. \A t \in Type : t + 1 \in 1 .. MAX_TYPES
  BY <1>1 DEF MAX_TYPES
<1>3. \A t \in Type : Deg(t) \in Nat /\ Sep(t) \in Nat
  BY <1>2, TableAssumption DEF Deg, Sep
<1>4. NSlots \in Nat \ {0}
  BY ArithAssumption
<1>5. \A t \in Type \ {0} : Deg(t) \in Nat \ {0} /\ Sep(t) \in 1 .. Deg(t) - 1 /\ Deg(t) <= NSlots
  <2> TAKE t \in Type \ {0}
  <2>1. 0 < Sep(t) /\ Sep(t) < Deg(t) /\ Deg(t) <= NSlots
    BY TableAssumption
  <2>2. Deg(t) \in Nat /\ Sep(t) \in Nat
    BY <1>3
  <2> QED BY <2>1, <2>2
<1> QED BY <1>1, <1>3, <1>4, <1>5

\* A header says which generator an array holds and where its rear pointer is.
LEMMA HeaderFacts ==
  ASSUME rand_type \in Type, rptr \in Nat
  PROVE  /\ Header \in Nat /\ Header % MAX_TYPES = rand_type
         /\ rand_type # 0 => Header \div MAX_TYPES = rptr
<1>1. rand_type \in {0, 1, 2, 3, 4}
  BY TypeFacts
<1>2. CASE rand_type = 0
  BY <1>2 DEF Header, MAX_TYPES
<1>3. CASE rand_type # 0
  BY <1>1, <1>3 DEF Header, MAX_TYPES
<1> QED BY <1>2, <1>3

\* The header word of an array unpacks to a type and a natural number, whatever its value.
LEMMA HeaderType == \A h \in Nat : h % MAX_TYPES \in Type /\ h \div MAX_TYPES \in Nat
BY DEF MAX_TYPES, Type

\* A position of the ring is an index of it.
LEMMA SlotIn == \A d \in Nat \ {0} : \A p, k \in 0 .. d - 1 : Slot(d, p, k) \in 0 .. d - 1
BY DEF Slot

\* In use, both pointers are slots of the array.
LEMMA Pointers ==
  ASSUME RndTypeOK, PointersApart, Running
  PROVE  /\ pin = state /\ state \in Array /\ rand_type \in Type \ {0}
         /\ Deg(rand_type) \in Nat \ {0} /\ Sep(rand_type) \in 1 .. Deg(rand_type) - 1
         /\ rptr \in 0 .. Deg(rand_type) - 1 /\ fptr \in 0 .. Deg(rand_type) - 1
         /\ fptr = Slot(Deg(rand_type), rptr, Sep(rand_type))
         /\ rptr \in Slots /\ fptr \in Slots
<1>1. /\ pin = state /\ state \in Array /\ rand_type \in Type \ {0}
      /\ rptr \in 0 .. Deg(rand_type) - 1
      /\ fptr = Slot(Deg(rand_type), rptr, Sep(rand_type))
  BY DEF RndTypeOK, PointersApart, Running
<1>2. Deg(rand_type) \in Nat \ {0} /\ Sep(rand_type) \in 1 .. Deg(rand_type) - 1 /\ Deg(rand_type) <= NSlots
  BY <1>1, TypeFacts
<1>3. Sep(rand_type) \in 0 .. Deg(rand_type) - 1
  BY <1>2
<1>4. fptr \in 0 .. Deg(rand_type) - 1
  BY <1>1, <1>2, <1>3, SlotIn
<1>5. NSlots \in Nat
  BY TypeFacts
<1>6. \A x \in 0 .. Deg(rand_type) - 1 : x \in Slots
  BY <1>2, <1>5 DEF Slots
<1> QED BY <1>1, <1>2, <1>4, <1>6

\* The words added by pi_random_r stay below the word size.
LEMMA SumWord ==
  ASSUME RndTypeOK, PointersApart, Running
  PROVE  sum \in 0 .. WORD - 1 /\ arr[state] \in [Slots -> 0 .. WORD - 1]
<1>1. arr \in [Array -> [Slots -> 0 .. WORD - 1]] /\ WORD \in Nat \ {0}
  BY ArithAssumption DEF RndTypeOK
<1>2. arr[pin][fptr] \in 0 .. WORD - 1 /\ arr[pin][rptr] \in 0 .. WORD - 1
  BY <1>1, Pointers
<1>3. sum \in 0 .. WORD - 1
  BY <1>1, <1>2 DEF sum
<1> QED BY <1>1, <1>3, Pointers

\* A step of the pointers keeps them apart, writes the sum, and is counted.
LEMMA AdvanceStep ==
  ASSUME RndTypeOK, PointersApart, InUseInv, Running, Advance, UNCHANGED <<rand_type, state, pin>>
  PROVE  /\ rptr' \in 0 .. Deg(rand_type) - 1
         /\ fptr' = Slot(Deg(rand_type), rptr', Sep(rand_type))
         /\ rptr' = drawn'[state] % Deg(rand_type)
         /\ arr' \in [Array -> [Slots -> 0 .. WORD - 1]]
         /\ drawn' \in [Array -> Nat] /\ fptr' \in Nat /\ rptr' \in Nat
         /\ \A a \in Array : a # state => drawn'[a] = drawn[a] /\ arr'[a] = arr[a]
         /\ rptr' = Slot(Deg(rand_type), rptr, 1) /\ fptr' = Slot(Deg(rand_type), fptr, 1)
<1> DEFINE d == Deg(rand_type)
           sp == Sep(rand_type)
<1>1. /\ pin = state /\ state \in Array /\ d \in Nat \ {0} /\ sp \in 1 .. d - 1
      /\ rptr \in 0 .. d - 1 /\ fptr \in 0 .. d - 1 /\ fptr \in Slots
      /\ fptr = IF rptr + sp < d THEN rptr + sp ELSE rptr + sp - d
  BY Pointers DEF Slot
<1>2. /\ arr' = [arr EXCEPT ![pin][fptr] = sum]
      /\ fptr' = (IF fptr + 1 >= d THEN 0 ELSE fptr + 1)
      /\ rptr' = (IF fptr + 1 >= d THEN rptr + 1 ELSE IF rptr + 1 >= d THEN 0 ELSE rptr + 1)
      /\ drawn' = [drawn EXCEPT ![pin] = @ + 1]
  BY DEF Advance, Wraps
<1>3. rptr = drawn[state] % d /\ drawn \in [Array -> Nat] /\ arr \in [Array -> [Slots -> 0 .. WORD - 1]]
  BY DEF InUseInv, RndTypeOK
<1> HIDE DEF d, sp
<1>4. fptr + 1 >= d => rptr + 1 < d
  BY <1>1
<1>5. rptr' = IF rptr + 1 >= d THEN 0 ELSE rptr + 1
  BY <1>1, <1>2, <1>4
<1>6. drawn' \in [Array -> Nat] /\ drawn'[state] = drawn[state] + 1
      /\ \A a \in Array : a # state => drawn'[a] = drawn[a]
  BY <1>1, <1>2, <1>3
<1>7. rptr' = drawn'[state] % d
  BY <1>1, <1>3, <1>5, <1>6, ModNext
<1>8. rptr' \in 0 .. d - 1 /\ fptr' \in 0 .. d - 1
  BY <1>1, <1>2, <1>5
<1>9. fptr' = IF rptr' + sp < d THEN rptr' + sp ELSE rptr' + sp - d
  BY <1>1, <1>2, <1>5
<1>10. rptr' = Slot(d, rptr, 1) /\ fptr' = Slot(d, fptr, 1)
  BY <1>1, <1>2, <1>5 DEF Slot
<1>11. arr' \in [Array -> [Slots -> 0 .. WORD - 1]] /\ \A a \in Array : a # state => arr'[a] = arr[a]
  <2>1. [arr[pin] EXCEPT ![fptr] = sum] \in [Slots -> 0 .. WORD - 1]
    BY <1>1, SumWord
  <2> QED BY <1>1, <1>2, <1>3, <2>1
<1>12. fptr' \in Nat /\ rptr' \in Nat
  BY <1>1, <1>8
<1> QED BY <1>6, <1>7, <1>8, <1>9, <1>10, <1>11, <1>12 DEF d, sp, Slot

-----------------------------------------------------------------------------
(***************************************************************************)
(* The steps.                                                              *)
(***************************************************************************)
LEMMA IInvInit == RndInit => IInv
<1> SUFFICES ASSUME RndInit PROVE IInv
  OBVIOUS
<1>1. NSlots \in Nat \ {0} /\ WORD \in Nat \ {0} /\ MaxSeeds \in Nat /\ MaxCalls \in Nat /\ NONE \notin Array
  BY ArithAssumption, UseAssumption
<1>2. RndTypeOK
  <2>1. 0 \in 0 .. WORD - 1 /\ 0 \in 0 .. NSlots /\ 0 \in 0 .. MaxSeeds /\ 0 \in 0 .. MaxCalls /\ 0 \in Type
    BY <1>1, TypeFacts
  <2> QED BY <2>1 DEF RndInit, RndTypeOK
<1>3. PlaceInv
  BY DEF RndInit, PlaceInv, LoopInv, InUseInv, SavedInv, PointersApart, Running
<1> QED BY <1>2, <1>3 DEF IInv

\* The seed that stands for 0 is small enough for the first step.
LEMMA SmallSeed == REM * (1 \div QUOT) < MODULUS
<1>1. QUOT \in Nat /\ 1 < QUOT /\ REM \in Nat /\ MULT * QUOT <= MODULUS /\ MULT * QUOT > 0
  <2>1. MULT \in Nat \ {0} /\ QUOT \in Nat \ {0} => MULT * QUOT > 0
    OBVIOUS
  <2> QED BY <2>1, Factors, ArithAssumption
<1>2. 1 \div QUOT = 0
  BY <1>1
<1>3. REM * 0 = 0 /\ 0 < MODULUS
  BY <1>1, ArithAssumption
<1> QED BY <1>2, <1>3

\* What pi_srandom_r does first, in array a, which is taken into use.
LEMMA SeedFirstStep ==
  ASSUME RndTypeOK, NEW seed \in Seeds, NEW a \in Array, NEW t \in Type, NEW after \in {"idle", "header"},
         SeedFirst(seed, a, t, after), state' = a, rand_type' = t
  PROVE  /\ arr' \in [Array -> [Slots -> 0 .. WORD - 1]]
         /\ pc' \in {"idle", "fill", "header"} /\ then' = after
         /\ i' \in 0 .. NSlots /\ seedword' \in Nat /\ kc' \in Nat /\ result' \in Nat
         /\ pc' = "fill" => t # 0 /\ i' \in 1 .. Deg(t) /\ REM * (seedword' \div QUOT) < MODULUS
         /\ t # 0 => pc' = "fill"
         /\ t = 0 => pc' = after
         /\ \A b \in Array : b # a => arr'[b] = arr[b]
         /\ arr' = [arr EXCEPT ![a][0] = (IF seed = 0 THEN 1 ELSE seed) % WORD]
<1> DEFINE s == IF seed = 0 THEN 1 ELSE seed
<1>0. /\ WORD \in Nat \ {0} /\ seed \in Nat /\ REM * (seed \div QUOT) < MODULUS
      /\ arr \in [Array -> [Slots -> 0 .. WORD - 1]] /\ 0 \in Slots
  <2>1. WORD \in Nat \ {0} /\ seed \in Nat /\ REM * (seed \div QUOT) < MODULUS
    BY ArithAssumption
  <2>2. 0 \in Slots
    <3>1. NSlots \in Nat \ {0}
      BY ArithAssumption
    <3> QED BY <3>1 DEF Slots
  <2>3. arr \in [Array -> [Slots -> 0 .. WORD - 1]]
    BY DEF RndTypeOK
  <2> QED BY <2>1, <2>2, <2>3
<1>1. s \in Nat /\ s % WORD \in 0 .. WORD - 1
  BY <1>0
<1>2. REM * (s \div QUOT) < MODULUS
  <2>1. CASE seed = 0
    BY <2>1, SmallSeed
  <2>2. CASE seed # 0
    BY <1>0, <2>2
  <2> QED BY <2>1, <2>2
<1>3. /\ arr' = [arr EXCEPT ![a][0] = s % WORD] /\ then' = after /\ result' = result /\ kc' = kc
      /\ t = 0 => pc' = after /\ i' = i /\ seedword' = seedword
      /\ t # 0 => pc' = "fill" /\ seedword' = s /\ i' = 1
  BY DEF SeedFirst
<1>4. arr' \in [Array -> [Slots -> 0 .. WORD - 1]] /\ \A b \in Array : b # a => arr'[b] = arr[b]
  BY <1>0, <1>1, <1>3
<1>5. t # 0 => 1 \in 1 .. Deg(t) /\ 1 \in 0 .. NSlots
  BY TypeFacts
<1> HIDE DEF s
<1>6. pc' \in {"idle", "fill", "header"} /\ i' \in 0 .. NSlots /\ seedword' \in Nat /\ kc' \in Nat /\ result' \in Nat
  BY <1>1, <1>3, <1>5 DEF RndTypeOK
<1>7. pc' = "fill" => t # 0 /\ i' \in 1 .. Deg(t) /\ REM * (seedword' \div QUOT) < MODULUS
  BY <1>2, <1>3, <1>5
<1> QED BY <1>3, <1>4, <1>6, <1>7 DEF s

\* The headers of the arrays that are not in use stay right while nothing is drawn
\* from them.
LEMMA SavedKept ==
  ASSUME SavedInv, UNCHANGED hdr, state' = state, \A a \in Array : a # state => drawn'[a] = drawn[a]
  PROVE  SavedInv'
BY DEF SavedInv

\* pi_random_r keeps the invariant.
LEMMA RandomStep == ASSUME IInv, pi_random_r PROVE IInv'
<1>0. RndTypeOK /\ PlaceInv /\ LoopInv /\ InUseInv /\ SavedInv /\ PointersApart
  BY DEF IInv, PlaceInv
<1>1. /\ pc = "idle" /\ state # NONE /\ calls < MaxCalls /\ calls' = calls + 1
      /\ UNCHANGED <<hdr, rand_type, state, pin, pc, then, i, seedword, kc, seeds>>
  BY DEF pi_random_r, Called, loop
<1>2. state \in Array /\ calls' \in 0 .. MaxCalls
  BY <1>0, <1>1, UseAssumption DEF RndTypeOK
<1>3. CASE rand_type = 0
  <2>1. /\ arr' = [arr EXCEPT ![state][0] = lcg(@)] /\ result' = lcg(arr[state][0])
        /\ UNCHANGED <<fptr, rptr, drawn>>
    BY <1>3 DEF pi_random_r
  <2>2. WORD \in Nat \ {0} /\ arr \in [Array -> [Slots -> 0 .. WORD - 1]] /\ 0 \in Slots
    BY <1>0, ArithAssumption DEF RndTypeOK, Slots
  <2>3. \A x \in Nat : lcg(x) \in 0 .. WORD - 1
    <3> TAKE x \in Nat
    <3>1. 1103515245 % WORD \in Nat
      BY <2>2
    <3>2. x * (1103515245 % WORD) \in Nat
      BY <3>1
    <3> QED BY <2>2, <3>2 DEF lcg
  <2>4. arr[state][0] \in Nat
    BY <1>2, <2>2
  <2>5. lcg(arr[state][0]) \in 0 .. WORD - 1
    BY <2>3, <2>4
  <2>6. arr' \in [Array -> [Slots -> 0 .. WORD - 1]] /\ result' \in Nat
    BY <1>2, <2>1, <2>2, <2>5
  <2>7. RndTypeOK'
    BY <1>0, <1>1, <1>2, <2>1, <2>6 DEF RndTypeOK
  <2> QED BY <1>0, <1>1, <1>3, <2>1, <2>7 DEF IInv, PlaceInv, LoopInv, InUseInv, SavedInv, PointersApart, Running
<1>4. CASE rand_type # 0
  <2>1. Running /\ Advance /\ result' = sum \div 2
    BY <1>1, <1>4 DEF pi_random_r, Running
  <2>2. /\ rptr' \in 0 .. Deg(rand_type) - 1
        /\ fptr' = Slot(Deg(rand_type), rptr', Sep(rand_type))
        /\ rptr' = drawn'[state] % Deg(rand_type)
        /\ arr' \in [Array -> [Slots -> 0 .. WORD - 1]]
        /\ drawn' \in [Array -> Nat] /\ fptr' \in Nat /\ rptr' \in Nat
        /\ \A a \in Array : a # state => drawn'[a] = drawn[a]
    BY <1>0, <1>1, <2>1, AdvanceStep
  <2>3. result' \in Nat
    <3>1. sum \in 0 .. WORD - 1 /\ WORD \in Nat
      BY <1>0, <2>1, SumWord, ArithAssumption
    <3> QED BY <2>1, <3>1
  <2>4. RndTypeOK'
    BY <1>0, <1>1, <1>2, <2>2, <2>3 DEF RndTypeOK
  <2>5. PointersApart' /\ InUseInv' /\ LoopInv'
    BY <1>0, <1>1, <2>1, <2>2 DEF PointersApart, InUseInv, LoopInv, Running
  <2>6. SavedInv'
    BY <1>0, <1>1, <2>2, SavedKept
  <2> QED BY <2>4, <2>5, <2>6 DEF IInv, PlaceInv
<1> QED BY <1>3, <1>4

\* pi_srandom_r, called on its own, keeps the invariant.
LEMMA SrandomStep == ASSUME IInv, NEW seed \in Seeds, pi_srandom_r(seed) PROVE IInv'
<1>0. RndTypeOK /\ PlaceInv /\ LoopInv /\ InUseInv /\ SavedInv /\ PointersApart
  BY DEF IInv, PlaceInv
<1>1. /\ pc = "idle" /\ state # NONE /\ seeds < MaxSeeds /\ seeds' = seeds + 1
      /\ UNCHANGED <<hdr, rand_type, state, fptr, rptr, pin, drawn, calls>>
      /\ SeedFirst(seed, state, rand_type, "idle")
  BY DEF pi_srandom_r, SeedCalled, buf
<1>2. state \in Array /\ seeds' \in 0 .. MaxSeeds /\ rand_type \in Type
  BY <1>0, <1>1, UseAssumption DEF RndTypeOK
<1>3. /\ arr' \in [Array -> [Slots -> 0 .. WORD - 1]]
      /\ pc' \in {"idle", "fill", "header"} /\ then' = "idle"
      /\ i' \in 0 .. NSlots /\ seedword' \in Nat /\ kc' \in Nat /\ result' \in Nat
      /\ pc' = "fill" => rand_type # 0 /\ i' \in 1 .. Deg(rand_type) /\ REM * (seedword' \div QUOT) < MODULUS
      /\ rand_type # 0 => pc' = "fill"
      /\ rand_type = 0 => pc' = "idle"
  BY <1>0, <1>1, <1>2, SeedFirstStep
<1>4. RndTypeOK'
  BY <1>0, <1>1, <1>2, <1>3 DEF RndTypeOK
<1>5. LoopInv' /\ PointersApart' /\ InUseInv'
  BY <1>0, <1>1, <1>3 DEF LoopInv, PointersApart, InUseInv, Running
<1>6. SavedInv'
  BY <1>0, <1>1, SavedKept
<1> QED BY <1>4, <1>5, <1>6 DEF IInv, PlaceInv

\* A turn of the seeding loop keeps the invariant and multiplies the word modulo the prime.
LEMMA FillStep == ASSUME IInv, SeedFill PROVE IInv' /\ seedword' = (MULT * seedword) % MODULUS
<1>0. RndTypeOK /\ PlaceInv /\ LoopInv /\ InUseInv /\ SavedInv /\ PointersApart
  BY DEF IInv, PlaceInv
<1>1. /\ pc = "fill" /\ i < Deg(rand_type) /\ seedword' = Schrage(seedword) /\ i' = i + 1
      /\ arr' = [arr EXCEPT ![state][i] = seedword' % WORD]
      /\ UNCHANGED <<hdr, rand_type, state, fptr, rptr, pin, result, pc, then, kc, seeds, calls, drawn>>
  BY DEF SeedFill, buf
<1>2. /\ state \in Array /\ rand_type \in Type \ {0} /\ i \in 1 .. Deg(rand_type)
      /\ REM * (seedword \div QUOT) < MODULUS /\ seedword \in Nat
  BY <1>0, <1>1 DEF LoopInv, RndTypeOK
<1>3. Deg(rand_type) \in Nat /\ Deg(rand_type) <= NSlots /\ NSlots \in Nat
  BY <1>2, TypeFacts
<1>4. i \in Slots /\ i' \in 1 .. Deg(rand_type) /\ i' \in 0 .. NSlots
  BY <1>1, <1>2, <1>3 DEF Slots
<1>5. seedword' \in 0 .. MODULUS - 1 /\ seedword' = (MULT * seedword) % MODULUS
  BY <1>1, <1>2, SchrageRight
<1>6. REM * (seedword' \div QUOT) < MODULUS /\ seedword' \in Nat
  BY <1>5, SchrageNext, ArithAssumption
<1>7. arr' \in [Array -> [Slots -> 0 .. WORD - 1]]
  <2>1. WORD \in Nat \ {0} /\ arr \in [Array -> [Slots -> 0 .. WORD - 1]]
    BY <1>0, ArithAssumption DEF RndTypeOK
  <2>2. seedword' % WORD \in 0 .. WORD - 1
    <3>1. \A x \in Nat : x % WORD \in 0 .. WORD - 1
      BY <2>1, ModNext
    <3> QED BY <1>6, <3>1
  <2> QED BY <1>1, <1>2, <1>4, <2>1, <2>2
<1>8. RndTypeOK'
  BY <1>0, <1>1, <1>4, <1>6, <1>7 DEF RndTypeOK
<1>9. LoopInv' /\ PointersApart' /\ InUseInv'
  BY <1>0, <1>1, <1>2, <1>4, <1>6 DEF LoopInv, PointersApart, InUseInv, Running
<1>10. SavedInv'
  BY <1>0, <1>1, SavedKept
<1> QED BY <1>5, <1>8, <1>9, <1>10 DEF IInv, PlaceInv

\* Setting the two pointers after the fill keeps the invariant.
LEMMA PointersStep == ASSUME IInv, SeedPointers PROVE IInv'
<1>0. RndTypeOK /\ PlaceInv /\ LoopInv /\ InUseInv /\ SavedInv /\ PointersApart
  BY DEF IInv, PlaceInv
<1>1. /\ pc = "fill" /\ i = Deg(rand_type) /\ fptr' = Sep(rand_type) /\ rptr' = 0 /\ pin' = state
      /\ kc' = Deg(rand_type) * 10 /\ pc' = "cycle" /\ drawn' = [drawn EXCEPT ![state] = 0]
      /\ UNCHANGED <<arr, hdr, rand_type, state, result, then, i, seedword, seeds, calls>>
  BY DEF SeedPointers, table
<1>2. state \in Array /\ rand_type \in Type \ {0}
  BY <1>0, <1>1 DEF LoopInv, RndTypeOK
<1>3. Deg(rand_type) \in Nat \ {0} /\ Sep(rand_type) \in 1 .. Deg(rand_type) - 1
  BY <1>2, TypeFacts
<1>4. drawn' \in [Array -> Nat] /\ drawn'[state] = 0 /\ \A a \in Array : a # state => drawn'[a] = drawn[a]
  BY <1>0, <1>1, <1>2 DEF RndTypeOK
<1>5. rptr' \in 0 .. Deg(rand_type) - 1 /\ fptr' = Slot(Deg(rand_type), rptr', Sep(rand_type))
      /\ rptr' = drawn'[state] % Deg(rand_type) /\ fptr' \in Nat /\ kc' \in Nat
  BY <1>1, <1>3, <1>4 DEF Slot
<1>6. RndTypeOK'
  BY <1>0, <1>1, <1>4, <1>5 DEF RndTypeOK
<1>7. LoopInv' /\ PointersApart' /\ InUseInv'
  BY <1>0, <1>1, <1>2, <1>5 DEF LoopInv, PointersApart, InUseInv, Running
<1>8. SavedInv'
  BY <1>0, <1>1, <1>4, SavedKept
<1> QED BY <1>6, <1>7, <1>8 DEF IInv, PlaceInv

\* A discarded draw of the seeding keeps the invariant.
LEMMA CycleStep == ASSUME IInv, SeedCycle PROVE IInv'
<1>0. RndTypeOK /\ PlaceInv /\ LoopInv /\ InUseInv /\ SavedInv /\ PointersApart
  BY DEF IInv, PlaceInv
<1>1. /\ pc = "cycle" /\ kc > 0 /\ kc' = kc - 1 /\ Advance
      /\ UNCHANGED <<hdr, rand_type, state, pin, result, pc, then, i, seedword, seeds, calls>>
  BY DEF SeedCycle
<1>2. Running
  BY <1>0, <1>1 DEF LoopInv, Running
<1>3. /\ rptr' \in 0 .. Deg(rand_type) - 1
      /\ fptr' = Slot(Deg(rand_type), rptr', Sep(rand_type))
      /\ rptr' = drawn'[state] % Deg(rand_type)
      /\ arr' \in [Array -> [Slots -> 0 .. WORD - 1]]
      /\ drawn' \in [Array -> Nat] /\ fptr' \in Nat /\ rptr' \in Nat
      /\ \A a \in Array : a # state => drawn'[a] = drawn[a]
  BY <1>0, <1>1, <1>2, AdvanceStep
<1>4. kc' \in Nat
  BY <1>0, <1>1 DEF RndTypeOK
<1>5. RndTypeOK'
  BY <1>0, <1>1, <1>3, <1>4 DEF RndTypeOK
<1>6. LoopInv' /\ PointersApart' /\ InUseInv'
  BY <1>0, <1>1, <1>2, <1>3 DEF LoopInv, PointersApart, InUseInv, Running
<1>7. SavedInv'
  BY <1>0, <1>1, <1>3, SavedKept
<1> QED BY <1>5, <1>6, <1>7 DEF IInv, PlaceInv

\* The end of the seeding keeps the invariant.
LEMMA DoneStep == ASSUME IInv, SeedDone PROVE IInv'
<1>0. RndTypeOK /\ PlaceInv /\ LoopInv /\ InUseInv /\ SavedInv /\ PointersApart
  BY DEF IInv, PlaceInv
<1>1. /\ pc = "cycle" /\ pc' = then
      /\ UNCHANGED <<arr, hdr, rand_type, state, fptr, rptr, pin, result, then, i, seedword, kc, seeds, calls, drawn>>
  BY DEF SeedDone, table, buf
<1>2. then \in {"idle", "header"}
  BY <1>0 DEF RndTypeOK
<1>3. RndTypeOK'
  BY <1>0, <1>1, <1>2 DEF RndTypeOK
<1>4. LoopInv' /\ PointersApart' /\ InUseInv' /\ SavedInv'
  BY <1>0, <1>1, <1>2 DEF LoopInv, PointersApart, InUseInv, SavedInv, Running
<1> QED BY <1>3, <1>4 DEF IInv, PlaceInv

\* Writing the header word keeps the invariant.
LEMMA HeaderStep == ASSUME IInv, InitHeader PROVE IInv'
<1>0. RndTypeOK /\ PlaceInv /\ LoopInv /\ InUseInv /\ SavedInv /\ PointersApart
  BY DEF IInv, PlaceInv
<1>1. /\ pc = "header" /\ pc' = "idle" /\ hdr' = [hdr EXCEPT ![state] = Header]
      /\ UNCHANGED <<arr, rand_type, state, fptr, rptr, pin, result, then, i, seedword, kc, seeds, calls, drawn>>
  BY DEF InitHeader, buf
<1>2. Header \in Nat
  BY <1>0, HeaderFacts DEF RndTypeOK
<1>3. hdr' \in [Array -> Nat \cup {NONE}] /\ \A a \in Array : a # state => hdr'[a] = hdr[a]
  BY <1>0, <1>1, <1>2 DEF RndTypeOK
<1>4. RndTypeOK'
  BY <1>0, <1>1, <1>3 DEF RndTypeOK
<1>5. LoopInv' /\ PointersApart' /\ InUseInv'
  BY <1>0, <1>1 DEF LoopInv, PointersApart, InUseInv, Running
<1>6. SavedInv'
  BY <1>0, <1>1, <1>3 DEF SavedInv
<1> QED BY <1>4, <1>5, <1>6 DEF IInv, PlaceInv

\* pi_initstate_r leaves the array in use behind with a header that is right, as
\* its caller is careful.
LEMMA InitstateStep ==
  ASSUME IInv, Careful, NEW a \in Array, NEW n \in Sizes, NEW seed \in Seeds, pi_initstate_r(seed, a, n)
  PROVE  IInv'
<1> DEFINE t == TypeFor(n)
<1>0. RndTypeOK /\ PlaceInv /\ LoopInv /\ InUseInv /\ SavedInv /\ PointersApart
  BY DEF IInv, PlaceInv
<1>1. /\ pc = "idle" /\ seeds < MaxSeeds /\ seeds' = seeds + 1
      /\ state \notin {NONE, a} => hdr[state] = Header
      /\ rand_type' = t /\ state' = a /\ SeedFirst(seed, a, t, "header")
      /\ UNCHANGED <<hdr, fptr, rptr, pin, drawn, calls>>
  BY DEF pi_initstate_r, SeedCalled
<1>2. t \in Type /\ seeds' \in 0 .. MaxSeeds
  <2>1. t \in {0, 1, 2, 3, 4}
    <3>1. n < 32 \/ n \in 32 .. 63 \/ n \in 64 .. 127 \/ n \in 128 .. 255 \/ (~(n < 32) /\ n \notin 32 .. 63 /\ n \notin 64 .. 127 /\ n \notin 128 .. 255)
      OBVIOUS
    <3>2. n \in Nat
      BY ArithAssumption
    <3> QED BY <3>1, <3>2 DEF TypeFor
  <2>2. seeds' \in 0 .. MaxSeeds
    BY <1>0, <1>1, UseAssumption DEF RndTypeOK
  <2> QED BY <2>1, <2>2, TypeFacts
<1> HIDE DEF t
<1>3. /\ arr' \in [Array -> [Slots -> 0 .. WORD - 1]]
      /\ pc' \in {"idle", "fill", "header"} /\ then' = "header"
      /\ i' \in 0 .. NSlots /\ seedword' \in Nat /\ kc' \in Nat /\ result' \in Nat
      /\ pc' = "fill" => t # 0 /\ i' \in 1 .. Deg(t) /\ REM * (seedword' \div QUOT) < MODULUS
      /\ t # 0 => pc' = "fill"
      /\ t = 0 => pc' = "header"
  BY <1>0, <1>1, <1>2, SeedFirstStep
<1>4. RndTypeOK'
  BY <1>0, <1>1, <1>2, <1>3 DEF RndTypeOK
<1>5. LoopInv' /\ PointersApart' /\ InUseInv'
  <2>1. state' # NONE
    BY <1>1, UseAssumption
  <2>2. pc' # "cycle" /\ (pc' = "fill" \/ t = 0)
    BY <1>3
  <2>3. ~Running'
    BY <1>1, <2>2 DEF Running
  <2> QED BY <1>1, <1>3, <2>1, <2>2, <2>3 DEF LoopInv, PointersApart, InUseInv
<1>6. SavedInv'
  <2> SUFFICES ASSUME NEW b \in Array, b # a, hdr[b] # NONE, hdr[b] % MAX_TYPES # 0
               PROVE  hdr[b] \div MAX_TYPES = drawn[b] % Deg(hdr[b] % MAX_TYPES)
    BY <1>1 DEF SavedInv
  <2>1. CASE b # state
    BY <1>0, <2>1 DEF SavedInv
  <2>2. CASE b = state
    <3>1. state # NONE /\ hdr[b] = Header
      BY <1>1, <2>2, UseAssumption
    <3>2. rand_type \in Type /\ rptr \in Nat
      BY <1>0 DEF RndTypeOK
    <3>3. Header % MAX_TYPES = rand_type /\ (rand_type # 0 => Header \div MAX_TYPES = rptr)
      BY <3>2, HeaderFacts
    <3>4. Running
      BY <1>1, <3>1, <3>3 DEF Running
    <3> QED BY <1>0, <2>2, <3>1, <3>3, <3>4 DEF InUseInv
  <2> QED BY <2>1, <2>2
<1> QED BY <1>4, <1>5, <1>6 DEF IInv, PlaceInv

\* pi_setstate_r saves the place of one array and takes up that of another, or of
\* the same.
LEMMA SetstateStep == ASSUME IInv, NEW a \in Array, pi_setstate_r(a) PROVE IInv'
<1> DEFINE t == hdr'[a] % MAX_TYPES
           rear == hdr'[a] \div MAX_TYPES
<1>0. RndTypeOK /\ PlaceInv /\ LoopInv /\ InUseInv /\ SavedInv /\ PointersApart
  BY DEF IInv, PlaceInv
<1>1. /\ pc = "idle" /\ state # NONE /\ hdr[a] # NONE /\ calls < MaxCalls /\ calls' = calls + 1
      /\ hdr' = [hdr EXCEPT ![state] = Header]
      /\ rand_type' = t /\ state' = a
      /\ t = 0 => UNCHANGED <<fptr, rptr, pin>>
      /\ t # 0 => rptr' = rear /\ pin' = a /\ fptr' = (rear + Sep(t)) % Deg(t)
      /\ UNCHANGED <<arr, result, pc, then, i, seedword, kc, drawn, seeds>>
  BY DEF pi_setstate_r, Called, loop
<1>2. state \in Array /\ calls' \in 0 .. MaxCalls /\ rand_type \in Type /\ rptr \in Nat
  BY <1>0, <1>1, UseAssumption DEF RndTypeOK
<1>3. Header \in Nat /\ Header % MAX_TYPES = rand_type /\ (rand_type # 0 => Header \div MAX_TYPES = rptr)
  BY <1>2, HeaderFacts
<1>4. /\ hdr' \in [Array -> Nat \cup {NONE}] /\ hdr'[state] = Header
      /\ \A b \in Array : b # state => hdr'[b] = hdr[b]
  BY <1>0, <1>1, <1>2, <1>3 DEF RndTypeOK
<1>5. \A b \in Array : hdr'[b] # NONE /\ hdr'[b] % MAX_TYPES # 0 =>
        hdr'[b] \div MAX_TYPES = drawn[b] % Deg(hdr'[b] % MAX_TYPES)
  <2> TAKE b \in Array
  <2>1. CASE b = state
    <3>1. rand_type # 0 => Running
      BY <1>1 DEF Running
    <3> QED BY <1>0, <1>3, <1>4, <2>1, <3>1 DEF InUseInv
  <2>2. CASE b # state
    BY <1>0, <1>4, <2>2 DEF SavedInv
  <2> QED BY <2>1, <2>2
<1>6. hdr'[a] \in Nat /\ t \in Type /\ hdr'[a] # NONE
  <2>1. hdr'[a] \in Nat
    BY <1>1, <1>3, <1>4
  <2>2. NONE \notin Nat
    BY UseAssumption
  <2> QED BY <2>1, <2>2, HeaderType
<1> HIDE DEF t, rear
<1>7. t # 0 => /\ rear = drawn[a] % Deg(t) /\ rear \in 0 .. Deg(t) - 1
               /\ fptr' = Slot(Deg(t), rear, Sep(t)) /\ fptr' \in Nat /\ rear \in Nat
  <2> HAVE t # 0
  <2>1. Deg(t) \in Nat \ {0} /\ Sep(t) \in 0 .. Deg(t) - 1
    <3>1. Deg(t) \in Nat \ {0} /\ Sep(t) \in 1 .. Deg(t) - 1
      BY <1>6, TypeFacts
    <3> QED BY <3>1
  <2>2. rear = drawn[a] % Deg(t)
    BY <1>5, <1>6 DEF t, rear
  <2>3. drawn[a] \in Nat
    BY <1>0 DEF RndTypeOK
  <2>4. rear \in 0 .. Deg(t) - 1
    BY <2>1, <2>2, <2>3, ModNext
  <2>5. fptr' = Slot(Deg(t), rear, Sep(t))
    BY <1>1, <2>1, <2>4, ModOnce
  <2>6. fptr' \in 0 .. Deg(t) - 1
    BY <2>1, <2>4, <2>5, SlotIn
  <2>7. fptr' \in Nat /\ rear \in Nat
    BY <2>1, <2>4, <2>6
  <2> QED BY <2>2, <2>4, <2>5, <2>7
<1>8. RndTypeOK'
  <2>1. fptr' \in Nat /\ rptr' \in Nat /\ pin' \in Array \cup {NONE}
    BY <1>0, <1>1, <1>7 DEF RndTypeOK
  <2> QED BY <1>0, <1>1, <1>2, <1>4, <1>6, <2>1 DEF RndTypeOK
<1>9. LoopInv' /\ PointersApart' /\ InUseInv'
  BY <1>0, <1>1, <1>7, UseAssumption DEF LoopInv, PointersApart, InUseInv, Running
<1>10. SavedInv'
  BY <1>1, <1>5 DEF SavedInv
<1> QED BY <1>8, <1>9, <1>10 DEF IInv, PlaceInv

\* Every step of a careful caller keeps the invariant.
LEMMA IInvStep == ASSUME IInv, Careful, [RndNext]_rndvars PROVE IInv'
<1>1. CASE UNCHANGED rndvars
  <2>1. UNCHANGED <<arr, hdr, rand_type, state, fptr, rptr, pin, result, pc, then, i, seedword, kc, seeds, calls, drawn>>
    BY <1>1 DEF rndvars, table, buf, loop
  <2> QED BY <2>1 DEF IInv, RndTypeOK, PlaceInv, LoopInv, InUseInv, SavedInv, PointersApart, Running
<1>2. CASE RndNext
  BY <1>2, RandomStep, SrandomStep, FillStep, PointersStep, CycleStep, DoneStep, HeaderStep,
     InitstateStep, SetstateStep DEF RndNext
<1> QED BY <1>1, <1>2

\* The invariant says what PositionsKept says.
LEMMA IInvRight == IInv => PositionsKept
<1> SUFFICES ASSUME IInv PROVE PositionsKept
  OBVIOUS
<1>0. RndTypeOK /\ PlaceInv /\ LoopInv /\ InUseInv /\ SavedInv /\ PointersApart
  BY DEF IInv, PlaceInv
<1>1. ResumesWhereLeft
  <2> SUFFICES ASSUME NEW a \in Array, Seeded(a), Kind(a) # 0 PROVE Rear(a) = drawn[a] % Deg(Kind(a))
    BY DEF ResumesWhereLeft
  <2>1. CASE a = state
    <3>1. Running
      BY <2>1, UseAssumption DEF Seeded, Kind, Running
    <3> QED BY <1>0, <2>1, <3>1 DEF InUseInv, Rear, Kind
  <2>2. CASE a # state
    BY <1>0, <2>2 DEF SavedInv, Seeded, Kind, Rear
  <2> QED BY <2>1, <2>2
<1> QED BY <1>0, <1>1 DEF PositionsKept

\* The invariant holds in every behaviour of a careful caller.
LEMMA CarefulInv == ASSUME Careful PROVE RndSpec => []IInv
<1>1. IInv /\ [RndNext]_rndvars => IInv'
  BY IInvStep
<1> QED BY <1>1, IInvInit, PTL DEF RndSpec

\* For any tables, sizes and seeds: the two pointers stay inside the array, the
\* separation apart, and an array taken up again by pi_setstate_r goes on where it
\* was left, if pi_initstate_r is called only when the header of the array in use
\* is up to date.
THEOREM PositionsAreKept == ASSUME Careful PROVE RndSpec => []PositionsKept
BY CarefulInv, IInvRight, PTL

\* What the seeding loop relies on, whatever the caller does with the arrays.
WordInv ==
  /\ seedword \in Nat /\ then # "fill"
  /\ pc = "fill" => REM * (seedword \div QUOT) < MODULUS

\* Every step keeps the word of the seeding loop in range, and a turn of it is the standard generator.
LEMMA WordStep ==
  ASSUME WordInv, [RndNext]_rndvars
  PROVE  WordInv' /\ (pc = "fill" /\ pc' = "fill" /\ ~UNCHANGED rndvars => seedword' = (MULT * seedword) % MODULUS)
<1>1. ASSUME NEW seed \in Seeds, NEW a, NEW t, NEW after \in {"idle", "header"}, SeedFirst(seed, a, t, after)
      PROVE  WordInv'
  <2>0. seed \in Nat /\ REM * (seed \div QUOT) < MODULUS
    BY ArithAssumption
  <2>1. (pc' = after /\ seedword' = seedword) \/ (pc' = "fill" /\ seedword' = IF seed = 0 THEN 1 ELSE seed)
    BY <1>1 DEF SeedFirst
  <2>2. then' = after
    BY <1>1 DEF SeedFirst
  <2>3. REM * (1 \div QUOT) < MODULUS
    BY SmallSeed
  <2>4. CASE pc' = after /\ seedword' = seedword
    BY <2>2, <2>4 DEF WordInv
  <2>5. CASE pc' = "fill" /\ seedword' = IF seed = 0 THEN 1 ELSE seed
    <3>1. CASE seed = 0
      BY <2>2, <2>3, <2>5, <3>1 DEF WordInv
    <3>2. CASE seed # 0
      BY <2>0, <2>2, <2>5, <3>2 DEF WordInv
    <3> QED BY <3>1, <3>2
  <2> QED BY <2>1, <2>4, <2>5
<1>2. CASE SeedFill
  <2>1. pc = "fill" /\ seedword' = Schrage(seedword) /\ UNCHANGED <<pc, then>>
    BY <1>2 DEF SeedFill
  <2>2. seedword' \in 0 .. MODULUS - 1 /\ seedword' = (MULT * seedword) % MODULUS
    BY <2>1, SchrageRight DEF WordInv
  <2>3. REM * (seedword' \div QUOT) < MODULUS /\ seedword' \in Nat
    BY <2>2, SchrageNext, ArithAssumption
  <2> QED BY <2>1, <2>2, <2>3 DEF WordInv
<1>3. ASSUME NEW seed \in Seeds, pi_srandom_r(seed) PROVE WordInv' /\ pc # "fill"
  <2>1. pc = "idle" /\ SeedFirst(seed, state, rand_type, "idle")
    BY <1>3 DEF pi_srandom_r
  <2> QED BY <1>1, <2>1
<1>4. ASSUME NEW a \in Array, NEW n \in Sizes, NEW seed \in Seeds, pi_initstate_r(seed, a, n)
      PROVE  WordInv' /\ pc # "fill"
  <2>1. pc = "idle" /\ SeedFirst(seed, a, TypeFor(n), "header")
    BY <1>4 DEF pi_initstate_r
  <2> QED BY <1>1, <2>1
<1>5. CASE SeedDone
  BY <1>5 DEF SeedDone, WordInv
<1>6. CASE SeedPointers \/ SeedCycle \/ InitHeader
  BY <1>6 DEF SeedPointers, SeedCycle, InitHeader, WordInv
<1>7. CASE pi_random_r
  BY <1>7 DEF pi_random_r, loop, WordInv
<1>8. ASSUME NEW a \in Array, pi_setstate_r(a) PROVE WordInv' /\ pc # "fill"
  BY <1>8 DEF pi_setstate_r, loop, WordInv
<1>9. CASE UNCHANGED rndvars
  BY <1>9 DEF rndvars, loop, WordInv
<1>10. SeedDone \/ SeedPointers \/ SeedCycle \/ InitHeader \/ pi_random_r => pc # "fill" \/ pc' # "fill"
  BY DEF SeedDone, SeedPointers, SeedCycle, InitHeader, pi_random_r
<1>11. SeedFill => seedword' = (MULT * seedword) % MODULUS
  <2> HAVE SeedFill
  <2>1. pc = "fill" /\ seedword' = Schrage(seedword)
    BY DEF SeedFill
  <2> QED BY <2>1, SchrageRight DEF WordInv
<1> QED BY <1>2, <1>3, <1>4, <1>5, <1>6, <1>7, <1>8, <1>9, <1>10, <1>11 DEF RndNext

\* For any MULT and MODULUS with a small remainder, and whatever the caller does:
\* pi_srandom_r computes MULT * word % MODULUS without leaving 31 bits (Schrage),
\* for every seed.
THEOREM SeedsAreByTheBook == RndSpec => SeedsByTheBook
<1>1. RndInit => WordInv
  BY DEF RndInit, WordInv
<1>2. WordInv /\ [RndNext]_rndvars => WordInv'
  BY WordStep
<1>3. WordInv /\ [RndNext]_rndvars => [pc = "fill" /\ pc' = "fill" => seedword' = (MULT * seedword) % MODULUS]_rndvars
  BY WordStep
<1> QED BY <1>1, <1>2, <1>3, PTL DEF RndSpec, SeedsByTheBook

-----------------------------------------------------------------------------
(***************************************************************************)
(* The refinement of AbsRandom: the array read from the front pointer on is *)
(* the window of the last words drawn.                                     *)
(***************************************************************************)
Windows == [a \in Array |-> window(a)]
Kinds   == [a \in Array |-> IF Seeded(a) THEN Kind(a) ELSE 0]

\* The window of a seeded array, word by word from its front pointer.
LEMMA WindowIs ==
  ASSUME NEW a \in Array, Seeded(a), Kind(a) # 0, NEW d, d = Deg(Kind(a)), NEW f, f = Slot(d, Rear(a), Sep(Kind(a)))
  PROVE  window(a) = [k \in 1 .. d |-> arr[a][Slot(d, f, k - 1)]]
BY DEF window

\* What a generator shows depends on its own words and place.
LEMMA WindowKept ==
  ASSUME NEW a \in Array, Seeded(a)' <=> Seeded(a),
         Seeded(a) => Kind(a)' = Kind(a) /\ (Kind(a) # 0 => Rear(a)' = Rear(a)) /\ arr'[a] = arr[a]
  PROVE  window(a)' = window(a) /\ Kinds'[a] = Kinds[a]
<1>1. Kinds'[a] = Kinds[a]
  BY DEF Kinds
<1>2. ~Seeded(a) => window(a)' = window(a)
  BY DEF window
<1>3. Seeded(a) /\ Kind(a) = 0 => window(a)' = window(a)
  BY DEF window
<1>4. Seeded(a) /\ Kind(a) # 0 => window(a)' = window(a)
  BY DEF window
<1> QED BY <1>1, <1>2, <1>3, <1>4

\* Dropping the first word of a window and adding one at its end, position by position.
LEMMA AppendTail ==
  ASSUME NEW S, NEW u \in Seq(S), NEW d \in Nat \ {0}, Len(u) = d, NEW x \in S
  PROVE  Append(Tail(u), x) = [k \in 1 .. d |-> IF k < d THEN u[k + 1] ELSE x]
<1> DEFINE v == Tail(u)
           p == Append(v, x)
           g == [k \in 1 .. d |-> IF k < d THEN u[k + 1] ELSE x]
<1>1. v \in Seq(S) /\ Len(v) = d - 1 /\ \A k \in 1 .. d - 1 : v[k] = u[k + 1]
  <2>1. u # <<>>
    BY EmptySeq
  <2> QED BY <2>1, HeadTailProperties
<1> HIDE DEF v
<1>2. /\ p \in Seq(S) /\ Len(p) = d
      /\ \A k \in 1 .. d - 1 : p[k] = v[k]
      /\ p[d] = x
  <2>1. /\ p \in Seq(S) /\ Len(p) = Len(v) + 1
        /\ \A k \in 1 .. Len(v) : p[k] = v[k]
        /\ p[Len(v) + 1] = x
    BY <1>1, AppendProperties
  <2>2. Len(v) = d - 1 /\ (d - 1) + 1 = d
    BY <1>1
  <2> QED BY <2>1, <2>2
<1>3. \A k \in 1 .. d : u[k] \in S
  BY ElementOfSeq
<1>4. g \in Seq(S) /\ Len(g) = d
  <2>1. g \in [1 .. d -> S]
    <3>1. \A k \in 1 .. d : k < d => k + 1 \in 1 .. d
      OBVIOUS
    <3> QED BY <1>3, <3>1
  <2>2. g \in Seq(S)
    BY <2>1, SeqDef
  <2>3. DOMAIN g = 1 .. d
    OBVIOUS
  <2> QED BY <2>2, <2>3, LenProperties
<1> HIDE DEF p
<1>5. \A k \in 1 .. Len(p) : p[k] = g[k]
  <2> TAKE k \in 1 .. Len(p)
  <2>0. k \in 1 .. d
    BY <1>2
  <2>1. CASE k < d
    <3>1. k \in 1 .. d - 1
      BY <2>0, <2>1
    <3> QED BY <1>1, <1>2, <2>0, <2>1, <3>1
  <2>2. CASE ~(k < d)
    <3>1. k = d
      BY <2>0, <2>2
    <3> QED BY <1>2, <2>0, <3>1
  <2> QED BY <2>1, <2>2
<1> HIDE DEF g
<1>6. p = g
  BY <1>2, <1>4, <1>5, SeqEqual
<1> QED BY <1>6 DEF p, g, v

\* Going on round a ring.
LEMMA SlotNext ==
  ASSUME NEW d \in Nat \ {0}, NEW f \in 0 .. d - 1
  PROVE  /\ \A k \in 1 .. d - 1 : Slot(d, Slot(d, f, 1), k - 1) = Slot(d, f, k) /\ Slot(d, f, k) # f
         /\ Slot(d, Slot(d, f, 1), d - 1) = f
         /\ Slot(d, f, 0) = f
<1>1. \A k \in 1 .. d - 1 : Slot(d, Slot(d, f, 1), k - 1) = Slot(d, f, k) /\ Slot(d, f, k) # f
  <2> TAKE k \in 1 .. d - 1
  <2>1. CASE f + 1 < d
    BY <2>1 DEF Slot
  <2>2. CASE f + 1 >= d
    <3>1. f = d - 1
      BY <2>2
    <3> QED BY <2>2, <3>1 DEF Slot
  <2> QED BY <2>1, <2>2
<1>2. Slot(d, Slot(d, f, 1), d - 1) = f
  <2>1. CASE f + 1 < d
    BY <2>1 DEF Slot
  <2>2. CASE f + 1 >= d
    BY <2>2 DEF Slot
  <2> QED BY <2>1, <2>2
<1> QED BY <1>1, <1>2 DEF Slot

\* The rear pointer is Deg - Sep words ahead of the front one.
LEMMA RearAhead ==
  ASSUME NEW d \in Nat \ {0}, NEW sp \in 1 .. d - 1, NEW r \in 0 .. d - 1
  PROVE  Slot(d, Slot(d, r, sp), d - sp) = r
BY DEF Slot

\* Drawing a number moves the window of the generator in use by one word.
LEMMA DrawStep == ASSUME IInv, pi_random_r PROVE Generators!Draw
<1> DEFINE a == state
           d == Deg(rand_type)
           u == window(a)
<1>0. RndTypeOK /\ PlaceInv /\ LoopInv /\ InUseInv /\ SavedInv /\ PointersApart
  BY DEF IInv, PlaceInv
<1>1. /\ pc = "idle" /\ state # NONE /\ state \in Array
      /\ UNCHANGED <<hdr, rand_type, state, pin, pc, then, i, seedword, kc>>
  BY <1>0, UseAssumption DEF pi_random_r, loop, RndTypeOK
<1>2. /\ Seeded(a) /\ Kind(a) = rand_type /\ Rear(a) = rptr
      /\ Seeded(a)' /\ Kind(a)' = rand_type /\ Rear(a)' = rptr'
  BY <1>1 DEF Seeded, Kind, Rear
<1>3. Kinds[a] = rand_type /\ Windows[a] = u
  BY <1>1, <1>2 DEF Kinds, Windows
<1>4. \A b \in Array : b # a => arr'[b] = arr[b]
  <2>1. CASE rand_type = 0
    <3>1. arr' = [arr EXCEPT ![a][0] = lcg(@)] /\ arr \in [Array -> [Slots -> 0 .. WORD - 1]]
      BY <1>0, <2>1 DEF pi_random_r, RndTypeOK
    <3> QED BY <3>1
  <2>2. CASE rand_type # 0
    <3>1. Running /\ Advance
      BY <1>1, <2>2 DEF pi_random_r, Running
    <3> QED BY <1>0, <1>1, <3>1, AdvanceStep
  <2> QED BY <2>1, <2>2
<1>5. Kinds' = Kinds /\ \A b \in Array : b # a => window(b)' = window(b)
  <2>1. \A b \in Array : b # a => window(b)' = window(b) /\ Kinds'[b] = Kinds[b]
    <3> TAKE b \in Array
    <3> HAVE b # a
    <3>1. (Seeded(b)' <=> Seeded(b)) /\ Kind(b)' = Kind(b) /\ Rear(b)' = Rear(b) /\ arr'[b] = arr[b]
      BY <1>1, <1>4 DEF Seeded, Kind, Rear
    <3> QED BY <3>1, WindowKept
  <2>2. Kinds'[a] = Kinds[a]
    BY <1>1, <1>2 DEF Kinds
  <2>3. \A b \in Array : Kinds'[b] = Kinds[b]
    BY <2>1, <2>2
  <2>4. Kinds' = [b \in Array |-> Kinds'[b]] /\ Kinds = [b \in Array |-> Kinds[b]]
    BY DEF Kinds
  <2> QED BY <2>1, <2>3, <2>4
<1>6. /\ window(a)' = Append(Tail(u), Generators!Following)
      /\ result' = IF rand_type = 0 THEN Generators!Following ELSE Generators!Following \div 2
  <2>1. CASE rand_type = 0
    <3>1. u = <<arr[a][0]>> /\ window(a)' = <<arr'[a][0]>>
      BY <1>1, <1>2, <2>1 DEF window
    <3>2. arr' = [arr EXCEPT ![a][0] = lcg(@)] /\ arr \in [Array -> [Slots -> 0 .. WORD - 1]] /\ 0 \in Slots
          /\ result' = lcg(arr[a][0])
      BY <1>0, <2>1, ArithAssumption DEF pi_random_r, RndTypeOK, Slots
    <3>3. arr'[a][0] = lcg(arr[a][0])
      BY <1>1, <3>2
    <3>4. Generators!Following = lcg(arr[a][0])
      <4>1. Generators!Following = (Windows[a][1] * (1103515245 % WORD) + 12345) % WORD
        BY <1>3, <2>1 DEF Generators!Following, Generators!t, Generators!w, Windows, Kinds
      <4>2. Windows[a][1] = arr[a][0]
        BY <1>3, <3>1
      <4> QED BY <4>1, <4>2 DEF lcg
    <3>5. Append(Tail(<<arr[a][0]>>), lcg(arr[a][0])) = <<lcg(arr[a][0])>>
      OBVIOUS
    <3> QED BY <2>1, <3>1, <3>2, <3>3, <3>4, <3>5
  <2>2. CASE rand_type # 0
    <3> DEFINE sp == Sep(rand_type)
               W == 0 .. WORD - 1
    <3>1. Running /\ Advance /\ result' = sum \div 2
      BY <1>1, <2>2 DEF pi_random_r, Running
    <3>2. /\ pin = a /\ rand_type \in Type \ {0} /\ d \in Nat \ {0} /\ sp \in 1 .. d - 1
          /\ rptr \in 0 .. d - 1 /\ fptr \in 0 .. d - 1
          /\ fptr = Slot(d, rptr, sp) /\ rptr \in Slots /\ fptr \in Slots
      BY <1>0, <3>1, Pointers
    <3>3. /\ rptr' = Slot(d, rptr, 1) /\ fptr' = Slot(d, fptr, 1)
          /\ fptr' = Slot(d, rptr', sp)
      BY <1>0, <1>1, <3>1, AdvanceStep
    <3>4. arr' = [arr EXCEPT ![a][fptr] = sum] /\ sum \in W /\ arr[a] \in [Slots -> W]
          /\ arr \in [Array -> [Slots -> W]]
      BY <1>0, <3>1, <3>2, SumWord DEF Advance, RndTypeOK
    <3>5. u = [k \in 1 .. d |-> arr[a][Slot(d, fptr, k - 1)]]
      BY <1>1, <1>2, <2>2, <3>2, WindowIs
    <3>6. window(a)' = [k \in 1 .. d |-> arr'[a][Slot(d, fptr', k - 1)]]
      <4>1. window(a)' = [k \in 1 .. Deg(rand_type) |->
                            arr'[a][Slot(Deg(rand_type), Slot(Deg(rand_type), rptr', Sep(rand_type)), k - 1)]]
        BY <1>1, <1>2, <2>2 DEF window
      <4> QED BY <3>3, <4>1
    <3>7. u \in Seq(W) /\ Len(u) = d
      <4>1. \A k \in 1 .. d : Slot(d, fptr, k - 1) \in Slots
        <5> TAKE k \in 1 .. d
        <5>1. k - 1 \in 0 .. d - 1
          BY <3>2
        <5>2. Slot(d, fptr, k - 1) \in 0 .. d - 1
          BY <3>2, <5>1, SlotIn
        <5>3. d <= NSlots /\ NSlots \in Nat
          BY <3>2, TypeFacts
        <5> QED BY <3>2, <5>2, <5>3 DEF Slots
      <4>2. u \in [1 .. d -> W]
        BY <3>4, <3>5, <4>1
      <4>3. u \in Seq(W)
        BY <3>2, <4>2, SeqDef
      <4>4. DOMAIN u = 1 .. d
        BY <4>2
      <4> QED BY <3>2, <4>3, <4>4, LenProperties
    <3> HIDE DEF u, d, sp, W
    <3>8. Append(Tail(u), sum) = [k \in 1 .. d |-> IF k < d THEN u[k + 1] ELSE sum]
      <4>1. d \in Nat \ {0} /\ u \in Seq(W) /\ Len(u) = d /\ sum \in W
        BY <3>2, <3>4, <3>7
      <4> QED BY <4>1, AppendTail
    <3>9. \A k \in 1 .. d : arr'[a][Slot(d, fptr', k - 1)] = IF k < d THEN u[k + 1] ELSE sum
      <4> TAKE k \in 1 .. d
      <4>1. CASE k < d
        <5>1. k \in 1 .. d - 1 /\ k + 1 \in 1 .. d /\ (k + 1) - 1 = k
          BY <3>2, <4>1
        <5>2. Slot(d, fptr', k - 1) = Slot(d, fptr, k) /\ Slot(d, fptr, k) # fptr
          BY <3>2, <3>3, <5>1, SlotNext
        <5>3. arr'[a][Slot(d, fptr, k)] = arr[a][Slot(d, fptr, k)]
          BY <1>1, <3>4, <5>2
        <5>4. u[k + 1] = arr[a][Slot(d, fptr, k)]
          BY <3>5, <5>1
        <5> QED BY <4>1, <5>2, <5>3, <5>4
      <4>2. CASE ~(k < d)
        <5>1. k = d
          BY <3>2, <4>2
        <5>2. Slot(d, fptr', k - 1) = fptr
          BY <3>2, <3>3, <5>1, SlotNext
        <5>3. arr'[a][fptr] = sum
          BY <1>1, <3>2, <3>4
        <5> QED BY <4>2, <5>2, <5>3
      <4> QED BY <4>1, <4>2
    <3>10. window(a)' = Append(Tail(u), sum)
      BY <3>6, <3>8, <3>9
    <3>11. Generators!Following = sum
      <4>1. Generators!Following = (Windows[a][1] + Windows[a][Deg(rand_type) - Sep(rand_type) + 1]) % WORD
        BY <1>3, <2>2 DEF Generators!Following, Generators!t, Generators!w, Windows, Kinds, Deg, Sep
      <4>2. 1 \in 1 .. d /\ d - sp + 1 \in 1 .. d /\ (d - sp + 1) - 1 = d - sp /\ 1 - 1 = 0
        BY <3>2
      <4>3. u[1] = arr[a][fptr]
        <5>1. Slot(d, fptr, 0) = fptr
          BY <3>2, SlotNext
        <5>2. u[1] = arr[a][Slot(d, fptr, 1 - 1)]
          BY <3>5, <4>2
        <5> QED BY <4>2, <5>1, <5>2
      <4>4. u[d - sp + 1] = arr[a][rptr]
        BY <3>2, <3>5, <4>2, RearAhead
      <4>5. Generators!Following = (u[1] + u[d - sp + 1]) % WORD
        BY <1>3, <4>1 DEF d, sp
      <4> QED BY <3>2, <4>3, <4>4, <4>5 DEF sum
    <3> QED BY <2>2, <3>1, <3>10, <3>11
  <2> QED BY <2>1, <2>2
<1>7. Windows' = [Windows EXCEPT ![a] = Append(Tail(Windows[a]), Generators!Following)]
  <2>1. Windows = [b \in Array |-> window(b)] /\ Windows' = [b \in Array |-> window(b)']
    BY DEF Windows
  <2> QED BY <1>1, <1>3, <1>5, <1>6, <2>1
<1> HIDE DEF u, a
<1>8. Generators!w = Windows[state] /\ Generators!t = Kinds[state]
  BY DEF Generators!w, Generators!t, Windows, Kinds
<1>9. Windows' = [Windows EXCEPT ![state] = Append(Tail(Generators!w), Generators!Following)]
      /\ result' = (IF Generators!t = 0 THEN Generators!Following ELSE Generators!Following \div 2)
      /\ UNCHANGED <<state, pc, Kinds>> /\ state # NONE /\ pc = "idle"
  BY <1>1, <1>3, <1>5, <1>6, <1>7, <1>8 DEF a
<1> QED BY <1>9 DEF Generators!Draw, Windows, Kinds

\* A step that leaves the other arrays alone leaves their windows and kinds.
LEMMA WindowsKept ==
  ASSUME NEW B, \A b \in Array \ B : window(b)' = window(b) /\ Kinds'[b] = Kinds[b]
  PROVE  /\ \A b \in Array \ B : Windows'[b] = Windows[b] /\ Kinds'[b] = Kinds[b]
         /\ B = {} => Windows' = Windows /\ Kinds' = Kinds
<1>1. Windows = [b \in Array |-> window(b)] /\ Windows' = [b \in Array |-> window(b)']
  BY DEF Windows
<1>2. Kinds = [b \in Array |-> Kinds[b]] /\ Kinds' = [b \in Array |-> Kinds'[b]]
  BY DEF Kinds
<1> QED BY <1>1, <1>2

\* A step of the seeding changes the array being seeded, and no other.
LEMMA SeedingStep ==
  ASSUME pc # "idle", state \in Array, UNCHANGED <<state, result>>,
         \A b \in Array \ {state} : arr'[b] = arr[b] /\ hdr'[b] = hdr[b]
  PROVE  Generators!Seed
<1>1. \A b \in Array \ {state} : window(b)' = window(b) /\ Kinds'[b] = Kinds[b]
  <2> TAKE b \in Array \ {state}
  <2>1. (Seeded(b)' <=> Seeded(b)) /\ Kind(b)' = Kind(b) /\ Rear(b)' = Rear(b) /\ arr'[b] = arr[b]
    BY DEF Seeded, Kind, Rear
  <2> QED BY <2>1, WindowKept
<1>2. \A b \in Array \ {state'} : Windows'[b] = Windows[b] /\ Kinds'[b] = Kinds[b]
  BY <1>1, WindowsKept
<1> QED BY <1>2 DEF Generators!Seed, Windows, Kinds

\* pi_srandom_r seeds an abstract generator.
LEMMA SrandomSeeds == ASSUME IInv, NEW seed \in Seeds, pi_srandom_r(seed) PROVE Generators!Seed \/ Generators!SeedAtOnce
<1>0. RndTypeOK
  BY DEF IInv
<1>1. /\ pc = "idle" /\ state # NONE /\ UNCHANGED <<hdr, rand_type, state, fptr, rptr, pin, drawn>>
      /\ SeedFirst(seed, state, rand_type, "idle")
  BY DEF pi_srandom_r, buf
<1>2. state \in Array /\ rand_type \in Type
  BY <1>0, <1>1 DEF RndTypeOK
<1>3. /\ arr' = [arr EXCEPT ![state][0] = (IF seed = 0 THEN 1 ELSE seed) % WORD]
      /\ \A b \in Array : b # state => arr'[b] = arr[b]
      /\ (rand_type # 0 => pc' = "fill") /\ (rand_type = 0 => pc' = "idle")
  BY <1>0, <1>1, <1>2, SeedFirstStep
<1>4. result' = result
  BY <1>1 DEF SeedFirst
<1>5. \A b \in Array \ {state} : window(b)' = window(b) /\ Kinds'[b] = Kinds[b]
  <2> TAKE b \in Array \ {state}
  <2>1. (Seeded(b)' <=> Seeded(b)) /\ Kind(b)' = Kind(b) /\ Rear(b)' = Rear(b) /\ arr'[b] = arr[b]
    BY <1>1, <1>3 DEF Seeded, Kind, Rear
  <2> QED BY <2>1, WindowKept
<1>6. \A b \in Array \ {state} : Windows'[b] = Windows[b] /\ Kinds'[b] = Kinds[b]
  BY <1>5, WindowsKept
<1>7. CASE rand_type # 0
  <2>1. pc' # "idle" /\ pc = "idle" /\ state' \in Array /\ state' = state
    BY <1>1, <1>2, <1>3, <1>7
  <2> QED BY <1>4, <1>6, <2>1 DEF Generators!Seed, Windows, Kinds
<1>8. CASE rand_type = 0
  <2> DEFINE x == (IF seed = 0 THEN 1 ELSE seed) % WORD
  <2>1. x \in 0 .. WORD - 1
    <3>1. \A m \in Nat : m % WORD \in 0 .. WORD - 1
      BY ModNext, ArithAssumption
    <3>2. seed \in Nat
      BY ArithAssumption
    <3> QED BY <3>1, <3>2
  <2> HIDE DEF x
  <2>2. arr'[state][0] = x
    <3>1. arr \in [Array -> [Slots -> 0 .. WORD - 1]]
      BY <1>0 DEF RndTypeOK
    <3>2. 0 \in Slots
      <4>1. NSlots \in Nat \ {0}
        BY ArithAssumption
      <4> QED BY <4>1 DEF Slots
    <3> QED BY <1>2, <1>3, <3>1, <3>2 DEF x
  <2>3. pc' = "idle" /\ Seeded(state) /\ Kind(state) = 0 /\ Seeded(state)' /\ Kind(state)' = 0
    BY <1>1, <1>3, <1>8 DEF Seeded, Kind
  <2>4. window(state)' = <<x>> /\ Kinds'[state] = 0 /\ Kinds[state] = 0
    BY <1>1, <1>2, <2>2, <2>3 DEF window, Kinds
  <2>5. Windows' = [Windows EXCEPT ![state] = <<x>>] /\ Kinds' = Kinds
    <3>1. Windows = [b \in Array |-> window(b)] /\ Windows' = [b \in Array |-> window(b)']
      BY DEF Windows
    <3>2. Kinds = [b \in Array |-> Kinds[b]] /\ Kinds' = [b \in Array |-> Kinds'[b]]
      BY DEF Kinds
    <3>3. \A b \in Array : Kinds'[b] = Kinds[b]
      BY <1>6, <2>4
    <3>4. \A b \in Array : window(b)' = IF b = state THEN <<x>> ELSE window(b)
      BY <1>1, <1>5, <2>4
    <3>5. Windows' = [Windows EXCEPT ![state] = <<x>>]
      BY <3>1, <3>4
    <3> QED BY <3>2, <3>3, <3>5
  <2>6. Generators!t = Kinds[state]
    BY DEF Generators!t, Kinds
  <2> QED BY <1>1, <1>4, <2>1, <2>3, <2>4, <2>5, <2>6 DEF Generators!SeedAtOnce, Windows, Kinds
<1> QED BY <1>7, <1>8

\* A generator left behind with a header that is right shows what it showed.
LEMMA LeftBehind ==
  ASSUME RndTypeOK, pc = "idle", NEW b \in Array, b = state, state' # b, hdr'[b] = Header, arr'[b] = arr[b]
  PROVE  window(b)' = window(b) /\ Kinds'[b] = Kinds[b]
<1>1. Header \in Nat /\ Header % MAX_TYPES = rand_type /\ (rand_type # 0 => Header \div MAX_TYPES = rptr)
  BY HeaderFacts DEF RndTypeOK
<1>2. Seeded(b) /\ Kind(b) = rand_type /\ Rear(b) = rptr
  BY DEF Seeded, Kind, Rear
<1>3. Header # NONE
  BY <1>1, UseAssumption
<1>4. Seeded(b)' /\ Kind(b)' = rand_type /\ (rand_type # 0 => Rear(b)' = rptr)
  BY <1>1, <1>3 DEF Seeded, Kind, Rear
<1> QED BY <1>2, <1>4, WindowKept

\* So does pi_initstate_r.
LEMMA InitstateSeeds ==
  ASSUME IInv, Careful, NEW a \in Array, NEW n \in Sizes, NEW seed \in Seeds, pi_initstate_r(seed, a, n)
  PROVE  Generators!Seed
<1>0. RndTypeOK
  BY DEF IInv
<1>1. /\ pc = "idle" /\ state \notin {NONE, a} => hdr[state] = Header
      /\ rand_type' = TypeFor(n) /\ state' = a /\ SeedFirst(seed, a, TypeFor(n), "header")
      /\ UNCHANGED <<hdr, fptr, rptr, pin, drawn>>
  BY DEF pi_initstate_r
<1>2. pc = "idle" /\ pc' # "idle" /\ result' = result
  BY <1>1 DEF SeedFirst, pi_initstate_r
<1>3. \A b \in Array : b # a => arr'[b] = arr[b]
  BY <1>0, <1>1 DEF SeedFirst, RndTypeOK
<1>4. \A b \in Array \ {a} : window(b)' = window(b) /\ Kinds'[b] = Kinds[b]
  <2> TAKE b \in Array \ {a}
  <2>1. CASE b = state
    <3>1. hdr'[b] = Header /\ state' # b /\ arr'[b] = arr[b]
      BY <1>1, <1>3, <2>1, UseAssumption DEF pi_initstate_r
    <3> QED BY <1>0, <1>2, <2>1, <3>1, LeftBehind
  <2>2. CASE b # state
    <3>1. (Seeded(b)' <=> Seeded(b)) /\ Kind(b)' = Kind(b) /\ Rear(b)' = Rear(b) /\ arr'[b] = arr[b]
      BY <1>1, <1>3, <2>2 DEF Seeded, Kind, Rear
    <3> QED BY <3>1, WindowKept
  <2> QED BY <2>1, <2>2
<1>5. \A b \in Array \ {state'} : Windows'[b] = Windows[b] /\ Kinds'[b] = Kinds[b]
  BY <1>1, <1>4, WindowsKept
<1> QED BY <1>1, <1>2, <1>5 DEF Generators!Seed, Windows, Kinds

\* Taking up an array changes what none of them shows.
LEMMA SetstateSelects == ASSUME IInv, NEW a \in Array, pi_setstate_r(a) PROVE Generators!Select
<1>0. RndTypeOK
  BY DEF IInv
<1>1. /\ pc = "idle" /\ state # NONE /\ hdr[a] # NONE
      /\ hdr' = [hdr EXCEPT ![state] = Header]
      /\ rand_type' = hdr'[a] % MAX_TYPES /\ state' = a
      /\ hdr'[a] % MAX_TYPES # 0 => rptr' = hdr'[a] \div MAX_TYPES
      /\ UNCHANGED <<arr, result, pc>>
  BY DEF pi_setstate_r, loop
<1>2. state \in Array /\ rand_type \in Type /\ rptr \in Nat
  BY <1>0, <1>1 DEF RndTypeOK
<1>3. Header \in Nat /\ Header % MAX_TYPES = rand_type /\ (rand_type # 0 => Header \div MAX_TYPES = rptr)
  BY <1>2, HeaderFacts
<1>4. hdr'[state] = Header /\ \A b \in Array : b # state => hdr'[b] = hdr[b]
  BY <1>0, <1>1, <1>2 DEF RndTypeOK
<1>5. \A b \in Array : window(b)' = window(b) /\ Kinds'[b] = Kinds[b]
  <2> TAKE b \in Array
  <2>1. CASE b = state /\ b # a
    BY <1>0, <1>1, <1>4, <2>1, LeftBehind
  <2>2. CASE b = state /\ b = a
    <3>1. Seeded(b) /\ Kind(b) = rand_type /\ Rear(b) = rptr
      BY <1>1, <2>2 DEF Seeded, Kind, Rear
    <3>2. Seeded(b)' /\ Kind(b)' = rand_type /\ (rand_type # 0 => Rear(b)' = rptr)
      BY <1>1, <1>3, <1>4, <2>2 DEF Seeded, Kind, Rear
    <3> QED BY <1>1, <3>1, <3>2, WindowKept
  <2>3. CASE b # state /\ b = a
    <3>1. Seeded(b) /\ Kind(b) = hdr[b] % MAX_TYPES /\ Rear(b) = hdr[b] \div MAX_TYPES
      BY <1>1, <2>3 DEF Seeded, Kind, Rear
    <3>2. Seeded(b)' /\ Kind(b)' = Kind(b) /\ (Kind(b) # 0 => Rear(b)' = Rear(b))
      BY <1>1, <1>4, <2>3, <3>1 DEF Seeded, Kind, Rear
    <3> QED BY <1>1, <3>1, <3>2, WindowKept
  <2>4. CASE b # state /\ b # a
    <3>1. (Seeded(b)' <=> Seeded(b)) /\ Kind(b)' = Kind(b) /\ Rear(b)' = Rear(b)
      BY <1>1, <1>4, <2>4 DEF Seeded, Kind, Rear
    <3> QED BY <1>1, <3>1, WindowKept
  <2> QED BY <2>1, <2>2, <2>3, <2>4
<1>6. Windows' = Windows /\ Kinds' = Kinds
  BY <1>5, WindowsKept
<1> QED BY <1>1, <1>6 DEF Generators!Select, Windows, Kinds

\* The initial states are initial states of the abstract generators.
LEMMA GeneratorInit == RndInit => Generators!GenInit
<1> SUFFICES ASSUME RndInit PROVE Generators!GenInit
  OBVIOUS
<1>1. \A a \in Array : ~Seeded(a)
  BY UseAssumption DEF RndInit, Seeded
<1>2. \A a \in Array : window(a) = <<>>
  BY <1>1 DEF window
<1> QED BY <1>1, <1>2 DEF RndInit, Generators!GenInit

\* Every step is a step of the abstract generators or leaves them alone.
LEMMA GeneratorStep == ASSUME IInv, Careful, [RndNext]_rndvars PROVE [Generators!GenNext]_(Generators!gvars)
<1>0. RndTypeOK /\ LoopInv
  BY DEF IInv, PlaceInv
<1>1. CASE pi_random_r
  BY <1>1, DrawStep DEF Generators!GenNext
<1>2. ASSUME NEW seed \in Seeds, pi_srandom_r(seed) PROVE Generators!GenNext
  BY <1>2, SrandomSeeds DEF Generators!GenNext
<1>3. CASE SeedFill \/ SeedPointers \/ SeedCycle \/ SeedDone \/ InitHeader
  <2>1. pc # "idle" /\ UNCHANGED <<state, result>>
    BY <1>3 DEF SeedFill, SeedPointers, SeedCycle, SeedDone, InitHeader, buf
  <2>2. state \in Array
    BY <1>0, <2>1 DEF LoopInv, RndTypeOK
  <2>3. arr \in [Array -> [Slots -> 0 .. WORD - 1]] /\ hdr \in [Array -> Nat \cup {NONE}]
    BY <1>0 DEF RndTypeOK
  <2>4. \A b \in Array \ {state} : arr'[b] = arr[b] /\ hdr'[b] = hdr[b]
    <3>1. CASE SeedFill
      BY <2>2, <2>3, <3>1 DEF SeedFill
    <3>2. CASE SeedPointers \/ SeedDone
      BY <3>2 DEF SeedPointers, SeedDone, table
    <3>3. CASE SeedCycle
      <4>1. Running /\ PointersApart
        BY <2>2, <3>3, <1>0, UseAssumption DEF SeedCycle, LoopInv, Running, IInv, PlaceInv
      <4>2. pin = state /\ arr' = [arr EXCEPT ![pin][fptr] = sum] /\ hdr' = hdr
        BY <1>0, <3>3, <4>1, Pointers DEF SeedCycle, Advance
      <4> QED BY <2>2, <2>3, <4>2
    <3>4. CASE InitHeader
      BY <2>2, <2>3, <3>4 DEF InitHeader
    <3> QED BY <1>3, <3>1, <3>2, <3>3, <3>4
  <2> QED BY <2>1, <2>2, <2>4, SeedingStep DEF Generators!GenNext
<1>4. ASSUME NEW a \in Array, NEW n \in Sizes, NEW seed \in Seeds, pi_initstate_r(seed, a, n)
      PROVE  Generators!GenNext
  BY <1>4, InitstateSeeds DEF Generators!GenNext
<1>5. ASSUME NEW a \in Array, pi_setstate_r(a) PROVE Generators!GenNext
  BY <1>5, SetstateSelects DEF Generators!GenNext
<1>6. CASE UNCHANGED rndvars
  <2>1. UNCHANGED <<arr, hdr, rand_type, state, rptr, result, pc>>
    BY <1>6 DEF rndvars, table, buf, loop
  <2>2. \A b \in Array : window(b)' = window(b) /\ Kinds'[b] = Kinds[b]
    <3> TAKE b \in Array
    <3>1. (Seeded(b)' <=> Seeded(b)) /\ Kind(b)' = Kind(b) /\ Rear(b)' = Rear(b)
      BY <2>1 DEF Seeded, Kind, Rear
    <3> QED BY <2>1, <3>1, WindowKept
  <2>3. Windows' = Windows /\ Kinds' = Kinds
    BY <2>2, WindowsKept
  <2> QED BY <2>1, <2>3 DEF Generators!gvars, Windows, Kinds
<1> QED BY <1>1, <1>2, <1>3, <1>4, <1>5, <1>6 DEF RndNext

\* For any tables, sizes and seeds the arrays are generators of their own: each
\* number is the sum of the words drawn Deg and Sep draws before from the same
\* array, whatever is drawn from the others in between, if pi_initstate_r is called
\* only when the header of the array in use is up to date.
THEOREM ArraysAreGenerators == ASSUME Careful PROVE RndSpec => ImplementsGenerators
<1>1. IInv /\ [RndNext]_rndvars => [Generators!GenNext]_(Generators!gvars)
  BY GeneratorStep
<1>2. RndSpec => Generators!GenSpec
  BY <1>1, GeneratorInit, CarefulInv, PTL DEF RndSpec, Generators!GenSpec
<1> QED BY <1>2 DEF ImplementsGenerators

=============================================================================
