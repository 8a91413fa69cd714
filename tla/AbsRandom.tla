----------------------------- MODULE AbsRandom -----------------------------
(***************************************************************************)
(* What pi-random.c promises: each array is a generator of its own.  A     *)
(* generator of type 0 is linear congruential; one of another type adds    *)
(* the word drawn Deg draws ago to the word drawn Sep draws ago.           *)
(***************************************************************************)
EXTENDS Integers, Sequences

CONSTANTS Array, NONE, Degrees, Seps, WORD

VARIABLES
  state,     \* the array in use
  seeding,   \* it is being seeded
  win,       \* the last words each generator produced, oldest first
  kind,      \* the type of each generator
  result     \* the number drawn last

gvars == <<state, seeding, win, kind, result>>

GenInit ==
  /\ state = NONE /\ seeding = FALSE /\ result = 0
  /\ win = [a \in Array |-> <<>>] /\ kind = [a \in Array |-> 0]

w == win[state]
t == kind[state]

\* The word that follows the ones in w.
Following ==
  IF t = 0 THEN (w[1] * (1103515245 % WORD) + 12345) % WORD
  ELSE (w[1] + w[Degrees[t + 1] - Seps[t + 1] + 1]) % WORD

Draw ==
  /\ state # NONE /\ ~seeding
  /\ win' = [win EXCEPT ![state] = Append(Tail(w), Following)]
  /\ result' = IF t = 0 THEN Following ELSE Following \div 2
  /\ UNCHANGED <<state, seeding, kind>>

\* Seeding may change the array being seeded, and no other.
Seed ==
  /\ seeding \/ seeding'
  /\ state' \in Array /\ (seeding => state' = state)
  /\ \A a \in Array \ {state'} : win'[a] = win[a] /\ kind'[a] = kind[a]
  /\ UNCHANGED result

\* A generator without pointers is seeded in one step.
SeedAtOnce ==
  /\ state # NONE /\ t = 0 /\ ~seeding /\ UNCHANGED seeding
  /\ \E x \in 0..WORD-1 : win' = [win EXCEPT ![state] = <<x>>]
  /\ UNCHANGED <<state, kind, result>>

Select ==
  /\ ~seeding /\ state # NONE /\ state' \in Array
  /\ UNCHANGED <<seeding, win, kind, result>>

GenNext == Draw \/ Seed \/ SeedAtOnce \/ Select

GenSpec == GenInit /\ [][GenNext]_gvars
=============================================================================
