--------------------------- MODULE EspLex_proofs ---------------------------
(***************************************************************************)
(* Proofs about the circular lexer, for every ring size, read size and     *)
(* nesting of checkpoints: as long as the ring has room for what is        *)
(* consumed under a checkpoint and what one lex_readin picks up            *)
(* (SafeBurst), rewinding is exact and the circular lexer implements the   *)
(* one that keeps all input.                                               *)
(***************************************************************************)
EXTENDS EspLex, TLAPS, SequenceTheorems

\* The slot k places after slot t.
Slot(t, k) == IF t + k < CQ_N THEN t + k ELSE t + k - CQ_N

\* Where the input that may be read again begins: in the stream, in the ring.
lo == IF ckpos = <<>> THEN pos ELSE ckpos[1]
lt == IF ckt = <<>> THEN tail ELSE ckt[1]

\* The ring holds every byte from the oldest checkpoint on.
StreamInv ==
  /\ lo <= pos /\ pos <= n /\ n <= arrived /\ n - lo < CQ_N
  /\ tail = Slot(lt, pos - lo) /\ head = Slot(lt, n - lo)
  /\ \A k \in 0..(n - lo - 1) : c_buf[Slot(lt, k)] = lo + k + 1

\* Checkpoints are nested, and each saved tail is where its byte is.
CkptInv ==
  /\ Len(ckt) = Len(ckpos)
  /\ \A j \in 1..Len(ckpos) : /\ lo <= ckpos[j] /\ ckpos[j] <= pos
                              /\ ckt[j] = Slot(lt, ckpos[j] - lo)
  /\ \A i \in 1..Len(ckpos) : \A j \in i..Len(ckpos) : ckpos[i] <= ckpos[j]

\* What limits the reach of a rewind.
ReachInv ==
  /\ pos - lo <= MaxSpec
  /\ pc # "run" /\ want = "getc" /\ ckpos # <<>> => pos - lo < MaxSpec
  /\ waiting + (IF pc \in {"readin", "more"} THEN nbytes ELSE 0) <= MaxBurst
  /\ pc \in {"readin", "more"} => nbytes = n - pos
  /\ pc = "more" => nbytes > 0
  /\ pc = "take" => pos < n
  /\ pc # "panic"

IInv == TypeOK /\ StreamInv /\ CkptInv /\ ReachInv

-----------------------------------------------------------------------------
\* The difference of two slots, modulo the size of the ring.
LEMMA ModDiff ==
  ASSUME NEW N \in Nat \ {0}, NEW x \in 0..N-1, NEW y \in 0..N-1
  PROVE  (x - y) % N = IF x >= y THEN x - y ELSE x - y + N
OBVIOUS

\* Moving less than once around the ring.
LEMMA ModSum ==
  ASSUME NEW N \in Nat \ {0}, NEW x \in 0..N-1, NEW k \in 0..N-1
  PROVE  (x + k) % N = IF x + k < N THEN x + k ELSE x + k - N
OBVIOUS

\* Slots and distances from the same origin.
LEMMA SlotFacts ==
  ASSUME NEW t \in 0..CQ_N-1, NEW a \in 0..CQ_N-1, NEW b \in 0..CQ_N-1
  PROVE  /\ Slot(t, a) \in 0..CQ_N-1
         /\ Slot(t, 0) = t
         /\ Slot(t, a) = Slot(t, b) => a = b
         /\ a + b < CQ_N => Slot(Slot(t, a), b) = Slot(t, a + b)
BY LexAssumption DEF Slot

\* cq_nelem is the number of bytes between the cursor and the end of input.
LEMMA NelemIs ==
  ASSUME TypeOK, StreamInv, lo \in Nat, lt \in 0..CQ_N-1
  PROVE  cq_nelem = n - pos /\ (cq_empty <=> n = pos)
<1>1. (head - tail) % CQ_N = IF head >= tail THEN head - tail ELSE head - tail + CQ_N
  BY ModDiff, LexAssumption DEF TypeOK
<1>2. n \in Nat /\ pos \in Nat /\ CQ_N \in Nat \ {0}
  BY LexAssumption DEF TypeOK
<1> QED BY <1>1, <1>2 DEF StreamInv, Slot, cq_nelem, cq_empty

\* The origin is a position and a slot.
LEMMA Origin ==
  ASSUME TypeOK, CkptInv
  PROVE  lo \in Nat /\ lt \in 0..CQ_N-1 /\ (ckt = <<>> <=> ckpos = <<>>)
<1>1. ckt = <<>> <=> Len(ckt) = 0
  BY DEF TypeOK
<1>2. ckpos = <<>> <=> Len(ckpos) = 0
  BY DEF TypeOK
<1>3. Len(ckt) = Len(ckpos) /\ Len(ckt) \in Nat
  BY DEF CkptInv, TypeOK
<1>4. CASE ckpos = <<>>
  BY <1>1, <1>2, <1>3, <1>4 DEF lo, lt, TypeOK
<1>5. CASE ckpos # <<>>
  <2>1. 1 \in 1..Len(ckpos) /\ 1 \in 1..Len(ckt)
    BY <1>1, <1>2, <1>3, <1>5
  <2>2. ckpos[1] \in Nat
    BY <2>1 DEF TypeOK
  <2>3. ckt[1] \in 0..CQ_N-1
    BY <2>1, LexAssumption DEF TypeOK
  <2> QED BY <1>1, <1>2, <1>3, <1>5, <2>2, <2>3 DEF lo, lt
<1> QED BY <1>4, <1>5

\* What one step does to the bytes already in the ring: none of those after the
\* oldest checkpoint is overwritten.
LEMMA PushKeeps ==
  ASSUME IInv, NEW k \in 1..MaxRead, k <= waiting, pc = "readin", SafeBurst
  PROVE  /\ Fits(k) /\ cq_nelem = nbytes
         /\ n + k - lo < CQ_N
         /\ (head + k) % CQ_N = Slot(lt, n + k - lo)
         /\ \A i \in 0..(n + k - lo - 1) : Pushed(k)[Slot(lt, i)] = lo + i + 1
         /\ Pushed(k) \in [0..CQ_N-1 -> Nat]
<1> USE LexAssumption
<1>1. lo \in Nat /\ lt \in 0..CQ_N-1
  BY Origin DEF IInv
<1>2. cq_nelem = n - pos
  BY <1>1, NelemIs DEF IInv
<1>3. n \in Nat /\ pos \in Nat /\ nbytes \in Nat /\ arrived \in Nat /\ k \in Nat /\ k > 0
      /\ head \in 0..CQ_N-1
  BY DEF IInv, TypeOK
<1>4. nbytes = n - pos /\ pos - lo <= MaxSpec /\ lo <= pos /\ pos <= n
      /\ arrived - n + nbytes <= MaxBurst /\ head = Slot(lt, n - lo) /\ n - lo < CQ_N
  BY DEF IInv, ReachInv, StreamInv, waiting
<1>5. n + k - lo < CQ_N
  BY <1>1, <1>3, <1>4 DEF SafeBurst, waiting
<1>6. Fits(k) /\ cq_nelem = nbytes
  BY <1>1, <1>2, <1>3, <1>4, <1>5 DEF Fits, cq_nspace
<1>7. (head + k) % CQ_N = Slot(lt, n + k - lo)
  <2>1. k \in 0..CQ_N-1
    BY <1>1, <1>3, <1>4, <1>5
  <2>2. (head + k) % CQ_N = IF head + k < CQ_N THEN head + k ELSE head + k - CQ_N
    BY <2>1, <1>3, ModSum
  <2> QED BY <2>2, <1>1, <1>3, <1>4, <1>5 DEF Slot
<1>8. ASSUME NEW i \in 0..(n + k - lo - 1)
      PROVE  Pushed(k)[Slot(lt, i)] = lo + i + 1
  <2> DEFINE s == Slot(lt, i)
  <2>1. s \in 0..CQ_N-1
    BY <1>1, <1>3, <1>5 DEF Slot
  <2>2. (s - head) % CQ_N = IF s >= head THEN s - head ELSE s - head + CQ_N
    BY <2>1, <1>3, ModDiff
  <2>3. Pushed(k)[s] = IF (s - head) % CQ_N < k THEN n + ((s - head) % CQ_N) + 1 ELSE c_buf[s]
    BY <2>1 DEF Pushed
  <2>4. CASE i < n - lo
    <3>1. ~((s - head) % CQ_N < k)
      BY <2>2, <2>4, <1>1, <1>3, <1>4, <1>5 DEF Slot
    <3>2. c_buf[s] = lo + i + 1
      BY <2>4, <1>1, <1>3 DEF IInv, StreamInv
    <3> QED BY <3>1, <3>2, <2>3
  <2>5. CASE i >= n - lo
    <3>1. (s - head) % CQ_N = i - (n - lo)
      BY <2>2, <2>5, <1>1, <1>3, <1>4, <1>5 DEF Slot
    <3> QED BY <3>1, <2>3, <2>5, <1>1, <1>3
  <2> QED BY <2>4, <2>5, <1>1, <1>3
<1>9. Pushed(k) \in [0..CQ_N-1 -> Nat]
  <2>1. ASSUME NEW i \in 0..CQ_N-1
        PROVE  (IF (i - head) % CQ_N < k THEN n + ((i - head) % CQ_N) + 1 ELSE c_buf[i]) \in Nat
    <3>1. (i - head) % CQ_N \in Nat
      BY <1>3, ModDiff
    <3> QED BY <3>1, <1>3 DEF IInv, TypeOK
  <2> QED BY <2>1 DEF Pushed
<1> QED BY <1>5, <1>6, <1>7, <1>8, <1>9
-----------------------------------------------------------------------------
\* The initial state.
LEMMA InitInv == ASSUME Init PROVE IInv
<1> USE LexAssumption
<1>1. TypeOK
  BY DEF Init, lex_init, TypeOK
<1>2. lo = 0 /\ lt = 0
  BY DEF Init, lex_init, lo, lt
<1>3. StreamInv
  BY <1>2 DEF Init, lex_init, StreamInv, Slot
<1>4. CkptInv
  BY <1>2 DEF Init, lex_init, CkptInv
<1>5. ReachInv
  BY <1>2 DEF Init, lex_init, ReachInv, waiting
<1> QED BY <1>1, <1>3, <1>4, <1>5 DEF IInv

\* Steps that leave the stream, the cursor and the checkpoints alone.
LEMMA Frame ==
  ASSUME IInv, UNCHANGED <<stream, ckt, hist>>, arrived' \in Nat, arrived' >= arrived
  PROVE  StreamInv' /\ CkptInv' /\ lo' = lo
<1>1. UNCHANGED <<c_buf, head, tail, ckt, pos, n, ckpos>>
  BY DEF stream, hist
<1>2. lo' = lo /\ lt' = lt
  BY <1>1 DEF lo, lt
<1>3. CkptInv'
  BY <1>1, <1>2 DEF IInv, CkptInv, Slot
<1>4. n <= arrived'
  BY DEF IInv, StreamInv, TypeOK
<1>5. StreamInv'
  BY <1>1, <1>2, <1>4 DEF IInv, StreamInv, Slot
<1> QED BY <1>2, <1>3, <1>5

\* A byte arrives: only the operating system's buffer grows.
LEMMA ArriveInv == ASSUME IInv, Arrive PROVE IInv'
<1> USE LexAssumption
<1>0. /\ arrived' = arrived + 1
      /\ UNCHANGED <<c_buf, head, tail, ckt, pc, want, nbytes, got, pos, n, ckpos>>
      /\ arrived \in Nat /\ n \in Nat /\ nbytes \in Nat
  BY DEF Arrive, stream, hist, IInv, TypeOK
<1>1. TypeOK'
  BY <1>0 DEF IInv, TypeOK
<1>2. StreamInv' /\ CkptInv' /\ lo' = lo
  BY <1>0, Frame DEF stream, hist
<1>3. ReachInv'
  BY <1>0, <1>2 DEF IInv, ReachInv, Arrive, waiting
<1> QED BY <1>1, <1>2, <1>3 DEF IInv

\* lex_getc and lex_peek decide whether to read in.
LEMMA CallInv == ASSUME IInv, NEW op \in {"getc", "peek"}, Call(op) PROVE IInv'
<1> USE LexAssumption
<1>0. /\ pc = "run" /\ want' = op /\ nbytes' = 0
      /\ pc' = IF cq_empty THEN "readin" ELSE "take"
      /\ UNCHANGED <<c_buf, head, tail, ckt, arrived, got, pos, n, ckpos>>
      /\ arrived \in Nat /\ n \in Nat /\ pos \in Nat
  BY DEF Call, stream, hist, IInv, TypeOK
<1>1. TypeOK'
  BY <1>0 DEF IInv, TypeOK
<1>2. StreamInv' /\ CkptInv' /\ lo' = lo
  BY <1>0, Frame DEF stream, hist
<1>3. cq_empty <=> n = pos
  BY Origin, NelemIs DEF IInv
<1>4. op = "getc" /\ ckpos # <<>> => pos - lo < MaxSpec
  BY DEF Call, lo
<1>5. ReachInv'
  BY <1>0, <1>2, <1>3, <1>4 DEF IInv, ReachInv, StreamInv, waiting
<1> QED BY <1>1, <1>2, <1>5 DEF IInv

\* lex_readin puts one read in the ring and overwrites nothing that may be reread.
LEMMA ReadinInv ==
  ASSUME IInv, SafeBurst, NEW k \in 1..MaxRead, Readin(k)
  PROVE  IInv'
<1> USE LexAssumption
<1>1. /\ Fits(k) /\ cq_nelem = nbytes
      /\ n + k - lo < CQ_N
      /\ (head + k) % CQ_N = Slot(lt, n + k - lo)
      /\ \A i \in 0..(n + k - lo - 1) : Pushed(k)[Slot(lt, i)] = lo + i + 1
      /\ Pushed(k) \in [0..CQ_N-1 -> Nat]
  BY PushKeeps DEF Readin
<1>2. /\ pc = "readin" /\ k <= waiting
      /\ c_buf' = Pushed(k) /\ head' = (head + k) % CQ_N
      /\ n' = n + k /\ nbytes' = nbytes + k /\ pc' = "more"
      /\ UNCHANGED <<tail, ckt, arrived, want, got, pos, ckpos>>
  BY <1>1 DEF Readin
<1>3. n \in Nat /\ pos \in Nat /\ nbytes \in Nat /\ arrived \in Nat /\ k \in Nat /\ k > 0
  BY DEF IInv, TypeOK
<1>4. lo' = lo /\ lt' = lt /\ lo \in Nat /\ lt \in 0..CQ_N-1
  BY <1>2, Origin DEF lo, lt, IInv
<1>5. head' \in 0..CQ_N-1
  BY <1>1, <1>2, <1>3, <1>4 DEF Slot, IInv, StreamInv
<1>6. TypeOK'
  BY <1>1, <1>2, <1>3, <1>5 DEF IInv, TypeOK
<1>7. CkptInv'
  BY <1>2, <1>4 DEF IInv, CkptInv, Slot
<1>8. StreamInv'
  <2>1. lo <= pos /\ pos <= n + k /\ n + k <= arrived
    BY <1>2, <1>3, <1>4 DEF IInv, StreamInv, waiting
  <2>2. tail = Slot(lt, pos - lo)
    BY DEF IInv, StreamInv
  <2>3. n' - lo' = n + k - lo
    BY <1>2, <1>3, <1>4
  <2>4. \A i \in 0..(n' - lo' - 1) : c_buf'[Slot(lt', i)] = lo' + i + 1
    BY <1>1, <1>2, <1>3, <1>4, <2>3
  <2>5. n' - lo' < CQ_N /\ head' = Slot(lt', n' - lo') /\ tail' = Slot(lt', pos' - lo')
    BY <1>1, <1>2, <1>4, <2>2, <2>3
  <2> QED BY <1>2, <1>4, <2>1, <2>4, <2>5 DEF StreamInv
<1>9. ReachInv'
  BY <1>2, <1>3, <1>4 DEF IInv, ReachInv, waiting
<1> QED BY <1>6, <1>7, <1>8, <1>9 DEF IInv

\* lex_readin looks for more input.
LEMMA ReadinMoreInv == ASSUME IInv, ReadinMore PROVE IInv'
<1> USE LexAssumption
<1>0. /\ pc = "more" /\ pc' = IF waiting > 0 THEN "readin" ELSE "take"
      /\ UNCHANGED <<c_buf, head, tail, ckt, arrived, want, nbytes, got, pos, n, ckpos>>
      /\ arrived \in Nat /\ n \in Nat /\ pos \in Nat /\ nbytes \in Nat
  BY DEF ReadinMore, stream, hist, IInv, TypeOK
<1>1. TypeOK'
  BY <1>0 DEF IInv, TypeOK
<1>2. StreamInv' /\ CkptInv' /\ lo' = lo
  BY <1>0, Frame DEF stream, hist
<1>3. ReachInv'
  BY <1>0, <1>2 DEF IInv, ReachInv, StreamInv, waiting
<1> QED BY <1>1, <1>2, <1>3 DEF IInv

\* The byte under the cursor.
LEMMA UnderCursor ==
  ASSUME IInv, pos < n
  PROVE  c_buf[tail] = pos + 1 /\ ~cq_empty
<1>1. lo \in Nat /\ lt \in 0..CQ_N-1 /\ pos \in Nat /\ n \in Nat
  BY Origin DEF IInv, TypeOK
<1>2. pos - lo \in 0..(n - lo - 1) /\ tail = Slot(lt, pos - lo)
  BY <1>1 DEF IInv, StreamInv
<1>3. c_buf[Slot(lt, pos - lo)] = lo + (pos - lo) + 1
  BY <1>2 DEF IInv, StreamInv
<1>4. ~cq_empty
  BY <1>1, NelemIs DEF IInv
<1> QED BY <1>1, <1>2, <1>3, <1>4

\* lex_getc advances the cursor, lex_peek does not.
LEMMA TakeInv == ASSUME IInv, Take PROVE IInv'
<1> USE LexAssumption
<1>0. pc = "take" /\ pos < n /\ ~cq_empty /\ c_buf[tail] = pos + 1
  BY UnderCursor DEF Take, IInv, ReachInv
<1>1. /\ pc' = "run" /\ got' = pos + 1
      /\ tail' = IF want = "getc" THEN (tail + 1) % CQ_N ELSE tail
      /\ pos'  = IF want = "getc" THEN pos + 1 ELSE pos
      /\ UNCHANGED <<c_buf, head, ckt, arrived, want, nbytes, n, ckpos>>
  BY <1>0 DEF Take
<1>2. pos \in Nat /\ n \in Nat /\ tail \in 0..CQ_N-1 /\ arrived \in Nat /\ nbytes \in Nat
      /\ lo \in Nat /\ lt \in 0..CQ_N-1 /\ (ckt = <<>> <=> ckpos = <<>>)
  BY Origin DEF IInv, TypeOK
<1>3. (tail + 1) % CQ_N = IF tail + 1 < CQ_N THEN tail + 1 ELSE 0
  BY <1>2
<1>4. TypeOK'
  BY <1>1, <1>2, <1>3 DEF IInv, TypeOK
<1>5. CASE want = "peek"
  <2>1. lo' = lo /\ lt' = lt
    BY <1>1, <1>5 DEF lo, lt
  <2>2. CkptInv'
    BY <1>1, <1>5, <2>1 DEF IInv, CkptInv, Slot
  <2>3. StreamInv'
    BY <1>1, <1>5, <2>1 DEF IInv, StreamInv, Slot
  <2>4. ReachInv'
    BY <1>0, <1>1, <1>2, <1>5, <2>1 DEF IInv, ReachInv, waiting
  <2> QED BY <1>4, <2>2, <2>3, <2>4 DEF IInv
<1>6. CASE want = "getc"
  <2>1. tail' = Slot(lt, pos + 1 - lo)
    BY <1>0, <1>1, <1>2, <1>3, <1>6 DEF IInv, StreamInv, Slot
  <2>2. CASE ckpos = <<>>
    <3>1. lo = pos /\ lo' = pos + 1 /\ lt = tail /\ lt' = tail'
      BY <1>1, <1>2, <1>6, <2>2 DEF lo, lt
    <3>2. CkptInv'
      BY <1>1, <2>2 DEF IInv, CkptInv
    <3>3. StreamInv'
      <4>1. lo' <= pos' /\ pos' <= n' /\ n' <= arrived' /\ n' - lo' < CQ_N
        BY <1>0, <1>1, <1>2, <1>6, <3>1 DEF IInv, StreamInv
      <4>2. tail' = Slot(lt', pos' - lo')
        BY <1>1, <1>2, <1>4, <1>6, <3>1 DEF Slot, TypeOK
      <4>3. head' = Slot(lt', n' - lo')
        BY <1>0, <1>1, <1>2, <1>3, <1>6, <3>1 DEF IInv, StreamInv, Slot
      <4>4. ASSUME NEW i \in 0..(n' - lo' - 1)
            PROVE  c_buf'[Slot(lt', i)] = lo' + i + 1
        <5>1. i + 1 \in 0..(n - lo - 1) /\ i \in Nat
          BY <1>0, <1>1, <1>2, <1>6, <3>1
        <5>2. c_buf[Slot(lt, i + 1)] = lo + (i + 1) + 1
          BY <5>1 DEF IInv, StreamInv
        <5>3. Slot(lt, i + 1) = Slot(lt', i)
          BY <5>1, <1>1, <1>2, <1>3, <1>6, <3>1 DEF Slot, IInv, StreamInv
        <5> QED BY <5>1, <5>2, <5>3, <1>1, <1>2, <3>1
      <4> QED BY <4>1, <4>2, <4>3, <4>4 DEF StreamInv, Slot
    <3>4. ReachInv'
      BY <1>0, <1>1, <1>2, <1>6, <2>2, <3>1 DEF IInv, ReachInv, waiting
    <3> QED BY <1>4, <3>2, <3>3, <3>4 DEF IInv
  <2>3. CASE ckpos # <<>>
    <3>1. lo' = lo /\ lt' = lt
      BY <1>1, <1>2, <2>3 DEF lo, lt
    <3>2. CkptInv'
      <4>1. \A j \in 1..Len(ckpos) : ckpos[j] \in Nat
        BY DEF IInv, TypeOK
      <4> QED BY <1>1, <1>2, <1>6, <3>1, <4>1 DEF IInv, CkptInv, Slot
    <3>3. StreamInv'
      BY <1>0, <1>1, <1>2, <1>6, <2>1, <3>1 DEF IInv, StreamInv, Slot
    <3>4. ReachInv'
      BY <1>0, <1>1, <1>2, <1>6, <2>3, <3>1 DEF IInv, ReachInv, waiting
    <3> QED BY <1>4, <3>2, <3>3, <3>4 DEF IInv
  <2> QED BY <2>2, <2>3
<1> QED BY <1>5, <1>6 DEF IInv, TypeOK

\* A match routine takes a checkpoint: the first one fixes the origin.
LEMMA GetCkptInv == ASSUME IInv, lex_get_ckpt PROVE IInv'
<1> USE LexAssumption
<1>0. /\ pc = "run" /\ ckt' = Append(ckt, tail) /\ ckpos' = Append(ckpos, pos)
      /\ UNCHANGED <<c_buf, head, tail, arrived, pc, want, nbytes, got, pos, n>>
  BY DEF lex_get_ckpt, stream
<1>1. /\ pos \in Nat /\ n \in Nat /\ tail \in 0..CQ_N-1 /\ arrived \in Nat /\ nbytes \in Nat
      /\ lo \in Nat /\ lt \in 0..CQ_N-1 /\ (ckt = <<>> <=> ckpos = <<>>)
      /\ ckt \in Seq(0..CQ_N-1) /\ ckpos \in Seq(Nat)
  BY Origin DEF IInv, TypeOK
<1>2. TypeOK'
  <2>1. ckt' \in Seq(0..CQ_N-1) /\ ckpos' \in Seq(Nat)
    BY <1>0, <1>1
  <2>2. TypeOK
    BY DEF IInv
  <2> QED BY <1>0, <2>1, <2>2 DEF TypeOK
<1>3. Len(ckt') = Len(ckt) + 1 /\ Len(ckpos') = Len(ckpos) + 1
      /\ Len(ckt) = Len(ckpos) /\ Len(ckpos) \in Nat
  BY <1>0, <1>1 DEF IInv, CkptInv
<1>4. /\ \A j \in 1..Len(ckpos) : ckpos'[j] = ckpos[j] /\ ckt'[j] = ckt[j]
      /\ ckpos'[Len(ckpos) + 1] = pos /\ ckt'[Len(ckpos) + 1] = tail
  BY <1>0, <1>1, <1>3
<1>5. lo' = lo /\ lt' = lt
  <2>1. ckpos' # <<>> /\ ckt' # <<>>
    BY <1>3
  <2>2. CASE ckpos = <<>>
    <3>1. Len(ckpos) = 0
      BY <2>2
    <3>2. ckpos'[1] = pos /\ ckt'[1] = tail
      BY <1>4, <3>1
    <3> QED BY <2>1, <2>2, <3>2, <1>1 DEF lo, lt
  <2>3. CASE ckpos # <<>>
    <3>1. 1 \in 1..Len(ckpos)
      BY <2>3, <1>1
    <3>2. ckpos'[1] = ckpos[1] /\ ckt'[1] = ckt[1]
      BY <1>4, <3>1
    <3> QED BY <2>1, <2>3, <3>2, <1>1 DEF lo, lt
  <2> QED BY <2>2, <2>3
<1>6. StreamInv'
  BY <1>0, <1>5 DEF IInv, StreamInv, Slot
<1>7. CkptInv'
  <2>1. \A j \in 1..Len(ckpos) : ckpos[j] \in Nat
    BY <1>1
  <2>2. ASSUME NEW j \in 1..Len(ckpos')
        PROVE  lo' <= ckpos'[j] /\ ckpos'[j] <= pos' /\ ckt'[j] = Slot(lt', ckpos'[j] - lo')
    <3>1. CASE j \in 1..Len(ckpos)
      <4>1. lo <= ckpos[j] /\ ckpos[j] <= pos /\ ckt[j] = Slot(lt, ckpos[j] - lo)
        BY <3>1 DEF IInv, CkptInv
      <4> QED BY <3>1, <4>1, <1>0, <1>4, <1>5 DEF Slot
    <3>2. CASE j = Len(ckpos) + 1
      <4>1. lo <= pos /\ tail = Slot(lt, pos - lo)
        BY DEF IInv, StreamInv
      <4>2. ckpos'[j] = pos /\ ckt'[j] = tail
        BY <3>2, <1>4
      <4>3. lo' <= pos' /\ pos <= pos' /\ tail = Slot(lt', pos - lo')
        BY <4>1, <1>0, <1>1, <1>5
      <4> QED BY <4>1, <4>2, <4>3, <1>0, <1>5
    <3> QED BY <3>1, <3>2, <1>3
  <2>3. ASSUME NEW i \in 1..Len(ckpos'), NEW j \in i..Len(ckpos')
        PROVE  ckpos'[i] <= ckpos'[j]
    <3>1. CASE j \in 1..Len(ckpos)
      <4>1. i \in 1..Len(ckpos) /\ j \in i..Len(ckpos)
        BY <3>1, <1>3
      <4>2. ckpos[i] <= ckpos[j]
        BY <4>1 DEF IInv, CkptInv
      <4> QED BY <3>1, <4>1, <4>2, <1>4
    <3>2. CASE j = Len(ckpos) + 1
      BY <3>2, <2>2, <1>0, <1>4
    <3> QED BY <3>1, <3>2, <1>3
  <2> QED BY <1>3, <2>2, <2>3 DEF CkptInv
<1>8. ReachInv'
  BY <1>0, <1>5 DEF IInv, ReachInv, waiting
<1> QED BY <1>2, <1>6, <1>7, <1>8 DEF IInv

\* A sequence without its last element.
LEMMA PopOf ==
  ASSUME NEW S, NEW s \in Seq(S), Len(s) >= 1
  PROVE  /\ Pop(s) \in Seq(S) /\ Len(Pop(s)) = Len(s) - 1
         /\ \A j \in 1..(Len(s) - 1) : Pop(s)[j] = s[j]
<1> DEFINE l == Len(s) - 1
           p == SubSeq(s, 1, l)
<1>1. l \in Nat /\ 1 \in Int /\ \A j \in 1..l : s[j] \in S
  OBVIOUS
<1> HIDE DEF l
<1>2. /\ p \in Seq(S) /\ Len(p) = IF 1 <= l THEN l - 1 + 1 ELSE 0
      /\ \A j \in 1..(l - 1 + 1) : p[j] = s[1 + j - 1]
  BY <1>1, SubSeqProperties
<1> HIDE DEF p
<1>3. Len(p) = l /\ \A j \in 1..l : p[j] = s[j]
  <2>1. \A j \in 1..l : j \in 1..(l - 1 + 1) /\ 1 + j - 1 = j
    BY <1>1
  <2>2. Len(p) = l
    BY <1>1, <1>2
  <2> QED BY <1>2, <2>1, <2>2
<1> QED BY <1>2, <1>3 DEF Pop, p, l

\* Taking the innermost checkpoint off.
LEMMA PopFacts ==
  ASSUME IInv, ckt # <<>>
  PROVE  /\ Pop(ckt) \in Seq(0..CQ_N-1) /\ Pop(ckpos) \in Seq(Nat)
         /\ Len(ckt) = Len(ckpos) /\ Len(ckpos) \in Nat /\ Len(ckpos) >= 1
         /\ Len(Pop(ckt)) = Len(ckpos) - 1 /\ Len(Pop(ckpos)) = Len(ckpos) - 1
         /\ \A j \in 1..(Len(ckpos) - 1) : Pop(ckt)[j] = ckt[j] /\ Pop(ckpos)[j] = ckpos[j]
         /\ \A j \in 1..Len(ckpos) : ckpos[j] \in Nat /\ ckt[j] \in 0..CQ_N-1
         /\ ckpos # <<>>
<1> USE LexAssumption
<1>1. ckt \in Seq(0..CQ_N-1) /\ ckpos \in Seq(Nat) /\ Len(ckt) = Len(ckpos)
  BY DEF IInv, TypeOK, CkptInv
<1>2. Len(ckt) >= 1 /\ Len(ckt) \in Nat
  BY <1>1
<1>3. ckpos # <<>>
  BY <1>1, <1>2
<1>4. \A j \in 1..Len(ckpos) : ckpos[j] \in Nat /\ ckt[j] \in 0..CQ_N-1
  BY <1>1
<1>5. /\ Pop(ckt) \in Seq(0..CQ_N-1) /\ Len(Pop(ckt)) = Len(ckpos) - 1
      /\ \A j \in 1..(Len(ckpos) - 1) : Pop(ckt)[j] = ckt[j]
  BY <1>1, <1>2, PopOf
<1>6. /\ Pop(ckpos) \in Seq(Nat) /\ Len(Pop(ckpos)) = Len(ckpos) - 1
      /\ \A j \in 1..(Len(ckpos) - 1) : Pop(ckpos)[j] = ckpos[j]
  BY <1>1, <1>2, PopOf
<1> QED BY <1>1, <1>2, <1>3, <1>4, <1>5, <1>6

\* What is left of CkptInv when the innermost checkpoint is taken off and the
\* cursor is at or after it.
LEMMA PopCkpt ==
  ASSUME IInv, ckt # <<>>, ckt' = Pop(ckt), ckpos' = Pop(ckpos), Len(ckpos) > 1,
         pos' \in Nat, ckpos[Len(ckpos)] <= pos'
  PROVE  CkptInv' /\ lo' = lo /\ lt' = lt
<1> USE PopFacts
<1>1. Len(ckpos') = Len(ckpos) - 1 /\ Len(ckt') = Len(ckpos') /\ Len(ckpos) \in Nat
  OBVIOUS
<1>2. \A j \in 1..Len(ckpos') : ckt'[j] = ckt[j] /\ ckpos'[j] = ckpos[j] /\ ckpos[j] \in Nat
  BY <1>1
<1>3. ckpos' # <<>> /\ ckt' # <<>>
  BY <1>1
<1>4. lo' = lo /\ lt' = lt
  BY <1>1, <1>2, <1>3 DEF lo, lt
<1>5. ASSUME NEW j \in 1..Len(ckpos')
      PROVE  lo' <= ckpos'[j] /\ ckpos'[j] <= pos' /\ ckt'[j] = Slot(lt', ckpos'[j] - lo')
  <2>1. j \in 1..Len(ckpos) /\ Len(ckpos) \in j..Len(ckpos)
    BY <1>1
  <2>2. lo <= ckpos[j] /\ ckt[j] = Slot(lt, ckpos[j] - lo)
    BY <2>1 DEF IInv, CkptInv
  <2>3. ckpos[j] <= ckpos[Len(ckpos)] /\ ckpos[Len(ckpos)] \in Nat
    BY <2>1 DEF IInv, CkptInv
  <2>4. ckpos'[j] = ckpos[j] /\ ckt'[j] = ckt[j] /\ ckpos[j] \in Nat
    BY <1>2
  <2>5. ckpos[j] <= pos'
    <3> DEFINE x == ckpos[j]
               y == ckpos[Len(ckpos)]
    <3>1. x \in Nat /\ y \in Nat /\ x <= y /\ y <= pos'
      BY <2>3, <2>4
    <3> HIDE DEF x, y
    <3>2. x <= pos'
      BY <3>1
    <3> QED BY <3>2 DEF x
  <2>6. Slot(lt', ckpos'[j] - lo') = Slot(lt, ckpos[j] - lo)
    BY <1>4, <2>4 DEF Slot
  <2> QED BY <1>4, <2>2, <2>4, <2>5, <2>6
<1>6. ASSUME NEW i \in 1..Len(ckpos'), NEW j \in i..Len(ckpos')
      PROVE  ckpos'[i] <= ckpos'[j]
  <2>1. i \in 1..Len(ckpos) /\ j \in i..Len(ckpos) /\ j \in 1..Len(ckpos')
    BY <1>1
  <2> QED BY <1>2, <2>1 DEF IInv, CkptInv
<1> QED BY <1>1, <1>4, <1>5, <1>6 DEF CkptInv

\* A match routine fails: the bytes it consumed are readable again.
LEMMA RestoreInv == ASSUME IInv, lex_restore_ckpt PROVE IInv'
<1> USE LexAssumption
<1> DEFINE L == Len(ckpos)
<1>0. /\ pc = "run" /\ ckt # <<>>
      /\ ckt' = Pop(ckt) /\ ckpos' = Pop(ckpos)
      /\ UNCHANGED <<c_buf, head, arrived, pc, want, nbytes, got, n>>
  BY DEF lex_restore_ckpt
<1>1. L \in 1..L /\ L \in Nat /\ ckpos[L] \in Nat /\ ckt[L] \in 0..CQ_N-1 /\ Len(ckt) = L
  BY <1>0, PopFacts
<1>2. tail' = ckt[L] /\ pos' = ckpos[L]
  BY <1>1 DEF lex_restore_ckpt
<1>3. /\ pos \in Nat /\ n \in Nat /\ arrived \in Nat /\ nbytes \in Nat
      /\ lo \in Nat /\ lt \in 0..CQ_N-1
  BY Origin DEF IInv, TypeOK
<1>4. lo <= ckpos[L] /\ ckpos[L] <= pos /\ ckt[L] = Slot(lt, ckpos[L] - lo)
  BY <1>1 DEF IInv, CkptInv
<1>5. TypeOK'
  BY <1>0, <1>1, <1>2, PopFacts DEF IInv, TypeOK
<1>6. CkptInv' /\ lo' = lo /\ lt' = lt
  <2>1. CASE L > 1
    BY <2>1, <1>0, <1>1, <1>2, PopCkpt
  <2>2. CASE L = 1
    <3>1. Len(ckpos') = 0 /\ Len(ckt') = 0 /\ ckpos' = <<>> /\ ckt' = <<>>
      BY <2>2, <1>0, PopFacts
    <3>2. CkptInv'
      BY <3>1 DEF CkptInv
    <3>3. lo = ckpos[1] /\ lt = ckt[1]
      BY <1>0, PopFacts DEF lo, lt
    <3>4. lo' = pos' /\ lt' = tail'
      BY <3>1 DEF lo, lt
    <3> QED BY <2>2, <3>2, <3>3, <3>4, <1>2
  <2> QED BY <2>1, <2>2, <1>1
<1>7. StreamInv'
  <2>1. lo <= ckpos[L] /\ ckpos[L] <= n /\ n <= arrived /\ n - lo < CQ_N /\ head = Slot(lt, n - lo)
    BY <1>1, <1>3, <1>4 DEF IInv, StreamInv
  <2>2. \A k \in 0..(n - lo - 1) : c_buf[Slot(lt, k)] = lo + k + 1
    BY DEF IInv, StreamInv
  <2> QED BY <1>0, <1>2, <1>4, <1>6, <2>1, <2>2 DEF StreamInv, Slot
<1>8. ReachInv'
  BY <1>0, <1>1, <1>2, <1>3, <1>4, <1>6 DEF IInv, ReachInv, waiting
<1> QED BY <1>5, <1>6, <1>7, <1>8 DEF IInv

\* A match routine succeeds: the outermost one frees what it consumed.
LEMMA DropInv == ASSUME IInv, lex_drop_ckpt PROVE IInv'
<1> USE LexAssumption
<1> DEFINE L == Len(ckpos)
<1>0. /\ pc = "run" /\ ckt # <<>>
      /\ ckt' = Pop(ckt) /\ ckpos' = Pop(ckpos)
      /\ UNCHANGED <<c_buf, head, tail, arrived, pc, want, nbytes, got, pos, n>>
  BY DEF lex_drop_ckpt, stream
<1>1. L \in 1..L /\ L \in Nat /\ ckpos[L] \in Nat /\ Len(ckt) = L
  BY <1>0, PopFacts
<1>2. /\ pos \in Nat /\ n \in Nat /\ arrived \in Nat /\ nbytes \in Nat /\ tail \in 0..CQ_N-1
      /\ lo \in Nat /\ lt \in 0..CQ_N-1
  BY Origin DEF IInv, TypeOK
<1>3. ckpos[L] <= pos
  BY <1>1 DEF IInv, CkptInv
<1>4. TypeOK'
  BY <1>0, PopFacts DEF IInv, TypeOK
<1>5. CASE L > 1
  <2>1. CkptInv' /\ lo' = lo /\ lt' = lt
    BY <1>0, <1>1, <1>2, <1>3, <1>5, PopCkpt
  <2>2. StreamInv'
    BY <1>0, <2>1 DEF IInv, StreamInv, Slot
  <2>3. ReachInv'
    BY <1>0, <2>1 DEF IInv, ReachInv, waiting
  <2> QED BY <1>4, <2>1, <2>2, <2>3 DEF IInv
<1>6. CASE L = 1
  <2>1. Len(ckpos') = 0 /\ Len(ckt') = 0 /\ ckpos' = <<>> /\ ckt' = <<>>
    BY <1>6, <1>0, PopFacts
  <2>2. CkptInv'
    BY <2>1 DEF CkptInv
  <2>3. lo' = pos /\ lt' = tail
    BY <2>1, <1>0 DEF lo, lt
  <2>4. /\ lo <= pos /\ pos <= n /\ n <= arrived /\ n - lo < CQ_N
        /\ tail = Slot(lt, pos - lo) /\ head = Slot(lt, n - lo)
    BY DEF IInv, StreamInv
  <2>5. StreamInv'
    <3>1. n' - lo' < CQ_N /\ lo' <= pos' /\ pos' <= n' /\ n' <= arrived'
      BY <1>0, <1>2, <2>3, <2>4
    <3>2. tail' = Slot(lt', pos' - lo') /\ head' = Slot(lt', n' - lo')
      BY <1>0, <1>2, <2>3, <2>4 DEF Slot
    <3>3. ASSUME NEW i \in 0..(n' - lo' - 1)
          PROVE  c_buf'[Slot(lt', i)] = lo' + i + 1
      <4>1. i + (pos - lo) \in 0..(n - lo - 1)
        BY <1>0, <1>2, <2>3, <2>4
      <4>2. c_buf[Slot(lt, i + (pos - lo))] = lo + (i + (pos - lo)) + 1
        BY <4>1 DEF IInv, StreamInv
      <4>3. Slot(lt', i) = Slot(lt, i + (pos - lo))
        BY <4>1, <1>2, <2>3, <2>4 DEF Slot
      <4> QED BY <4>2, <4>3, <1>0, <1>2, <2>3
    <3> QED BY <3>1, <3>2, <3>3 DEF StreamInv
  <2>6. ReachInv'
    BY <1>0, <1>2, <2>1, <2>3 DEF IInv, ReachInv, waiting
  <2> QED BY <1>4, <2>2, <2>5, <2>6 DEF IInv
<1> QED BY <1>1, <1>5, <1>6

\* Every step preserves the invariant.
LEMMA NextInv == ASSUME IInv, SafeBurst, [Next]_vars PROVE IInv'
<1>1. CASE Next
  <2>1. CASE Arrive
    BY <2>1, ArriveInv
  <2>2. CASE \E op \in {"getc", "peek"} : Call(op)
    BY <2>2, CallInv
  <2>3. CASE \E k \in 1..MaxRead : Readin(k)
    BY <2>3, ReadinInv
  <2>4. CASE ReadinMore
    BY <2>4, ReadinMoreInv
  <2>5. CASE Take
    BY <2>5, TakeInv
  <2>6. CASE lex_get_ckpt
    BY <2>6, GetCkptInv
  <2>7. CASE lex_restore_ckpt
    BY <2>7, RestoreInv
  <2>8. CASE lex_drop_ckpt
    BY <2>8, DropInv
  <2> QED BY <1>1, <2>1, <2>2, <2>3, <2>4, <2>5, <2>6, <2>7, <2>8 DEF Next
<1>2. CASE UNCHANGED vars
  <2>1. UNCHANGED <<c_buf, head, tail, ckt, arrived, pc, want, nbytes, got, pos, n, ckpos>>
    BY <1>2 DEF vars, stream, hist
  <2>2. lo' = lo /\ lt' = lt
    BY <2>1 DEF lo, lt
  <2>3. TypeOK' /\ ReachInv'
    BY <2>1, <2>2 DEF IInv, TypeOK, ReachInv, waiting
  <2>4. StreamInv' /\ CkptInv'
    BY <2>1, <2>2 DEF IInv, StreamInv, CkptInv, Slot
  <2> QED BY <2>3, <2>4 DEF IInv
<1> QED BY <1>1, <1>2

\* The inductive invariant holds in every reachable state.
THEOREM Inductive == ASSUME SafeBurst PROVE Spec => []IInv
<1>1. Init => IInv
  BY InitInv
<1>2. IInv /\ [Next]_vars => IInv'
  BY NextInv
<1> QED BY <1>1, <1>2, PTL DEF Spec

\* Whatever is read in after a checkpoint, rewinding to it makes exactly the
\* bytes that followed it readable again.
THEOREM LexRollback == ASSUME SafeBurst PROVE Spec => []RollbackExact
<1>1. IInv => RollbackExact
  <2> SUFFICES ASSUME IInv PROVE RollbackExact
    OBVIOUS
  <2>1. lo \in Nat /\ lt \in 0..CQ_N-1 /\ pos \in Nat /\ n \in Nat /\ ckpos \in Seq(Nat)
    BY Origin DEF IInv, TypeOK
  <2>2. cq_nelem = n - pos /\ (cq_empty <=> n = pos)
    BY <2>1, NelemIs DEF IInv
  <2>3. cq_empty \/ c_buf[tail] = pos + 1
    BY <2>1, <2>2, UnderCursor DEF IInv, StreamInv
  <2>4. ASSUME NEW j \in DOMAIN ckt, ckpos[j] < n
        PROVE  ckt[j] # head /\ c_buf[ckt[j]] = ckpos[j] + 1
    <3>1. j \in 1..Len(ckpos)
      BY DEF IInv, TypeOK, CkptInv
    <3>2. ckpos[j] \in Nat
      BY <3>1, <2>1
    <3>3. lo <= ckpos[j] /\ ckt[j] = Slot(lt, ckpos[j] - lo)
      BY <3>1 DEF IInv, CkptInv
    <3>4. ckpos[j] - lo \in 0..(n - lo - 1)
      BY <2>1, <2>4, <3>2, <3>3
    <3>5. c_buf[Slot(lt, ckpos[j] - lo)] = lo + (ckpos[j] - lo) + 1
      BY <3>4 DEF IInv, StreamInv
    <3>6. n - lo < CQ_N /\ head = Slot(lt, n - lo)
      BY DEF IInv, StreamInv
    <3>7. ckt[j] # head
      <4> DEFINE x == ckpos[j] - lo
                 y == n - lo
      <4>1. x \in Nat /\ y \in Nat /\ x < y /\ y < CQ_N
        BY <2>1, <2>4, <3>2, <3>3, <3>6
      <4>2. ckt[j] = Slot(lt, x) /\ head = Slot(lt, y)
        BY <3>3, <3>6
      <4> HIDE DEF x, y
      <4>3. Slot(lt, x) # Slot(lt, y)
        BY <2>1, <4>1, LexAssumption DEF Slot
      <4> QED BY <4>2, <4>3
    <3> QED BY <2>1, <3>2, <3>3, <3>5, <3>7
  <2> QED BY <2>2, <2>3, <2>4 DEF RollbackExact
<1> QED BY <1>1, Inductive, PTL

\* No read overfills the ring, no assert of the lexer fails.
THEOREM LexNoPanic == ASSUME SafeBurst PROVE Spec => []LexNeverPanics
<1>1. IInv => LexNeverPanics
  BY DEF IInv, ReachInv, LexNeverPanics
<1> QED BY <1>1, Inductive, PTL

\* Every step of the circular lexer is a step of the one that keeps all input.
LEMMA StepSimulates ==
  ASSUME IInv, SafeBurst, [Next]_vars
  PROVE  [Simple!LexNext]_(Simple!lvars)
<1> USE DEF Simple!lvars
<1>1. CASE Arrive
  BY <1>1 DEF Arrive, hist
<1>2. CASE \E op \in {"getc", "peek"} : Call(op)
  BY <1>2 DEF Call, hist
<1>3. ASSUME NEW k \in 1..MaxRead, Readin(k)
      PROVE  Simple!lex_push_n
  <2>1. Fits(k) /\ cq_nelem = nbytes
    BY <1>3, PushKeeps DEF Readin
  <2>2. n' = n + k /\ UNCHANGED <<pos, ckpos, got>> /\ n \in Nat /\ k \in Nat /\ k > 0
    BY <1>3, <2>1, LexAssumption DEF Readin, IInv, TypeOK
  <2> QED BY <2>2 DEF Simple!lex_push_n
<1>4. CASE ReadinMore
  BY <1>4 DEF ReadinMore, hist
<1>5. CASE Take
  <2>1. pos < n /\ ~cq_empty /\ c_buf[tail] = pos + 1 /\ pos \in Nat /\ n \in Nat
    BY <1>5, UnderCursor DEF Take, IInv, ReachInv, TypeOK
  <2>2. /\ got' = pos + 1 /\ pos' = IF want = "getc" THEN pos + 1 ELSE pos
        /\ UNCHANGED <<n, ckpos>>
    BY <1>5, <2>1 DEF Take
  <2> QED BY <2>1, <2>2 DEF Simple!LexNext, Simple!lex_getc, Simple!lex_peek, Simple!lex_empty
<1>6. CASE lex_get_ckpt
  BY <1>6 DEF lex_get_ckpt, Simple!LexNext, Simple!lex_get_ckpt
<1>7. CASE lex_restore_ckpt
  BY <1>7, PopFacts DEF lex_restore_ckpt, Pop, Simple!LexNext, Simple!lex_restore_ckpt
<1>8. CASE lex_drop_ckpt
  BY <1>8, PopFacts DEF lex_drop_ckpt, Pop, Simple!LexNext, Simple!lex_drop_ckpt
<1>9. CASE UNCHANGED vars
  BY <1>9 DEF vars, hist
<1> QED
  BY <1>1, <1>2, <1>3, <1>4, <1>5, <1>6, <1>7, <1>8, <1>9 DEF Next, Simple!LexNext

\* The circular lexer implements the lexer that keeps all input: lex_getc and
\* lex_peek return the same bytes, through any rewinds.
THEOREM LexRefines == ASSUME SafeBurst PROVE Spec => ImplementsSimple
<1>1. Init => Simple!LexInit
  BY DEF Init, Simple!LexInit
<1>2. IInv /\ [Next]_vars => [Simple!LexNext]_(Simple!lvars)
  BY StepSimulates
<1> QED BY <1>1, <1>2, Inductive, PTL DEF Spec, ImplementsSimple, Simple!LexSpec
=============================================================================
