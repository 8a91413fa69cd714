---------------------------- MODULE Serial_proofs ----------------------------
(***************************************************************************)
(* Proofs about what the programs do with the bytes of a serial line: the  *)
(* circular queue, for every ring size, byte set and number of calls, and  *)
(* the start of the boot protocol, for every size of a word and all waits. *)
(***************************************************************************)
EXTENDS CircularQ, Boot, SequenceTheorems, TLAPS

(***************************************************************************)
(* The strengthening of the safety invariants.                             *)
(***************************************************************************)

\* cq_peek_n pops and puts back, so it is sound only when nobody pushes
\* meanwhile; every other operation may run concurrently.
SafeUse == Concurrent => "peek_n" \notin ConsOps

\* Where the pushing side is, and what it may rely on there.
PushInv ==
  /\ ppc \in {"check", "store", "publish"} => todo # <<>>
  /\ ppc \in {"store", "publish"} => unread < CQ_N - 1
  /\ ppc = "publish" => c_buf[head] = Head(todo)

\* Where the popping side is, outside cq_peek_n.
PopInv ==
  /\ cpc \in {"check", "load", "advance"} => need >= 1
  /\ cpc \in {"peek_check", "restore", "assert"} => cop = "peek_n"
  /\ cpc = "advance" => out # <<>> /\ cop # "peek"
  /\ cpc \in {"check", "load"} /\ cop = "peek" => out = <<>>
  /\ cop # "peek_n" =>
       /\ cpc \in {"load", "advance"} => unread >= 1
       /\ cpc = "advance" => out[Len(out)] = sent[Len(rcvd) + 1]
       /\ cpc \in {"check", "load", "advance"} /\ cop = "pop_n_noblk" => need <= unread

\* How far cq_peek_n has moved tail.
PeekInv ==
  cop = "peek_n" =>
    /\ ~Concurrent
    /\ cpc # "idle" => sz = unread
    /\ cpc = "peek_check" => out = <<>> /\ need <= unread
    /\ cpc \in {"check", "load"} => /\ tail = Slot(saved, Len(out))
                                    /\ Len(out) + need <= unread
    /\ cpc = "advance" => /\ tail = Slot(saved, Len(out) - 1)
                          /\ Len(out) - 1 + need <= unread
    /\ cpc = "peek_check" => tail = saved

\* Only a plain cq_pop panics.
PanicInv == cpc = "panic" => cop = "pop"

\* One thread makes one call at a time.
Alone == ~Concurrent => ppc = "idle" \/ cpc = "idle"

IInv ==
  /\ TypeOK /\ InOrder /\ RingHoldsUnread /\ PeekSeesFront /\ PanicInv
  /\ PushInv /\ PopInv /\ PeekInv /\ Alone

-----------------------------------------------------------------------------
(***************************************************************************)
(* Arithmetic of the ring.                                                 *)
(***************************************************************************)

\* Adding 1 modulo the size of the ring.
LEMMA ModStep ==
  ASSUME NEW N \in Nat \ {0}, NEW x \in 0..N-1
  PROVE  (x + 1) % N = IF x + 1 < N THEN x + 1 ELSE 0
OBVIOUS

\* A multiple of the size of the ring does not change a remainder.
LEMMA ModMult ==
  ASSUME NEW N \in Nat \ {0}, NEW k \in Nat, NEW x \in 0..N-1
  PROVE  (k * N + x) % N = x
OBVIOUS

\* cq_nelem computes the distance from tail to head in unsigned arithmetic: a
\* negative difference wraps at WORD, which is harmless as CQ_N divides WORD.
LEMMA DistanceInWord ==
  ASSUME NEW N \in Nat \ {0}, NEW V \in Nat, NEW k \in 1..V, V = k * N,
         NEW h \in 0..N-1, NEW t \in 0..N-1
  PROVE  ((h - t) % V) % N = IF h >= t THEN h - t ELSE h - t + N
<1>1. V >= N
  OBVIOUS
<1>2. CASE h >= t
  <2>1. (h - t) % V = h - t
    BY <1>1, <1>2
  <2> QED BY <2>1, <1>2
<1>3. CASE h < t
  <2>1. (h - t) % V = V + h - t
    BY <1>1, <1>3
  <2>2. V + h - t = (k - 1) * N + (N + h - t)
    OBVIOUS
  <2>3. N + h - t \in 0..N-1 /\ k - 1 \in Nat
    BY <1>3
  <2>4. ((k - 1) * N + (N + h - t)) % N = N + h - t
    BY <2>3, ModMult
  <2> QED BY <2>1, <2>2, <2>4, <1>3
<1> QED BY <1>2, <1>3

\* Going one slot further round the ring.
LEMMA SlotFacts ==
  ASSUME NEW t \in 0..CQ_N-1
  PROVE  /\ \A k \in 0..CQ_N-1 : Slot(t, k) \in 0..CQ_N-1
         /\ \A k \in 0..CQ_N-2 : (Slot(t, k) + 1) % CQ_N = Slot(t, k + 1)
         /\ \A k \in 0..CQ_N-2 : Slot((t + 1) % CQ_N, k) = Slot(t, k + 1)
         /\ (Slot(t, CQ_N-1) + 1) % CQ_N = t
         /\ (t + 1) % CQ_N \in 0..CQ_N-1
<1> USE RingAssumption DEF Slot
<1>1. \A x \in 0..CQ_N-1 : (x + 1) % CQ_N = IF x + 1 < CQ_N THEN x + 1 ELSE 0
  BY ModStep
<1>2. \A k \in 0..CQ_N-1 : Slot(t, k) \in 0..CQ_N-1
  OBVIOUS
<1>3. \A k \in 0..CQ_N-2 : (Slot(t, k) + 1) % CQ_N = Slot(t, k + 1)
  BY <1>1, <1>2
<1>4. \A k \in 0..CQ_N-2 : Slot((t + 1) % CQ_N, k) = Slot(t, k + 1)
  BY <1>1
<1>5. (Slot(t, CQ_N-1) + 1) % CQ_N = t
  BY <1>1, <1>2
<1> QED BY <1>1, <1>2, <1>3, <1>4, <1>5

\* Different distances are different slots.
LEMMA SlotInjective ==
  ASSUME NEW t \in 0..CQ_N-1, NEW j \in 0..CQ_N-1, NEW k \in 0..CQ_N-1, j # k
  PROVE  Slot(t, j) # Slot(t, k)
BY RingAssumption DEF Slot

\* What the queries tell when tail is where the oldest unread byte is.
LEMMA Queries ==
  ASSUME TypeOK, unread \in 0..CQ_N-1, head = Slot(tail, unread)
  PROVE  /\ cq_empty <=> unread = 0
         /\ cq_full <=> unread = CQ_N - 1
         /\ cq_nelem = unread
<1> USE RingAssumption
<1>0. tail \in 0..CQ_N-1 /\ head \in 0..CQ_N-1
  BY DEF TypeOK
<1>1. cq_empty <=> unread = 0
  BY <1>0 DEF cq_empty, Slot
<1>2. cq_full <=> unread = CQ_N - 1
  <2>1. CASE unread = CQ_N - 1
    BY <1>0, <2>1, SlotFacts DEF cq_full
  <2>2. CASE unread < CQ_N - 1
    <3>1. (head + 1) % CQ_N = Slot(tail, unread + 1)
      BY <1>0, <2>2, SlotFacts
    <3>2. Slot(tail, unread + 1) # Slot(tail, 0)
      BY <1>0, <2>2, SlotInjective
    <3>3. Slot(tail, 0) = tail
      BY <1>0 DEF Slot
    <3> QED BY <2>2, <3>1, <3>2, <3>3 DEF cq_full
  <2> QED BY <2>1, <2>2
<1>3. cq_nelem = unread
  <2>1. PICK k \in 1..WORD : WORD = k * CQ_N
    OBVIOUS
  <2>2. cq_nelem = IF head >= tail THEN head - tail ELSE head - tail + CQ_N
    BY <1>0, <2>1, DistanceInWord DEF cq_nelem
  <2> QED BY <1>0, <2>2 DEF Slot
<1> QED BY <1>1, <1>2, <1>3
-----------------------------------------------------------------------------
(***************************************************************************)
(* The invariant is inductive: one lemma per action.                       *)
(***************************************************************************)

\* Outside the pops of cq_peek_n, tail is where the oldest unread byte is and
\* the queries count the unread bytes.
LEMMA AtFront ==
  ASSUME IInv, front = tail
  PROVE  /\ cq_empty <=> unread = 0
         /\ cq_full <=> unread = CQ_N - 1
         /\ cq_nelem = unread
BY Queries DEF IInv, RingHoldsUnread

\* While the pushing side is active cq_peek_n is not.
LEMMA PusherAtFront ==
  ASSUME IInv, ppc # "idle"
  PROVE  front = tail
BY DEF IInv, PeekInv, Alone, front

\* The number of unread bytes is a number.
LEMMA UnreadNat ==
  ASSUME IInv
  PROVE  unread \in 0..CQ_N-1 /\ front \in 0..CQ_N-1 /\ head = Slot(front, unread)
BY DEF IInv, RingHoldsUnread, TypeOK, front

\* A call of cq_push is only a change of place.
LEMMA CallPushInv ==
  ASSUME IInv, SafeUse, NEW x \in Byte, CallPush(x)
  PROVE  IInv'
<1>1. TypeOK'
  BY DEF IInv, TypeOK, CallPush, ring, cvars, AllProdOps
<1>2. InOrder' /\ RingHoldsUnread' /\ PeekSeesFront' /\ PanicInv'
  BY DEF IInv, InOrder, RingHoldsUnread, PeekSeesFront, PanicInv, unread, front, CallPush, ring, cvars
<1>3. PushInv'
  BY DEF PushInv, CallPush
<1>4. PopInv' /\ PeekInv'
  BY DEF IInv, PopInv, PeekInv, unread, CallPush, ring, cvars
<1>5. Alone'
  BY DEF Alone, CallPush, MayPush, cvars
<1> QED BY <1>1, <1>2, <1>3, <1>4, <1>5 DEF IInv

\* An accepted call of cq_push_n is only a change of place.
LEMMA CallPushNInv ==
  ASSUME IInv, SafeUse, NEW s \in Batches, CallPushN(s)
  PROVE  IInv'
<1>0. s \in Seq(Byte)
  BY UseAssumption DEF Batches
<1>1. TypeOK'
  BY <1>0 DEF IInv, TypeOK, CallPushN, ring, cvars, AllProdOps
<1>2. InOrder' /\ RingHoldsUnread' /\ PeekSeesFront' /\ PanicInv'
  BY DEF IInv, InOrder, RingHoldsUnread, PeekSeesFront, PanicInv, unread, front, CallPushN, ring, cvars
<1>3. PushInv'
  BY DEF PushInv, CallPushN
<1>4. PopInv' /\ PeekInv'
  BY DEF IInv, PopInv, PeekInv, unread, CallPushN, ring, cvars
<1>5. Alone'
  BY DEF Alone, CallPushN, MayPush, cvars
<1> QED BY <1>1, <1>2, <1>3, <1>4, <1>5 DEF IInv

\* A push that found the ring not full has room until it publishes: only the
\* popping side changes tail, and it makes more room.
LEMMA PushCheckInv ==
  ASSUME IInv, SafeUse, PushCheck
  PROVE  IInv'
<1>1. TypeOK'
  BY DEF IInv, TypeOK, PushCheck, ring, cvars
<1>2. InOrder' /\ RingHoldsUnread' /\ PeekSeesFront' /\ PanicInv'
  BY DEF IInv, InOrder, RingHoldsUnread, PeekSeesFront, PanicInv, unread, front, PushCheck, ring, cvars
<1>3. PushInv'
  <2>1. ppc = "check" /\ todo # <<>> /\ todo' = todo
    BY DEF IInv, PushInv, PushCheck
  <2>2. cq_full <=> unread = CQ_N - 1
    BY <2>1, PusherAtFront, AtFront
  <2>3. ppc' = "store" => unread' < CQ_N - 1
    BY <2>2, UnreadNat, RingAssumption DEF PushCheck, unread
  <2>4. ppc' \in {"store", "idle", "panic"}
    BY DEF PushCheck
  <2> QED BY <2>1, <2>3, <2>4 DEF PushInv
<1>4. PopInv' /\ PeekInv'
  BY DEF IInv, PopInv, PeekInv, unread, PushCheck, ring, cvars
<1>5. Alone'
  BY DEF IInv, Alone, PushCheck, cvars
<1> QED BY <1>1, <1>2, <1>3, <1>4, <1>5 DEF IInv

\* The slot a push stores to holds no unread byte.
LEMMA PushStoreInv ==
  ASSUME IInv, SafeUse, PushStore
  PROVE  IInv'
<1>0. /\ ppc = "store" /\ ppc' = "publish" /\ todo # <<>> /\ todo \in Seq(Byte)
      /\ Head(todo) \in Byte /\ unread < CQ_N - 1
  BY DEF IInv, PushInv, PushStore, TypeOK
<1>1. TypeOK'
  BY <1>0 DEF IInv, TypeOK, PushStore, cvars
<1>2. InOrder' /\ PeekSeesFront' /\ PanicInv'
  BY DEF IInv, InOrder, PeekSeesFront, PanicInv, unread, PushStore, cvars
<1>3. RingHoldsUnread'
  <2>1. unread' = unread /\ front' = front /\ head' = head
    BY DEF PushStore, unread, front, cvars
  <2>2. ASSUME NEW k \in 0..CQ_N-1, k < unread
        PROVE  c_buf'[Slot(front, k)] = sent[Len(rcvd) + k + 1]
    <3>1. Slot(front, k) # head
      BY <2>2, UnreadNat, SlotInjective
    <3>2. Slot(front, k) \in 0..CQ_N-1
      BY UnreadNat, SlotFacts
    <3>3. c_buf'[Slot(front, k)] = c_buf[Slot(front, k)]
      BY <3>1, <3>2 DEF IInv, TypeOK, PushStore
    <3> QED BY <2>2, <3>3 DEF IInv, RingHoldsUnread
  <2> QED BY <2>1, <2>2, UnreadNat DEF RingHoldsUnread, PushStore, Slot
<1>4. PushInv'
  BY <1>0 DEF IInv, PushInv, TypeOK, PushStore, unread
<1>5. PopInv' /\ PeekInv'
  BY DEF IInv, PopInv, PeekInv, unread, PushStore, cvars
<1>6. Alone'
  BY <1>0 DEF IInv, Alone, PushStore, cvars
<1> QED BY <1>1, <1>2, <1>3, <1>4, <1>5, <1>6 DEF IInv

\* Publishing makes the stored byte the newest unread one.
LEMMA PushPublishInv ==
  ASSUME IInv, SafeUse, PushPublish
  PROVE  IInv'
<1> USE RingAssumption
<1>0. /\ ppc = "publish" /\ todo # <<>> /\ todo \in Seq(Byte)
      /\ c_buf[head] = Head(todo) /\ unread < CQ_N - 1
      /\ sent \in Seq(Byte) /\ rcvd \in Seq(Byte)
  BY DEF IInv, PushInv, PushPublish, TypeOK
<1>1. Head(todo) \in Byte /\ Tail(todo) \in Seq(Byte)
  BY <1>0
<1>2. /\ sent' \in Seq(Byte) /\ Len(sent') = Len(sent) + 1
      /\ sent'[Len(sent) + 1] = Head(todo)
      /\ \A i \in 1..Len(sent) : sent'[i] = sent[i]
  BY <1>0, <1>1 DEF PushPublish
<1>3. Len(rcvd) \in Nat /\ Len(sent) \in Nat /\ rcvd' = rcvd /\ unread' = unread + 1
  BY <1>0, <1>2 DEF PushPublish, unread
<1>4. front' = front /\ front = tail
  BY <1>0, PusherAtFront DEF PushPublish, front, cvars
<1>5. head' = Slot(front, unread + 1)
  <2>1. unread \in 0..CQ_N-1 /\ front \in 0..CQ_N-1 /\ head = Slot(front, unread)
    BY UnreadNat
  <2>2. unread \in 0..CQ_N-2
    BY <1>0, <2>1
  <2>3. (Slot(front, unread) + 1) % CQ_N = Slot(front, unread + 1)
    BY <2>1, <2>2, SlotFacts
  <2>4. head' = (head + 1) % CQ_N
    BY DEF PushPublish
  <2> QED BY <2>1, <2>3, <2>4
<1>6. TypeOK'
  <2>1. unread + 1 \in 0..CQ_N-1 /\ front \in 0..CQ_N-1
    BY <1>0, UnreadNat
  <2>2. head' \in 0..CQ_N-1
    BY <1>5, <2>1, SlotFacts
  <2> QED BY <1>1, <1>2, <2>2 DEF IInv, TypeOK, PushPublish, cvars
<1>7. InOrder'
  BY <1>2, <1>3 DEF IInv, InOrder
<1>8. RingHoldsUnread'
  <2>1. ASSUME NEW k \in 0..CQ_N-1, k < unread'
        PROVE  c_buf'[Slot(front', k)] = sent'[Len(rcvd') + k + 1]
    <3>1. CASE k < unread
      <4>1. c_buf[Slot(front, k)] = sent[Len(rcvd) + k + 1]
        BY <3>1 DEF IInv, RingHoldsUnread
      <4>2. Len(rcvd) + k + 1 \in 1..Len(sent)
        BY <3>1, <1>3 DEF unread
      <4> QED BY <4>1, <4>2, <1>2, <1>3, <1>4 DEF PushPublish
    <3>2. CASE k = unread
      <4>1. Len(rcvd) + k + 1 = Len(sent) + 1
        BY <3>2, <1>3 DEF unread
      <4> QED BY <3>2, <4>1, <1>0, <1>2, <1>3, <1>4, UnreadNat DEF PushPublish
    <3> QED BY <2>1, <3>1, <3>2, <1>3, UnreadNat
  <2>2. unread' \in 0..CQ_N-1 /\ head' = Slot(front', unread')
    BY <1>0, <1>3, <1>4, <1>5, UnreadNat
  <2> QED BY <2>1, <2>2 DEF RingHoldsUnread, Slot
<1>9. PeekSeesFront'
  <2>1. ASSUME cop \in {"peek", "peek_n"}, NEW i \in 1..Len(out)
        PROVE  out[i] = sent'[Len(rcvd) + i]
    <3>1. i <= unread /\ out[i] = sent[Len(rcvd) + i]
      BY <2>1, UnreadNat DEF IInv, PeekSeesFront, TypeOK
    <3>2. Len(rcvd) + i \in 1..Len(sent)
      BY <3>1, <1>3 DEF unread
    <3> QED BY <3>1, <3>2, <1>2
  <2>2. cop \in {"peek", "peek_n"} => Len(out) <= unread'
    BY <1>3, UnreadNat DEF IInv, PeekSeesFront, TypeOK
  <2> QED BY <2>1, <2>2, <1>3 DEF PeekSeesFront, PushPublish, cvars
<1>10. PushInv'
  <2>1. Len(todo) > 1 => Tail(todo) # <<>>
    <3>1. Len(Tail(todo)) = Len(todo) - 1 /\ Len(todo) \in Nat
      <4> HIDE RingAssumption
      <4> QED BY <1>0
    <3>2. Len(<<>>) = 0
      OBVIOUS
    <3>3. Len(todo) > 1 => Len(Tail(todo)) # 0
      <4> HIDE RingAssumption
      <4> QED BY <3>1
    <3> QED BY <3>2, <3>3, Zenon
  <2>2. ppc' \in {"check", "idle", "assert"} /\ (ppc' = "check" => todo' # <<>>)
    BY <2>1 DEF PushPublish
  <2> QED BY <2>2 DEF PushInv
<1>11. PopInv'
  <2>1. cop # "peek_n" /\ cpc = "advance" => sent'[Len(rcvd) + 1] = sent[Len(rcvd) + 1]
    <3>1. SUFFICES ASSUME cop # "peek_n", cpc = "advance"
                   PROVE  sent'[Len(rcvd) + 1] = sent[Len(rcvd) + 1]
      OBVIOUS
    <3>2. Len(rcvd) + 1 \in 1..Len(sent)
      BY <3>1, <1>3 DEF IInv, PopInv, unread
    <3> QED BY <3>2, <1>2
  <2>2. unread <= unread' /\ unread \in Nat /\ unread' \in Nat /\ need \in Nat
    BY <1>3, UnreadNat DEF IInv, TypeOK
  <2>3. /\ unread >= 1 => unread' >= 1
        /\ need <= unread => need <= unread'
    BY <2>2
  <2>4. UNCHANGED <<cpc, cop, need, out, rcvd>>
    BY DEF PushPublish, cvars
  <2> QED BY <2>1, <2>3, <2>4 DEF IInv, PopInv
<1>12. PeekInv'
  BY <1>0 DEF IInv, PeekInv, Alone, PushPublish, cvars
<1>13. Alone' /\ PanicInv'
  BY <1>0 DEF IInv, Alone, PanicInv, PushPublish, cvars
<1> QED BY <1>6, <1>7, <1>8, <1>9, <1>10, <1>11, <1>12, <1>13 DEF IInv

\* The assert of cq_push_n only looks.
LEMMA PushNAssertInv ==
  ASSUME IInv, SafeUse, PushNAssert
  PROVE  IInv'
<1>1. TypeOK'
  BY DEF IInv, TypeOK, PushNAssert, ring, cvars
<1>2. InOrder' /\ RingHoldsUnread' /\ PeekSeesFront' /\ PanicInv'
  BY DEF IInv, InOrder, RingHoldsUnread, PeekSeesFront, PanicInv, unread, front, PushNAssert, ring, cvars
<1>3. PushInv'
  BY DEF PushInv, PushNAssert
<1>4. PopInv' /\ PeekInv'
  BY DEF IInv, PopInv, PeekInv, unread, PushNAssert, ring, cvars
<1>5. Alone'
  BY DEF IInv, Alone, PushNAssert, cvars
<1> QED BY <1>1, <1>2, <1>3, <1>4, <1>5 DEF IInv

\* A call of cq_pop_nonblock, cq_pop or cq_peek is only a change of place.
LEMMA CallOneInv ==
  ASSUME IInv, SafeUse, NEW op \in {"pop_nonblock", "pop", "peek"}, CallOne(op)
  PROVE  IInv'
<1>0. /\ cpc = "idle" /\ cpc' = "check" /\ cop' = op /\ need' = 1 /\ out' = <<>>
      /\ UNCHANGED <<c_buf, head, tail, ppc, pop_, todo, saved, sz, sent, rcvd>>
  BY DEF CallOne, MayPop, ring, pvars
<1>1. TypeOK'
  <2>1. out' \in Seq(Byte) /\ need' \in Nat /\ cop' \in AllConsOps
    BY <1>0 DEF AllConsOps
  <2> QED BY <1>0, <2>1 DEF IInv, TypeOK
<1>2. InOrder' /\ RingHoldsUnread' /\ PanicInv'
  BY <1>0 DEF IInv, InOrder, RingHoldsUnread, PanicInv, unread, front
<1>3. PeekSeesFront'
  BY <1>0, UnreadNat DEF PeekSeesFront, unread
<1>4. PushInv'
  BY <1>0 DEF IInv, PushInv, unread
<1>5. PopInv' /\ PeekInv'
  BY <1>0 DEF PopInv, PeekInv
<1>6. Alone'
  BY <1>0 DEF Alone, CallOne, MayPop
<1> QED BY <1>1, <1>2, <1>3, <1>4, <1>5, <1>6 DEF IInv

\* An accepted cq_pop_n_noblk starts with enough unread bytes.
LEMMA CallPopNNoblkInv ==
  ASSUME IInv, SafeUse, NEW n \in 0..MaxBatch, CallPopNNoblk(n)
  PROVE  IInv'
<1> USE UseAssumption
<1>0. /\ cpc = "idle" /\ cop' = "pop_n_noblk" /\ need' = n /\ out' = <<>>
      /\ cpc' = IF n = 0 THEN "idle" ELSE "check"
      /\ UNCHANGED <<c_buf, head, tail, ppc, pop_, todo, saved, sz, sent, rcvd>>
  BY DEF CallPopNNoblk, MayPop, ring, pvars
<1>1. TypeOK'
  <2>1. out' \in Seq(Byte) /\ need' \in Nat /\ cop' \in AllConsOps
    BY <1>0 DEF AllConsOps
  <2> QED BY <1>0, <2>1 DEF IInv, TypeOK
<1>2. InOrder' /\ RingHoldsUnread' /\ PanicInv' /\ PeekSeesFront'
  BY <1>0 DEF IInv, InOrder, RingHoldsUnread, PanicInv, PeekSeesFront, unread, front
<1>3. PushInv'
  BY <1>0 DEF IInv, PushInv, unread
<1>4. PopInv' /\ PeekInv'
  <2>1. n <= unread /\ unread' = unread
    BY <1>0, AtFront DEF CallPopNNoblk, front, unread
  <2>2. n # 0 => n >= 1
    OBVIOUS
  <2> QED BY <1>0, <2>1, <2>2 DEF PopInv, PeekInv
<1>5. Alone'
  BY <1>0 DEF Alone, CallPopNNoblk, MayPop
<1> QED BY <1>1, <1>2, <1>3, <1>4, <1>5 DEF IInv

\* cq_peek_n starts with enough unread bytes and remembers where they are.
LEMMA CallPeekNInv ==
  ASSUME IInv, SafeUse, NEW n \in 0..MaxBatch, CallPeekN(n)
  PROVE  IInv'
<1> USE UseAssumption
<1>0. /\ cpc = "idle" /\ cop' = "peek_n" /\ need' = n /\ out' = <<>>
      /\ cpc' = "peek_check" /\ saved' = tail /\ sz' = cq_nelem
      /\ UNCHANGED <<c_buf, head, tail, ppc, pop_, todo, sent, rcvd>>
  BY DEF CallPeekN, MayPop, ring, pvars
<1>1. cq_nelem = unread /\ n <= unread /\ unread' = unread
  BY <1>0, AtFront DEF CallPeekN, front, unread
<1>2. TypeOK'
  <2>1. out' \in Seq(Byte) /\ need' \in Nat /\ cop' \in AllConsOps /\ sz' \in 0..CQ_N-1
    BY <1>0, <1>1, UnreadNat DEF AllConsOps
  <2> QED BY <1>0, <2>1 DEF IInv, TypeOK
<1>3. InOrder' /\ RingHoldsUnread' /\ PanicInv'
  BY <1>0 DEF IInv, InOrder, RingHoldsUnread, PanicInv, unread, front
<1>4. PeekSeesFront'
  BY <1>0, <1>1, UnreadNat DEF PeekSeesFront
<1>5. PushInv'
  BY <1>0, <1>1 DEF IInv, PushInv
<1>6. PopInv' /\ PeekInv'
  <2>1. ~Concurrent
    BY DEF CallPeekN, SafeUse
  <2> QED BY <1>0, <1>1, <2>1 DEF PopInv, PeekInv
<1>7. Alone'
  BY <1>0 DEF Alone, CallPeekN, MayPop, SafeUse
<1> QED BY <1>2, <1>3, <1>4, <1>5, <1>6, <1>7 DEF IInv

\* The second look of cq_peek_n at the count finds what the first one found.
LEMMA PeekNCheckInv ==
  ASSUME IInv, SafeUse, PeekNCheck
  PROVE  IInv'
<1>0. /\ cpc = "peek_check" /\ cop = "peek_n"
      /\ cpc' = IF cq_nelem < need THEN "idle" ELSE IF need = 0 THEN "restore" ELSE "check"
      /\ UNCHANGED <<c_buf, head, tail, ppc, pop_, todo, cop, need, out, saved, sz, sent, rcvd>>
  BY DEF PeekNCheck, ring, pvars, IInv, PopInv
<1>1. tail = saved /\ out = <<>> /\ need <= unread /\ sz = unread /\ need \in Nat
  BY <1>0 DEF IInv, PeekInv, TypeOK
<1>2. TypeOK'
  BY <1>0 DEF IInv, TypeOK
<1>3. InOrder' /\ PanicInv' /\ PeekSeesFront' /\ RingHoldsUnread'
  BY <1>0, <1>1 DEF IInv, InOrder, RingHoldsUnread, PanicInv, PeekSeesFront, unread, front
<1>4. PushInv'
  BY <1>0 DEF IInv, PushInv, unread
<1>5. PopInv'
  BY <1>0, <1>1 DEF PopInv
<1>6. PeekInv'
  <2>1. tail = Slot(saved, Len(out)) /\ Len(out) + need <= unread
    BY <1>1, UnreadNat, RingAssumption DEF Slot, IInv, TypeOK
  <2>2. unread' = unread /\ ~Concurrent
    BY <1>0 DEF unread, IInv, PeekInv
  <2>3. cpc' \in {"idle", "restore", "check"}
    BY <1>0
  <2> QED BY <1>0, <1>1, <2>1, <2>2, <2>3 DEF PeekInv
<1>7. Alone'
  BY <1>0 DEF IInv, Alone
<1> QED BY <1>2, <1>3, <1>4, <1>5, <1>6, <1>7 DEF IInv

\* A cq_pop_n_noblk or cq_peek_n that has pops to do finds the ring not empty.
LEMMA BatchNonEmpty ==
  ASSUME IInv, cpc = "check", cop \in {"pop_n_noblk", "peek_n"}
  PROVE  ~cq_empty
<1>1. CASE cop = "peek_n"
  <2>1. SUFFICES head # tail
    BY DEF cq_empty
  <2>2. tail = Slot(saved, Len(out)) /\ Len(out) + need <= unread /\ need >= 1 /\ front = saved
    BY <1>1 DEF IInv, PeekInv, PopInv, front
  <2>3. Len(out) \in Nat /\ need \in Nat
    BY DEF IInv, TypeOK
  <2>4. Len(out) \in 0..CQ_N-1 /\ Len(out) # unread
    BY <2>2, <2>3, UnreadNat, RingAssumption
  <2> QED BY <2>2, <2>4, UnreadNat, SlotInjective
<1>2. CASE cop = "pop_n_noblk"
  <2>1. cq_empty <=> unread = 0
    BY <1>2, AtFront DEF front
  <2> QED BY <1>2, <2>1, UnreadNat DEF IInv, PopInv, TypeOK
<1> QED BY <1>1, <1>2

\* A pop that a count allowed finds the ring not empty.
LEMMA PopCheckInv ==
  ASSUME IInv, SafeUse, PopCheck
  PROVE  IInv'
<1> USE UseAssumption
<1>0. /\ cpc = "check"
      /\ cpc' = IF cq_empty THEN WhenEmpty ELSE "load"
      /\ UNCHANGED <<c_buf, head, tail, ppc, pop_, todo, cop, need, out, saved, sz, sent, rcvd>>
  BY DEF PopCheck, ring, pvars
<1>1. cop \in {"pop_n_noblk", "peek_n"} => ~cq_empty
  BY <1>0, BatchNonEmpty
<1>2. cop # "peek_n" => (cq_empty <=> unread = 0)
  BY AtFront DEF front
<1>4. /\ cpc' \in {"idle", "check", "panic", "load"}
      /\ cpc' = "panic" => cop = "pop"
      /\ cop = "peek_n" => cpc' = "load"
      /\ cop # "peek_n" /\ cpc' = "load" => unread >= 1
  <2>1. cop \in {"pop_nonblock", "pop", "pop_n_noblk", "peek", "peek_n"}
    BY DEF IInv, TypeOK, AllConsOps
  <2>2. unread # 0 => unread >= 1
    BY UnreadNat
  <2> QED BY <1>0, <1>1, <1>2, <2>1, <2>2 DEF WhenEmpty
<1>5. unread' = unread /\ front' = front
  BY <1>0, <1>4 DEF unread, front
<1>6. TypeOK'
  BY <1>0, <1>4 DEF IInv, TypeOK
<1>7. InOrder' /\ RingHoldsUnread' /\ PeekSeesFront'
  BY <1>0, <1>5 DEF IInv, InOrder, RingHoldsUnread, PeekSeesFront
<1>8. PanicInv'
  BY <1>0, <1>4 DEF PanicInv
<1>9. PushInv'
  BY <1>0, <1>5 DEF IInv, PushInv
<1>10. PopInv'
  BY <1>0, <1>4, <1>5 DEF IInv, PopInv
<1>11. PeekInv'
  BY <1>0, <1>4, <1>5 DEF IInv, PeekInv
<1>12. Alone'
  BY <1>0 DEF IInv, Alone
<1> QED BY <1>6, <1>7, <1>8, <1>9, <1>10, <1>11, <1>12 DEF IInv

\* What a pop or a peek loads is the oldest unread byte, or for cq_peek_n the
\* oldest one it has not loaded yet.
LEMMA PopLoadInv ==
  ASSUME IInv, SafeUse, PopLoad
  PROVE  IInv'
<1> USE RingAssumption
<1>0. /\ cpc = "load"
      /\ cpc' = IF cop = "peek" THEN "idle" ELSE "advance"
      /\ out' = Append(out, c_buf[tail])
      /\ UNCHANGED <<c_buf, head, tail, ppc, pop_, todo, cop, need, saved, sz, sent, rcvd>>
  BY DEF PopLoad, ring, pvars
<1>1. out \in Seq(Byte) /\ c_buf[tail] \in Byte /\ need \in Nat /\ need >= 1
  BY <1>0 DEF IInv, TypeOK, PopInv
<1>2. /\ out' \in Seq(Byte) /\ Len(out') = Len(out) + 1 /\ Len(out) \in Nat
      /\ out'[Len(out')] = c_buf[tail] /\ out' # <<>>
      /\ \A i \in 1..Len(out) : out'[i] = out[i]
  BY <1>0, <1>1
<1>3. unread' = unread /\ front' = front
  BY <1>0 DEF unread, front
<1>4. cop = "peek" => Len(out) = 0
  BY <1>0 DEF IInv, PopInv
<1>5. cop # "peek_n" => c_buf[tail] = sent[Len(rcvd) + 1] /\ unread >= 1
  <2>1. SUFFICES ASSUME cop # "peek_n"
                 PROVE  c_buf[tail] = sent[Len(rcvd) + 1] /\ unread >= 1
    OBVIOUS
  <2>2. front = tail /\ unread >= 1
    BY <1>0, <2>1 DEF front, IInv, PopInv
  <2>3. Slot(tail, 0) = tail
    BY DEF Slot, IInv, TypeOK
  <2>4. c_buf[Slot(front, 0)] = sent[Len(rcvd) + 0 + 1]
    BY <2>2, UnreadNat DEF IInv, RingHoldsUnread
  <2>5. Len(rcvd) + 0 + 1 = Len(rcvd) + 1
    BY DEF IInv, TypeOK
  <2> QED BY <2>2, <2>3, <2>4, <2>5
<1>6. cop = "peek_n" =>
        /\ c_buf[tail] = sent[Len(rcvd) + Len(out) + 1]
        /\ Len(out) + need <= unread /\ tail = Slot(saved, Len(out))
  <2>1. SUFFICES ASSUME cop = "peek_n"
                 PROVE  /\ c_buf[tail] = sent[Len(rcvd) + Len(out) + 1]
                        /\ Len(out) + need <= unread /\ tail = Slot(saved, Len(out))
    OBVIOUS
  <2>2. Len(out) + need <= unread /\ tail = Slot(saved, Len(out)) /\ front = saved
    BY <1>0, <2>1 DEF front, IInv, PeekInv
  <2>3. Len(out) \in 0..CQ_N-1 /\ Len(out) < unread
    BY <2>2, <1>1, <1>2, UnreadNat
  <2> QED BY <2>2, <2>3 DEF IInv, RingHoldsUnread
<1>7. TypeOK'
  BY <1>0, <1>2 DEF IInv, TypeOK
<1>8. InOrder' /\ RingHoldsUnread' /\ PanicInv'
  BY <1>0, <1>3 DEF IInv, InOrder, RingHoldsUnread, PanicInv
<1>9. PeekSeesFront'
  <2>1. CASE cop = "peek"
    BY <2>1, <1>0, <1>2, <1>3, <1>4, <1>5 DEF PeekSeesFront
  <2>2. CASE cop = "peek_n"
    <3>1. Len(out') <= unread
      BY <2>2, <1>1, <1>2, <1>6, UnreadNat
    <3>2. ASSUME NEW i \in 1..Len(out')
          PROVE  out'[i] = sent[Len(rcvd) + i]
      <4>1. CASE i \in 1..Len(out)
        BY <2>2, <4>1, <1>2 DEF IInv, PeekSeesFront
      <4>2. CASE i = Len(out) + 1
        <5>1. Len(rcvd) + i = Len(rcvd) + Len(out) + 1
          BY <4>2, <1>2 DEF IInv, TypeOK
        <5> QED BY <2>2, <4>2, <5>1, <1>2, <1>6
      <4> QED BY <4>1, <4>2, <1>2
    <3> QED BY <3>1, <3>2, <1>0, <1>3 DEF PeekSeesFront
  <2> QED BY <2>1, <2>2, <1>0 DEF PeekSeesFront
<1>10. PushInv'
  BY <1>0, <1>3 DEF IInv, PushInv
<1>11. PopInv'
  <2>1. cop # "peek_n" => out'[Len(out')] = sent'[Len(rcvd') + 1]
    BY <1>0, <1>2, <1>5
  <2>2. cop = "pop_n_noblk" => need' <= unread'
    BY <1>0, <1>3 DEF IInv, PopInv
  <2> QED BY <1>0, <1>1, <1>2, <1>3, <1>5, <2>1, <2>2 DEF PopInv
<1>12. PeekInv'
  <2>1. Len(out') - 1 = Len(out)
    BY <1>2
  <2>2. cop = "peek_n" => ~Concurrent /\ sz = unread
    BY <1>0 DEF IInv, PeekInv
  <2> QED BY <1>0, <1>3, <1>6, <2>1, <2>2 DEF PeekInv
<1>13. Alone'
  BY <1>0 DEF IInv, Alone
<1> QED BY <1>7, <1>8, <1>9, <1>10, <1>11, <1>12, <1>13 DEF IInv

\* Removing a byte removes the oldest unread one; cq_peek_n only walks on.
LEMMA PopAdvanceInv ==
  ASSUME IInv, SafeUse, PopAdvance
  PROVE  IInv'
<1> USE RingAssumption
<1>0. /\ cpc = "advance" /\ tail' = (tail + 1) % CQ_N /\ need' = need - 1
      /\ rcvd' = IF cop = "peek_n" THEN rcvd ELSE Append(rcvd, out[Len(out)])
      /\ cpc' = IF need > 1 THEN "check" ELSE IF cop = "peek_n" THEN "restore" ELSE "idle"
      /\ UNCHANGED <<c_buf, head, ppc, pop_, todo, cop, out, saved, sz, sent>>
  BY DEF PopAdvance, pvars
<1>1. /\ need \in Nat /\ need >= 1 /\ out \in Seq(Byte) /\ out # <<>> /\ cop # "peek"
      /\ rcvd \in Seq(Byte) /\ sent \in Seq(Byte) /\ tail \in 0..CQ_N-1
  BY <1>0 DEF IInv, TypeOK, PopInv
<1>2. out[Len(out)] \in Byte /\ Len(out) \in Nat /\ Len(out) >= 1
  BY <1>1
<1>3. Alone'
  BY <1>0 DEF IInv, Alone
<1>4. PanicInv'
  BY <1>0 DEF PanicInv
<1>5. TypeOK'
  <2>1. tail' \in 0..CQ_N-1
    BY <1>0, <1>1, SlotFacts
  <2>2. rcvd' \in Seq(Byte) /\ need' \in Nat
    BY <1>0, <1>1, <1>2
  <2> QED BY <1>0, <2>1, <2>2 DEF IInv, TypeOK
<1>6. CASE cop = "peek_n"
  <2>1. /\ rcvd' = rcvd /\ unread' = unread /\ front' = front
        /\ cpc' = IF need > 1 THEN "check" ELSE "restore"
    BY <1>0, <1>6 DEF unread, front
  <2>2. /\ tail = Slot(saved, Len(out) - 1) /\ Len(out) - 1 + need <= unread
        /\ sz = unread /\ ~Concurrent /\ front = saved
    BY <1>0, <1>6 DEF IInv, PeekInv, front
  <2>3. InOrder' /\ RingHoldsUnread' /\ PeekSeesFront'
    BY <1>0, <2>1 DEF IInv, InOrder, RingHoldsUnread, PeekSeesFront
  <2>4. PushInv'
    BY <1>0, <2>1 DEF IInv, PushInv
  <2>5. PopInv'
    BY <1>0, <1>1, <1>6, <2>1 DEF PopInv
  <2>6. PeekInv'
    <3>1. cpc' = "check" => /\ tail' = Slot(saved, Len(out))
                            /\ Len(out) + need' <= unread
      <4>1. SUFFICES ASSUME need > 1
                     PROVE  /\ tail' = Slot(saved, Len(out))
                            /\ Len(out) + need' <= unread
        BY <2>1
      <4>2. Len(out) - 1 \in 0..CQ_N-2 /\ (Len(out) - 1) + 1 = Len(out)
        BY <4>1, <1>1, <1>2, <2>2, UnreadNat
      <4>3. tail' = Slot(saved, Len(out))
        <5>1. saved \in 0..CQ_N-1
          BY DEF IInv, TypeOK
        <5>2. (Slot(saved, Len(out) - 1) + 1) % CQ_N = Slot(saved, (Len(out) - 1) + 1)
          BY <4>2, <5>1, SlotFacts
        <5> QED BY <4>2, <5>2, <2>2, <1>0
      <4>4. Len(out) + need' <= unread
        BY <2>2, <1>0, <1>1, <1>2, UnreadNat
      <4> QED BY <4>3, <4>4
    <3> QED BY <1>0, <1>6, <2>1, <2>2, <3>1 DEF PeekInv
  <2> QED BY <1>3, <1>4, <1>5, <2>3, <2>4, <2>5, <2>6 DEF IInv
<1>7. CASE cop # "peek_n"
  <2>1. /\ unread >= 1 /\ out[Len(out)] = sent[Len(rcvd) + 1] /\ front = tail
        /\ cop = "pop_n_noblk" => need <= unread
    BY <1>0, <1>7 DEF IInv, PopInv, front
  <2>2. /\ Len(rcvd') = Len(rcvd) + 1 /\ Len(rcvd) \in Nat /\ Len(sent) \in Nat
        /\ rcvd'[Len(rcvd) + 1] = sent[Len(rcvd) + 1]
        /\ \A i \in 1..Len(rcvd) : rcvd'[i] = rcvd[i]
    BY <1>0, <1>1, <1>2, <1>7, <2>1
  <2>3. unread' = unread - 1 /\ front' = tail' /\ unread \in 1..CQ_N-1
    BY <1>0, <1>7, <2>1, <2>2, UnreadNat DEF unread, front
  <2>4. InOrder'
    <3>1. ASSUME NEW i \in 1..Len(rcvd')
          PROVE  rcvd'[i] = sent[i]
      <4>1. CASE i \in 1..Len(rcvd)
        BY <4>1, <2>2 DEF IInv, InOrder
      <4>2. CASE i = Len(rcvd) + 1
        BY <4>2, <2>2
      <4>3. i \in 1..Len(rcvd) \/ i = Len(rcvd) + 1
        BY <3>1, <2>2
      <4> QED BY <4>1, <4>2, <4>3
    <3>2. Len(rcvd') <= Len(sent)
      BY <2>1, <2>2 DEF unread
    <3> QED BY <3>1, <3>2, <1>0 DEF InOrder
  <2>5. RingHoldsUnread'
    <3>1. head' = Slot(front', unread')
      <4>1. unread - 1 \in 0..CQ_N-2 /\ (unread - 1) + 1 = unread
        BY <2>3
      <4> QED BY <1>0, <1>1, <2>1, <2>3, <4>1, UnreadNat, SlotFacts
    <3>2. ASSUME NEW k \in 0..CQ_N-1, k < unread'
          PROVE  c_buf'[Slot(front', k)] = sent'[Len(rcvd') + k + 1]
      <4>1. k \in 0..CQ_N-2 /\ k + 1 < unread /\ k + 1 \in 0..CQ_N-1
        BY <3>2, <2>3
      <4>2. Slot(front', k) = Slot(front, k + 1)
        BY <4>1, <1>0, <1>1, <2>1, <2>3, SlotFacts
      <4>3. c_buf[Slot(front, k + 1)] = sent[Len(rcvd) + (k + 1) + 1]
        BY <4>1 DEF IInv, RingHoldsUnread
      <4>4. Len(rcvd) + (k + 1) + 1 = Len(rcvd') + k + 1
        BY <2>2
      <4> QED BY <4>2, <4>3, <4>4, <1>0
    <3>3. unread' \in 0..CQ_N-1
      BY <2>3
    <3> QED BY <3>1, <3>2, <3>3 DEF RingHoldsUnread, Slot
  <2>6. PeekSeesFront' /\ PeekInv'
    BY <1>0, <1>1, <1>7 DEF PeekSeesFront, PeekInv
  <2>7. PushInv'
    <3>1. unread < CQ_N - 1 => unread' < CQ_N - 1
      BY <2>3
    <3> QED BY <1>0, <3>1 DEF IInv, PushInv
  <2>8. PopInv'
    <3>1. need > 1 => need' >= 1
      BY <1>0, <1>1
    <3>2. cop = "pop_n_noblk" => need' <= unread'
      BY <1>0, <1>1, <2>1, <2>3
    <3> QED BY <1>0, <1>1, <1>7, <3>1, <3>2 DEF PopInv
  <2> QED BY <1>3, <1>4, <1>5, <2>4, <2>5, <2>6, <2>7, <2>8 DEF IInv
<1> QED BY <1>6, <1>7

\* cq_peek_n puts tail back to the oldest unread byte.
LEMMA PeekNRestoreInv ==
  ASSUME IInv, SafeUse, PeekNRestore
  PROVE  IInv'
<1>0. /\ cpc = "restore" /\ cop = "peek_n" /\ tail' = saved /\ cpc' = "assert"
      /\ UNCHANGED <<c_buf, head, ppc, pop_, todo, cop, need, out, saved, sz, sent, rcvd>>
  BY DEF PeekNRestore, pvars, IInv, PopInv
<1>1. unread' = unread /\ front' = front
  BY <1>0 DEF unread, front
<1>2. TypeOK'
  BY <1>0 DEF IInv, TypeOK
<1>3. InOrder' /\ RingHoldsUnread' /\ PeekSeesFront' /\ PanicInv'
  BY <1>0, <1>1 DEF IInv, InOrder, RingHoldsUnread, PeekSeesFront, PanicInv
<1>4. PushInv'
  BY <1>0, <1>1 DEF IInv, PushInv
<1>5. PopInv' /\ PeekInv' /\ Alone'
  BY <1>0, <1>1 DEF IInv, PopInv, PeekInv, Alone
<1> QED BY <1>2, <1>3, <1>4, <1>5 DEF IInv

\* The assert of cq_peek_n holds: nothing was pushed meanwhile.
LEMMA PeekNAssertInv ==
  ASSUME IInv, SafeUse, PeekNAssert
  PROVE  IInv'
<1>0. /\ cpc = "assert" /\ cop = "peek_n"
      /\ cpc' = IF sz = cq_nelem THEN "idle" ELSE "panic"
      /\ UNCHANGED <<c_buf, head, tail, ppc, pop_, todo, cop, need, out, saved, sz, sent, rcvd>>
  BY DEF PeekNAssert, ring, pvars, IInv, PopInv
<1>1. cpc' = "idle"
  BY <1>0, AtFront DEF front, IInv, PeekInv
<1>2. unread' = unread /\ front' = front
  BY <1>0, <1>1 DEF unread, front
<1>3. TypeOK'
  BY <1>0, <1>1 DEF IInv, TypeOK
<1>4. InOrder' /\ RingHoldsUnread' /\ PeekSeesFront' /\ PanicInv'
  BY <1>0, <1>1, <1>2 DEF IInv, InOrder, RingHoldsUnread, PeekSeesFront, PanicInv
<1>5. PushInv'
  BY <1>0, <1>2 DEF IInv, PushInv
<1>6. PopInv' /\ PeekInv' /\ Alone'
  BY <1>0, <1>1, <1>2 DEF IInv, PopInv, PeekInv, Alone
<1> QED BY <1>3, <1>4, <1>5, <1>6 DEF IInv

-----------------------------------------------------------------------------
(***************************************************************************)
(* The theorems.                                                           *)
(***************************************************************************)

\* cq_init establishes the invariant.
LEMMA InitInv == ASSUME Init PROVE IInv
<1> USE RingAssumption, ByteAssumption
<1>1. TypeOK
  BY DEF Init, cq_init, TypeOK, AllProdOps, AllConsOps
<1>2. unread = 0
  BY DEF Init, unread
<1>3. InOrder /\ RingHoldsUnread /\ PeekSeesFront
  BY <1>2 DEF Init, cq_init, InOrder, RingHoldsUnread, PeekSeesFront, front, Slot
<1>4. PanicInv /\ PushInv /\ PopInv /\ PeekInv /\ Alone
  BY DEF Init, PanicInv, PushInv, PopInv, PeekInv, Alone
<1> QED BY <1>1, <1>3, <1>4 DEF IInv

\* Every step of either side keeps the invariant.
LEMMA NextInv == ASSUME IInv, SafeUse, [Next]_vars PROVE IInv'
<1>1. CASE PushNext
  BY <1>1, CallPushInv, CallPushNInv, PushCheckInv, PushStoreInv, PushPublishInv,
     PushNAssertInv DEF PushNext
<1>2. CASE PopNext
  BY <1>2, CallOneInv, CallPopNNoblkInv, CallPeekNInv, PeekNCheckInv, PopCheckInv,
     PopLoadInv, PopAdvanceInv, PeekNRestoreInv, PeekNAssertInv DEF PopNext
<1>3. CASE UNCHANGED vars
  BY <1>3 DEF vars, ring, pvars, cvars, IInv, TypeOK, InOrder, RingHoldsUnread,
     PeekSeesFront, PanicInv, PushInv, PopInv, PeekInv, Alone, unread, front
<1> QED BY <1>1, <1>2, <1>3 DEF Next

\* For every ring size, byte set and number of calls: if cq_peek_n is not
\* called while another thread pushes, the invariant always holds.
THEOREM RingInvariant == ASSUME SafeUse PROVE Spec => []IInv
<1>1. Init => IInv
  BY InitInv
<1>2. IInv /\ [Next]_vars => IInv'
  BY NextInv
<1> QED BY <1>1, <1>2, PTL DEF Spec

\* The queue is lock free and loses nothing: bytes come out in the order they
\* went in (circular.h, "single mutator of head, single mutator of tail").
THEOREM RingInOrder == ASSUME SafeUse PROVE Spec => [](TypeOK /\ InOrder)
<1>1. IInv => TypeOK /\ InOrder
  BY DEF IInv
<1> QED BY <1>1, RingInvariant, PTL

\* A push never lands on an unread byte, and at most CQ_N-1 bytes wait.
THEOREM RingContents == ASSUME SafeUse PROVE Spec => []RingHoldsUnread
<1>1. IInv => RingHoldsUnread
  BY DEF IInv
<1> QED BY <1>1, RingInvariant, PTL

\* cq_peek and cq_peek_n see the oldest unread bytes, and a cq_pop_n_noblk or
\* cq_peek_n that started never runs into an empty ring.
THEOREM PeekAndPopN == ASSUME SafeUse PROVE Spec => [](PeekSeesFront /\ PopSideSafe)
<1>1. IInv => PeekSeesFront /\ PopSideSafe
  BY BatchNonEmpty DEF IInv, PanicInv, PopSideSafe
<1> QED BY <1>1, RingInvariant, PTL

\* A step of the ring is a step of the abstract queue or leaves it alone.
LEMMA StepSimulation ==
  ASSUME IInv, SafeUse, [Next]_vars
  PROVE  [Fifo!FifoNext]_(Fifo!fvars)
<1> USE RingAssumption DEF Fifo!fvars
<1>1. CASE PushPublish
  <2>1. Head(todo) \in Byte
    BY <1>1 DEF IInv, PushInv, TypeOK, PushPublish
  <2>2. Len(sent) - Len(rcvd) < CQ_N - 1
    BY <1>1 DEF IInv, PushInv, PushPublish, unread
  <2>3. Fifo!Push(Head(todo))
    BY <1>1, <2>2 DEF PushPublish, Fifo!Push, Fifo!Waiting
  <2> QED BY <2>1, <2>3 DEF Fifo!FifoNext
<1>2. CASE PopAdvance
  <2>1. CASE cop = "peek_n"
    BY <1>2, <2>1 DEF PopAdvance
  <2>2. CASE cop # "peek_n"
    <3>1. unread >= 1 /\ out[Len(out)] = sent[Len(rcvd) + 1]
      BY <1>2, <2>2 DEF IInv, PopInv, PopAdvance
    <3>2. unread \in Int
      BY UnreadNat
    <3>3. Fifo!Pop
      BY <1>2, <2>2, <3>1, <3>2 DEF PopAdvance, Fifo!Pop, Fifo!Waiting, unread
    <3> QED BY <3>3 DEF Fifo!FifoNext
  <2> QED BY <2>1, <2>2
<1>3. CASE UNCHANGED <<sent, rcvd>>
  BY <1>3
<1>4. PushPublish \/ PopAdvance \/ UNCHANGED <<sent, rcvd>>
  <2>1. PushNext => PushPublish \/ UNCHANGED <<sent, rcvd>>
    BY DEF PushNext, CallPush, CallPushN, PushCheck, PushStore, PushNAssert
  <2>2. PopNext => PopAdvance \/ UNCHANGED <<sent, rcvd>>
    BY DEF PopNext, CallOne, CallPopNNoblk, CallPeekN, PeekNCheck, PopCheck, PopLoad,
       PeekNRestore, PeekNAssert
  <2> QED BY <2>1, <2>2 DEF Next, vars
<1> QED BY <1>1, <1>2, <1>3, <1>4

\* The ring implements the abstract FIFO of CQ_N-1 bytes.
THEOREM RingImplementsFifo == ASSUME SafeUse PROVE Spec => ImplementsFifo
<1>1. Init => Fifo!FifoInit
  BY DEF Init, Fifo!FifoInit
<1>2. IInv /\ [Next]_vars => [Fifo!FifoNext]_(Fifo!fvars)
  BY StepSimulation
<1> QED BY <1>1, <1>2, RingInvariant, PTL DEF Spec, ImplementsFifo, Fifo!FifoSpec

-----------------------------------------------------------------------------
(***************************************************************************)
(* One thread makes all the calls.                                         *)
(***************************************************************************)

\* What is still to be pushed fits, but for one byte: cq_nspace counts the
\* slot that stays unused, and nobody pops in the middle of the call.
BatchInv ==
  /\ ppc \in {"check", "store", "publish"} /\ pop_ = "push_n" => unread + Len(todo) <= CQ_N
  /\ ppc = "assert" => unread >= 1
  /\ ppc = "panic" => pop_ = "push_n" /\ Len(todo) = 1 /\ unread = CQ_N - 1

\* A step of the pushing side keeps what cq_push_n relies on.
LEMMA BatchPush ==
  ASSUME IInv, SafeUse, ~Concurrent, BatchInv, PushNext
  PROVE  BatchInv'
<1>a. CQ_N \in Nat
  BY RingAssumption
<1>0. CQ_N \in Nat /\ todo \in Seq(Byte) /\ unread \in 0..CQ_N-1 /\ pop_ \in AllProdOps
  BY RingAssumption, UnreadNat DEF IInv, TypeOK
<1>1. ASSUME NEW x \in Byte, CallPush(x) PROVE BatchInv'
  BY <1>1 DEF CallPush, BatchInv
<1>2. ASSUME NEW b \in Batches, CallPushN(b) PROVE BatchInv'
  <2>1. front = tail
    BY <1>2 DEF CallPushN, MayPush, front
  <2>2. cq_nelem = unread
    BY <2>1, AtFront
  <2>3. unread' = unread
    BY <1>2 DEF CallPushN, unread
  <2>4. b \in Seq(Byte)
    BY UseAssumption DEF Batches
  <2> QED BY <1>0, <1>2, <2>2, <2>3, <2>4 DEF CallPushN, BatchInv, cq_nspace
<1>3. CASE PushCheck
  <2>1. cq_full <=> unread = CQ_N - 1
    BY <1>3, PusherAtFront, AtFront DEF PushCheck
  <2>2. todo # <<>> /\ unread' = unread
    BY <1>3 DEF IInv, PushInv, PushCheck, unread
  <2>3. Len(todo) \in Nat /\ Len(todo) >= 1
    BY <1>0, <2>2
  <2>4. /\ ppc = "check" /\ todo' = todo /\ pop_' = pop_ /\ pop_ \in {"push", "push_n"}
        /\ ppc' = IF ~cq_full THEN "store" ELSE IF pop_ = "push" THEN "idle" ELSE "panic"
    BY <1>0, <1>3 DEF PushCheck, AllProdOps
  <2>5. CASE cq_full
    <3>1. unread = CQ_N - 1 /\ ppc' = IF pop_ = "push" THEN "idle" ELSE "panic"
      BY <2>1, <2>4, <2>5
    <3>2. pop_ = "push_n" => unread + Len(todo) <= CQ_N
      BY <2>4 DEF BatchInv
    <3>3. pop_ = "push_n" => Len(todo) = 1
      BY <1>a, <2>3, <3>1, <3>2
    <3> QED BY <2>2, <2>4, <3>1, <3>3 DEF BatchInv
  <2>6. CASE ~cq_full
    BY <1>0, <2>2, <2>3, <2>4, <2>6 DEF BatchInv
  <2> QED BY <2>5, <2>6
<1>4. CASE PushStore
  BY <1>4 DEF PushStore, BatchInv, unread
<1>5. CASE PushPublish
  <2>1. todo # <<>>
    BY <1>5 DEF IInv, PushInv, PushPublish
  <2>2. Len(todo') = Len(todo) - 1 /\ Len(todo) \in Nat
    BY <1>0, <1>5, <2>1 DEF PushPublish
  <2>3. unread' = unread + 1
    BY <1>5 DEF PushPublish, unread, IInv, TypeOK
  <2>4. ppc = "publish" /\ pop_' = pop_ /\ ppc' \in {"check", "idle", "assert"}
    BY <1>5 DEF PushPublish
  <2> QED BY <1>0, <2>2, <2>3, <2>4 DEF BatchInv
<1>6. CASE PushNAssert
  <2>1. cq_empty <=> unread = 0
    BY <1>6, PusherAtFront, AtFront DEF PushNAssert
  <2> QED BY <1>0, <1>6, <2>1 DEF PushNAssert, BatchInv, unread
<1> QED BY <1>1, <1>2, <1>3, <1>4, <1>5, <1>6 DEF PushNext

\* No pop runs in the middle of a push.
LEMMA BatchPop ==
  ASSUME IInv, ~Concurrent, PopNext
  PROVE  BatchInv'
<1>1. ppc' = ppc
  BY DEF PopNext, CallOne, CallPopNNoblk, CallPeekN, PeekNCheck, PopCheck, PopLoad, PopAdvance,
     PeekNRestore, PeekNAssert, pvars
<1>2. ppc = "idle"
  BY DEF PopNext, CallOne, CallPopNNoblk, CallPeekN, PeekNCheck, PopCheck, PopLoad, PopAdvance,
     PeekNRestore, PeekNAssert, MayPop, IInv, Alone
<1> QED BY <1>1, <1>2 DEF BatchInv

\* Called by one thread the ring is safe with all its operations, cq_peek_n
\* and cq_push_n included, and cq_push_n panics in one case only: one byte more
\* than fits, with all the others already queued.
THEOREM RingOneThread == ASSUME ~Concurrent PROVE Spec => []OneThreadSafe
<1>0. SafeUse
  BY DEF SafeUse
<1>1. Init => BatchInv
  BY DEF Init, BatchInv
<1>2. IInv /\ BatchInv /\ [Next]_vars => BatchInv'
  <2> SUFFICES ASSUME IInv, BatchInv, [Next]_vars PROVE BatchInv'
    OBVIOUS
  <2>1. CASE UNCHANGED vars
    BY <2>1 DEF vars, pvars, BatchInv, unread
  <2> QED BY <1>0, <2>1, BatchPush, BatchPop DEF Next
<1>3. IInv /\ BatchInv => OneThreadSafe
  <2> SUFFICES ASSUME IInv, BatchInv PROVE OneThreadSafe
    OBVIOUS
  <2>1. PopSideSafe
    BY BatchNonEmpty DEF IInv, PanicInv, PopSideSafe
  <2>2. PushNStopsOneShort
    BY PusherAtFront, AtFront DEF BatchInv, PushNStopsOneShort
  <2> QED BY <2>1, <2>2 DEF IInv, OneThreadSafe
<1> QED BY <1>0, <1>1, <1>2, <1>3, RingInvariant, PTL DEF Spec

-----------------------------------------------------------------------------
(***************************************************************************)
(* The search of the laptop for the pi.                                    *)
(***************************************************************************)
BootSpec == BInit /\ [][BNext]_bovars

Tagged == [v : Nat, op : {"old", "GET_PROG_INFO", "PRINT_STRING"}, first : BOOLEAN]
Ask == Bytes("GET_PROG_INFO", Word["GET_PROG_INFO"])
Old == Bytes("old", Word["GET_PROG_INFO"])
PrintMsg(n) == Bytes("PRINT_STRING", Word["PRINT_STRING"] \o Number(n) \o TextOf(n))
Msgs == {Ask, Old} \cup {PrintMsg(n) : n \in 0 .. MaxText}

\* From byte k + 1 on, s is made of whole messages of M, which begin at the places in P.
Framed(s, M, k) ==
  /\ k \in 0 .. Len(s)
  /\ \E P \in SUBSET (Nat \ {0}) :
       /\ k + 1 \in P /\ Len(s) + 1 \in P
       /\ \A p \in P : /\ p <= Len(s) + 1
                       /\ p <= Len(s) => \E m \in M : /\ p + Len(m) \in P
                                                      /\ \A i \in 1 .. Len(m) : s[p + i - 1] = m[i]

\* c bytes of m have been read, the others come first in s, and then whole messages.
Inside(s, m, c, M) ==
  /\ c \in 0 .. Len(m) /\ Framed(s, M, Len(m) - c)
  /\ \A i \in 1 .. Len(m) - c : s[i] = m[c + i]

\* A line that starts with a whole word: where the laptop is in the message it reads.
AtOp ==
  /\ lap = "op"
  /\ \/ word = <<>> /\ Framed(wire, Msgs, 0)
     \/ \E m \in Msgs : /\ Len(word) \in 1 .. W /\ Inside(wire, m, Len(word), Msgs)
                        /\ \A i \in 1 .. Len(word) : word[i] = m[i]
AtLen ==
  /\ lap = "len" /\ Len(word) <= W
  /\ \E n \in 0 .. MaxText : /\ Inside(wire, PrintMsg(n), W + Len(word), Msgs)
                             /\ \A i \in 1 .. Len(word) : word[i] = PrintMsg(n)[W + i]
AtText ==
  /\ lap = "text" /\ word = <<>>
  /\ \E n \in 0 .. MaxText : /\ ntext + Len(text) = n /\ ntext \in Nat
                             /\ Inside(wire, PrintMsg(n), W + W + Len(text), Msgs)
                             /\ \A i \in 1 .. Len(text) : text[i] = Text[i]
WholeInv ==
  /\ discarded = 0 /\ Strings
  /\ lap \in {"found", "dead"} \/ AtOp \/ AtLen \/ AtText

\* A line that starts with the last stray bytes of a word, as long as nothing has been printed: the
\* laptop reads the end of one GET_PROG_INFO and the beginning of the next.
Left == IF Len(word) <= stray THEN stray - Len(word) ELSE W + stray - Len(word)
Split(i) == Word["GET_PROG_INFO"][IF i <= stray THEN W - stray + i ELSE i - stray]
SplitInv ==
  \/ lap = "dead"
  \/ /\ lap = "op" /\ Len(word) <= W /\ Framed(wire, {Ask}, Left)
     /\ \A i \in 1 .. Left : wire[i].v = Word["GET_PROG_INFO"][W - Left + i]
     /\ \A i \in 1 .. Len(word) : word[i].v = Split(i)

\* What the timer shows of a wait.
ClockInv ==
  /\ usec \in 0 .. TimerMod - 1 /\ started \in 0 .. TimerMod - 1 /\ since \in Nat
  /\ pi \in {"put", "wait", "eat"} /\ since < Interval + MaxPoll
  /\ pi = "wait" => since < Interval /\ (usec - started) % TimerMod = since
  /\ pi = "put" => since = 0 \/ since >= Interval

BootInv ==
  /\ ClockInv
  /\ stray \in 0 .. W /\ printed \in BOOLEAN
  /\ wire \in Seq(Tagged) /\ word \in Seq(Tagged) /\ text \in Seq(Nat) /\ shown \in Seq(Seq(Nat))
  /\ stray \in {0, W} => WholeInv
  /\ stray \notin {0, W} /\ ~printed => SplitInv

-----------------------------------------------------------------------------
\* Places of a sequence, and what lies there.
LEMMA SeqFacts ==
    \A T : \A q \in Seq(T) :
      /\ Len(q) \in Nat /\ DOMAIN q = 1 .. Len(q) /\ (\A i \in 1 .. Len(q) : q[i] \in T)
      /\ (q = <<>> <=> Len(q) = 0)
BY LenProperties, ElementOfSeq, EmptySeq

\* The head and the rest of a sequence that is not empty.
LEMMA TailFacts ==
    ASSUME NEW T, NEW q \in Seq(T), q # <<>>
    PROVE  /\ Head(q) = q[1] /\ Head(q) \in T /\ Len(q) \in Nat \ {0}
           /\ Tail(q) \in Seq(T) /\ Len(Tail(q)) = Len(q) - 1
           /\ \A i \in 1 .. Len(q) - 1 : Tail(q)[i] = q[i + 1]
<1>1. Len(q) \in Nat /\ Len(q) # 0 /\ \A i \in 1 .. Len(q) : q[i] \in T
  BY SeqFacts
<1>2. Head(q) \in T /\ Tail(q) \in Seq(T) /\ Head(q) = q[1] /\ Len(Tail(q)) = Len(q) - 1
  BY HeadTailProperties
<1>3. \A i \in 1 .. Len(Tail(q)) : Tail(q)[i] = q[i + 1]
  BY HeadTailProperties
<1> QED BY <1>1, <1>2, <1>3

\* A function on 1 .. n is a sequence of length n.
LEMMA FunSeq ==
    ASSUME NEW T, NEW n \in Nat, NEW f, f \in [1 .. n -> T]
    PROVE  f \in Seq(T) /\ Len(f) = n
OBVIOUS

\* One sequence behind another.
LEMMA ConcatFacts ==
    ASSUME NEW T, NEW p \in Seq(T), NEW q \in Seq(T)
    PROVE  /\ p \o q \in Seq(T) /\ Len(p \o q) = Len(p) + Len(q)
           /\ \A i \in 1 .. Len(p) + Len(q) : (p \o q)[i] = IF i <= Len(p) THEN p[i] ELSE q[i - Len(p)]
BY ConcatProperties

\* A message put on the line is one more whole message.
LEMMA FrameAppend ==
    ASSUME NEW s \in Seq(Tagged), NEW m \in Seq(Tagged), Len(m) >= 1, NEW M, m \in M, NEW k, Framed(s, M, k)
    PROVE  /\ s \o m \in Seq(Tagged) /\ Framed(s \o m, M, k)
           /\ \A i \in 1 .. Len(s) : (s \o m)[i] = s[i]
<1> DEFINE t == s \o m
           a == Len(s)
           b == Len(m)
<1>1. a \in Nat /\ b \in Nat /\ b >= 1
  BY SeqFacts
<1>2. /\ t \in Seq(Tagged) /\ Len(t) = a + b
      /\ \A i \in 1 .. a + b : t[i] = IF i <= a THEN s[i] ELSE m[i - a]
  BY ConcatProperties, <1>1
<1>3. k \in 0 .. a
  BY DEF Framed
<1>4. PICK P \in SUBSET (Nat \ {0}) :
        /\ k + 1 \in P /\ a + 1 \in P
        /\ \A p \in P : /\ p <= a + 1
                        /\ p <= a => \E x \in M : p + Len(x) \in P /\ \A i \in 1 .. Len(x) : s[p + i - 1] = x[i]
  BY DEF Framed
<1> DEFINE Q == P \cup {a + b + 1}
<1>5. Len(m) = b
  OBVIOUS
<1> HIDE DEF t, a, b
<1>6. Q \in SUBSET (Nat \ {0}) /\ k + 1 \in Q /\ a + b + 1 \in Q
  BY <1>1, <1>4
<1>7. ASSUME NEW p \in Q
      PROVE  /\ p <= a + b + 1
             /\ p <= a + b => \E x \in M : p + Len(x) \in Q /\ \A i \in 1 .. Len(x) : t[p + i - 1] = x[i]
  <2>1. CASE p = a + b + 1
    BY <1>1, <2>1
  <2>2. CASE p \in P /\ p <= a
    <3>1. PICK x \in M : p + Len(x) \in P /\ \A i \in 1 .. Len(x) : s[p + i - 1] = x[i]
      BY <1>4, <2>2
    <3>2. p \in Nat \ {0} /\ p + Len(x) <= a + 1
      BY <1>4, <2>2, <3>1
    <3>3. ASSUME NEW i \in 1 .. Len(x) PROVE t[p + i - 1] = x[i]
      <4>1. i \in Nat /\ i >= 1 /\ p + i - 1 \in 1 .. a + b /\ p + i - 1 <= a
        BY <1>1, <3>2
      <4> QED BY <1>2, <3>1, <4>1
    <3> QED BY <1>1, <2>2, <3>1, <3>3
  <2>3. CASE p \in P /\ p = a + 1
    <3>1. p + Len(m) \in Q
      BY <1>1, <1>5, <2>3
    <3>2. ASSUME NEW i \in 1 .. Len(m) PROVE t[p + i - 1] = m[i]
      <4>1. p + i - 1 = a + i /\ a + i \in 1 .. a + b /\ ~(a + i <= a) /\ (a + i) - a = i
        BY <1>1, <1>5, <2>3
      <4> QED BY <1>2, <4>1
    <3> QED BY <1>1, <2>3, <3>1, <3>2
  <2>4. p \in P => p <= a \/ p = a + 1
    BY <1>1, <1>4
  <2> QED BY <2>1, <2>2, <2>3, <2>4
<1>8. k \in 0 .. Len(t)
  BY <1>1, <1>2, <1>3
<1> HIDE DEF Q
<1>9. Framed(t, M, k)
  <2>1. Len(t) = a + b
    BY <1>2
  <2>2. /\ k + 1 \in Q /\ Len(t) + 1 \in Q
        /\ \A p \in Q :
             /\ p <= Len(t) + 1
             /\ p <= Len(t) => \E x \in M : p + Len(x) \in Q /\ \A i \in 1 .. Len(x) : t[p + i - 1] = x[i]
    BY <1>6, <1>7, <2>1
  <2> QED BY <1>6, <1>8, <2>2 DEF Framed
<1>10. \A i \in 1 .. a : t[i] = s[i]
  BY <1>1, <1>2
<1> QED BY <1>2, <1>9, <1>10 DEF t, a

\* A byte read before the first whole message.
LEMMA FrameTail ==
    ASSUME NEW s \in Seq(Tagged), NEW M \in SUBSET Seq(Tagged), NEW k, Framed(s, M, k), k >= 1
    PROVE  /\ s # <<>> /\ Head(s) = s[1] /\ Head(s) \in Tagged /\ Tail(s) \in Seq(Tagged)
           /\ Framed(Tail(s), M, k - 1)
           /\ \A i \in 1 .. k - 1 : Tail(s)[i] = s[i + 1]
<1>1. Len(s) \in Nat /\ k \in 0 .. Len(s) /\ (s = <<>> <=> Len(s) = 0)
  BY SeqFacts DEF Framed
<1>2. s # <<>>
  BY <1>1
<1> DEFINE t == Tail(s)
           a == Len(s)
<1>3. /\ Head(s) = s[1] /\ Head(s) \in Tagged /\ t \in Seq(Tagged) /\ Len(t) = a - 1
      /\ \A i \in 1 .. a - 1 : t[i] = s[i + 1]
  BY <1>2, TailFacts
<1>4. PICK P \in SUBSET (Nat \ {0}) :
        /\ k + 1 \in P /\ a + 1 \in P
        /\ \A p \in P : /\ p <= a + 1
                        /\ p <= a => \E x \in M : p + Len(x) \in P /\ \A i \in 1 .. Len(x) : s[p + i - 1] = x[i]
  BY DEF Framed
<1>5. a \in Nat /\ k \in 1 .. a
  BY <1>1
<1> DEFINE Q == {p \in Nat \ {0} : p + 1 \in P}
<1> HIDE DEF t, a
<1>6. Q \in SUBSET (Nat \ {0}) /\ (k - 1) + 1 \in Q /\ (a - 1) + 1 \in Q
  BY <1>4, <1>5
<1>7. ASSUME NEW p \in Q
      PROVE  /\ p <= (a - 1) + 1
             /\ p <= a - 1 => \E x \in M : p + Len(x) \in Q /\ \A i \in 1 .. Len(x) : t[p + i - 1] = x[i]
  <2>1. p \in Nat \ {0} /\ p + 1 \in P /\ p + 1 <= a + 1
    BY <1>4
  <2>2. ASSUME p <= a - 1 PROVE \E x \in M : p + Len(x) \in Q /\ \A i \in 1 .. Len(x) : t[p + i - 1] = x[i]
    <3>1. PICK x \in M : (p + 1) + Len(x) \in P /\ \A i \in 1 .. Len(x) : s[(p + 1) + i - 1] = x[i]
      BY <1>4, <1>5, <2>1, <2>2
    <3>2. Len(x) \in Nat /\ (p + 1) + Len(x) <= a + 1
      BY <1>4, <3>1, SeqFacts
    <3>3. p + Len(x) \in Q
      BY <2>1, <3>1, <3>2
    <3>4. ASSUME NEW i \in 1 .. Len(x) PROVE t[p + i - 1] = x[i]
      <4>1. p + i - 1 \in 1 .. a - 1 /\ (p + i - 1) + 1 = (p + 1) + i - 1
        BY <1>5, <2>1, <3>2
      <4> QED BY <1>3, <3>1, <4>1
    <3> QED BY <3>3, <3>4
  <2> QED BY <1>5, <2>1, <2>2
<1>8. k - 1 \in 0 .. Len(t)
  BY <1>3, <1>5
<1> HIDE DEF Q
<1>9. Framed(t, M, k - 1)
  <2>1. Len(t) = a - 1
    BY <1>3
  <2>2. /\ (k - 1) + 1 \in Q /\ Len(t) + 1 \in Q
        /\ \A p \in Q :
             /\ p <= Len(t) + 1
             /\ p <= Len(t) => \E x \in M : p + Len(x) \in Q /\ \A i \in 1 .. Len(x) : t[p + i - 1] = x[i]
    BY <1>6, <1>7, <2>1
  <2> QED BY <1>6, <1>8, <2>2 DEF Framed
<1>10. \A i \in 1 .. k - 1 : t[i] = s[i + 1]
  BY <1>3, <1>5
<1> QED BY <1>2, <1>3, <1>9, <1>10 DEF t, a

\* What comes first on a line of whole messages.
LEMMA FrameFirst ==
    ASSUME NEW s \in Seq(Tagged), s # <<>>, NEW M \in SUBSET Seq(Tagged), Framed(s, M, 0)
    PROVE  \E m \in M : Framed(s, M, Len(m)) /\ \A i \in 1 .. Len(m) : s[i] = m[i]
<1> DEFINE a == Len(s)
<1>1. a \in Nat /\ a >= 1
  BY SeqFacts
<1>2. PICK P \in SUBSET (Nat \ {0}) :
        /\ 0 + 1 \in P /\ a + 1 \in P
        /\ \A p \in P : /\ p <= a + 1
                        /\ p <= a => \E x \in M : p + Len(x) \in P /\ \A i \in 1 .. Len(x) : s[p + i - 1] = x[i]
  BY DEF Framed
<1>3. PICK m \in M : 1 + Len(m) \in P /\ \A i \in 1 .. Len(m) : s[1 + i - 1] = m[i]
  BY <1>1, <1>2
<1>4. Len(m) \in Nat /\ 1 + Len(m) <= a + 1
  BY <1>2, <1>3, SeqFacts
<1>5. Len(m) \in 0 .. a /\ Len(m) + 1 \in P
  BY <1>1, <1>3, <1>4
<1>6. Framed(s, M, Len(m))
  BY <1>2, <1>5 DEF Framed
<1>7. \A i \in 1 .. Len(m) : s[i] = m[i]
  BY <1>3, <1>4
<1> QED BY <1>6, <1>7

\* A line that is nothing but bytes of a message under way.
LEMMA FrameAll ==
    ASSUME NEW s \in Seq(Tagged), NEW M
    PROVE  Framed(s, M, Len(s))
<1>1. Len(s) \in Nat
  BY SeqFacts
<1> DEFINE P == {Len(s) + 1}
<1>2. P \in SUBSET (Nat \ {0}) /\ Len(s) + 1 \in P /\ \A p \in P : p <= Len(s) + 1 /\ ~(p <= Len(s))
  BY <1>1
<1>3. Len(s) \in 0 .. Len(s)
  BY <1>1
<1> HIDE DEF P
<1> QED BY <1>2, <1>3 DEF Framed

-----------------------------------------------------------------------------
(***************************************************************************)
(* The messages.                                                           *)
(***************************************************************************)
\* The bytes of the two words the pi sends.
LEMMA WordFacts ==
    /\ Word["GET_PROG_INFO"] \in Seq(Nat) /\ Len(Word["GET_PROG_INFO"]) = W
    /\ Word["PRINT_STRING"] \in Seq(Nat) /\ Len(Word["PRINT_STRING"]) = W
    /\ \A i \in 1 .. W : Word["GET_PROG_INFO"][i] = IF 2 * i <= W THEN 2 ELSE 1
    /\ \A i \in 1 .. W : Word["PRINT_STRING"][i] = IF 2 * i <= W THEN 16 ELSE 11
<1> DEFINE g == [i \in 1 .. W |-> IF 2 * i <= W THEN 2 ELSE 1]
           p == [i \in 1 .. W |-> IF 2 * i <= W THEN 16 ELSE 11]
<1>0. W \in Nat
  BY BootAssumption
<1>1. Word["GET_PROG_INFO"] = [i \in 1 .. W |-> Halves["GET_PROG_INFO"][IF 2 * i <= W THEN 1 ELSE 2]]
  BY DEF Word, Halves
<1>2. Word["PRINT_STRING"] = [i \in 1 .. W |-> Halves["PRINT_STRING"][IF 2 * i <= W THEN 1 ELSE 2]]
  BY DEF Word, Halves
<1>3. Halves["GET_PROG_INFO"] = <<2, 1>> /\ Halves["PRINT_STRING"] = <<16, 11>>
  BY DEF Halves
<1>4. Word["GET_PROG_INFO"] = g
  BY <1>1, <1>3
<1>5. Word["PRINT_STRING"] = p
  BY <1>2, <1>3
<1>6. g \in [1 .. W -> Nat] /\ p \in [1 .. W -> Nat]
  OBVIOUS
<1>7. (\A i \in 1 .. W : g[i] = IF 2 * i <= W THEN 2 ELSE 1) /\ \A i \in 1 .. W : p[i] = IF 2 * i <= W THEN 16 ELSE 11
  OBVIOUS
<1> HIDE DEF g, p
<1>8. g \in Seq(Nat) /\ Len(g) = W /\ p \in Seq(Nat) /\ Len(p) = W
  BY <1>0, <1>6, FunSeq
<1> QED BY <1>4, <1>5, <1>7, <1>8

\* A message byte by byte.
LEMMA BytesFacts ==
    ASSUME NEW op \in {"old", "GET_PROG_INFO", "PRINT_STRING"}, NEW b \in Seq(Nat)
    PROVE  /\ Bytes(op, b) \in Seq(Tagged) /\ Len(Bytes(op, b)) = Len(b)
           /\ \A i \in 1 .. Len(b) : Bytes(op, b)[i].v = b[i] /\ Bytes(op, b)[i].first = (i = 1)
<1> DEFINE f == [i \in 1 .. Len(b) |-> [v |-> b[i], op |-> op, first |-> i = 1]]
<1>1. Len(b) \in Nat /\ \A i \in 1 .. Len(b) : b[i] \in Nat
  BY SeqFacts
<1>2. \A i \in 1 .. Len(b) : [v |-> b[i], op |-> op, first |-> i = 1] \in Tagged
  <2> SUFFICES ASSUME NEW i \in 1 .. Len(b) PROVE [v |-> b[i], op |-> op, first |-> i = 1] \in Tagged
    OBVIOUS
  <2>1. b[i] \in Nat /\ (i = 1) \in BOOLEAN
    BY <1>1
  <2> QED BY <2>1 DEF Tagged
<1>3. f \in [1 .. Len(b) -> Tagged]
  BY <1>2
<1>4. \A i \in 1 .. Len(b) : f[i] = [v |-> b[i], op |-> op, first |-> i = 1]
  OBVIOUS
<1>5. \A i \in 1 .. Len(b) : f[i].v = b[i] /\ f[i].first = (i = 1)
  BY <1>4
<1>6. Bytes(op, b) = f
  BY DEF Bytes
<1> HIDE DEF f
<1>7. f \in Seq(Tagged) /\ Len(f) = Len(b)
  BY <1>1, <1>3, FunSeq
<1> QED BY <1>5, <1>6, <1>7

\* The characters of a string.
LEMMA TextFacts ==
    ASSUME NEW n \in 0 .. MaxText
    PROVE  /\ TextOf(n) \in Seq(Nat) /\ Len(TextOf(n)) = n
           /\ \A i \in 1 .. n : TextOf(n)[i] = Text[i] /\ Text[i] \in Nat
<1>1. MaxText \in Nat /\ n \in Nat /\ n <= MaxText
  BY BootAssumption
<1>2. Text \in [1 .. MaxText -> Nat]
  BY DEF Text
<1>3. Text \in Seq(Nat) /\ Len(Text) = MaxText
  BY <1>1, <1>2, FunSeq
<1>4. \A i \in 1 .. n : Text[i] \in Nat
  BY <1>1, <1>2
<1> HIDE DEF Text
<1>5. CASE n = 0
  <2>1. SubSeq(Text, 1, 0) = <<>>
    BY <1>3
  <2> QED BY <1>5, <2>1 DEF TextOf
<1>6. CASE n # 0
  <2>1. /\ SubSeq(Text, 1, n) \in Seq(Nat) /\ Len(SubSeq(Text, 1, n)) = n
        /\ \A i \in 1 .. n : SubSeq(Text, 1, n)[i] = Text[i]
    BY <1>1, <1>3, <1>6
  <2> QED BY <1>4, <2>1 DEF TextOf
<1> QED BY <1>5, <1>6

\* A printed string: the operation, its length, its characters.
LEMMA PrintFacts ==
    ASSUME NEW n \in 0 .. MaxText
    PROVE  /\ PrintMsg(n) \in Seq(Tagged) /\ Len(PrintMsg(n)) = W + W + n
           /\ PrintMsg(n)[1].first
           /\ \A i \in 1 .. W : PrintMsg(n)[i].v = Word["PRINT_STRING"][i]
           /\ PrintMsg(n)[W + 1].v = n
           /\ \A i \in 1 .. n : PrintMsg(n)[W + W + i].v = Text[i]
<1> DEFINE p == Word["PRINT_STRING"]
           q == Number(n)
           r == TextOf(n)
           b == p \o q \o r
<1>1. W \in Nat \ {0} /\ n \in Nat
  BY BootAssumption
<1>2. p \in Seq(Nat) /\ Len(p) = W
  BY WordFacts
<1>3. q \in Seq(Nat) /\ Len(q) = W /\ q[1] = n
  <2>1. q \in [1 .. W -> Nat] /\ q[1] = n
    BY <1>1 DEF Number
  <2> HIDE DEF q
  <2> QED BY <1>1, <2>1, FunSeq
<1>4. r \in Seq(Nat) /\ Len(r) = n /\ \A i \in 1 .. n : r[i] = Text[i]
  BY TextFacts
<1> HIDE DEF p, q, r
<1>5. /\ p \o q \in Seq(Nat) /\ Len(p \o q) = W + W
      /\ \A i \in 1 .. W + W : (p \o q)[i] = IF i <= W THEN p[i] ELSE q[i - W]
  <2>1. /\ p \o q \in Seq(Nat) /\ Len(p \o q) = Len(p) + Len(q)
        /\ \A i \in 1 .. Len(p) + Len(q) : (p \o q)[i] = IF i <= Len(p) THEN p[i] ELSE q[i - Len(p)]
    BY <1>2, <1>3, ConcatFacts
  <2> QED BY <1>2, <1>3, <2>1
<1> DEFINE pq == p \o q
           c == W + W
<1>56. pq \in Seq(Nat) /\ Len(pq) = c
  BY <1>5
<1> HIDE DEF pq, c, b
<1>57. /\ pq \o r \in Seq(Nat) /\ Len(pq \o r) = c + n
       /\ \A i \in 1 .. c + n : (pq \o r)[i] = IF i <= c THEN pq[i] ELSE r[i - c]
  <2>1. /\ pq \o r \in Seq(Nat) /\ Len(pq \o r) = Len(pq) + Len(r)
        /\ \A i \in 1 .. Len(pq) + Len(r) : (pq \o r)[i] = IF i <= Len(pq) THEN pq[i] ELSE r[i - Len(pq)]
    BY <1>4, <1>56, ConcatFacts
  <2> QED BY <1>4, <1>56, <2>1
<1>6. /\ b \in Seq(Nat) /\ Len(b) = W + W + n
      /\ \A i \in 1 .. W + W + n : b[i] = IF i <= W + W THEN (p \o q)[i] ELSE r[i - (W + W)]
  <2>1. b = pq \o r
    BY DEF pq, b
  <2>2. /\ b \in Seq(Nat) /\ Len(b) = c + n
        /\ \A i \in 1 .. c + n : b[i] = IF i <= c THEN pq[i] ELSE r[i - c]
    BY <1>57, <2>1
  <2> QED BY <2>2 DEF pq, c
<1> HIDE DEF b
<1>7. \A i \in 1 .. W : b[i] = p[i]
  <2> SUFFICES ASSUME NEW i \in 1 .. W PROVE b[i] = p[i]
    OBVIOUS
  <2>1. i \in 1 .. W + W + n /\ i \in 1 .. W + W /\ i <= W + W /\ i <= W
    BY <1>1
  <2> QED BY <1>5, <1>6, <2>1
<1>8. b[W + 1] = n
  <2>1. W + 1 \in 1 .. W + W + n /\ W + 1 \in 1 .. W + W /\ W + 1 <= W + W /\ ~(W + 1 <= W) /\ (W + 1) - W = 1
    BY <1>1
  <2> QED BY <1>3, <1>5, <1>6, <2>1
<1>9. \A i \in 1 .. n : b[W + W + i] = Text[i]
  <2> SUFFICES ASSUME NEW i \in 1 .. n PROVE b[W + W + i] = Text[i]
    OBVIOUS
  <2>1. W + W + i \in 1 .. W + W + n /\ ~(W + W + i <= W + W) /\ (W + W + i) - (W + W) = i
    BY <1>1
  <2> QED BY <1>4, <1>6, <2>1
<1>10. PrintMsg(n) = Bytes("PRINT_STRING", b)
  BY DEF PrintMsg, b, p, q, r
<1>11. /\ Bytes("PRINT_STRING", b) \in Seq(Tagged) /\ Len(Bytes("PRINT_STRING", b)) = W + W + n
       /\ \A i \in 1 .. W + W + n : /\ Bytes("PRINT_STRING", b)[i].v = b[i]
                                    /\ Bytes("PRINT_STRING", b)[i].first = (i = 1)
  BY <1>6, BytesFacts
<1>12. 1 \in 1 .. W + W + n /\ W + 1 \in 1 .. W + W + n /\ (\A i \in 1 .. W : i \in 1 .. W + W + n)
       /\ \A i \in 1 .. n : W + W + i \in 1 .. W + W + n
  BY <1>1
<1> DEFINE m == PrintMsg(n)
<1>13. /\ m \in Seq(Tagged) /\ Len(m) = W + W + n
       /\ \A i \in 1 .. W + W + n : m[i].v = b[i] /\ m[i].first = (i = 1)
  BY <1>10, <1>11
<1> HIDE DEF m
<1>14. m[1].first
  BY <1>12, <1>13
<1>15. (\A i \in 1 .. W : m[i].v = p[i]) /\ m[W + 1].v = n
  BY <1>7, <1>8, <1>12, <1>13
<1>16. \A i \in 1 .. n : m[W + W + i].v = Text[i]
  BY <1>9, <1>12, <1>13
<1> QED BY <1>13, <1>14, <1>15, <1>16 DEF p, m

\* The words that ask for the program.
LEMMA AskFacts ==
    ASSUME NEW m \in {Ask, Old}
    PROVE  /\ m \in Seq(Tagged) /\ Len(m) = W /\ m[1].first
           /\ \A i \in 1 .. W : m[i].v = Word["GET_PROG_INFO"][i]
<1>1. Word["GET_PROG_INFO"] \in Seq(Nat) /\ Len(Word["GET_PROG_INFO"]) = W /\ 1 \in 1 .. W
  BY WordFacts, BootAssumption
<1> DEFINE g == Word["GET_PROG_INFO"]
<1> HIDE DEF g
<1>2. \A op \in {"old", "GET_PROG_INFO", "PRINT_STRING"} :
        /\ Bytes(op, g) \in Seq(Tagged) /\ Len(Bytes(op, g)) = W
        /\ \A i \in 1 .. W : Bytes(op, g)[i].v = g[i] /\ Bytes(op, g)[i].first = (i = 1)
  BY <1>1, BytesFacts DEF g
<1>3. m = Bytes("GET_PROG_INFO", g) \/ m = Bytes("old", g)
  BY DEF Ask, Old, g
<1>4. /\ m \in Seq(Tagged) /\ Len(m) = W
      /\ \A i \in 1 .. W : m[i].v = g[i] /\ m[i].first = (i = 1)
  BY <1>2, <1>3
<1> QED BY <1>1, <1>4 DEF g

\* Every message is a sequence of at least a word, whose first byte is marked.
LEMMA MsgFacts ==
    /\ Msgs \in SUBSET Seq(Tagged) /\ {Ask} \in SUBSET Seq(Tagged)
    /\ \A m \in Msgs : Len(m) >= W /\ W >= 1 /\ m[1].first
    /\ Ask \in Msgs /\ \A n \in 0 .. MaxText : PrintMsg(n) \in Msgs
<1>1. W \in Nat \ {0}
  BY BootAssumption
<1>2. ASSUME NEW m \in Msgs PROVE m \in Seq(Tagged) /\ Len(m) >= W /\ W >= 1 /\ m[1].first
  <2>1. CASE m \in {Ask, Old}
    BY <1>1, <2>1, AskFacts
  <2>2. CASE m \in {PrintMsg(n) : n \in 0 .. MaxText}
    BY <1>1, <2>2, PrintFacts, BootAssumption
  <2> QED BY <2>1, <2>2 DEF Msgs
<1> QED BY <1>2, AskFacts DEF Msgs

\* A message put on the line while another is being read.
LEMMA InsideAppend ==
    ASSUME NEW s \in Seq(Tagged), NEW x \in Msgs, NEW m \in Msgs, NEW c, Inside(s, m, c, Msgs)
    PROVE  Inside(s \o x, m, c, Msgs)
<1>1. x \in Seq(Tagged) /\ Len(x) >= 1 /\ m \in Seq(Tagged)
  BY MsgFacts, SeqFacts, BootAssumption
<1>2. Framed(s \o x, Msgs, Len(m) - c) /\ \A i \in 1 .. Len(s) : (s \o x)[i] = s[i]
  BY <1>1, FrameAppend DEF Inside
<1>3. Len(m) \in Nat /\ Len(s) \in Nat /\ c \in 0 .. Len(m) /\ Len(m) - c <= Len(s)
  BY <1>1, SeqFacts DEF Inside, Framed
<1>4. \A i \in 1 .. Len(m) - c : i \in 1 .. Len(s)
  BY <1>3
<1> QED BY <1>2, <1>4 DEF Inside

\* The next byte of the message that is being read.
LEMMA InsideTail ==
    ASSUME NEW s \in Seq(Tagged), NEW m \in Msgs, NEW c, Inside(s, m, c, Msgs), c < Len(m)
    PROVE  /\ s # <<>> /\ Head(s) = m[c + 1] /\ Head(s) \in Tagged /\ Tail(s) \in Seq(Tagged)
           /\ Inside(Tail(s), m, c + 1, Msgs)
<1>1. Msgs \in SUBSET Seq(Tagged) /\ Len(m) \in Nat /\ c \in 0 .. Len(m)
  BY MsgFacts, SeqFacts DEF Inside
<1> DEFINE k == Len(m) - c
<1>2. Framed(s, Msgs, k) /\ k >= 1 /\ k \in Nat
  BY <1>1 DEF Inside
<1>3. \A i \in 1 .. k : s[i] = m[c + i]
  BY DEF Inside
<1>4. Len(m) - (c + 1) = k - 1 /\ c + 1 \in 0 .. Len(m)
  BY <1>1
<1> HIDE DEF k
<1>5. /\ s # <<>> /\ Head(s) = s[1] /\ Head(s) \in Tagged /\ Tail(s) \in Seq(Tagged)
      /\ Framed(Tail(s), Msgs, k - 1)
      /\ \A i \in 1 .. k - 1 : Tail(s)[i] = s[i + 1]
  BY <1>1, <1>2, FrameTail
<1>6. s[1] = m[c + 1]
  BY <1>2, <1>3
<1>7. ASSUME NEW i \in 1 .. k - 1 PROVE Tail(s)[i] = m[(c + 1) + i]
  <2>1. i + 1 \in 1 .. k /\ (c + 1) + i = c + (i + 1)
    BY <1>1, <1>2
  <2> QED BY <1>3, <1>5, <2>1
<1>8. Inside(Tail(s), m, c + 1, Msgs)
  BY <1>4, <1>5, <1>7 DEF Inside
<1> QED BY <1>5, <1>6, <1>8

\* Between two messages.
LEMMA InsideFirst ==
    ASSUME NEW s \in Seq(Tagged), s # <<>>, Framed(s, Msgs, 0)
    PROVE  \E m \in Msgs : Inside(s, m, 0, Msgs)
<1>1. PICK m \in Msgs : Framed(s, Msgs, Len(m)) /\ \A i \in 1 .. Len(m) : s[i] = m[i]
  BY FrameFirst, MsgFacts
<1>2. Len(m) \in Nat
  BY MsgFacts, SeqFacts
<1>3. 0 \in 0 .. Len(m) /\ Len(m) - 0 = Len(m) /\ \A i \in 1 .. Len(m) : 0 + i = i
  BY <1>2
<1>4. Inside(s, m, 0, Msgs)
  BY <1>1, <1>3 DEF Inside
<1> QED BY <1>4

LEMMA InsideEnd ==
    ASSUME NEW s, NEW m \in Msgs, Inside(s, m, Len(m), Msgs)
    PROVE  Framed(s, Msgs, 0)
<1>1. Len(m) \in Nat
  BY MsgFacts, SeqFacts
<1>2. Len(m) - Len(m) = 0
  BY <1>1
<1> QED BY <1>2 DEF Inside

\* A byte is put behind what was read.
LEMMA AppendFacts ==
    ASSUME NEW T, NEW q \in Seq(T), NEW l \in T
    PROVE  /\ Append(q, l) \in Seq(T) /\ Len(Append(q, l)) = Len(q) + 1
           /\ Append(q, l)[Len(q) + 1] = l
           /\ \A i \in 1 .. Len(q) : Append(q, l)[i] = q[i]
BY AppendProperties

-----------------------------------------------------------------------------
(***************************************************************************)
(* The laptop reads a line that starts with whole words.                   *)
(***************************************************************************)
\* The pi puts a message on the line.
LEMMA WholePut ==
    ASSUME BootInv, WholeInv, NEW x \in Msgs, wire' = wire \o x, Lap
    PROVE  WholeInv'
<1>1. wire \in Seq(Tagged) /\ x \in Seq(Tagged) /\ Len(x) >= 1 /\ word' = word /\ lap' = lap /\ text' = text
      /\ shown' = shown /\ discarded' = discarded /\ ntext' = ntext
  BY MsgFacts, SeqFacts, BootAssumption DEF BootInv, Lap
<1>2. ASSUME AtOp PROVE AtOp'
  <2>1. CASE word = <<>> /\ Framed(wire, Msgs, 0)
    BY <1>1, <1>2, <2>1, FrameAppend DEF AtOp
  <2>2. CASE ~(word = <<>> /\ Framed(wire, Msgs, 0))
    <3>1. PICK m \in Msgs : /\ Len(word) \in 1 .. W /\ Inside(wire, m, Len(word), Msgs)
                            /\ \A i \in 1 .. Len(word) : word[i] = m[i]
      BY <1>2, <2>2 DEF AtOp
    <3>2. Inside(wire \o x, m, Len(word), Msgs)
      BY <1>1, <3>1, InsideAppend
    <3> QED BY <1>1, <1>2, <3>1, <3>2 DEF AtOp
  <2> QED BY <2>1, <2>2
<1>3. ASSUME AtLen PROVE AtLen'
  <2>1. PICK n \in 0 .. MaxText : /\ Inside(wire, PrintMsg(n), W + Len(word), Msgs)
                                  /\ \A i \in 1 .. Len(word) : word[i] = PrintMsg(n)[W + i]
    BY <1>3 DEF AtLen
  <2>2. Inside(wire \o x, PrintMsg(n), W + Len(word), Msgs)
    BY <1>1, <2>1, InsideAppend, MsgFacts
  <2> QED BY <1>1, <1>3, <2>1, <2>2 DEF AtLen
<1>4. ASSUME AtText PROVE AtText'
  <2>1. PICK n \in 0 .. MaxText : /\ ntext + Len(text) = n /\ ntext \in Nat
                                  /\ Inside(wire, PrintMsg(n), W + W + Len(text), Msgs)
                                  /\ \A i \in 1 .. Len(text) : text[i] = Text[i]
    BY <1>4 DEF AtText
  <2>2. Inside(wire \o x, PrintMsg(n), W + W + Len(text), Msgs)
    BY <1>1, <2>1, InsideAppend, MsgFacts
  <2>3. AtText' <=>
          /\ lap = "text" /\ word = <<>>
          /\ \E j \in 0 .. MaxText : /\ ntext + Len(text) = j /\ ntext \in Nat
                                     /\ Inside(wire \o x, PrintMsg(j), W + W + Len(text), Msgs)
                                     /\ \A i \in 1 .. Len(text) : text[i] = Text[i]
    BY <1>1 DEF AtText, Text
  <2> QED BY <1>4, <2>1, <2>2, <2>3 DEF AtText
<1> QED BY <1>1, <1>2, <1>3, <1>4 DEF WholeInv, Strings

\* A byte of a word.
LEMMA WholeByte ==
    ASSUME BootInv, WholeInv, get_uint32
    PROVE  WholeInv' /\ word' \in Seq(Tagged) /\ wire' \in Seq(Tagged)
<1>1. /\ wire \in Seq(Tagged) /\ wire # <<>> /\ word \in Seq(Tagged) /\ Len(word) \in Nat /\ Len(word) < W
      /\ word' = Append(word, Head(wire)) /\ wire' = Tail(wire)
      /\ lap' = lap /\ lap \in {"op", "len"} /\ discarded' = discarded /\ shown' = shown
  BY SeqFacts DEF BootInv, get_uint32, Take
<1>0. W \in Nat \ {0}
  BY BootAssumption
<1>2. Head(wire) \in Tagged /\ wire' \in Seq(Tagged)
  BY <1>1, TailFacts
<1>3. /\ word' \in Seq(Tagged) /\ Len(word') = Len(word) + 1 /\ word'[Len(word) + 1] = Head(wire)
      /\ \A i \in 1 .. Len(word) : word'[i] = word[i]
  BY <1>1, <1>2, AppendFacts
<1>4. ASSUME NEW m \in Msgs, NEW d \in Nat, d + Len(word) < Len(m), Inside(wire, m, d + Len(word), Msgs),
             \A i \in 1 .. Len(word) : word[i] = m[d + i]
      PROVE  Inside(wire', m, d + Len(word'), Msgs) /\ \A i \in 1 .. Len(word') : word'[i] = m[d + i]
  <2>1. Head(wire) = m[(d + Len(word)) + 1] /\ Inside(Tail(wire), m, (d + Len(word)) + 1, Msgs)
    BY <1>1, <1>4, InsideTail
  <2>2. d + Len(word') = (d + Len(word)) + 1 /\ d + (Len(word) + 1) = (d + Len(word)) + 1
    BY <1>1, <1>3
  <2>3. ASSUME NEW i \in 1 .. Len(word') PROVE word'[i] = m[d + i]
    <3>1. i \in 1 .. Len(word) \/ i = Len(word) + 1
      BY <1>1, <1>3
    <3> QED BY <1>3, <1>4, <2>1, <2>2, <3>1
  <2> QED BY <1>1, <2>1, <2>2, <2>3
<1>5. Len(word') \in 1 .. W
  BY <1>0, <1>1, <1>3
<1>6. ASSUME AtOp PROVE AtOp'
  <2>1. PICK m \in Msgs : /\ Inside(wire, m, Len(word), Msgs)
                          /\ \A i \in 1 .. Len(word) : word[i] = m[i]
    <3>1. CASE word = <<>> /\ Framed(wire, Msgs, 0)
      <4>1. Len(word) = 0 /\ (1 .. Len(word)) = {}
        BY <3>1, SeqFacts
      <4> QED BY <1>1, <3>1, <4>1, InsideFirst
    <3> QED BY <1>6, <3>1 DEF AtOp
  <2>2. Len(m) \in Nat /\ Len(m) >= W
    BY MsgFacts, SeqFacts
  <2>3. 0 + Len(word) = Len(word) /\ 0 + Len(word) < Len(m) /\ 0 + Len(word') = Len(word')
    BY <1>0, <1>1, <1>3, <2>2
  <2>4. \A i \in 1 .. Len(word) : word[i] = m[0 + i]
    BY <2>1
  <2>5. Inside(wire', m, 0 + Len(word'), Msgs) /\ \A i \in 1 .. Len(word') : word'[i] = m[0 + i]
    BY <1>4, <2>1, <2>3, <2>4
  <2>6. Inside(wire', m, Len(word'), Msgs) /\ \A i \in 1 .. Len(word') : word'[i] = m[i]
    BY <2>3, <2>5
  <2> QED BY <1>1, <1>5, <1>6, <2>6 DEF AtOp
<1>7. ASSUME AtLen PROVE AtLen'
  <2>1. PICK n \in 0 .. MaxText : /\ Inside(wire, PrintMsg(n), W + Len(word), Msgs)
                                  /\ \A i \in 1 .. Len(word) : word[i] = PrintMsg(n)[W + i]
    BY <1>7 DEF AtLen
  <2>2. PrintMsg(n) \in Msgs /\ Len(PrintMsg(n)) = W + W + n /\ n \in Nat
    BY MsgFacts, PrintFacts, BootAssumption
  <2>3. W + Len(word) < Len(PrintMsg(n)) /\ W \in Nat
    BY <1>0, <1>1, <2>2
  <2>4. Inside(wire', PrintMsg(n), W + Len(word'), Msgs) /\ \A i \in 1 .. Len(word') : word'[i] = PrintMsg(n)[W + i]
    BY <1>4, <2>1, <2>2, <2>3
  <2> QED BY <1>1, <1>5, <1>7, <2>4 DEF AtLen
<1>8. ~AtText /\ lap \notin {"found", "dead"}
  BY <1>1 DEF AtText
<1> QED BY <1>1, <1>2, <1>3, <1>6, <1>7, <1>8 DEF WholeInv, Strings

\* What the laptop makes of a word.
LEMMA WordRead ==
    ASSUME NEW m \in Seq(Tagged), Len(word) = W, \A i \in 1 .. W : word[i].v = m[i].v
    PROVE  \A g : (g \in Seq(Nat) /\ Len(g) = W) => (Got = g <=> \A i \in 1 .. W : m[i].v = g[i])
<1> SUFFICES ASSUME NEW g, g \in Seq(Nat), Len(g) = W
             PROVE  Got = g <=> \A i \in 1 .. W : m[i].v = g[i]
  OBVIOUS
<1>1. Got = [i \in 1 .. W |-> m[i].v]
  BY DEF Got
<1>2. g = [i \in 1 .. W |-> g[i]]
  BY SeqFacts
<1> QED BY <1>1, <1>2

\* A word that begins a message.
LEMMA WholeOp ==
    ASSUME BootInv, WholeInv, get_op
    PROVE  WholeInv' /\ word' \in Seq(Tagged)
<1> DEFINE g == Word["GET_PROG_INFO"]
           p == Word["PRINT_STRING"]
<1>1. /\ lap = "op" /\ Len(word) = W /\ word' = <<>> /\ wire' = wire /\ shown' = shown
      /\ (Got = g => lap' = "found") /\ (Got = p /\ Got # g => lap' = "len")
      /\ discarded' = IF lap' = "op" THEN 1 ELSE discarded
      /\ word \in Seq(Tagged) /\ discarded = 0
  <2>1. /\ lap = "op" /\ Len(word) = W /\ word' = <<>> /\ wire' = wire /\ shown' = shown
        /\ discarded' = IF lap' = "op" THEN 1 ELSE discarded
    BY DEF get_op
  <2>2. Got = g => lap' = "found"
    BY DEF get_op
  <2>3. Got = p /\ Got # g => lap' = "len"
    BY DEF get_op
  <2> QED BY <2>1, <2>2, <2>3 DEF BootInv, WholeInv
<1>2. W \in Nat \ {0} /\ g \in Seq(Nat) /\ Len(g) = W /\ p \in Seq(Nat) /\ Len(p) = W
  BY WordFacts, BootAssumption
<1>3. 1 \in 1 .. W /\ g[1] \in {1, 2} /\ p[1] \in {11, 16}
  BY <1>2, WordFacts
<1>4. AtOp /\ word # <<>>
  BY <1>1, <1>2, SeqFacts DEF WholeInv, AtLen, AtText
<1> HIDE DEF g, p
<1>5. PICK m \in Msgs : Inside(wire, m, W, Msgs) /\ \A i \in 1 .. W : word[i] = m[i]
  BY <1>1, <1>4 DEF AtOp
<1>6. m \in Seq(Tagged)
  BY MsgFacts
<1>7. \A h : (h \in Seq(Nat) /\ Len(h) = W) => (Got = h <=> \A i \in 1 .. W : m[i].v = h[i])
  BY <1>1, <1>5, <1>6, WordRead
<1>8. CASE m \in {Ask, Old}
  <2>1. \A i \in 1 .. W : m[i].v = g[i]
    BY <1>8, AskFacts DEF g
  <2>2. Got = g
    BY <1>2, <1>7, <2>1
  <2>3. lap' = "found"
    BY <1>1, <2>2
  <2> QED BY <1>1, <2>3 DEF WholeInv, Strings
<1>9. CASE m \in {PrintMsg(n) : n \in 0 .. MaxText}
  <2>1. PICK n \in 0 .. MaxText : m = PrintMsg(n)
    BY <1>9
  <2>2. \A i \in 1 .. W : m[i].v = p[i]
    BY <2>1, PrintFacts DEF p
  <2>3. Got = p /\ Got # g
    <3>1. Got = p
      BY <1>2, <1>7, <2>2
    <3>2. g[1] # p[1]
      BY <1>3
    <3> QED BY <3>1, <3>2
  <2>4. lap' = "len"
    BY <1>1, <2>3
  <2>5. Len(word') = 0 /\ W + 0 = W
    BY <1>1, <1>2
  <2>6. Len(word') <= W /\ \A i \in 1 .. Len(word') : word'[i] = PrintMsg(n)[W + i]
    BY <1>2, <2>5
  <2>7. Inside(wire', PrintMsg(n), W + Len(word'), Msgs)
    <3>1. W + Len(word') = W /\ wire' = wire
      BY <1>1, <2>5
    <3>2. Inside(wire, PrintMsg(n), W, Msgs)
      BY <1>5, <2>1
    <3> QED BY <3>1, <3>2
  <2>8. AtLen'
    BY <2>4, <2>6, <2>7 DEF AtLen
  <2> QED BY <1>1, <2>4, <2>8 DEF WholeInv, Strings
<1>10. word' \in Seq(Tagged)
  BY <1>1
<1> QED BY <1>8, <1>9, <1>10 DEF Msgs

\* The length of a string.
LEMMA WholeLen ==
    ASSUME BootInv, WholeInv, get_op_len
    PROVE  WholeInv' /\ word' \in Seq(Tagged) /\ text' \in Seq(Nat)
<1>1. /\ lap = "len" /\ Len(word) = W /\ word' = <<>> /\ ntext' = Got[1] /\ text' = <<>> /\ lap' = "text"
      /\ wire' = wire /\ shown' = shown /\ discarded' = discarded
  BY DEF get_op_len
<1>2. W \in Nat \ {0} /\ 1 \in 1 .. W
  BY BootAssumption
<1>3. AtLen
  BY <1>1 DEF WholeInv, AtOp, AtText
<1>4. PICK n \in 0 .. MaxText : /\ Inside(wire, PrintMsg(n), W + W, Msgs)
                                /\ \A i \in 1 .. W : word[i] = PrintMsg(n)[W + i]
  BY <1>1, <1>3 DEF AtLen
<1>5. ntext' = n
  <2>1. Got[1] = word[1].v
    BY <1>2 DEF Got
  <2> QED BY <1>1, <1>2, <1>4, <2>1, PrintFacts
<1>6. Len(text') = 0 /\ n \in Nat /\ n + 0 = n /\ (W + W) + 0 = W + W
  BY <1>1, <1>2, BootAssumption
<1>7. Inside(wire', PrintMsg(n), W + W + Len(text'), Msgs)
  BY <1>1, <1>4, <1>6
<1>8. ntext' + Len(text') = n /\ ntext' \in Nat /\ \A i \in 1 .. Len(text') : text'[i] = Text[i]
  BY <1>5, <1>6
<1>9. AtText' <=>
        /\ lap' = "text" /\ word' = <<>>
        /\ \E j \in 0 .. MaxText : /\ ntext' + Len(text') = j /\ ntext' \in Nat
                                   /\ Inside(wire', PrintMsg(j), W + W + Len(text'), Msgs)
                                   /\ \A i \in 1 .. Len(text') : text'[i] = Text[i]
  BY DEF AtText, Text
<1>10. AtText'
  BY <1>1, <1>7, <1>8, <1>9
<1> QED BY <1>1, <1>10 DEF WholeInv, Strings

\* The characters of a string, and its end.
LEMMA WholeText ==
    ASSUME BootInv, WholeInv, get_op_text
    PROVE  WholeInv' /\ wire' \in Seq(Tagged) /\ text' \in Seq(Nat) /\ shown' \in Seq(Seq(Nat))
<1>1. lap = "text" /\ word' = word /\ discarded' = discarded
  BY DEF get_op_text
<1>2. AtText
  BY <1>1 DEF WholeInv, AtOp, AtLen
<1>3. PICK n \in 0 .. MaxText : /\ ntext + Len(text) = n /\ ntext \in Nat
                                /\ Inside(wire, PrintMsg(n), W + W + Len(text), Msgs)
                                /\ \A i \in 1 .. Len(text) : text[i] = Text[i]
  BY <1>2 DEF AtText
<1>4. /\ wire \in Seq(Tagged) /\ text \in Seq(Nat) /\ Len(text) \in Nat /\ shown \in Seq(Seq(Nat)) /\ W \in Nat \ {0}
      /\ n \in Nat
  BY SeqFacts, BootAssumption DEF BootInv
<1>5. PrintMsg(n) \in Msgs /\ Len(PrintMsg(n)) = W + W + n
  BY MsgFacts, PrintFacts
<1>55. ntext + Len(text) = n /\ ntext \in Nat
  BY <1>3
<1>6. CASE ntext = 0
  <2>1. /\ shown' = Append(shown, text) /\ lap' = "op" /\ wire' = wire /\ text' = text
    BY <1>6 DEF get_op_text
  <2>2. Len(text) = n /\ W + W + Len(text) = Len(PrintMsg(n))
    <3>1. Len(text) = n
      BY <1>4, <1>55, <1>6
    <3> QED BY <1>5, <3>1
  <2>3. Framed(wire, Msgs, 0)
    BY <1>3, <1>5, <2>2, InsideEnd
  <2>4. text = TextOf(Len(text))
    <3>1. TextOf(n) \in Seq(Nat) /\ Len(TextOf(n)) = n /\ \A i \in 1 .. n : TextOf(n)[i] = Text[i]
      BY TextFacts
    <3>2. \A i \in 1 .. n : text[i] = Text[i]
      BY <1>3, <2>2
    <3> DEFINE t == TextOf(n)
    <3>3. t \in Seq(Nat) /\ Len(t) = Len(text) /\ \A i \in 1 .. Len(text) : text[i] = t[i]
      BY <2>2, <3>1, <3>2
    <3> HIDE DEF t
    <3>4. text = t
      BY <1>4, <3>3, SeqEqual
    <3> QED BY <2>2, <3>4 DEF t
  <2>5. /\ shown' \in Seq(Seq(Nat)) /\ Len(shown') = Len(shown) + 1 /\ shown'[Len(shown) + 1] = text
        /\ \A i \in 1 .. Len(shown) : shown'[i] = shown[i]
    BY <1>4, <2>1, AppendFacts
  <2>6. Len(shown) \in Nat
    BY <1>4, SeqFacts
  <2>7. ASSUME NEW i \in 1 .. Len(shown') PROVE shown'[i] = TextOf(Len(shown'[i]))
    <3>1. CASE i \in 1 .. Len(shown)
      BY <2>5, <3>1 DEF WholeInv, Strings
    <3>2. CASE i = Len(shown) + 1
      BY <2>4, <2>5, <3>2
    <3> QED BY <2>5, <2>6, <3>1, <3>2
  <2>8. Strings' <=> \A i \in 1 .. Len(shown') : shown'[i] = TextOf(Len(shown'[i]))
    BY DEF Strings, TextOf, Text
  <2>9. AtOp'
    BY <1>1, <1>2, <2>1, <2>3 DEF AtOp, AtText
  <2> QED BY <1>1, <1>4, <2>1, <2>5, <2>7, <2>8, <2>9 DEF WholeInv
<1>7. CASE ntext # 0
  <2>1. /\ text' = Append(text, Head(wire).v) /\ wire' = Tail(wire) /\ ntext' = ntext - 1
        /\ shown' = shown /\ lap' = lap
    BY <1>7 DEF get_op_text, Take
  <2>2. W + W + Len(text) < Len(PrintMsg(n)) /\ Len(text) + 1 \in 1 .. n
    BY <1>3, <1>4, <1>5, <1>7
  <2>3. /\ Head(wire) = PrintMsg(n)[(W + W + Len(text)) + 1] /\ Head(wire) \in Tagged /\ Tail(wire) \in Seq(Tagged)
        /\ Inside(Tail(wire), PrintMsg(n), (W + W + Len(text)) + 1, Msgs)
    BY <1>3, <1>4, <1>5, <2>2, InsideTail
  <2>4. (W + W + Len(text)) + 1 = W + W + (Len(text) + 1)
    BY <1>4
  <2>5. Head(wire).v = Text[Len(text) + 1] /\ Head(wire).v \in Nat
    <3>1. \A i \in 1 .. n : PrintMsg(n)[W + W + i].v = Text[i]
      BY PrintFacts
    <3> QED BY <2>2, <2>3, <2>4, <3>1 DEF Tagged
  <2>6. /\ text' \in Seq(Nat) /\ Len(text') = Len(text) + 1 /\ text'[Len(text) + 1] = Head(wire).v
        /\ \A i \in 1 .. Len(text) : text'[i] = text[i]
    BY <1>4, <2>1, <2>5, AppendFacts
  <2>7. ASSUME NEW i \in 1 .. Len(text') PROVE text'[i] = Text[i]
    <3>1. i \in 1 .. Len(text) \/ i = Len(text) + 1
      BY <1>4, <2>6
    <3> QED BY <1>3, <2>5, <2>6, <3>1
  <2>8. ntext' + Len(text') = n /\ ntext' \in Nat
    <3>1. ntext' = ntext - 1 /\ Len(text') = Len(text) + 1
      BY <2>1, <2>6
    <3> DEFINE a == Len(text)
               b == Len(text')
    <3>2. a \in Nat /\ ntext \in Nat /\ ntext # 0 /\ ntext + a = n /\ ntext' = ntext - 1 /\ b = a + 1
      BY <1>4, <1>55, <1>7, <3>1
    <3> HIDE DEF a, b
    <3>3. ntext' + b = n /\ ntext' \in Nat
      BY <3>2
    <3> QED BY <3>3 DEF b
  <2>9. Inside(wire', PrintMsg(n), W + W + Len(text'), Msgs)
    BY <2>1, <2>3, <2>4, <2>6
  <2>10. AtText' <=>
          /\ lap' = "text" /\ word' = <<>>
          /\ \E j \in 0 .. MaxText : /\ ntext' + Len(text') = j /\ ntext' \in Nat
                                     /\ Inside(wire', PrintMsg(j), W + W + Len(text'), Msgs)
                                     /\ \A i \in 1 .. Len(text') : text'[i] = Text[i]
    BY DEF AtText, Text
  <2>11. AtText'
    BY <1>1, <1>2, <2>1, <2>7, <2>8, <2>9, <2>10 DEF AtText
  <2> QED BY <1>1, <1>4, <2>1, <2>3, <2>6, <2>11 DEF WholeInv, Strings
<1> QED BY <1>6, <1>7

-----------------------------------------------------------------------------
(***************************************************************************)
(* The laptop reads a line that starts within a word.                      *)
(***************************************************************************)
\* How much of the current GET_PROG_INFO is still on the line.
LEMMA LeftFacts ==
    ASSUME BootInv, stray \notin {0, W}, Len(word) <= W
    PROVE  /\ W \in Nat \ {0} /\ stray \in 1 .. W - 1 /\ Len(word) \in Nat /\ Left \in 0 .. W
           /\ Len(word) = W => Left = stray
           /\ Left = 0 <=> Len(word) = stray
<1>1. W \in Nat \ {0} /\ stray \in 0 .. W /\ Len(word) \in Nat
  BY SeqFacts, BootAssumption DEF BootInv
<1> QED BY <1>1 DEF Left

\* The pi asks again.
LEMMA SplitPut ==
    ASSUME BootInv, SplitInv, stray \notin {0, W}, wire' = wire \o Ask, stray' = stray, Lap
    PROVE  SplitInv'
<1>1. word' = word /\ lap' = lap /\ wire \in Seq(Tagged)
  BY DEF Lap, BootInv
<1>2. Left' = Left /\ (\A i : Split(i)' = Split(i)) /\ Word["GET_PROG_INFO"]' = Word["GET_PROG_INFO"]
  BY <1>1 DEF Left, Split, Word, Halves
<1>3. CASE lap = "dead"
  BY <1>1, <1>3 DEF SplitInv
<1>4. CASE lap # "dead"
  <2>1. /\ lap = "op" /\ Len(word) <= W /\ Framed(wire, {Ask}, Left)
        /\ \A i \in 1 .. Left : wire[i].v = Word["GET_PROG_INFO"][W - Left + i]
        /\ \A i \in 1 .. Len(word) : word[i].v = Split(i)
    BY <1>4 DEF SplitInv
  <2>2. W \in Nat \ {0} /\ Left \in 0 .. W /\ Len(wire) \in Nat /\ Left \in 0 .. Len(wire)
    BY <1>1, <2>1, LeftFacts, SeqFacts DEF Framed
  <2>3. Framed(wire \o Ask, {Ask}, Left) /\ \A i \in 1 .. Len(wire) : (wire \o Ask)[i] = wire[i]
    <3>1. Ask \in Seq(Tagged) /\ Len(Ask) >= 1 /\ Ask \in {Ask}
      BY <2>2, AskFacts
    <3> DEFINE l == Left
    <3>2. Framed(wire, {Ask}, l)
      BY <2>1
    <3> HIDE DEF l
    <3>3. Framed(wire \o Ask, {Ask}, l) /\ \A i \in 1 .. Len(wire) : (wire \o Ask)[i] = wire[i]
      BY <1>1, <3>1, <3>2, FrameAppend
    <3> QED BY <3>3 DEF l
  <2>4. \A i \in 1 .. Left : i \in 1 .. Len(wire)
    BY <2>2
  <2>5. \A i \in 1 .. Left : (wire \o Ask)[i].v = Word["GET_PROG_INFO"][W - Left + i]
    BY <2>1, <2>3, <2>4
  <2> DEFINE s == wire \o Ask
             g == Word["GET_PROG_INFO"]
  <2>6. SplitInv' <=>
          \/ lap = "dead"
          \/ /\ lap = "op" /\ Len(word) <= W /\ Framed(s, {Ask}, Left)
             /\ \A i \in 1 .. Left : s[i].v = g[W - Left + i]
             /\ \A i \in 1 .. Len(word) : word[i].v = Split(i)
    BY <1>1, <1>2 DEF SplitInv
  <2> QED BY <2>1, <2>3, <2>5, <2>6
<1> QED BY <1>3, <1>4

\* A byte of a word.
LEMMA SplitByte ==
    ASSUME BootInv, SplitInv, stray \notin {0, W}, get_uint32
    PROVE  SplitInv' /\ word' \in Seq(Tagged) /\ wire' \in Seq(Tagged)
<1> DEFINE g == Word["GET_PROG_INFO"]
           c == Len(word)
<1>1. /\ wire \in Seq(Tagged) /\ wire # <<>> /\ word \in Seq(Tagged) /\ c < W
      /\ word' = Append(word, Head(wire)) /\ wire' = Tail(wire)
      /\ lap' = lap /\ lap \in {"op", "len"} /\ stray' = stray
  BY DEF BootInv, get_uint32, Take, Pi
<1>2. /\ lap = "op" /\ Framed(wire, {Ask}, Left)
      /\ \A i \in 1 .. Left : wire[i].v = g[W - Left + i]
      /\ \A i \in 1 .. c : word[i].v = Split(i)
  BY <1>1 DEF SplitInv
<1>3. c \in Nat /\ c <= W /\ W \in Nat \ {0}
  BY <1>1, SeqFacts, BootAssumption
<1>4. stray \in 1 .. W - 1 /\ Left \in 0 .. W /\ (Left = 0 <=> c = stray)
  BY <1>3, LeftFacts
\* k bytes of the word are left, the first of them where Split says.
<1>5. \E k \in 1 .. W : /\ Framed(wire, {Ask}, k) /\ \A i \in 1 .. k : wire[i].v = g[W - k + i]
                        /\ k = IF c < stray THEN stray - c ELSE W + stray - c
  <2>1. CASE Left = 0
    <3>1. PICK m \in {Ask} : Framed(wire, {Ask}, Len(m)) /\ \A i \in 1 .. Len(m) : wire[i] = m[i]
      BY <1>1, <1>2, <2>1, FrameFirst, MsgFacts
    <3>2. Len(m) = W /\ \A i \in 1 .. W : m[i].v = g[i]
      BY AskFacts
    <3> HIDE DEF g, c
    <3>3. W - W = 0 /\ (\A i \in 1 .. W : 0 + i = i) /\ W \in 1 .. W
          /\ W = IF c < stray THEN stray - c ELSE W + stray - c
      BY <1>3, <1>4, <2>1
    <3>4. Framed(wire, {Ask}, W) /\ \A i \in 1 .. W : wire[i].v = g[W - W + i]
      BY <3>1, <3>2, <3>3
    <3> QED BY <3>3, <3>4
  <2>2. CASE Left # 0
    <3>1. Left = IF c <= stray THEN stray - c ELSE W + stray - c
      BY DEF Left
    <3> HIDE DEF g, c
    <3>2. Left \in 1 .. W /\ Left = IF c < stray THEN stray - c ELSE W + stray - c
      BY <1>3, <1>4, <2>2, <3>1
    <3> QED BY <1>2, <3>2
  <2> QED BY <2>1, <2>2
<1>6. PICK k \in 1 .. W : /\ Framed(wire, {Ask}, k) /\ \A i \in 1 .. k : wire[i].v = g[W - k + i]
                          /\ k = IF c < stray THEN stray - c ELSE W + stray - c
  BY <1>5
<1>7. k \in Nat /\ k >= 1
  BY <1>3
<1>8. /\ Head(wire) = wire[1] /\ Head(wire) \in Tagged /\ wire' \in Seq(Tagged)
      /\ Framed(wire', {Ask}, k - 1)
      /\ \A i \in 1 .. k - 1 : wire'[i] = wire[i + 1]
  <2>1. {Ask} \in SUBSET Seq(Tagged) /\ Framed(wire, {Ask}, k) /\ k >= 1
    BY <1>6, <1>7, MsgFacts
  <2>2. /\ Head(wire) = wire[1] /\ Head(wire) \in Tagged /\ Tail(wire) \in Seq(Tagged)
        /\ Framed(Tail(wire), {Ask}, k - 1)
        /\ \A i \in 1 .. k - 1 : Tail(wire)[i] = wire[i + 1]
    BY <1>1, <2>1, FrameTail
  <2> QED BY <1>1, <2>2
<1>9. /\ word' \in Seq(Tagged) /\ Len(word') = c + 1 /\ word'[c + 1] = Head(wire)
      /\ \A i \in 1 .. c : word'[i] = word[i]
  BY <1>1, <1>8, AppendFacts
<1>10. Left' = k - 1
  <2>1. Left' = IF Len(word') <= stray THEN stray - Len(word') ELSE W + stray - Len(word')
    BY <1>1 DEF Left
  <2>2. k = IF c < stray THEN stray - c ELSE W + stray - c
    BY <1>6
  <2> DEFINE l == Len(word')
  <2>3. Left' = (IF l <= stray THEN stray - l ELSE W + stray - l) /\ l = c + 1
    BY <1>9, <2>1
  <2> HIDE DEF c, l
  <2> QED BY <1>3, <1>4, <1>7, <2>2, <2>3
<1>11. Head(wire).v = Split(c + 1)
  <2>1. Head(wire).v = g[W - k + 1]
    BY <1>6, <1>7, <1>8
  <2>2. Split(c + 1) = g[IF c + 1 <= stray THEN W - stray + (c + 1) ELSE (c + 1) - stray]
    BY DEF Split
  <2> HIDE DEF g, c
  <2>3. W - k + 1 = IF c + 1 <= stray THEN W - stray + (c + 1) ELSE (c + 1) - stray
    BY <1>3, <1>4, <1>6
  <2> QED BY <2>1, <2>2, <2>3
<1>12. \A i : Split(i)' = Split(i)
  BY <1>1 DEF Split, Word, Halves
<1>13. ASSUME NEW i \in 1 .. Len(word') PROVE word'[i].v = Split(i)
  <2> HIDE DEF c
  <2>1. i \in 1 .. c \/ i = c + 1
    BY <1>3, <1>9
  <2> QED BY <1>2, <1>9, <1>11, <2>1
<1>14. ASSUME NEW i \in 1 .. k - 1 PROVE wire'[i].v = g[W - (k - 1) + i]
  <2> HIDE DEF g
  <2>1. i + 1 \in 1 .. k /\ W - (k - 1) + i = W - k + (i + 1)
    BY <1>3, <1>7
  <2> QED BY <1>6, <1>8, <2>1
<1>15. lap' = "op" /\ Len(word') <= W
  <2> HIDE DEF c
  <2> QED BY <1>1, <1>2, <1>3, <1>9
<1>16. SplitInv' <=>
         \/ lap' = "dead"
         \/ /\ lap' = "op" /\ Len(word') <= W /\ Framed(wire', {Ask}, Left')
            /\ \A i \in 1 .. Left' : wire'[i].v = g[W - Left' + i]
            /\ \A i \in 1 .. Len(word') : word'[i].v = Split(i)
  BY <1>12 DEF SplitInv, Word, Halves
<1> HIDE DEF g, c
<1> QED BY <1>8, <1>9, <1>10, <1>13, <1>14, <1>15, <1>16

\* The word across two messages is neither of the words the laptop knows.
LEMMA SplitOp ==
    ASSUME BootInv, SplitInv, stray \notin {0, W}, get_op
    PROVE  SplitInv' /\ word' \in Seq(Tagged)
<1> DEFINE g == Word["GET_PROG_INFO"]
           p == Word["PRINT_STRING"]
<1>1. /\ lap = "op" /\ Len(word) = W /\ word' = <<>> /\ wire' = wire
      /\ (Got # g /\ Got # p => lap' = "op") /\ stray' = stray
  BY DEF get_op, Pi
<1>2. /\ Framed(wire, {Ask}, Left)
      /\ \A i \in 1 .. Left : wire[i].v = g[W - Left + i]
      /\ \A i \in 1 .. W : word[i].v = Split(i)
  BY <1>1 DEF SplitInv
<1>3. W \in Nat \ {0} /\ stray \in 1 .. W - 1 /\ Left = stray
  <2>1. Len(word) <= W
    BY <1>1, BootAssumption
  <2> QED BY <1>1, <2>1, LeftFacts
<1>4. \A i \in 1 .. W : g[i] = (IF 2 * i <= W THEN 2 ELSE 1) /\ p[i] \in {11, 16}
  BY WordFacts
<1>5. Got = [i \in 1 .. W |-> Split(i)]
  BY <1>2 DEF Got
<1>6. \A i \in 1 .. W : Split(i) = g[IF i <= stray THEN W - stray + i ELSE i - stray]
  BY DEF Split
<1> HIDE DEF g, p
<1>7. Got # p
  <2>1. 1 \in 1 .. W /\ W - stray + 1 \in 1 .. W /\ 1 <= stray
    BY <1>3
  <2>2. Got[1] = g[W - stray + 1]
    BY <1>5, <1>6, <2>1
  <2>3. Got[1] \in {1, 2} /\ p[1] \in {11, 16}
    BY <1>4, <2>1, <2>2
  <2> QED BY <2>3
<1>8. Got # g
  <2>1. 1 \in 1 .. W /\ W - stray + 1 \in 1 .. W /\ 1 <= stray
    BY <1>3
  <2>2. W \in 1 .. W /\ W - stray \in 1 .. W /\ ~(W <= stray)
    BY <1>3
  <2>3. Got[1] = g[W - stray + 1] /\ Got[W] = g[W - stray]
    BY <1>5, <1>6, <2>1, <2>2
  <2>4. SUFFICES ASSUME Got = g PROVE FALSE
    OBVIOUS
  <2>5. g[1] = 2 /\ g[W] = 1
    <3>1. 2 * 1 <= W /\ ~(2 * W <= W)
      BY <1>3
    <3> QED BY <1>4, <2>1, <2>2, <3>1
  <2>6. 2 * (W - stray + 1) <= W
    BY <1>4, <2>1, <2>3, <2>4, <2>5
  <2>7. ~(2 * (W - stray) <= W)
    BY <1>4, <2>2, <2>3, <2>4, <2>5
  <2> QED BY <1>3, <2>6, <2>7
<1>9. lap' = "op"
  BY <1>1, <1>7, <1>8
<1>10. Len(word') = 0 /\ word' \in Seq(Tagged)
  BY <1>1
<1>11. Left' = stray
  BY <1>1, <1>3, <1>10 DEF Left
<1>12. SplitInv' <=>
         \/ lap' = "dead"
         \/ /\ lap' = "op" /\ Len(word') <= W /\ Framed(wire', {Ask}, Left')
            /\ \A i \in 1 .. Left' : wire'[i].v = g[W - Left' + i]
            /\ \A i \in 1 .. Len(word') : word'[i].v = Split(i)'
  BY DEF SplitInv, Word, Halves, g
<1>13. Len(word') <= W /\ \A i \in 1 .. Len(word') : FALSE
  BY <1>3, <1>10
<1> QED BY <1>1, <1>2, <1>3, <1>9, <1>10, <1>11, <1>12, <1>13

-----------------------------------------------------------------------------
(***************************************************************************)
(* The timer, and the whole.                                               *)
(***************************************************************************)
\* The difference of two readings is the time between them, also across a wrap.
LEMMA WrapFacts ==
    ASSUME NEW T \in Nat \ {0}, NEW u \in 0 .. T - 1, NEW s \in 0 .. T - 1, NEW e \in Nat, NEW d \in Nat,
           (u - s) % T = e, e + d < T
    PROVE  (u + d) % T \in 0 .. T - 1 /\ (((u + d) % T) - s) % T = e + d
<1>1. u >= s => e = u - s
  OBVIOUS
<1>2. u < s => e = u - s + T
  <2>1. u < s => (u - s) % T = u - s + T
    OBVIOUS
  <2> QED BY <2>1
<1>3. d < T /\ e \in 0 .. T - 1
  OBVIOUS
<1>4. (u + d) % T = IF u + d < T THEN u + d ELSE u + d - T
  <2>1. u + d < T => (u + d) % T = u + d
    OBVIOUS
  <2>2. u + d >= T => (u + d) % T = u + d - T
    BY <1>3
  <2> QED BY <2>1, <2>2
<1>5. PICK v \in 0 .. T - 1 : v = (u + d) % T /\ (v = u + d \/ v = u + d - T)
  BY <1>3, <1>4
<1>6. v - s = e + d \/ v - s = e + d - T
  BY <1>1, <1>2, <1>3, <1>5
<1>7. v - s = e + d => (v - s) % T = e + d
  OBVIOUS
<1>8. v - s = e + d - T => (v - s) % T = e + d
  <2> SUFFICES ASSUME v - s = e + d - T PROVE (v - s) % T = e + d
    OBVIOUS
  <2>1. v - s < 0 /\ v - s + T \in 0 .. T - 1
    OBVIOUS
  <2>2. (v - s) % T = v - s + T
    BY <2>1
  <2> QED BY <2>2
<1> QED BY <1>5, <1>6, <1>7, <1>8

LEMMA ClockNext ==
    ASSUME BootInv, BNext
    PROVE  ClockInv'
<1>0. /\ TimerMod \in Nat /\ Interval \in Nat \ {0} /\ MaxPoll \in Nat /\ Interval + MaxPoll <= TimerMod
  BY BootAssumption
<1>00. TimerMod \in Nat \ {0}
  BY <1>0
<1>1. /\ usec \in 0 .. TimerMod - 1 /\ started \in 0 .. TimerMod - 1 /\ since \in Nat
      /\ pi \in {"put", "wait", "eat"} /\ since < Interval + MaxPoll
      /\ pi = "wait" => since < Interval /\ (usec - started) % TimerMod = since
      /\ pi = "put" => since = 0 \/ since >= Interval
  BY DEF BootInv, ClockInv
<1>2. CASE wait_for_data_put
  <2>1. pi' = "wait" /\ started' = usec /\ since' = 0 /\ usec' = usec
    BY <1>2 DEF wait_for_data_put
  <2>2. (usec - usec) % TimerMod = 0
    BY <1>00, <1>1
  <2> QED BY <1>0, <1>1, <2>1, <2>2 DEF ClockInv
<1>3. CASE wait_for_data_poll
  <2>1. PICK d \in 1 .. MaxPoll :
          /\ usec' = (usec + d) % TimerMod /\ since' = since + d
          /\ pi' = IF timer_passed(usec') THEN "put" ELSE IF answered THEN "eat" ELSE "wait"
    BY <1>3 DEF wait_for_data_poll
  <2>2. pi = "wait" /\ started' = started
    BY <1>3 DEF wait_for_data_poll
  <2>3. since < Interval /\ (usec - started) % TimerMod = since /\ d \in Nat /\ d <= MaxPoll
    BY <1>0, <1>1, <2>2
  <2>4. since + d < TimerMod /\ since + d < Interval + MaxPoll /\ since + d \in Nat
    BY <1>0, <1>1, <2>3
  <2>5. usec' \in 0 .. TimerMod - 1 /\ (usec' - started) % TimerMod = since + d
    BY <1>00, <1>1, <2>1, <2>3, <2>4, WrapFacts
  <2>6. timer_passed(usec') <=> since + d >= Interval
    BY <2>5 DEF timer_passed
  <2>7. CASE since + d >= Interval
    <3>1. pi' = "put"
      BY <2>1, <2>6, <2>7
    <3> QED BY <1>1, <2>1, <2>2, <2>4, <2>5, <2>7, <3>1 DEF ClockInv
  <2>8. CASE ~(since + d >= Interval)
    <3>1. pi' \in {"eat", "wait"} /\ since + d < Interval
      BY <1>0, <2>1, <2>4, <2>6, <2>8
    <3> QED BY <1>1, <2>1, <2>2, <2>4, <2>5, <3>1 DEF ClockInv
  <2> QED BY <2>7, <2>8
<1>4. CASE UNCHANGED <<usec, started, since, pi>>
  BY <1>1, <1>4 DEF ClockInv
<1>5. CASE \E n \in 0 .. MaxText : putk(n)
  BY <1>4, <1>5 DEF putk
<1> QED BY <1>2, <1>3, <1>4, <1>5
        DEF BNext, get_uint32, get_byte_timeout, get_op, get_op_len, get_op_text, Pi

\* The values of the other variables.
LEMMA TypeNext ==
    ASSUME BootInv, BNext
    PROVE  /\ stray' = stray /\ stray \in 0 .. W /\ printed' \in BOOLEAN /\ (printed => printed')
           /\ wire' \in Seq(Tagged) /\ word' \in Seq(Tagged) /\ text' \in Seq(Nat) /\ shown' \in Seq(Seq(Nat))
<1>1. /\ stray \in 0 .. W /\ printed \in BOOLEAN
      /\ wire \in Seq(Tagged) /\ word \in Seq(Tagged) /\ text \in Seq(Nat) /\ shown \in Seq(Seq(Nat))
  BY DEF BootInv
<1>2. wire # <<>> => Head(wire) \in Tagged /\ Head(wire).v \in Nat /\ Tail(wire) \in Seq(Tagged)
  <2>1. wire # <<>> => Head(wire) \in Tagged /\ Tail(wire) \in Seq(Tagged)
    BY <1>1, TailFacts
  <2> QED BY <2>1 DEF Tagged
<1>3. CASE wait_for_data_put
  <2>1. wire' = wire \o Ask
    BY <1>3 DEF wait_for_data_put, Ask
  <2>2. wire' \in Seq(Tagged)
    BY <1>1, <2>1, AskFacts, ConcatFacts
  <2> QED BY <1>1, <1>3, <2>2 DEF wait_for_data_put, Lap
<1>4. CASE \E n \in 0 .. MaxText : putk(n)
  <2>1. PICK n \in 0 .. MaxText : putk(n)
    BY <1>4
  <2>2. wire' = wire \o PrintMsg(n) /\ printed' = TRUE
    BY <2>1 DEF putk, PrintMsg
  <2>3. wire' \in Seq(Tagged)
    BY <1>1, <2>2, PrintFacts, ConcatFacts
  <2> QED BY <1>1, <2>1, <2>2, <2>3 DEF putk, Lap
<1>5. CASE wait_for_data_poll
  BY <1>1, <1>5 DEF wait_for_data_poll, Lap
<1>6. CASE get_uint32
  <2>1. wire # <<>> /\ word' = Append(word, Head(wire)) /\ wire' = Tail(wire)
    BY <1>6 DEF get_uint32, Take
  <2>2. word' \in Seq(Tagged) /\ wire' \in Seq(Tagged)
    BY <1>1, <1>2, <2>1, AppendFacts
  <2> QED BY <1>1, <1>6, <2>2 DEF get_uint32, Pi
<1>7. CASE get_byte_timeout
  BY <1>1, <1>7 DEF get_byte_timeout, Pi
<1>8. CASE get_op
  <2>1. word' = <<>>
    BY <1>8 DEF get_op
  <2>2. word' \in Seq(Tagged)
    BY <2>1
  <2> QED BY <1>1, <1>8, <2>2 DEF get_op, Pi
<1>9. CASE get_op_len
  <2>1. word' = <<>> /\ text' = <<>>
    BY <1>9 DEF get_op_len
  <2>2. word' \in Seq(Tagged) /\ text' \in Seq(Nat)
    BY <2>1
  <2> QED BY <1>1, <1>9, <2>2 DEF get_op_len, Pi
<1>10. CASE get_op_text
  <2>1. CASE ntext = 0
    <3>1. shown' = Append(shown, text)
      BY <1>10, <2>1 DEF get_op_text
    <3>2. shown' \in Seq(Seq(Nat))
      BY <1>1, <3>1, AppendFacts
    <3> QED BY <1>1, <1>10, <2>1, <3>2 DEF get_op_text, Pi
  <2>2. CASE ntext # 0
    <3>1. wire # <<>> /\ text' = Append(text, Head(wire).v) /\ wire' = Tail(wire)
      BY <1>10, <2>2 DEF get_op_text, Take
    <3>2. text' \in Seq(Nat) /\ wire' \in Seq(Tagged)
      BY <1>1, <1>2, <3>1, AppendFacts
    <3> QED BY <1>1, <1>10, <2>2, <3>2 DEF get_op_text, Pi
  <2> QED BY <2>1, <2>2
<1> QED BY <1>3, <1>4, <1>5, <1>6, <1>7, <1>8, <1>9, <1>10 DEF BNext

\* What a step leaves alone of a reader's state, it leaves true.
LEMMA ReaderStays ==
    ASSUME UNCHANGED <<wire, word, lap, ntext, text, shown, discarded, stray>>
    PROVE  (WholeInv => WholeInv') /\ (SplitInv => SplitInv')
<1>1. WholeInv' <=> WholeInv
  BY DEF WholeInv, Strings, AtOp, AtLen, AtText, Text, TextOf
<1>2. SplitInv' <=> SplitInv
  BY DEF SplitInv, Left, Split, Word, Halves
<1> QED BY <1>1, <1>2

LEMMA WholeNext ==
    ASSUME BootInv, BNext, stray \in {0, W}
    PROVE  WholeInv'
<1>1. WholeInv
  BY DEF BootInv
<1>2. CASE wait_for_data_put
  BY <1>1, <1>2, WholePut, MsgFacts DEF wait_for_data_put, Ask
<1>3. CASE \E n \in 0 .. MaxText : putk(n)
  <2>1. PICK n \in 0 .. MaxText : putk(n)
    BY <1>3
  <2>2. wire' = wire \o PrintMsg(n) /\ Lap /\ PrintMsg(n) \in Msgs
    BY <2>1, MsgFacts DEF putk, PrintMsg
  <2> QED BY <1>1, <2>2, WholePut
<1>4. CASE wait_for_data_poll
  BY <1>1, <1>4, ReaderStays DEF wait_for_data_poll, Lap
<1>5. CASE get_byte_timeout
  BY <1>1, <1>5 DEF get_byte_timeout, WholeInv, Strings
<1> QED BY <1>1, <1>2, <1>3, <1>4, <1>5, WholeByte, WholeOp, WholeLen, WholeText DEF BNext

LEMMA SplitNext ==
    ASSUME BootInv, BNext, stray \notin {0, W}, ~printed'
    PROVE  SplitInv'
<1>0. stray' = stray /\ ~printed
  BY TypeNext
<1>1. SplitInv
  BY <1>0 DEF BootInv
<1>2. CASE wait_for_data_put
  BY <1>0, <1>1, <1>2, SplitPut DEF wait_for_data_put, Ask
<1>3. CASE \E n \in 0 .. MaxText : putk(n)
  BY <1>3 DEF putk
<1>4. CASE wait_for_data_poll
  BY <1>0, <1>1, <1>4, ReaderStays DEF wait_for_data_poll, Lap
<1>5. CASE get_byte_timeout
  BY <1>5 DEF get_byte_timeout, SplitInv
<1>6. CASE get_op_len \/ get_op_text
  BY <1>1, <1>6 DEF get_op_len, get_op_text, SplitInv
<1> QED BY <1>1, <1>2, <1>3, <1>4, <1>5, <1>6, SplitByte, SplitOp DEF BNext

\* At first the line holds the end of a word.
LEMMA BootInit == BInit => BootInv
<1> SUFFICES ASSUME BInit PROVE BootInv
  OBVIOUS
<1> DEFINE g == Word["GET_PROG_INFO"]
           e == SubSeq(g, W - stray + 1, W)
<1>1. /\ usec \in {0, TimerMod - 1} /\ started = usec /\ since = 0 /\ pi = "put" /\ printed = FALSE
      /\ stray \in 0 .. W /\ wire = Bytes("old", e) /\ word = <<>> /\ lap = "op" /\ text = <<>>
      /\ shown = <<>> /\ discarded = 0
  BY DEF BInit
<1>2. /\ W \in Nat \ {0} /\ TimerMod \in Nat \ {0} /\ Interval \in Nat \ {0} /\ MaxPoll \in Nat
  BY BootAssumption
<1>3. g \in Seq(Nat) /\ Len(g) = W
  BY WordFacts
<1>4. ClockInv
  BY <1>1, <1>2 DEF ClockInv
<1>5. /\ e \in Seq(Nat) /\ Len(e) = stray
      /\ \A i \in 1 .. stray : e[i] = g[W - stray + i]
  <2> HIDE DEF g
  <2>1. CASE stray = 0
    <3>1. e = <<>>
      BY <1>2, <1>3, <2>1
    <3> HIDE DEF e
    <3>2. e \in Seq(Nat) /\ Len(e) = 0 /\ (1 .. stray) = {}
      BY <2>1, <3>1
    <3> QED BY <2>1, <3>2
  <2>2. CASE stray # 0
    <3>1. W - stray + 1 \in 1 .. W /\ W - (W - stray + 1) + 1 = stray
          /\ \A i \in 1 .. stray : W - stray + 1 + i - 1 = W - stray + i
      BY <1>1, <1>2, <2>2
    <3> DEFINE a == W - stray + 1
    <3>2. a \in 1 .. W /\ a \in Int /\ W \in Int /\ W - a + 1 = stray /\ a <= W
      BY <1>2, <3>1
    <3>3. W <= Len(g) /\ \A i \in a .. W : i \in 1 .. Len(g)
      BY <1>2, <1>3, <3>2
    <3>4. /\ SubSeq(g, a, W) \in Seq(Nat) /\ Len(SubSeq(g, a, W)) = W - a + 1
          /\ \A i \in 1 .. W - a + 1 : SubSeq(g, a, W)[i] = g[a + i - 1]
      <4> HIDE DEF a
      <4> QED BY <1>3, <3>2, <3>3, SubSeqProperties
    <3>5. /\ e \in Seq(Nat) /\ Len(e) = stray
          /\ \A i \in 1 .. stray : e[i] = g[a + i - 1]
      BY <3>2, <3>4
    <3> HIDE DEF e
    <3>6. \A i \in 1 .. stray : a + i - 1 = W - stray + i
      BY <1>1, <1>2
    <3> HIDE DEF a
    <3> QED BY <3>5, <3>6
  <2> QED BY <2>1, <2>2
<1> HIDE DEF e
<1>6. wire \in Seq(Tagged) /\ Len(wire) = stray /\ \A i \in 1 .. stray : wire[i].v = e[i]
  <2>1. /\ Bytes("old", e) \in Seq(Tagged) /\ Len(Bytes("old", e)) = Len(e)
        /\ \A i \in 1 .. Len(e) : Bytes("old", e)[i].v = e[i]
    BY <1>5, BytesFacts
  <2> QED BY <1>1, <1>5, <2>1
<1>7. word \in Seq(Tagged) /\ Len(word) = 0 /\ text \in Seq(Nat) /\ shown \in Seq(Seq(Nat)) /\ Len(shown) = 0
  BY <1>1
<1>8. ASSUME stray = 0 PROVE WholeInv
  <2>1. Framed(wire, Msgs, 0)
    BY <1>6, <1>8, FrameAll
  <2> QED BY <1>1, <1>7, <2>1 DEF WholeInv, AtOp, Strings
<1>9. ASSUME stray = W PROVE WholeInv
  <2>1. e = g
    <3>1. \A i \in 1 .. Len(e) : e[i] = g[i]
      BY <1>2, <1>5, <1>9
    <3> HIDE DEF g
    <3> QED BY <1>3, <1>5, <1>9, <3>1, SeqEqual
  <2>2. wire = Old
    BY <1>1, <2>1 DEF Old
  <2>3. Framed(<<>>, Msgs, 0)
    <3>1. <<>> \in Seq(Tagged) /\ Len(<<>>) = 0
      OBVIOUS
    <3> QED BY <3>1, FrameAll
  <2>4. Framed(wire, Msgs, 0)
    <3>1. Old \in Seq(Tagged) /\ Len(Old) >= 1 /\ Old \in Msgs
      BY <1>2, AskFacts DEF Msgs
    <3>2. <<>> \in Seq(Tagged)
      OBVIOUS
    <3>3. Framed(<<>> \o Old, Msgs, 0)
      BY <2>3, <3>1, <3>2, FrameAppend
    <3>4. <<>> \o Old = Old
      BY <3>1
    <3> QED BY <2>2, <3>3, <3>4
  <2> QED BY <1>1, <1>7, <2>4 DEF WholeInv, AtOp, Strings
<1>10. SplitInv
  <2>1. Left = stray
    BY <1>1, <1>2, <1>7 DEF Left
  <2>2. Framed(wire, {Ask}, stray)
    BY <1>6, FrameAll
  <2>3. \A i \in 1 .. Left : wire[i].v = g[W - Left + i]
    BY <1>5, <1>6, <2>1
  <2>4. Len(word) <= W /\ \A i \in 1 .. Len(word) : word[i].v = Split(i)
    BY <1>2, <1>7
  <2> QED BY <1>1, <2>1, <2>2, <2>3, <2>4 DEF SplitInv
<1> QED BY <1>1, <1>4, <1>6, <1>7, <1>8, <1>9, <1>10 DEF BootInv

LEMMA BootNext == BootInv /\ [BNext]_bovars => BootInv'
<1> SUFFICES ASSUME BootInv, [BNext]_bovars PROVE BootInv'
  OBVIOUS
<1>1. CASE BNext
  BY <1>1, ClockNext, TypeNext, WholeNext, SplitNext DEF BootInv
<1>2. CASE UNCHANGED bovars
  <2>1. ClockInv'
    BY <1>2 DEF BootInv, ClockInv, bovars
  <2>2. (WholeInv => WholeInv') /\ (SplitInv => SplitInv')
    BY <1>2, ReaderStays DEF bovars
  <2> QED BY <1>2, <2>1, <2>2 DEF BootInv, bovars
<1> QED BY <1>1, <1>2

LEMMA BootImplies == BootInv => BootInStep
<1> SUFFICES ASSUME BootInv PROVE BootInStep
  OBVIOUS
<1>1. WaitsInterval
  <2>1. since \in Nat /\ since < Interval + MaxPoll /\ (pi = "put" => since = 0 \/ since >= Interval)
    BY DEF BootInv, ClockInv
  <2> QED BY <2>1 DEF WaitsInterval
<1>2. W \in Nat \ {0} /\ stray \in 0 .. W
  BY BootAssumption DEF BootInv
<1>3. stray % W = 0 <=> stray \in {0, W}
  <2>1. stray < W => stray % W = stray
    BY <1>2
  <2>2. W % W = 0
    BY <1>2
  <2>3. stray < W \/ stray = W
    BY <1>2
  <2> QED BY <2>1, <2>2, <2>3
<1>4. CASE stray \in {0, W}
  <2>1. WholeInv
    BY <1>4 DEF BootInv
  <2>2. InStep
    <3>1. ASSUME lap \in {"op", "len"}, word # <<>>, lap # "len" PROVE word[1].first
      <4>1. AtOp
        BY <2>1, <3>1 DEF WholeInv, AtLen, AtText
      <4>2. PICK m \in Msgs : Len(word) \in 1 .. W /\ \A i \in 1 .. Len(word) : word[i] = m[i]
        BY <3>1, <4>1 DEF AtOp
      <4>3. word[1] = m[1]
        BY <4>2
      <4> QED BY <4>3, MsgFacts
    <3> QED BY <3>1 DEF InStep
  <2> QED BY <1>3, <1>4, <2>1, <2>2, <1>1 DEF WholeInv, DrainsInStep, BootInStep
<1>5. CASE stray \notin {0, W}
  <2>1. ~printed => SplitInv
    BY <1>5 DEF BootInv
  <2>2. lap = "found" => printed
    BY <2>1 DEF SplitInv, BootInv
  <2> QED BY <1>1, <1>3, <1>5, <2>2 DEF DrainsInStep, BootInStep
<1> QED BY <1>4, <1>5

\* While the pi asks for its program and prints, on a line that starts with whole words the
\* laptop reads words where they begin and shows each string as it was sent; on one that starts
\* within a word it never finds a pi that prints nothing (simple_boot's drain reads four bytes at a
\* time); and the waits of wait_for_data last 300ms across a wrap of the timer.
THEOREM BootStaysInStep == BootSpec => []BootInStep
<1>1. BootSpec => []BootInv
  BY BootInit, BootNext, PTL DEF BootSpec
<1> QED BY <1>1, BootImplies, PTL
=============================================================================
