----------------------------- MODULE CircularQ -----------------------------
(***************************************************************************)
(* The circular queue of libpi/libc/circular.h, shared by one pushing and  *)
(* one popping side, for instance an interrupt handler and the code it     *)
(* interrupts.  Every access to a field the other side may touch is a step *)
(* of its own, so the two sides interleave at every volatile access.       *)
(*                                                                         *)
(* sent and rcvd are history variables: the bytes published by head and    *)
(* the bytes removed for good by tail.                                     *)
(***************************************************************************)
EXTENDS Integers, Sequences

CONSTANTS
  CQ_N,        \* slots of the ring
  WORD,        \* 2^width of `unsigned', in which head - tail is computed
  Byte,        \* cqe_t
  ProdOps,     \* the operations the pushing side calls
  ConsOps,     \* the operations the popping side calls
  Concurrent,  \* FALSE: one thread makes all the calls, one at a time
  MaxBatch,    \* bound: the longest n of a _n operation
  MaxSent      \* bound: bytes pushed in a behaviour

AllProdOps == {"push", "push_n"}
AllConsOps == {"pop_nonblock", "pop", "pop_n_noblk", "peek", "peek_n"}

ASSUME RingAssumption ==
  /\ CQ_N \in Nat \ {0}
  /\ WORD \in Nat
  /\ \E k \in 1..WORD : WORD = k * CQ_N

ASSUME ByteAssumption == 0 \in Byte

ASSUME UseAssumption ==
  /\ ProdOps \subseteq AllProdOps
  /\ ConsOps \subseteq AllConsOps
  /\ Concurrent \in BOOLEAN
  /\ MaxBatch \in Nat
  /\ MaxSent \in Nat

VARIABLES
  c_buf, head, tail,  \* the fields of cq_t
  ppc, pop_, todo,    \* pushing side: where it is, its operation, p[i..n-1]
  cpc, cop, need,     \* popping side: where it is, its operation, pops to do
  out, saved, sz,     \* its output buffer, cq_peek_n's tail and sz
  sent, rcvd

ring  == <<c_buf, head, tail>>
pvars == <<ppc, pop_, todo>>
cvars == <<cpc, cop, need, out, saved, sz>>
vars  == <<ring, pvars, cvars, sent, rcvd>>

-----------------------------------------------------------------------------
(* The queries.  All of them read head and tail once. *)

cq_empty == head = tail

\* Seeded faults: no wrap at the end of the buffer; full only when nothing is
\* left, as if all CQ_N slots could be used.
cq_full_nowrap == head + 1 = tail
cq_full_all    == (head - tail) % CQ_N = CQ_N

cq_full == (head + 1) % CQ_N = tail

cq_nelem == ((head - tail) % WORD) % CQ_N

cq_nspace == CQ_N - cq_nelem

-----------------------------------------------------------------------------
cq_init ==
  /\ c_buf = [i \in 0..CQ_N-1 |-> 0]
  /\ head = 0 /\ tail = 0

Init ==
  /\ cq_init
  /\ ppc = "idle" /\ pop_ = "push" /\ todo = <<>>
  /\ cpc = "idle" /\ cop = "peek" /\ need = 0
  /\ out = <<>> /\ saved = 0 /\ sz = 0
  /\ sent = <<>> /\ rcvd = <<>>

\* A panic on either side stops the program.
Running == ppc # "panic" /\ cpc # "panic"

\* A call may start: nothing else is in progress if one thread makes all calls.
MayPush == Running /\ ppc = "idle" /\ (Concurrent \/ cpc = "idle")
MayPop  == Running /\ cpc = "idle" /\ (Concurrent \/ ppc = "idle")

-----------------------------------------------------------------------------
(* The pushing side. *)

CallPush(x) ==
  /\ MayPush /\ "push" \in ProdOps /\ Len(sent) < MaxSent
  /\ pop_' = "push" /\ todo' = <<x>> /\ ppc' = "check"
  /\ UNCHANGED <<ring, cvars, sent, rcvd>>

\* With too little space the call returns 0 and changes nothing.
CallPushN(s) ==
  /\ MayPush /\ "push_n" \in ProdOps /\ Len(sent) + Len(s) <= MaxSent
  /\ cq_nspace >= Len(s)
  /\ pop_' = "push_n" /\ todo' = s
  /\ ppc' = IF s = <<>> THEN "idle" ELSE "check"
  /\ UNCHANGED <<ring, cvars, sent, rcvd>>

\* cq_push up to its return 0, on which cq_push_n panics.
PushCheck ==
  /\ Running /\ ppc = "check"
  /\ ppc' = IF ~cq_full THEN "store" ELSE IF pop_ = "push" THEN "idle" ELSE "panic"
  /\ UNCHANGED <<ring, pop_, todo, cvars, sent, rcvd>>

\* Seeded fault: the store goes to the slot after head.
PushStore_next ==
  /\ Running /\ ppc = "store"
  /\ c_buf' = [c_buf EXCEPT ![(head + 1) % CQ_N] = Head(todo)]
  /\ ppc' = "publish"
  /\ UNCHANGED <<head, tail, pop_, todo, cvars, sent, rcvd>>

PushStore ==
  /\ Running /\ ppc = "store"
  /\ c_buf' = [c_buf EXCEPT ![head] = Head(todo)]
  /\ ppc' = "publish"
  /\ UNCHANGED <<head, tail, pop_, todo, cvars, sent, rcvd>>

PushPublish ==
  /\ Running /\ ppc = "publish"
  /\ head' = (head + 1) % CQ_N
  /\ sent' = Append(sent, Head(todo))
  /\ todo' = Tail(todo)
  /\ ppc' = IF Len(todo) > 1 THEN "check"
            ELSE IF pop_ = "push" THEN "idle" ELSE "assert"
  /\ UNCHANGED <<c_buf, tail, pop_, cvars, rcvd>>

\* cq_push_n's closing assert(!cq_empty(c)).
PushNAssert ==
  /\ Running /\ ppc = "assert"
  /\ ppc' = IF cq_empty THEN "panic" ELSE "idle"
  /\ UNCHANGED <<ring, pop_, todo, cvars, sent, rcvd>>

-----------------------------------------------------------------------------
(* The popping side. *)

CallOne(op) ==
  /\ MayPop /\ op \in ConsOps
  /\ cop' = op /\ need' = 1 /\ out' = <<>> /\ cpc' = "check"
  /\ UNCHANGED <<ring, pvars, saved, sz, sent, rcvd>>

\* Seeded fault: the count is not looked at before the pops start.
CallPopNNoblk_unchecked(n) ==
  /\ MayPop /\ "pop_n_noblk" \in ConsOps
  /\ cop' = "pop_n_noblk" /\ need' = n /\ out' = <<>>
  /\ cpc' = IF n = 0 THEN "idle" ELSE "check"
  /\ UNCHANGED <<ring, pvars, saved, sz, sent, rcvd>>

\* With too few elements the call returns 0 and changes nothing.
CallPopNNoblk(n) ==
  /\ MayPop /\ "pop_n_noblk" \in ConsOps
  /\ cq_nelem >= n
  /\ cop' = "pop_n_noblk" /\ need' = n /\ out' = <<>>
  /\ cpc' = IF n = 0 THEN "idle" ELSE "check"
  /\ UNCHANGED <<ring, pvars, saved, sz, sent, rcvd>>

CallPeekN(n) ==
  /\ MayPop /\ "peek_n" \in ConsOps
  /\ cq_nelem >= n
  /\ cop' = "peek_n" /\ need' = n /\ out' = <<>>
  /\ sz' = cq_nelem /\ saved' = tail
  /\ cpc' = "peek_check"
  /\ UNCHANGED <<ring, pvars, sent, rcvd>>

\* cq_peek_n's call of cq_pop_n_noblk, which looks at the count again.
PeekNCheck ==
  /\ Running /\ cpc = "peek_check"
  /\ cpc' = IF cq_nelem < need THEN "idle" ELSE IF need = 0 THEN "restore" ELSE "check"
  /\ UNCHANGED <<ring, pvars, cop, need, out, saved, sz, sent, rcvd>>

\* What an empty ring does to each operation: cq_pop panics at its first poll.
WhenEmpty == IF cop \in {"pop_nonblock", "peek"} THEN "idle" ELSE "panic"

PopCheck ==
  /\ Running /\ cpc = "check"
  /\ cpc' = IF cq_empty THEN WhenEmpty ELSE "load"
  /\ UNCHANGED <<ring, pvars, cop, need, out, saved, sz, sent, rcvd>>

PopLoad ==
  /\ Running /\ cpc = "load"
  /\ out' = Append(out, c_buf[tail])
  /\ cpc' = IF cop = "peek" THEN "idle" ELSE "advance"
  /\ UNCHANGED <<ring, pvars, cop, need, saved, sz, sent, rcvd>>

PopAdvance ==
  /\ Running /\ cpc = "advance"
  /\ tail' = (tail + 1) % CQ_N
  /\ rcvd' = IF cop = "peek_n" THEN rcvd ELSE Append(rcvd, out[Len(out)])
  /\ need' = need - 1
  /\ cpc' = IF need > 1 THEN "check" ELSE IF cop = "peek_n" THEN "restore" ELSE "idle"
  /\ UNCHANGED <<c_buf, head, pvars, cop, out, saved, sz, sent>>

\* Seeded fault: cq_peek_n leaves tail where the pops put it.
PeekNRestore_forgets ==
  /\ Running /\ cpc = "restore"
  /\ cpc' = "assert"
  /\ UNCHANGED <<ring, pvars, cop, need, out, saved, sz, sent, rcvd>>

PeekNRestore ==
  /\ Running /\ cpc = "restore"
  /\ tail' = saved
  /\ cpc' = "assert"
  /\ UNCHANGED <<c_buf, head, pvars, cop, need, out, saved, sz, sent, rcvd>>

\* cq_peek_n's closing assert(sz == cq_nelem(c)).
PeekNAssert ==
  /\ Running /\ cpc = "assert"
  /\ cpc' = IF sz = cq_nelem THEN "idle" ELSE "panic"
  /\ UNCHANGED <<ring, pvars, cop, need, out, saved, sz, sent, rcvd>>

-----------------------------------------------------------------------------
Batches == UNION {[1..n -> Byte] : n \in 0..MaxBatch}

PushNext ==
  \/ \E x \in Byte : CallPush(x)
  \/ \E s \in Batches : CallPushN(s)
  \/ PushCheck \/ PushStore \/ PushPublish \/ PushNAssert

PopNext ==
  \/ \E op \in {"pop_nonblock", "pop", "peek"} : CallOne(op)
  \/ \E n \in 0..MaxBatch : CallPopNNoblk(n) \/ CallPeekN(n)
  \/ PeekNCheck \/ PopCheck \/ PopLoad \/ PopAdvance
  \/ PeekNRestore \/ PeekNAssert

Next == PushNext \/ PopNext

Spec == Init /\ [][Next]_vars

-----------------------------------------------------------------------------
(* Properties. *)

\* The values each variable may take.
TypeOK ==
  /\ c_buf \in [0..CQ_N-1 -> Byte]
  /\ head \in 0..CQ_N-1 /\ tail \in 0..CQ_N-1
  /\ ppc \in {"idle", "check", "store", "publish", "assert", "panic"}
  /\ pop_ \in AllProdOps /\ todo \in Seq(Byte)
  /\ cpc \in {"idle", "peek_check", "check", "load", "advance", "restore", "assert", "panic"}
  /\ cop \in AllConsOps /\ need \in Nat
  /\ out \in Seq(Byte) /\ saved \in 0..CQ_N-1 /\ sz \in 0..CQ_N-1
  /\ sent \in Seq(Byte) /\ rcvd \in Seq(Byte)

\* The bytes removed are the first bytes pushed, in order, each once: neither
\* side loses, repeats or reorders a byte although they share no lock
\* (circular.h: "single mutator of head, single mutator of tail = lock free").
InOrder ==
  /\ Len(rcvd) <= Len(sent)
  /\ \A i \in 1..Len(rcvd) : rcvd[i] = sent[i]

\* The slot after k others, going round the ring from slot t.
Slot(t, k) == IF t + k < CQ_N THEN t + k ELSE t + k - CQ_N

\* Where the oldest unread byte is: cq_peek_n moves tail, then puts it back.
front == IF cpc \in {"check", "load", "advance", "restore"} /\ cop = "peek_n"
         THEN saved ELSE tail

unread == Len(sent) - Len(rcvd)

\* The ring holds exactly the unread bytes, from front to head: a push never
\* lands on a byte that is still to be read, and at most CQ_N-1 bytes wait.
RingHoldsUnread ==
  /\ unread \in 0..CQ_N-1
  /\ head = Slot(front, unread)
  /\ \A k \in 0..CQ_N-1 :
       k < unread => c_buf[Slot(front, k)] = sent[Len(rcvd) + k + 1]

\* cq_peek and cq_peek_n return the oldest unread bytes, in order, and those
\* bytes are still unread afterwards ("non-destructively peek ahead").
PeekSeesFront ==
  cop \in {"peek", "peek_n"} =>
    /\ Len(out) <= unread
    /\ \A i \in 1..Len(out) : out[i] = sent[Len(rcvd) + i]

\* A cq_pop_n_noblk or cq_peek_n that saw enough elements never finds the ring
\* empty in the middle, where it would panic: nobody else removes them.
\* Only a plain cq_pop panics.
PopSideSafe ==
  /\ cpc = "panic" => cop = "pop"
  /\ cpc = "check" /\ cop \in {"pop_n_noblk", "peek_n"} => ~cq_empty

\* Used by one thread, cq_push_n panics in one case only: it was asked for one
\* byte more than fit, accepted the call because cq_nspace counts the slot that
\* must stay unused, and stopped with all but the last byte already queued.
PushNStopsOneShort ==
  ppc = "panic" => pop_ = "push_n" /\ Len(todo) = 1 /\ cq_full

\* The ring implements the abstract queue with one slot less than its size.
Fifo == INSTANCE AbsFifo WITH Capacity <- CQ_N - 1

\* Every step of the ring, at the granularity of memory accesses, is a push, a
\* pop or nothing for whoever only sees the bytes.
ImplementsFifo == Fifo!FifoSpec

\* All calls made by one thread, cq_peek_n and cq_push_n among them: every byte
\* pushed is popped once and in order, peeks and batch pops see what is there, and
\* cq_push_n panics only when one byte too many is pushed.
OneThreadSafe ==
  /\ TypeOK /\ InOrder /\ RingHoldsUnread
  /\ PeekSeesFront /\ PopSideSafe /\ PushNStopsOneShort

=============================================================================
