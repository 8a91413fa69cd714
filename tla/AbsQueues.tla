------------------------------ MODULE AbsQueues ------------------------------
(***************************************************************************)
(* What the queues of Q.h promise: each is a sequence of elements that can *)
(* be taken from the front, appended to, pushed on and inserted into.      *)
(***************************************************************************)
EXTENDS Integers, Sequences

CONSTANTS Queue, Block, NULL

VARIABLES s, got     \* the contents of each queue; what the last Q_pop returned

avars == <<s, got>>

AInit == s = [q \in Queue |-> <<>>] /\ got = NULL

\* q without its first element
Pop(q) == IF s[q] = <<>>
          THEN got' = NULL /\ UNCHANGED s
          ELSE got' = Head(s[q]) /\ s' = [s EXCEPT ![q] = Tail(@)]

\* q with e as its k+1st element, not one of any queue before
Insert(q, e, k) ==
  /\ \A p \in Queue : \A i \in 1..Len(s[p]) : s[p][i] # e
  /\ s' = [s EXCEPT ![q] = SubSeq(@, 1, k) \o <<e>> \o SubSeq(@, k + 1, Len(@))]
  /\ UNCHANGED got

ANext == \E q \in Queue :
           \/ Pop(q)
           \/ \E e \in Block, k \in 0..Len(s[q]) : Insert(q, e, k)

ASpec == AInit /\ [][ANext]_avars
=============================================================================
