------------------------------ MODULE AbsFifo ------------------------------
(***************************************************************************)
(* What a byte queue shared by one producer and one consumer promises:     *)
(* bytes come out once each, in the order they went in, and no more than   *)
(* Capacity of them are ever waiting.  The queue is kept as its history:   *)
(* sent is everything accepted so far, rcvd everything handed out.         *)
(***************************************************************************)
EXTENDS Naturals, Sequences

CONSTANTS Byte,      \* what is queued (cqe_t)
          Capacity   \* how many bytes may wait

VARIABLES sent, rcvd

fvars == <<sent, rcvd>>

Waiting == Len(sent) - Len(rcvd)

FifoInit == sent = <<>> /\ rcvd = <<>>

Push(x) == /\ Waiting < Capacity
           /\ sent' = Append(sent, x)
           /\ rcvd' = rcvd

Pop == /\ Waiting > 0
       /\ rcvd' = Append(rcvd, sent[Len(rcvd) + 1])
       /\ sent' = sent

FifoNext == Pop \/ \E x \in Byte : Push(x)

FifoSpec == FifoInit /\ [][FifoNext]_fvars
=============================================================================
