------------------------------- MODULE EspLex -------------------------------
(***************************************************************************)
(* The lexer of the ESP8266 library as it is built (LEX_CIRC): input read  *)
(* from the device goes through the circular queue of circular.h, and the  *)
(* parser's checkpoints are saved values of stream.tail.                   *)
(* labs/10-esp8266/libesp/esp-lex.c, esp-lex-circ.{c,h}.                   *)
(*                                                                         *)
(* One thread does everything except Arrive, the device.  A byte is        *)
(* represented by its place in the stream, counted from 1, so the ring     *)
(* shows which byte of the input each slot holds.                          *)
(***************************************************************************)
EXTENDS Integers, Sequences

CONSTANTS
  CQ_N,      \* slots of the ring
  MaxRead,   \* sizeof buf in lex_readin
  MaxBurst,  \* the most input one lex_readin can pick up
  MaxSpec,   \* the most input consumed under a checkpoint
  MaxDepth,  \* bound: nested checkpoints
  MaxInput   \* bound: bytes the device sends

ASSUME LexAssumption ==
  /\ CQ_N \in Nat \ {0} /\ MaxRead \in Nat \ {0}
  /\ MaxBurst \in Nat /\ MaxSpec \in Nat /\ MaxDepth \in Nat /\ MaxInput \in Nat

VARIABLES
  c_buf, head, tail,  \* l->stream
  ckt,                \* tails saved by the active match routines
  arrived,            \* bytes the device has sent
  pc, want, nbytes,   \* where the lexer is, for whom, nbytes of lex_readin
  got,                \* the byte last returned
  pos, n, ckpos       \* history: bytes consumed, bytes received, checkpoints

stream == <<c_buf, head, tail>>
hist   == <<pos, n, ckpos>>
vars   == <<stream, ckt, arrived, pc, want, nbytes, got, hist>>

cq_empty  == head = tail
cq_nelem  == (head - tail) % CQ_N
cq_nspace == CQ_N - cq_nelem

waiting == arrived - n     \* what the operating system holds for esp_read

-----------------------------------------------------------------------------
lex_init ==
  /\ c_buf = [i \in 0..CQ_N-1 |-> 0] /\ head = 0 /\ tail = 0

Init ==
  /\ lex_init
  /\ ckt = <<>> /\ arrived = 0 /\ got = 0
  /\ pc = "run" /\ want = "getc" /\ nbytes = 0
  /\ pos = 0 /\ n = 0 /\ ckpos = <<>>

\* The device sends a byte; what one lex_readin picks up is bounded.
Arrive ==
  /\ arrived < MaxInput
  /\ waiting + (IF pc \in {"readin", "more"} THEN nbytes ELSE 0) < MaxBurst
  /\ arrived' = arrived + 1
  /\ UNCHANGED <<stream, ckt, pc, want, nbytes, got, hist>>

\* Seeded fault: reads in more although the ring is not empty.
Call_eager(op) ==
  /\ pc = "run"
  /\ op = "getc" /\ ckpos # <<>> => pos - ckpos[1] < MaxSpec
  /\ want' = op /\ nbytes' = 0
  /\ pc' = "readin"
  /\ UNCHANGED <<stream, ckt, arrived, got, hist>>

\* lex_getc and lex_peek up to the call of lex_readin.
Call(op) ==
  /\ pc = "run"
  /\ op = "getc" /\ ckpos # <<>> => pos - ckpos[1] < MaxSpec
  /\ want' = op /\ nbytes' = 0
  /\ pc' = IF cq_empty THEN "readin" ELSE "take"
  /\ UNCHANGED <<stream, ckt, arrived, got, hist>>

\* Room for k more bytes: cq_push_n neither refuses nor panics.
Fits(k) == cq_nspace >= k /\ cq_nelem + k < CQ_N

Pushed(k) == [i \in 0..CQ_N-1 |->
                LET d == (i - head) % CQ_N IN IF d < k THEN n + d + 1 ELSE c_buf[i]]

\* One turn of lex_readin's loop, after esp_has_data_timeout saw data: esp_read
\* returns some of it and lex_push_n puts it in the ring; then the assert.
Readin(k) ==
  /\ pc = "readin" /\ k <= waiting
  /\ IF Fits(k) /\ cq_nelem = nbytes
     THEN /\ c_buf' = Pushed(k) /\ head' = (head + k) % CQ_N
          /\ n' = n + k /\ nbytes' = nbytes + k
          /\ pc' = "more"
     ELSE pc' = "panic" /\ UNCHANGED <<c_buf, head, n, nbytes>>
  /\ UNCHANGED <<tail, ckt, arrived, want, got, pos, ckpos>>

\* while(esp_has_data_timeout(l, 0))
ReadinMore ==
  /\ pc = "more"
  /\ pc' = IF waiting > 0 THEN "readin" ELSE "take"
  /\ UNCHANGED <<stream, ckt, arrived, want, nbytes, got, hist>>

\* Seeded fault: lex_peek pops the byte it returns.
Take_peek_pops ==
  /\ pc = "take" /\ ~cq_empty
  /\ pc' = "run" /\ got' = c_buf[tail]
  /\ tail' = (tail + 1) % CQ_N
  /\ pos'  = IF want = "getc" THEN pos + 1 ELSE pos
  /\ UNCHANGED <<c_buf, head, ckt, arrived, want, nbytes, n, ckpos>>

\* The rest of lex_getc and lex_peek: assert, then pop or peek.
Take ==
  /\ pc = "take"
  /\ IF cq_empty
     THEN pc' = "panic" /\ UNCHANGED <<got, tail, pos>>
     ELSE /\ pc' = "run" /\ got' = c_buf[tail]
          /\ tail' = IF want = "getc" THEN (tail + 1) % CQ_N ELSE tail
          /\ pos'  = IF want = "getc" THEN pos + 1 ELSE pos
  /\ UNCHANGED <<c_buf, head, ckt, arrived, want, nbytes, n, ckpos>>

\* A match routine takes a checkpoint.
lex_get_ckpt ==
  /\ pc = "run" /\ Len(ckt) < MaxDepth
  /\ ckt' = Append(ckt, tail) /\ ckpos' = Append(ckpos, pos)
  /\ UNCHANGED <<stream, arrived, pc, want, nbytes, got, pos, n>>

Pop(s) == SubSeq(s, 1, Len(s) - 1)

\* Seeded fault: goes back to the outermost checkpoint.
lex_restore_ckpt_outer ==
  /\ pc = "run" /\ ckt # <<>>
  /\ tail' = ckt[1] /\ pos' = ckpos[Len(ckpos)]
  /\ ckt' = Pop(ckt) /\ ckpos' = Pop(ckpos)
  /\ UNCHANGED <<c_buf, head, arrived, pc, want, nbytes, got, n>>

\* It fails: rewind, return 0.
lex_restore_ckpt ==
  /\ pc = "run" /\ ckt # <<>>
  /\ tail' = ckt[Len(ckt)] /\ pos' = ckpos[Len(ckpos)]
  /\ ckt' = Pop(ckt) /\ ckpos' = Pop(ckpos)
  /\ UNCHANGED <<c_buf, head, arrived, pc, want, nbytes, got, n>>

\* It succeeds: the checkpoint is forgotten.
lex_drop_ckpt ==
  /\ pc = "run" /\ ckt # <<>>
  /\ ckt' = Pop(ckt) /\ ckpos' = Pop(ckpos)
  /\ UNCHANGED <<stream, arrived, pc, want, nbytes, got, pos, n>>

Next ==
  \/ Arrive
  \/ \E op \in {"getc", "peek"} : Call(op)
  \/ \E k \in 1..MaxRead : Readin(k)
  \/ ReadinMore \/ Take
  \/ lex_get_ckpt \/ lex_restore_ckpt \/ lex_drop_ckpt

Spec == Init /\ [][Next]_vars

-----------------------------------------------------------------------------
\* What keeps a rollback safe: the ring has room for everything consumed under
\* a checkpoint and everything one lex_readin picks up.
SafeBurst == MaxSpec + MaxBurst < CQ_N

\* The values each variable may take.
TypeOK ==
  /\ c_buf \in [0..CQ_N-1 -> Nat] /\ head \in 0..CQ_N-1 /\ tail \in 0..CQ_N-1
  /\ ckt \in Seq(0..CQ_N-1) /\ arrived \in Nat
  /\ pc \in {"run", "readin", "more", "take", "panic"}
  /\ want \in {"getc", "peek"} /\ nbytes \in Nat /\ got \in Nat
  /\ pos \in Nat /\ n \in Nat /\ ckpos \in Seq(Nat)

\* After a rewind to any checkpoint, however much was read in since, the ring
\* gives the same bytes again: no byte received after the oldest checkpoint has
\* been overwritten or forgotten (esp-lex-circ.h, "revert back to a checkpoint").
RollbackExact ==
  pc = "run" =>
    /\ cq_nelem = n - pos
    /\ cq_empty \/ c_buf[tail] = pos + 1
    /\ \A j \in DOMAIN ckt :
         ckpos[j] < n => ckt[j] # head /\ c_buf[ckt[j]] = ckpos[j] + 1

\* Reading in never overfills the ring and none of the lexer's asserts fails.
LexNeverPanics == pc # "panic"

\* The circular lexer returns what the lexer that keeps all input would return.
Simple == INSTANCE LexSimple WITH ck <- ckpos

ImplementsSimple == Simple!LexSpec
=============================================================================
