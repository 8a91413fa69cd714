----------------------------- MODULE LexSimple -----------------------------
(***************************************************************************)
(* The lexer of labs/10-esp8266/libesp/esp-lex-simple.{c,h}, which keeps   *)
(* all input ever received, so that a checkpoint is just a position.  It   *)
(* is the specification the circular lexer (EspLex) must implement.        *)
(*                                                                         *)
(* A byte of input is represented by its place in the stream, counted from *)
(* 1: l->stream[i] is i + 1 and needs no variable.                         *)
(***************************************************************************)
EXTENDS Naturals, Sequences

VARIABLES
  pos,   \* l->pos: bytes consumed
  n,     \* l->n: bytes received
  ck,    \* the checkpoints held by the active match routines, innermost last
  got    \* the byte last returned by lex_getc or lex_peek

lvars == <<pos, n, ck, got>>

lex_empty == pos = n

LexInit == pos = 0 /\ n = 0 /\ ck = <<>> /\ got = 0

lex_push_n == /\ n' \in Nat /\ n' > n
              /\ UNCHANGED <<pos, ck, got>>

lex_getc == /\ ~lex_empty
            /\ got' = pos + 1 /\ pos' = pos + 1
            /\ UNCHANGED <<n, ck>>

lex_peek == /\ ~lex_empty
            /\ got' = pos + 1
            /\ UNCHANGED <<pos, n, ck>>

lex_get_ckpt == /\ ck' = Append(ck, pos)
                /\ UNCHANGED <<pos, n, got>>

\* The innermost routine fails: rewind and return.
lex_restore_ckpt == /\ ck # <<>>
                    /\ pos' = ck[Len(ck)]
                    /\ ck' = SubSeq(ck, 1, Len(ck) - 1)
                    /\ UNCHANGED <<n, got>>

\* The innermost routine succeeds: its checkpoint goes out of scope.
lex_drop_ckpt == /\ ck # <<>>
                 /\ ck' = SubSeq(ck, 1, Len(ck) - 1)
                 /\ UNCHANGED <<pos, n, got>>

LexNext == \/ lex_push_n \/ lex_getc \/ lex_peek
           \/ lex_get_ckpt \/ lex_restore_ckpt \/ lex_drop_ckpt

LexSpec == LexInit /\ [][LexNext]_lvars
=============================================================================
