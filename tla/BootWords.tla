----------------------------- MODULE BootWords -----------------------------
(* The operations of the boot protocol (simple-boot.h) as bytes.             *)
EXTENDS Naturals, Sequences

CONSTANT W          \* bytes of a word, 4 in the code

\* Low byte first: 0x11112222 is 2, 2, 1, 1.
Halves == [GET_PROG_INFO |-> <<2, 1>>, PUT_PROG_INFO |-> <<4, 3>>, GET_CODE |-> <<6, 5>>,
           PUT_CODE |-> <<8, 7>>, BOOT_SUCCESS |-> <<10, 9>>, BAD_CODE_CKSUM |-> <<14, 13>>,
           PRINT_STRING |-> <<16, 11>>]
Word == [op \in DOMAIN Halves |-> [i \in 1 .. W |-> Halves[op][IF 2 * i <= W THEN 1 ELSE 2]]]

\* put_uint of a small number
Number(n) == [i \in 1 .. W |-> IF i = 1 THEN n ELSE 0]
=============================================================================
