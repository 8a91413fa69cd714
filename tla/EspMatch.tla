------------------------------ MODULE EspMatch ------------------------------
(***************************************************************************)
(* The line matcher of the ESP library of labs 9 and 10 (..10), by character.*)
(* inp is what the device has sent, of which avail characters have been      *)
(* read into the lexer's buffer.  A matcher started at position p gives      *)
(* where it leaves the stream and how far it looked; one that looks past     *)
(* avail has to wait for lex_readin.                                         *)
(***************************************************************************)
EXTENDS Integers, SequencesExt

VARIABLES inp, avail

At(p) == IF p <= Len(inp) THEN inp[p] ELSE "none"
is_eol(p) == At(p) \in {"cr", "nl"}
is_space(p) == At(p) = " "
IsDigit(c) == c \in {"1", "2"}
IsAlpha(c) == c \in {"A", "T", "O", "K", "E", "R", "Y", "X", "C", "b"}

\* The first position from p on that satisfies P, or the end of the input
First(p, P(_)) == CHOOSE q \in p .. Len(inp) + 1 :
                    /\ q <= Len(inp) => P(q)
                    /\ \A r \in p .. q - 1 : ~P(r)

\* A match that succeeded, and one that failed and restored its checkpoint
Yes(p, need) == [ok |-> TRUE, pos |-> p, need |-> need, panic |-> FALSE, val |-> <<>>]
No(p, need) == [ok |-> FALSE, pos |-> p, need |-> need, panic |-> FALSE, val |-> <<>>]
Panic(need) == [ok |-> FALSE, pos |-> 0, need |-> need, panic |-> TRUE, val |-> <<>>]
Higher(a, b) == IF a >= b THEN a ELSE b

---------------------------------------------------------------------------
skip_blank_space(p) == First(p, LAMBDA q : ~is_space(q))

\* One end-of-line character, and those behind it that are already buffered
match_eol(p) ==
    IF is_eol(p) THEN Yes(First(p + 1, LAMBDA q : q > avail \/ ~is_eol(q)), p) ELSE No(p, p)

match_blank_line(p) == match_eol(skip_blank_space(p))
\* if not blank, removes no characters
is_blank_line(p) == LET m == match_blank_line(p) IN IF m.ok THEN m ELSE No(p, m.need)
\* The start of the first line that is not blank
skip_blank_lines(p) ==
    LET q == First(p, LAMBDA r : ~is_space(r) /\ ~is_eol(r))
        e == {r \in p .. q - 1 : is_eol(r)}
    IN  IF e = {} THEN p ELSE 1 + CHOOSE r \in e : \A x \in e : x <= r

match_uint(p) ==
    LET q == skip_blank_space(p)
        d == First(q, LAMBDA r : ~IsDigit(At(r)))
    IN  [ok |-> d > q, pos |-> d, need |-> d, panic |-> FALSE,
         val |-> SubSeq(inp, q, d - 1)]

expect_blank_line(p) == LET m == match_blank_line(p) IN IF m.ok THEN m ELSE Panic(m.need)

\* The text up to the end of the line; ok says whether it is not blank.
get_nonblank_line(p) ==
    LET e == First(p, is_eol) m == match_eol(e)
    IN  [m EXCEPT !.ok = \E q \in p .. e - 1 : ~is_space(q)]

---------------------------------------------------------------------------
\* Compare tok from q on: where it fails, or the end of it
TokenAt(p, q, tok) ==
    LET bad == {k \in DOMAIN tok : At(q + k - 1) # tok[k]}
        n   == q + Len(tok)
    IN  CASE bad # {} -> No(p, q - 1 + CHOOSE k \in bad : \A j \in bad : k <= j)
          [] bad = {} /\ IsAlpha(Last(tok)) -> IF IsAlpha(At(n)) THEN No(p, n) ELSE Yes(n, n)
          [] OTHER -> Yes(n, n - 1)
\* Seeded fault: a token that does not match stays consumed.
match_tok_eats(p, tok) == LET m == TokenAt(p, skip_blank_space(p), tok) IN
                          IF m.ok THEN m ELSE No(m.need, m.need)
\* Not a prefix of a longer word
match_tok(p, tok) == TokenAt(p, skip_blank_space(p), tok)

\* The format fmt from position q on: it must match to the end once a %u
\* behind its first character has been reached.  uint is match_uint at each place.
FormatAt(p, q, fmt, uint) ==
    FoldLeft(LAMBDA a, i :
        LET s    == skip_blank_space(a.pos)
            u    == uint[a.pos]
            must == \E j \in 2 .. i : fmt[j] = "%u"
            Fail(at) == [No(p, Higher(a.need, at)) EXCEPT !.panic = must]
        IN  CASE ~a.ok -> a
              [] a.ok /\ is_eol(a.pos) -> [Fail(a.pos) EXCEPT !.panic = must /\ fmt[i] # "%u"]
              [] a.ok /\ ~is_eol(a.pos) /\ fmt[i] = "%u" ->
                    IF u.ok THEN [u EXCEPT !.need = Higher(a.need, @)] ELSE Fail(u.need)
              [] OTHER -> IF At(s) = fmt[i] THEN [a EXCEPT !.pos = s + 1, !.need = Higher(@, s)]
                          ELSE Fail(s),
        Yes(q, q), [i \in DOMAIN fmt |-> i])

\* A whole line: blank lines before it are skipped, and a longer line panics.
match_line(p, fmt) ==
    LET m == FormatAt(p, skip_blank_lines(p), fmt, [r \in 1 .. Len(inp) + 1 |-> match_uint(r)])
        e == match_eol(m.pos)
    IN  CASE ~m.ok -> m
          [] m.ok /\ e.ok -> [e EXCEPT !.need = Higher(@, m.need), !.val = m.val]
          [] OTHER -> Panic(Higher(m.need, e.need))

---------------------------------------------------------------------------
(* As lab 10 has it: spaces before the end of a line are part of it, and    *)
(* match_tok skips blank lines.                                             *)

match_eol10(p) == LET m == match_eol(skip_blank_space(p)) IN IF m.ok THEN m ELSE No(p, m.need)
\* if not blank, removes no characters
match_blank_line10(p) == match_eol10(p)
skip_blank_lines10(p) == skip_blank_lines(p)
match_uint10(p) ==
    LET q == skip_blank_space(p)
        d == First(q, LAMBDA r : ~IsDigit(At(r)))
    IN  [ok |-> d > q, pos |-> d, need |-> d, panic |-> FALSE, val |-> SubSeq(inp, q, d - 1)]
\* Without the spaces before and behind it
get_nonblank_line10(p) ==
    LET b == match_blank_line10(p)
        m == match_eol(First(p, is_eol))
    IN  IF b.ok THEN [b EXCEPT !.ok = FALSE] ELSE [m EXCEPT !.ok = TRUE]
expect_blank_line10(p) == LET m == match_blank_line10(p) IN IF m.ok THEN m ELSE Panic(m.need)
match_tok10(p, tok) == TokenAt(p, skip_blank_space(skip_blank_lines10(p)), tok)
matchv(p, fmt) ==
    FormatAt(p, skip_blank_space(skip_blank_lines10(p)), fmt, [r \in 1 .. Len(inp) + 1 |-> match_uint10(r)])
match_linev(p, fmt) ==
    LET m == matchv(p, fmt)
        e == match_eol10(m.pos)
    IN  CASE ~m.ok -> m
          [] m.ok /\ e.ok -> [e EXCEPT !.need = Higher(@, m.need), !.val = m.val]
          [] OTHER -> Panic(Higher(m.need, e.need))
=============================================================================
