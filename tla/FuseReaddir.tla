---------------------------- MODULE FuseReaddir ----------------------------
(***************************************************************************)
(* Listing a directory piece by piece: lo_do_readdir (passthrough_ll.c),    *)
(* do_readdir (passthrough_hp.cc) and xmp_readdir (passthrough_fh.c).  The   *)
(* kernel asks for the entries after an offset, as many as its buffer       *)
(* holds; the handler reads a DIR stream that has its own position and,     *)
(* in glibc, its own buffer.  An entry that was read but did not fit must   *)
(* come first in the next answer.  ll and fh keep it in d->entry; hp lets   *)
(* the offsets disagree, so that the next request seeks.  Entries may       *)
(* disappear and appear in the source directory at any time.                *)
(***************************************************************************)
EXTENDS Naturals, Sequences, FiniteSets, FiniteSetsExt

CONSTANTS
    NEnt,       \* entries the directory may have, 1 .. NEnt; entry e ends at offset e
    MaxChange,  \* bound: entries removed or added
    MaxErrs     \* bound: requests answered with an error

ASSUME ReaddirAssumption == NEnt \in Nat /\ MaxChange \in Nat /\ MaxErrs \in Nat

VARIABLES
    present,    \* entries in the source directory
    dp,         \* the DIR stream: position, and entries read ahead
    d,          \* struct lo_dirp: entry (0: NULL) and offset
    rd,         \* the request
    klist,      \* the kernel: offset to ask for, entries listed, end seen
    stable,     \* entries that were there all the time since the listing began
    counts      \* changes and error answers so far

rvars == <<present, dp, d, rd, klist, stable, counts>>

Entries == 1 .. NEnt
NoReq == [pc |-> "idle", rem |-> 0, plus |-> FALSE, off |-> 0, got |-> <<>>, cur |-> 0]

RInit ==
    /\ present = Entries /\ stable = Entries
    /\ dp = [pos |-> 0, ahead |-> {}]
    /\ d = [entry |-> 0, offset |-> 0]
    /\ rd = NoReq
    /\ klist = [pos |-> 0, seen |-> <<>>, end |-> FALSE]
    /\ counts = [changes |-> 0, errs |-> 0]

---------------------------------------------------------------------------
(* The kernel and the C library: external.                                  *)

KernelRead(k, plus) ==
    /\ rd.pc = "idle" /\ ~klist.end /\ counts.errs < MaxErrs
    /\ rd' = [NoReq EXCEPT !.pc = "seek", !.rem = k, !.plus = plus, !.off = klist.pos]
    /\ UNCHANGED <<present, dp, d, klist, stable, counts>>

\* lseek or rewinddir on the open directory, to a place it was at: behind the
\* first i entries it listed
KernelSeek(i) ==
    LET o == IF i = 0 THEN 0 ELSE klist.seen[i] IN
    /\ rd.pc = "idle" /\ o < klist.pos
    /\ klist' = [pos |-> o, seen |-> SubSeq(klist.seen, 1, i), end |-> FALSE]
    /\ stable' = {e \in present : e > o} \cup {e \in stable : e <= o}
    /\ UNCHANGED <<present, dp, d, rd, counts>>

SourceChange(e) ==
    /\ counts.changes < MaxChange
    /\ counts' = [counts EXCEPT !.changes = @ + 1]
    /\ present' = IF e \in present THEN present \ {e} ELSE present \cup {e}
    /\ stable' = stable \ {e}
    /\ UNCHANGED <<dp, d, rd, klist>>

seekdir(o) == [pos |-> o, ahead |-> {}]
\* What readdir has to choose from: what it read ahead, or else the directory.
Ahead == IF \E e \in dp.ahead : e > dp.pos THEN {e \in dp.ahead : e > dp.pos}
         ELSE {e \in present : e > dp.pos}
readdir == [pos |-> Min(Ahead), ahead |-> Ahead]

\* The answer: the entries in the buffer, or an error if there are none.
Answered(err) ==
    /\ rd' = NoReq
    /\ klist' = IF rd.got # <<>>
                THEN [klist EXCEPT !.pos = rd.got[Len(rd.got)], !.seen = @ \o rd.got]
                ELSE [klist EXCEPT !.end = ~err]
    /\ counts' = [counts EXCEPT !.errs = IF err /\ rd.got = <<>> THEN @ + 1 ELSE @]

Step(pc) == rd' = [rd EXCEPT !.pc = pc]
Filled(e) == rd' = [rd EXCEPT !.pc = "next", !.rem = @ - 1, !.got = Append(@, e), !.cur = 0]

---------------------------------------------------------------------------
(* lo_do_readdir                                                            *)

lo_readdir_seek ==
    /\ rd.pc = "seek"
    /\ IF rd.off # d.offset
       THEN dp' = seekdir(rd.off) /\ d' = [entry |-> 0, offset |-> rd.off]
       ELSE UNCHANGED <<dp, d>>
    /\ Step("next")
    /\ UNCHANGED <<present, klist, stable, counts>>

\* readdir, unless there is an entry left; the end of the stream ends the buffer.
lo_readdir_next ==
    /\ rd.pc = "next"
    /\ \/ /\ d.entry # 0
          /\ Step(IF rd.plus THEN "look" ELSE "fill")
          /\ UNCHANGED <<dp, d, klist, counts>>
       \/ /\ d.entry = 0 /\ Ahead # {}
          /\ dp' = readdir /\ d' = [d EXCEPT !.entry = readdir.pos]
          /\ Step(IF rd.plus THEN "look" ELSE "fill")
          /\ UNCHANGED <<klist, counts>>
       \/ d.entry = 0 /\ Ahead = {} /\ Answered(FALSE) /\ UNCHANGED <<dp, d>>
    /\ UNCHANGED <<present, stable>>

\* lo_do_lookup of the entry: an error ends the buffer and leaves d->entry.
lo_readdir_look ==
    /\ rd.pc = "look"
    /\ IF d.entry \in present THEN Step("fill") /\ UNCHANGED <<klist, counts>> ELSE Answered(TRUE)
    /\ UNCHANGED <<present, dp, d, stable>>

\* Seeded fault: the entry that does not fit is forgotten.
lo_readdir_fill_drops ==
    /\ rd.pc = "fill"
    /\ IF rd.rem = 0
       THEN Answered(FALSE) /\ d' = [d EXCEPT !.entry = 0]
       ELSE /\ Filled(d.entry)
            /\ d' = [entry |-> 0, offset |-> d.entry]
            /\ UNCHANGED <<klist, counts>>
    /\ UNCHANGED <<present, dp, stable>>
lo_readdir_fill ==
    /\ rd.pc = "fill"
    /\ IF rd.rem = 0
       THEN Answered(FALSE) /\ UNCHANGED d
       ELSE /\ Filled(d.entry)
            /\ d' = [entry |-> 0, offset |-> d.entry]
            /\ UNCHANGED <<klist, counts>>
    /\ UNCHANGED <<present, dp, stable>>

---------------------------------------------------------------------------
(* do_readdir                                                               *)

do_readdir_seek ==
    /\ rd.pc = "seek"
    /\ IF rd.off # d.offset
       THEN dp' = seekdir(rd.off) /\ d' = [d EXCEPT !.offset = rd.off]
       ELSE UNCHANGED <<dp, d>>
    /\ Step("next")
    /\ UNCHANGED <<present, klist, stable, counts>>

do_readdir_next ==
    /\ rd.pc = "next"
    /\ IF Ahead # {}
       THEN /\ dp' = readdir /\ d' = [d EXCEPT !.offset = readdir.pos]
            /\ rd' = [rd EXCEPT !.pc = IF rd.plus THEN "look" ELSE "fill", !.cur = readdir.pos]
            /\ UNCHANGED <<klist, counts>>
       ELSE Answered(FALSE) /\ UNCHANGED <<dp, d>>
    /\ UNCHANGED <<present, stable>>

do_readdir_look ==
    /\ rd.pc = "look"
    /\ IF rd.cur \in present THEN Step("fill") /\ UNCHANGED <<klist, counts>> ELSE Answered(TRUE)
    /\ UNCHANGED <<present, dp, d, stable>>

do_readdir_fill ==
    /\ rd.pc = "fill"
    /\ IF rd.rem = 0 THEN Answered(FALSE) ELSE Filled(rd.cur) /\ UNCHANGED <<klist, counts>>
    /\ UNCHANGED <<present, dp, d, stable>>

---------------------------------------------------------------------------
(* xmp_readdir of passthrough_fh.c: as ll, but an entry that cannot be      *)
(* stat'ed is reported without attributes.                                  *)

xmp_readdir_seek == lo_readdir_seek
xmp_readdir_next == lo_readdir_next
xmp_readdir_look ==
    /\ rd.pc = "look" /\ Step("fill")
    /\ UNCHANGED <<present, dp, d, klist, stable, counts>>
xmp_readdir_fill == lo_readdir_fill

---------------------------------------------------------------------------
LoReaddir == lo_readdir_seek \/ lo_readdir_next \/ lo_readdir_look \/ lo_readdir_fill
SfsReaddir == do_readdir_seek \/ do_readdir_next \/ do_readdir_look \/ do_readdir_fill
XmpReaddir == xmp_readdir_seek \/ xmp_readdir_next \/ xmp_readdir_look \/ xmp_readdir_fill

Environment ==
    \/ \E k \in 1 .. 2, plus \in BOOLEAN : KernelRead(k, plus)
    \/ \E i \in 0 .. Len(klist.seen) : KernelSeek(i)
    \/ \E e \in Entries : SourceChange(e)

---------------------------------------------------------------------------
\* A listing skips nothing: what was in the directory all the time and lies
\* before the kernel's offset has been listed, however the pieces were cut,
\* the kernel seeked and other entries changed.
NothingSkipped ==
    \A e \in stable : e <= klist.pos => \E i \in DOMAIN klist.seen : klist.seen[i] = e

\* And reports nothing twice: the entries come in the order of their offsets.
NothingTwice ==
    \A i, j \in DOMAIN klist.seen : i < j => klist.seen[i] < klist.seen[j]

\* When the kernel is told of the end, everything stable has been listed.
EndIsEnd ==
    klist.end => \A e \in stable : \E i \in DOMAIN klist.seen : klist.seen[i] = e

\* A request fails only for an entry that has just been removed: asking again
\* goes on behind it.
ErrorsPass == counts.errs <= counts.changes

=============================================================================
