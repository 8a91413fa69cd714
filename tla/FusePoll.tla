------------------------------ MODULE FusePoll -----------------------------
(***************************************************************************)
(* poll.c and fsel.c: files that a producer thread fills one byte at a time  *)
(* and that a client (poll_client.c, fselclient.c) waits for with select.   *)
(* A poll leaves a handle behind, with which the producer wakes the client   *)
(* later.  fsel_mutex makes a read, a poll and a round of the producer      *)
(* atomic; opens and releases change fsel_open_mask without it.  A second   *)
(* program may open files too.                                              *)
(***************************************************************************)
EXTENDS Naturals, FiniteSets

CONSTANTS FSEL_FILES,      \* a multiple of 4
          FSEL_CNT_MAX,
          MaxPolls,        \* bound: poll handles the kernel hands out
          MaxRounds        \* bound: rounds of the producer

ASSUME PollAssumption ==
    /\ FSEL_FILES \in Nat \ {0} /\ FSEL_CNT_MAX \in Nat \ {0}
    /\ MaxPolls \in Nat /\ MaxRounds \in Nat

VARIABLES
    fsel_open_mask, fsel_poll_notify_mask,   \* as sets of files
    fsel_poll_handle,     \* file -> handle (0: NULL)
    fsel_cnt,
    fsel_fuse,            \* set by the first poll
    prod,                 \* the producer: idx, nr
    sel,                  \* the client: opened, select's place, files seen ready
    awake,                \* the kernel: it has been woken since its last select
    handles,              \* handles alive
    used,                 \* handles handed out so far
    other                 \* the second program's open: [pc, f, mask]

povars == <<fsel_open_mask, fsel_poll_notify_mask, fsel_poll_handle, fsel_cnt, fsel_fuse,
           prod, sel, awake, handles, used, other>>

PFiles == 0 .. FSEL_FILES - 1
NoOpen == [pc |-> "idle", f |-> 0]

PInit ==
    /\ fsel_open_mask = {} /\ fsel_poll_notify_mask = {}
    /\ fsel_poll_handle = [f \in PFiles |-> 0] /\ fsel_cnt = [f \in PFiles |-> 0]
    /\ fsel_fuse = FALSE
    /\ prod = [idx |-> 0, nr |-> 1, rounds |-> 0]
    /\ sel = [pc |-> "open", f |-> 0, ready |-> {}]
    /\ awake = FALSE /\ handles = {} /\ used = 0 /\ other = NoOpen

Client == UNCHANGED <<prod, other>>
Rest3 == UNCHANGED <<fsel_open_mask, fsel_cnt>>

---------------------------------------------------------------------------
\* EBUSY if the file is open; with -s nothing runs between test and set.
fsel_open(f, ok) ==
    /\ ok <=> f \notin fsel_open_mask
    /\ fsel_open_mask' = fsel_open_mask \cup (IF ok THEN {f} ELSE {})
fsel_release(f) == fsel_open_mask' = fsel_open_mask \ {f}

\* The client opens all files, and gives up if one is taken.
ClientOpen ==
    /\ sel.pc = "open"
    /\ \/ /\ fsel_open(sel.f, TRUE)
          /\ sel' = IF sel.f = FSEL_FILES - 1 THEN [pc |-> "poll", f |-> 0, ready |-> {}]
                    ELSE [sel EXCEPT !.f = @ + 1]
       \/ fsel_open(sel.f, FALSE) /\ sel' = [sel EXCEPT !.pc = "exit"]
    /\ Client /\ UNCHANGED <<fsel_poll_notify_mask, fsel_poll_handle, fsel_cnt, fsel_fuse, awake, handles, used>>

\* The exit of the client releases what it had opened.
ClientExit ==
    /\ sel.pc = "exit" /\ sel.f > 0
    /\ fsel_release(sel.f - 1) /\ sel' = [sel EXCEPT !.f = @ - 1]
    /\ Client /\ UNCHANGED <<fsel_poll_notify_mask, fsel_poll_handle, fsel_cnt, fsel_fuse, awake, handles, used>>

\* The handle replaces the one of an earlier poll, which is destroyed.
fsel_poll(f, ph) ==
    /\ fsel_fuse' = TRUE
    /\ IF ph = 0 THEN UNCHANGED <<fsel_poll_notify_mask, fsel_poll_handle, handles>>
       ELSE /\ fsel_poll_notify_mask' = fsel_poll_notify_mask \cup {f}
            /\ fsel_poll_handle' = [fsel_poll_handle EXCEPT ![f] = ph]
            /\ handles' = (handles \ {fsel_poll_handle[f]}) \cup {ph}

\* select polls one file after the other; it asks for a wake-up until it has
\* seen a file ready.  With none ready it sleeps.
ClientPoll ==
    LET ph == IF sel.ready = {} THEN used + 1 ELSE 0
        ready == sel.ready \cup {g \in {sel.f} : fsel_cnt[g] > 0} IN
    /\ sel.pc = "poll" /\ used < MaxPolls
    /\ fsel_poll(sel.f, ph)
    /\ used' = IF ph = 0 THEN used ELSE ph
    /\ sel' = IF sel.f < FSEL_FILES - 1 THEN [sel EXCEPT !.f = @ + 1, !.ready = ready]
              ELSE [pc |-> IF ready = {} THEN "sleep" ELSE "read", f |-> 0, ready |-> ready]
    /\ awake' = IF sel.f = 0 THEN FALSE ELSE awake
    /\ Client /\ Rest3

\* The kernel polls again after a wake-up.
ClientWake ==
    /\ sel.pc = "sleep" /\ awake
    /\ sel' = [sel EXCEPT !.pc = "poll"]
    /\ Client /\ Rest3 /\ UNCHANGED <<fsel_poll_notify_mask, fsel_poll_handle, fsel_fuse, awake, handles, used>>

\* fsel_read: all there is, at most size
fsel_read(f, size) ==
    fsel_cnt' = [fsel_cnt EXCEPT ![f] = @ - IF @ < size THEN @ ELSE size]
ClientRead ==
    /\ sel.pc = "read"
    /\ \/ /\ sel.ready # {}
          /\ \E f \in sel.ready, size \in 1 .. FSEL_CNT_MAX :
               fsel_read(f, size) /\ sel' = [sel EXCEPT !.ready = @ \ {f}]
       \/ sel.ready = {} /\ sel' = [sel EXCEPT !.pc = "poll"] /\ UNCHANGED fsel_cnt
    /\ Client /\ UNCHANGED <<fsel_open_mask, fsel_poll_notify_mask, fsel_poll_handle, fsel_fuse, awake, handles, used>>

---------------------------------------------------------------------------
\* One round: the files (idx + i * FSEL_FILES / nr) % FSEL_FILES, i < nr.
Round(idx, nr) == {(idx + i * (FSEL_FILES \div nr)) % FSEL_FILES : i \in 0 .. nr - 1}

Producer(notified) ==
    LET filled == {t \in Round(prod.idx, prod.nr) : fsel_cnt[t] # FSEL_CNT_MAX} IN
    /\ prod.rounds < MaxRounds
    /\ fsel_cnt' = [t \in PFiles |-> IF t \in filled THEN fsel_cnt[t] + 1 ELSE fsel_cnt[t]]
    /\ awake' = (awake \/ notified # {})
    /\ handles' = handles \ {fsel_poll_handle[t] : t \in notified}
    /\ fsel_poll_notify_mask' = fsel_poll_notify_mask \ notified
    /\ prod' = [idx |-> (prod.idx + 1) % FSEL_FILES,
                nr |-> IF prod.idx + 1 = FSEL_FILES THEN (prod.nr * 2) % 7 ELSE prod.nr,
                rounds |-> prod.rounds + 1]
    /\ UNCHANGED <<fsel_open_mask, fsel_fuse, sel, used, other>>
Notified == {t \in Round(prod.idx, prod.nr) :
                fsel_cnt[t] # FSEL_CNT_MAX /\ fsel_fuse /\ t \in fsel_poll_notify_mask}

\* Seeded fault: a file is announced only when it gets full.
fsel_producer_full ==
    LET n == {t \in Notified : fsel_cnt[t] + 1 = FSEL_CNT_MAX} IN
    Producer(n) /\ fsel_poll_handle' = [t \in PFiles |-> IF t \in n THEN 0 ELSE fsel_poll_handle[t]]
fsel_producer ==
    Producer(Notified) /\ fsel_poll_handle' = [t \in PFiles |-> IF t \in Notified THEN 0 ELSE fsel_poll_handle[t]]

\* Another program opens one file, and closes it.
Other(f) ==
    /\ \/ other = NoOpen /\ fsel_open(f, TRUE) /\ other' = [pc |-> "open", f |-> f]
       \/ other = NoOpen /\ fsel_open(f, FALSE) /\ other' = [pc |-> "busy", f |-> f]
       \/ other.pc = "open" /\ fsel_release(other.f) /\ other' = [NoOpen EXCEPT !.pc = "done"]
    /\ UNCHANGED <<fsel_poll_notify_mask, fsel_poll_handle, fsel_cnt, fsel_fuse, prod, sel, awake, handles, used>>

PNext ==
    \/ ClientOpen \/ ClientExit \/ ClientPoll \/ ClientWake \/ ClientRead \/ fsel_producer
    \/ Other(0)

PSpec == PInit /\ [][PNext]_povars

---------------------------------------------------------------------------
\* A client sleeps in select only while no file has a byte for it: a byte that
\* arrives after a file was polled, and before select sleeps, wakes it too.
NoLostWakeup == sel.pc = "sleep" /\ ~awake => \A f \in PFiles : fsel_cnt[f] = 0

\* A handle is alive as long as it is in the table, and no longer: none is
\* destroyed twice, used after it was destroyed, or forgotten.
HandlesInTable ==
    /\ handles = {fsel_poll_handle[f] : f \in PFiles} \ {0}
    /\ \A f \in PFiles : f \in fsel_poll_notify_mask <=> fsel_poll_handle[f] # 0

\* No wake-up of a polling client is lost, and no poll handle either.
PollRight == NoLostWakeup /\ HandlesInTable

=============================================================================
