------------------------------ MODULE RpiThread ------------------------------
(***************************************************************************)
(* The linked queues of Q.h and the thread blocks of rpi-thread.c, which   *)
(* live on them: labs/6-threads/2-threads.new.  A block is on at most one  *)
(* queue at a time because the link is in the block.                       *)
(*                                                                         *)
(* rpi_exit, rpi_yield and the context switch are left unimplemented in    *)
(* the repository: any client that follows the interface (a block it holds *)
(* is on no queue) may free a block, queue it or take the next one.        *)
(***************************************************************************)
EXTENDS Integers, Sequences, FiniteSets

CONSTANTS
  Block,     \* what kmalloc can hand out
  NULL,
  MaxTid     \* bound: threads created

ASSUME ThreadAssumption == NULL \notin Block /\ IsFiniteSet(Block) /\ MaxTid \in Nat

Queue == {"runq", "freeq"}

VARIABLES
  head, tail, cnt,      \* of each Q_t
  next,                 \* e->next of each block
  nalloced, tid, btid,  \* the counters; the tid of each block
  held,                 \* blocks in use that are on no queue
  got,                  \* what the last Q_pop returned
  s                     \* history: the contents of each queue

links == <<head, tail, cnt, next>>
qvars == <<links, nalloced, tid, btid, held, got, s>>

kmalloced == held \cup {s["runq"][i] : i \in DOMAIN s["runq"]}
                  \cup {s["freeq"][i] : i \in DOMAIN s["freeq"]}

QInit ==
  /\ head = [q \in Queue |-> NULL] /\ tail = [q \in Queue |-> NULL]
  /\ cnt = [q \in Queue |-> 0] /\ next = [b \in Block |-> NULL]
  /\ nalloced = 0 /\ tid = 1 /\ btid = [b \in Block |-> 0]
  /\ held = {} /\ got = NULL /\ s = [q \in Queue |-> <<>>]

-----------------------------------------------------------------------------
(***************************************************************************)
(* Q.h.                                                                    *)
(***************************************************************************)

Q_pop(q) ==
  /\ got' = head[q]
  /\ IF head[q] = NULL
     THEN UNCHANGED <<links, s>>
     ELSE /\ cnt' = [cnt EXCEPT ![q] = @ - 1]
          /\ head' = [head EXCEPT ![q] = next[head[q]]]
          /\ tail' = [tail EXCEPT ![q] = IF next[head[q]] = NULL THEN NULL ELSE @]
          /\ s' = [s EXCEPT ![q] = Tail(@)]
          /\ UNCHANGED next

Q_append(q, e) ==
  /\ cnt' = [cnt EXCEPT ![q] = @ + 1]
  /\ IF tail[q] = NULL
     THEN next' = [next EXCEPT ![e] = NULL] /\ head' = [head EXCEPT ![q] = e]
     ELSE next' = [next EXCEPT ![e] = NULL, ![tail[q]] = e] /\ UNCHANGED head
  /\ tail' = [tail EXCEPT ![q] = e]
  /\ s' = [s EXCEPT ![q] = Append(@, e)]

\* Seeded fault: a push on an empty queue does not set tail.
Q_push_notail(q, e) ==
  /\ cnt' = [cnt EXCEPT ![q] = @ + 1]
  /\ next' = [next EXCEPT ![e] = head[q]]
  /\ head' = [head EXCEPT ![q] = e]
  /\ s' = [s EXCEPT ![q] = <<e>> \o @]
  /\ UNCHANGED tail

Q_push(q, e) ==
  /\ cnt' = [cnt EXCEPT ![q] = @ + 1]
  /\ next' = [next EXCEPT ![e] = head[q]]
  /\ head' = [head EXCEPT ![q] = e]
  /\ tail' = [tail EXCEPT ![q] = IF @ = NULL THEN e ELSE @]
  /\ s' = [s EXCEPT ![q] = <<e>> \o @]

\* Seeded fault: inserts after the tail without moving it.
Q_insert_after_tail(q, e, e_new) ==
  IF e = NULL
  THEN Q_push(q, e_new)
  ELSE /\ cnt' = [cnt EXCEPT ![q] = @ + 1]
       /\ next' = [next EXCEPT ![e_new] = next[e], ![e] = e_new]
       /\ LET k == CHOOSE i \in 1..Len(s[q]) : s[q][i] = e IN
            s' = [s EXCEPT ![q] = SubSeq(@, 1, k) \o <<e_new>> \o SubSeq(@, k + 1, Len(@))]
       /\ UNCHANGED <<head, tail>>

Q_insert_after(q, e, e_new) ==
  CASE e = NULL -> Q_push(q, e_new)
    [] e # NULL /\ tail[q] = e -> Q_append(q, e_new)
    [] OTHER ->
         /\ cnt' = [cnt EXCEPT ![q] = @ + 1]
         /\ next' = [next EXCEPT ![e_new] = next[e], ![e] = e_new]
         /\ LET k == CHOOSE i \in 1..Len(s[q]) : s[q][i] = e IN
              s' = [s EXCEPT ![q] = SubSeq(@, 1, k) \o <<e_new>> \o SubSeq(@, k + 1, Len(@))]
         /\ UNCHANGED <<head, tail>>

-----------------------------------------------------------------------------
(***************************************************************************)
(* rpi-thread.c.                                                           *)
(***************************************************************************)

\* A cached block, or a new one from kmalloc_aligned.
th_alloc ==
  /\ tid <= MaxTid
  /\ Q_pop("freeq")
  /\ \E t \in Block :
       /\ IF head["freeq"] # NULL
          THEN t = head["freeq"] /\ UNCHANGED nalloced
          ELSE t \notin kmalloced /\ nalloced' = nalloced + 1
       /\ btid' = [btid EXCEPT ![t] = tid] /\ tid' = tid + 1
       /\ held' = held \cup {t}

th_free(b) ==
  /\ b \in held /\ held' = held \ {b}
  /\ Q_push("freeq", b)
  /\ UNCHANGED <<nalloced, tid, btid, got>>

\* The end of rpi_fork: the new thread becomes runnable.
MakeRunnable(b) ==
  /\ b \in held /\ held' = held \ {b}
  /\ Q_append("runq", b)
  /\ UNCHANGED <<nalloced, tid, btid, got>>

\* A thread is put behind another one, or first, in the run queue.
Schedule(e, b) ==
  /\ b \in held /\ held' = held \ {b}
  /\ e = NULL \/ \E i \in 1..Len(s["runq"]) : s["runq"][i] = e
  /\ Q_insert_after("runq", e, b)
  /\ UNCHANGED <<nalloced, tid, btid, got>>

\* The next thread to run is taken from the run queue.
TakeNext ==
  /\ Q_pop("runq")
  /\ held' = IF head["runq"] = NULL THEN held ELSE held \cup {head["runq"]}
  /\ UNCHANGED <<nalloced, tid, btid>>

QNext ==
  \/ th_alloc \/ TakeNext
  \/ \E b \in Block : \/ th_free(b) \/ MakeRunnable(b)
                      \/ \E e \in Block \cup {NULL} : Schedule(e, b)

QSpec == QInit /\ [][QNext]_qvars

-----------------------------------------------------------------------------
\* The values each variable may take.
QTypeOK ==
  /\ head \in [Queue -> Block \cup {NULL}] /\ tail \in [Queue -> Block \cup {NULL}]
  /\ cnt \in [Queue -> Nat] /\ next \in [Block -> Block \cup {NULL}]
  /\ nalloced \in Nat /\ tid \in Nat /\ btid \in [Block -> Nat]
  /\ held \subseteq Block /\ got \in Block \cup {NULL} /\ s \in [Queue -> Seq(Block)]

\* Following the links of a queue from its head visits its elements in order and
\* ends at its tail after cnt steps (Q_start, Q_next, Q_nelem).
WellLinked ==
  \A q \in Queue :
    LET n == Len(s[q]) IN
    /\ cnt[q] = n
    /\ head[q] = IF n = 0 THEN NULL ELSE s[q][1]
    /\ tail[q] = IF n = 0 THEN NULL ELSE s[q][n]
    /\ n > 0 => next[s[q][n]] = NULL
    /\ \A i \in 1..(n - 1) : next[s[q][i]] = s[q][i + 1]

\* A block is in one place only: once on one queue, or in use.
OnePlace ==
  /\ \A q \in Queue : \A i \in 1..Len(s[q]) :
       /\ s[q][i] \notin held
       /\ \A p \in Queue : \A j \in 1..Len(s[p]) :
            s[q][i] = s[p][j] => q = p /\ i = j

\* No block is lost: what rpi_internal_check compares when nothing is in use.
NoLeak == nalloced = cnt["runq"] + cnt["freeq"] + Cardinality(held)

\* No two threads that exist have the same tid.
TidsUnique ==
  LET Live == held \cup {s["runq"][i] : i \in DOMAIN s["runq"]} IN
  \A a, b \in Live : a # b => btid[a] # btid[b]

\* The linked queues behave as sequences.
Lists == INSTANCE AbsQueues

ImplementsQueues == Lists!ASpec

\* The thread blocks are well kept: links, tails and counts agree, each block is
\* in one place and none is lost, and live threads have different numbers.
BlocksWellKept == QTypeOK /\ WellLinked /\ OnePlace /\ NoLeak /\ TidsUnique

=============================================================================
