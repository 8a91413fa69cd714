--------------------------- MODULE RpiThread_proofs --------------------------
(***************************************************************************)
(* The thread blocks are well kept, for any number of blocks and threads,  *)
(* and the linked queues implement sequences.                              *)
(*                                                                         *)
(* The three ways of Q.h to add an element (Q_push, Q_append and           *)
(* Q_insert_after) are shown to be one: Added(q, e, k) puts e behind the   *)
(* first k elements and mends two links.  What remains is one argument for *)
(* adding, one for taking, and one for a new block.                        *)
(***************************************************************************)
EXTENDS RpiThread, SequenceTheorems, FiniteSetTheorems, TLAPS

\* t with e behind its first k elements
With(t, k, e) == SubSeq(t, 1, k) \o <<e>> \o SubSeq(t, k + 1, Len(t))

\* Blocks that belong to a thread: in use, or waiting to run.
Live == held \cup {s["runq"][i] : i \in DOMAIN s["runq"]}

\* The next tid is above those of all live threads.
TidsBelow == \A b \in Live : btid[b] < tid

IInv == QTypeOK /\ WellLinked /\ OnePlace /\ NoLeak /\ TidsBelow /\ TidsUnique

---------------------------------------------------------------------------
\* A sequence with e put in after its first k elements, position by position.
LEMMA WithFacts ==
    ASSUME NEW S, NEW t \in Seq(S), NEW k \in 0 .. Len(t), NEW e \in S
    PROVE  /\ With(t, k, e) \in Seq(S) /\ Len(With(t, k, e)) = Len(t) + 1
           /\ \A i \in 1 .. Len(t) + 1 :
                With(t, k, e)[i] = IF i <= k THEN t[i] ELSE IF i = k + 1 THEN e ELSE t[i - 1]
<1> DEFINE n == Len(t)
           a == SubSeq(t, 1, k)
           c == SubSeq(t, k + 1, n)
<1>0. n \in Nat /\ k \in Nat /\ k <= n /\ k \in Int /\ n \in Int /\ k + 1 \in Int /\ 1 \in Int
  BY LenProperties
<1>1. a \in Seq(S) /\ Len(a) = k /\ \A i \in 1 .. k : a[i] = t[i]
  <2>1. \A i \in 1 .. k : t[i] \in S
    BY <1>0, ElementOfSeq
  <2>2. /\ a \in Seq(S) /\ Len(a) = (IF 1 <= k THEN k - 1 + 1 ELSE 0)
        /\ \A i \in 1 .. k - 1 + 1 : a[i] = t[1 + i - 1]
    BY <1>0, <2>1, SubSeqProperties
  <2> QED BY <1>0, <2>2
<1>2. c \in Seq(S) /\ Len(c) = n - k /\ \A i \in 1 .. n - k : c[i] = t[k + i]
  <2>1. \A i \in k + 1 .. n : t[i] \in S
    BY <1>0, ElementOfSeq
  <2>2. /\ c \in Seq(S) /\ Len(c) = (IF k + 1 <= n THEN n - (k + 1) + 1 ELSE 0)
        /\ \A i \in 1 .. n - (k + 1) + 1 : c[i] = t[k + 1 + i - 1]
    BY <1>0, <2>1, SubSeqProperties
  <2>3. Len(c) = n - k
    BY <1>0, <2>2
  <2>4. \A i \in 1 .. n - k : c[i] = t[k + i]
    BY <1>0, <2>2
  <2> QED BY <2>2, <2>3, <2>4
<1>3. <<e>> \in Seq(S) /\ Len(<<e>>) = 1 /\ <<e>>[1] = e
  OBVIOUS
<1> HIDE DEF a, c
<1> DEFINE x == <<e>>
<1> HIDE DEF x
<1>4. /\ a \o x \in Seq(S) /\ Len(a \o x) = k + 1
      /\ \A i \in 1 .. k + 1 : (a \o x)[i] = IF i <= k THEN t[i] ELSE e
  <2>1. /\ a \o x \in Seq(S) /\ Len(a \o x) = Len(a) + Len(x)
        /\ \A i \in 1 .. Len(a) + Len(x) : (a \o x)[i] = IF i <= Len(a) THEN a[i] ELSE x[i - Len(a)]
    BY <1>1, <1>3, ConcatProperties DEF x
  <2>2. Len(a) = k /\ Len(x) = 1 /\ x[1] = e
    BY <1>1, <1>3 DEF x
  <2>3. ASSUME NEW i \in 1 .. k + 1 PROVE (a \o x)[i] = IF i <= k THEN t[i] ELSE e
    <3>1. CASE i <= k
      BY <1>0, <1>1, <2>1, <2>2, <3>1
    <3>2. CASE ~(i <= k)
      <4>1. i = k + 1 /\ i - k = 1
        BY <1>0, <3>2
      <4> QED BY <2>1, <2>2, <3>2, <4>1
    <3> QED BY <3>1, <3>2
  <2> QED BY <1>0, <2>1, <2>2, <2>3
<1>5. With(t, k, e) = (a \o x) \o c
  BY DEF With, a, x, c
<1> DEFINE y == a \o x
<1> HIDE DEF y
<1>6. /\ y \o c \in Seq(S) /\ Len(y \o c) = Len(y) + Len(c)
      /\ \A i \in 1 .. Len(y) + Len(c) : (y \o c)[i] = IF i <= Len(y) THEN y[i] ELSE c[i - Len(y)]
  BY <1>2, <1>4, ConcatProperties DEF y
<1>7. Len(y) = k + 1 /\ Len(c) = n - k /\ Len(y) + Len(c) = n + 1
  BY <1>0, <1>2, <1>4 DEF y
<1>8. ASSUME NEW i \in 1 .. n + 1
      PROVE  (y \o c)[i] = IF i <= k THEN t[i] ELSE IF i = k + 1 THEN e ELSE t[i - 1]
  <2>1. CASE i <= k + 1
    <3>1. (y \o c)[i] = y[i] /\ i \in 1 .. k + 1
      BY <1>0, <1>6, <1>7, <2>1
    <3>2. y[i] = IF i <= k THEN t[i] ELSE e
      BY <1>4, <3>1 DEF y
    <3>3. ~(i <= k) => i = k + 1
      BY <1>0, <2>1
    <3> QED BY <3>1, <3>2, <3>3
  <2>2. CASE ~(i <= k + 1)
    <3>1. i - (k + 1) \in 1 .. n - k /\ k + (i - (k + 1)) = i - 1 /\ ~(i <= k) /\ i # k + 1
      BY <1>0, <2>2
    <3>2. (y \o c)[i] = c[i - (k + 1)]
      BY <1>6, <1>7, <2>2
    <3> QED BY <1>2, <3>1, <3>2
  <2> QED BY <2>1, <2>2
<1> QED BY <1>5, <1>6, <1>7, <1>8 DEF y

\* A push is With at 0.
LEMMA PushIsWith == ASSUME NEW S, NEW t \in Seq(S), NEW e \in S PROVE <<e>> \o t = With(t, 0, e)
<1>1. SubSeq(t, 1, 0) = <<>> /\ SubSeq(t, 0 + 1, Len(t)) = t
  BY LenProperties, SubSeqEmpty, SubSeqFull
<1>2. <<e>> \in Seq(S)
  OBVIOUS
<1>3. <<>> \o <<e>> = <<e>>
  BY <1>2, ConcatEmptySeq
<1> QED BY <1>1, <1>3 DEF With

\* An append is With at the end.
LEMMA AppendIsWith == ASSUME NEW S, NEW t \in Seq(S), NEW e \in S PROVE Append(t, e) = With(t, Len(t), e)
<1> DEFINE n == Len(t)
           w == With(t, n, e)
           a == Append(t, e)
<1>1. n \in Nat /\ n \in 0 .. n
  BY LenProperties
<1>2. w \in Seq(S) /\ Len(w) = n + 1
      /\ \A i \in 1 .. n + 1 : w[i] = IF i <= n THEN t[i] ELSE IF i = n + 1 THEN e ELSE t[i - 1]
  <2>1. \A k \in 0 .. Len(t) :
          /\ With(t, k, e) \in Seq(S) /\ Len(With(t, k, e)) = Len(t) + 1
          /\ \A i \in 1 .. Len(t) + 1 :
               With(t, k, e)[i] = IF i <= k THEN t[i] ELSE IF i = k + 1 THEN e ELSE t[i - 1]
    BY WithFacts
  <2> QED BY <1>1, <2>1
<1>3. a \in Seq(S) /\ Len(a) = n + 1 /\ \A i \in 1 .. n + 1 : a[i] = IF i <= n THEN t[i] ELSE e
  BY AppendProperties
<1> HIDE DEF w, a
<1>4. \A i \in 1 .. Len(a) : a[i] = w[i]
  <2> TAKE i \in 1 .. Len(a)
  <2>1. i \in 1 .. n + 1 /\ (~(i <= n) => i = n + 1)
    BY <1>1, <1>3
  <2> QED BY <1>2, <1>3, <2>1
<1>5. a = w
  BY <1>2, <1>3, <1>4, SeqEqual
<1> QED BY <1>5 DEF a, w

\* The same for every block, list and position at once, as the step lemmas use it.
LEMMA WithAll ==
    \A x \in Block : \A t \in Seq(Block) : \A j \in 0 .. Len(t) :
      /\ With(t, j, x) \in Seq(Block) /\ Len(With(t, j, x)) = Len(t) + 1
      /\ \A i \in 1 .. Len(t) + 1 :
           With(t, j, x)[i] = IF i <= j THEN t[i] ELSE IF i = j + 1 THEN x ELSE t[i - 1]
<1> TAKE x \in Block
<1> TAKE t \in Seq(Block)
<1> TAKE j \in 0 .. Len(t)
<1> QED BY WithFacts

---------------------------------------------------------------------------
(***************************************************************************)
(* One queue: h, l and c are its head, tail and cnt, nx the links, t what  *)
(* it holds.                                                               *)
(***************************************************************************)
Chain(nx, h, l, c, t) ==
    LET n == Len(t) IN
    /\ c = n
    /\ h = IF n = 0 THEN NULL ELSE t[1]
    /\ l = IF n = 0 THEN NULL ELSE t[n]
    /\ n > 0 => nx[t[n]] = NULL
    /\ \A i \in 1 .. (n - 1) : nx[t[i]] = t[i + 1]

\* The links once e is behind the first k elements of t
Relinked(nx, t, k, e) ==
    [b \in Block |-> IF b = e THEN IF k = Len(t) THEN NULL ELSE t[k + 1]
                     ELSE IF k > 0 /\ b = t[k] THEN e ELSE nx[b]]

\* Mending two links adds the element and leaves the rest of the chain alone.
LEMMA ChainWith ==
    ASSUME NEW t \in Seq(Block), NEW nx, NEW h, NEW l, NEW c, Chain(nx, h, l, c, t),
           NEW k \in 0 .. Len(t), NEW e \in Block, \A i \in 1 .. Len(t) : t[i] # e,
           \A i, j \in 1 .. Len(t) : t[i] = t[j] => i = j
    PROVE  Chain(Relinked(nx, t, k, e), IF k = 0 THEN e ELSE h, IF k = Len(t) THEN e ELSE l,
                 c + 1, With(t, k, e))
<1> DEFINE n == Len(t)
           w == With(t, k, e)
           r == Relinked(nx, t, k, e)
<1>0. n \in Nat /\ k \in Nat /\ k <= n /\ (\A i \in 1 .. n : t[i] \in Block)
  BY LenProperties, ElementOfSeq
<1>1. Len(w) = n + 1
      /\ \A i \in 1 .. n + 1 : w[i] = IF i <= k THEN t[i] ELSE IF i = k + 1 THEN e ELSE t[i - 1]
  BY WithFacts
<1>2. /\ c = n /\ h = (IF n = 0 THEN NULL ELSE t[1]) /\ l = (IF n = 0 THEN NULL ELSE t[n])
      /\ n > 0 => nx[t[n]] = NULL
      /\ \A i \in 1 .. (n - 1) : nx[t[i]] = t[i + 1]
  BY DEF Chain
<1>3. r[e] = IF k = n THEN NULL ELSE t[k + 1]
  BY DEF Relinked
<1>4. k > 0 => r[t[k]] = e
  BY <1>0 DEF Relinked
<1>5. ASSUME NEW i \in 1 .. n, i # k PROVE r[t[i]] = nx[t[i]]
  <2>1. t[i] \in Block /\ t[i] # e /\ ~(k > 0 /\ t[i] = t[k])
    BY <1>0, <1>5
  <2> QED BY <2>1 DEF Relinked
<1> HIDE DEF w, r
<1>6. w[1] = IF k = 0 THEN e ELSE h
  <2>1. CASE k = 0
    BY <1>0, <1>1, <2>1
  <2>2. CASE k # 0
    <3>1. 1 <= k /\ 1 \in 1 .. n + 1 /\ n # 0
      BY <1>0, <2>2
    <3>2. w[1] = t[1] /\ h = t[1]
      BY <1>1, <1>2, <3>1
    <3> QED BY <2>2, <3>2
  <2> QED BY <2>1, <2>2
<1>7. w[n + 1] = IF k = n THEN e ELSE l
  <2>1. CASE k = n
    <3>1. n + 1 \in 1 .. n + 1 /\ ~(n + 1 <= k) /\ n + 1 = k + 1
      BY <1>0, <2>1
    <3> QED BY <1>1, <2>1, <3>1
  <2>2. CASE k # n
    <3>1. n + 1 \in 1 .. n + 1 /\ ~(n + 1 <= k) /\ n + 1 # k + 1 /\ n # 0 /\ n + 1 - 1 = n
      BY <1>0, <2>2
    <3>2. w[n + 1] = t[n + 1 - 1]
      BY <1>1, <3>1
    <3> QED BY <1>2, <2>2, <3>1, <3>2
  <2> QED BY <2>1, <2>2
<1>8. r[w[n + 1]] = NULL
  <2>1. CASE k = n
    BY <1>3, <1>7, <2>1
  <2>2. CASE k # n
    <3>1. n \in 1 .. n /\ n > 0
      BY <1>0, <2>2
    <3>2. w[n + 1] = t[n]
      BY <1>2, <1>7, <2>2, <3>1
    <3> QED BY <1>2, <1>5, <2>2, <3>1, <3>2
  <2> QED BY <2>1, <2>2
<1>9. ASSUME NEW i \in 1 .. n PROVE r[w[i]] = w[i + 1]
  <2>0. i \in 1 .. n + 1 /\ i + 1 \in 1 .. n + 1 /\ i \in Nat
    BY <1>0
  <2>1. CASE i < k
    <3>1. i <= k /\ i + 1 <= k /\ i \in 1 .. n - 1 /\ i # k
      BY <1>0, <2>0, <2>1
    <3>2. w[i] = t[i] /\ w[i + 1] = t[i + 1]
      BY <1>1, <2>0, <3>1
    <3> QED BY <1>2, <1>5, <3>1, <3>2
  <2>2. CASE i = k
    <3>1. i <= k /\ ~(i + 1 <= k) /\ k > 0
      BY <1>0, <2>0, <2>2
    <3>2. w[i] = t[k] /\ w[i + 1] = e
      BY <1>1, <2>0, <2>2, <3>1
    <3> QED BY <1>4, <3>1, <3>2
  <2>3. CASE i = k + 1
    <3>1. ~(i <= k) /\ ~(i + 1 <= k) /\ i + 1 # k + 1 /\ i + 1 - 1 = k + 1 /\ k # n
      BY <1>0, <2>0, <2>3
    <3>2. w[i] = e /\ w[i + 1] = t[k + 1]
      BY <1>1, <2>0, <2>3, <3>1
    <3> QED BY <1>3, <3>1, <3>2
  <2>4. CASE i > k + 1
    <3>1. /\ ~(i <= k) /\ i # k + 1 /\ ~(i + 1 <= k) /\ i + 1 # k + 1 /\ i + 1 - 1 = i
          /\ i - 1 \in 1 .. n /\ i - 1 # k /\ i - 1 \in 1 .. n - 1 /\ i - 1 + 1 = i
      BY <1>0, <2>0, <2>4
    <3>2. w[i] = t[i - 1] /\ w[i + 1] = t[i]
      BY <1>1, <2>0, <3>1
    <3>3. r[t[i - 1]] = nx[t[i - 1]] /\ nx[t[i - 1]] = t[i]
      BY <1>2, <1>5, <3>1
    <3> QED BY <3>2, <3>3
  <2> QED BY <1>0, <2>0, <2>1, <2>2, <2>3, <2>4
<1>10. /\ Len(w) # 0 /\ c + 1 = Len(w) /\ Len(w) = n + 1 /\ Len(w) - 1 = n
  BY <1>0, <1>1, <1>2
<1> QED BY <1>6, <1>7, <1>8, <1>9, <1>10 DEF Chain, w, r

\* A chain only depends on the links of its own elements.
LEMMA ChainKept ==
    ASSUME NEW t \in Seq(Block), NEW nx, NEW nx2, NEW h, NEW l, NEW c, Chain(nx, h, l, c, t),
           \A i \in 1 .. Len(t) : nx2[t[i]] = nx[t[i]]
    PROVE  Chain(nx2, h, l, c, t)
<1>1. Len(t) \in Nat
  BY LenProperties
<1> QED BY <1>1 DEF Chain

\* Without its first element a chain is a chain; the tail is dropped with the last one.
LEMMA ChainTail ==
    ASSUME NEW t \in Seq(Block), NEW nx, NEW h, NEW l, NEW c, Chain(nx, h, l, c, t), t # <<>>
    PROVE  Chain(nx, nx[h], IF nx[h] = NULL THEN NULL ELSE l, c - 1, Tail(t))
<1> DEFINE n == Len(t)
           w == Tail(t)
<1>0. n \in Nat /\ n # 0 /\ (\A i \in 1 .. n : t[i] \in Block) /\ NULL \notin Block
  BY LenProperties, ElementOfSeq, EmptySeq, ThreadAssumption
<1>1. Len(w) = n - 1 /\ \A i \in 1 .. n - 1 : w[i] = t[i + 1]
  BY HeadTailProperties
<1>2. /\ c = n /\ h = t[1] /\ l = t[n] /\ nx[t[n]] = NULL
      /\ \A i \in 1 .. (n - 1) : nx[t[i]] = t[i + 1]
  BY <1>0 DEF Chain
<1> HIDE DEF w
<1>3. CASE n = 1
  <2>1. Len(w) = 0 /\ c - 1 = 0 /\ nx[h] = NULL
    BY <1>1, <1>2, <1>3
  <2>2. \A i \in 1 .. (0 - 1) : FALSE
    OBVIOUS
  <2> QED BY <2>1, <2>2 DEF Chain, w
<1>4. CASE n # 1
  <2> HIDE DEF n
  <2>0. n - 1 \in Nat /\ n - 1 # 0 /\ 1 \in 1 .. n - 1 /\ n - 1 \in 1 .. n - 1 /\ n - 1 + 1 = n /\ 2 \in 1 .. n
    BY <1>0, <1>4
  <2> USE DEF n
  <2>1. nx[h] = w[1] /\ w[1] \in Block /\ w[1] # NULL
    BY <1>0, <1>1, <1>2, <2>0
  <2>2. w[n - 1] = t[n]
    BY <1>1, <2>0
  <2>3. ASSUME NEW i \in 1 .. (n - 1) - 1 PROVE nx[w[i]] = w[i + 1]
    <3>1. i \in 1 .. n - 1 /\ i + 1 \in 1 .. n - 1
      BY <1>0, <2>0
    <3> QED BY <1>1, <1>2, <3>1
  <2> QED BY <1>1, <1>2, <2>0, <2>1, <2>2, <2>3 DEF Chain, w
<1> QED BY <1>3, <1>4

---------------------------------------------------------------------------
(***************************************************************************)
(* The two queues.                                                         *)
(***************************************************************************)
Chained(q) == Chain(next, head[q], tail[q], cnt[q], s[q])

\* e goes behind the first k elements of q.
Added(q, e, k) ==
    /\ cnt' = [cnt EXCEPT ![q] = @ + 1]
    /\ head' = [head EXCEPT ![q] = IF k = 0 THEN e ELSE @]
    /\ tail' = [tail EXCEPT ![q] = IF k = Len(s[q]) THEN e ELSE @]
    /\ next' = Relinked(next, s[q], k, e)
    /\ s' = [s EXCEPT ![q] = With(s[q], k, e)]

\* WellLinked says of each queue that its pointers chain its list.
LEMMA ChainedIs == WellLinked <=> \A q \in Queue : Chained(q)
BY DEF WellLinked, Chained, Chain

\* What is known of a queue, in one place.
LEMMA QueueFacts ==
    ASSUME QTypeOK, WellLinked, NEW q \in Queue
    PROVE  /\ s[q] \in Seq(Block) /\ Len(s[q]) \in Nat /\ \A i \in 1 .. Len(s[q]) : s[q][i] \in Block
           /\ head[q] = IF Len(s[q]) = 0 THEN NULL ELSE s[q][1]
           /\ tail[q] = IF Len(s[q]) = 0 THEN NULL ELSE s[q][Len(s[q])]
           /\ \A i \in 1 .. (Len(s[q]) - 1) : next[s[q][i]] = s[q][i + 1]
           /\ (head[q] = NULL) <=> (Len(s[q]) = 0)
           /\ (tail[q] = NULL) <=> (Len(s[q]) = 0)
<1>1. s[q] \in Seq(Block)
  BY DEF QTypeOK
<1>2. Len(s[q]) \in Nat /\ \A i \in 1 .. Len(s[q]) : s[q][i] \in Block
  BY <1>1, LenProperties, ElementOfSeq
<1>3. /\ head[q] = IF Len(s[q]) = 0 THEN NULL ELSE s[q][1]
      /\ tail[q] = IF Len(s[q]) = 0 THEN NULL ELSE s[q][Len(s[q])]
      /\ \A i \in 1 .. (Len(s[q]) - 1) : next[s[q][i]] = s[q][i + 1]
  BY DEF WellLinked
<1>4. Len(s[q]) # 0 => 1 \in 1 .. Len(s[q]) /\ Len(s[q]) \in 1 .. Len(s[q])
  BY <1>2
<1>5. ((head[q] = NULL) <=> (Len(s[q]) = 0)) /\ ((tail[q] = NULL) <=> (Len(s[q]) = 0))
  BY <1>2, <1>3, <1>4, ThreadAssumption
<1> QED BY <1>1, <1>2, <1>3, <1>5

\* Q_push adds the element at the front.
LEMMA PushAdds ==
    ASSUME IInv, NEW q \in Queue, NEW e \in held, Q_push(q, e)
    PROVE  Added(q, e, 0) /\ 0 \in 0 .. Len(s[q])
<1> DEFINE n == Len(s[q])
<1>0. e \in Block /\ next \in [Block -> Block \cup {NULL}] /\ tail \in [Queue -> Block \cup {NULL}]
  BY DEF IInv, QTypeOK
<1>1. /\ s[q] \in Seq(Block) /\ n \in Nat /\ head[q] = (IF n = 0 THEN NULL ELSE s[q][1])
      /\ ((tail[q] = NULL) <=> (n = 0))
  BY QueueFacts DEF IInv
<1>2. <<e>> \o s[q] = With(s[q], 0, e)
  BY <1>0, <1>1, PushIsWith
<1>3. next' = Relinked(next, s[q], 0, e)
  <2>1. Relinked(next, s[q], 0, e) = [b \in Block |-> IF b = e THEN head[q] ELSE next[b]]
    <3>1. ~(0 > 0) /\ 0 + 1 = 1 /\ (IF 0 = n THEN NULL ELSE s[q][0 + 1]) = head[q]
      BY <1>1
    <3> QED BY <3>1 DEF Relinked
  <2>2. next' = [next EXCEPT ![e] = head[q]]
    BY DEF Q_push
  <2> QED BY <1>0, <2>1, <2>2
<1>4. tail' = [tail EXCEPT ![q] = IF 0 = n THEN e ELSE @]
  BY <1>0, <1>1 DEF Q_push
<1>5. head' = [head EXCEPT ![q] = IF 0 = 0 THEN e ELSE @] /\ cnt' = [cnt EXCEPT ![q] = @ + 1]
  BY DEF Q_push
<1>6. s' = [s EXCEPT ![q] = With(s[q], 0, e)]
  BY <1>2 DEF Q_push
<1>7. 0 \in 0 .. n
  BY <1>1
<1> QED BY <1>3, <1>4, <1>5, <1>6, <1>7 DEF Added

\* Q_append adds it at the end.
LEMMA AppendAdds ==
    ASSUME IInv, NEW q \in Queue, NEW e \in held, Q_append(q, e)
    PROVE  Added(q, e, Len(s[q])) /\ Len(s[q]) \in 0 .. Len(s[q])
<1> DEFINE n == Len(s[q])
<1>0. e \in Block /\ next \in [Block -> Block \cup {NULL}] /\ tail \in [Queue -> Block \cup {NULL}]
      /\ head \in [Queue -> Block \cup {NULL}]
  BY DEF IInv, QTypeOK
<1>1. /\ s[q] \in Seq(Block) /\ n \in Nat /\ head[q] = (IF n = 0 THEN NULL ELSE s[q][1])
      /\ tail[q] = (IF n = 0 THEN NULL ELSE s[q][n]) /\ ((tail[q] = NULL) <=> (n = 0))
      /\ \A i \in 1 .. n : s[q][i] \in Block
  BY QueueFacts DEF IInv
<1>2. Append(s[q], e) = With(s[q], n, e)
  BY <1>0, <1>1, AppendIsWith
<1>3. next' = Relinked(next, s[q], n, e)
  <2>1. CASE n = 0
    <3>1. next' = [next EXCEPT ![e] = NULL]
      BY <1>1, <2>1 DEF Q_append
    <3>2. Relinked(next, s[q], n, e) = [b \in Block |-> IF b = e THEN NULL ELSE next[b]]
      BY <2>1 DEF Relinked
    <3> QED BY <1>0, <3>1, <3>2
  <2>2. CASE n # 0
    <3>0. n > 0 /\ n \in 1 .. n
      BY <1>1, <2>2
    <3>1. next' = [next EXCEPT ![e] = NULL, ![s[q][n]] = e] /\ s[q][n] \in Block
      BY <1>1, <2>2, <3>0 DEF Q_append
    <3>2. s[q][n] # e
      BY <3>0 DEF IInv, OnePlace
    <3>3. Relinked(next, s[q], n, e) =
            [b \in Block |-> IF b = e THEN NULL ELSE IF b = s[q][n] THEN e ELSE next[b]]
      BY <3>0 DEF Relinked
    <3> QED BY <1>0, <3>1, <3>2, <3>3
  <2> QED BY <2>1, <2>2
<1>4. tail' = [tail EXCEPT ![q] = IF n = n THEN e ELSE @] /\ cnt' = [cnt EXCEPT ![q] = @ + 1]
  BY DEF Q_append
<1>5. head' = [head EXCEPT ![q] = IF n = 0 THEN e ELSE @]
  BY <1>0, <1>1 DEF Q_append
<1>6. s' = [s EXCEPT ![q] = With(s[q], n, e)]
  BY <1>2 DEF Q_append
<1>7. n \in 0 .. n
  BY <1>1
<1> QED BY <1>3, <1>4, <1>5, <1>6, <1>7 DEF Added

\* Q_insert_after adds it behind the given element, or at the front for NULL.
LEMMA InsertAdds ==
    ASSUME IInv, NEW q \in Queue, NEW e \in held, NEW x,
           x = NULL \/ \E i \in 1 .. Len(s[q]) : s[q][i] = x, Q_insert_after(q, x, e)
    PROVE  \E k \in 0 .. Len(s[q]) : Added(q, e, k)
<1> DEFINE n == Len(s[q])
<1>0. e \in Block /\ next \in [Block -> Block \cup {NULL}] /\ tail \in [Queue -> Block \cup {NULL}]
      /\ head \in [Queue -> Block \cup {NULL}]
  BY DEF IInv, QTypeOK
<1>1. /\ s[q] \in Seq(Block) /\ n \in Nat
      /\ tail[q] = (IF n = 0 THEN NULL ELSE s[q][n]) /\ ((tail[q] = NULL) <=> (n = 0))
      /\ \A i \in 1 .. n : s[q][i] \in Block
      /\ \A i \in 1 .. (n - 1) : next[s[q][i]] = s[q][i + 1]
  BY QueueFacts DEF IInv
<1>2. CASE x = NULL
  <2>1. Q_push(q, e)
    BY <1>2 DEF Q_insert_after
  <2> QED BY <2>1, PushAdds
<1>3. CASE x # NULL /\ tail[q] = x
  <2>1. Q_append(q, e)
    BY <1>3 DEF Q_insert_after
  <2> QED BY <2>1, AppendAdds
<1>4. CASE x # NULL /\ tail[q] # x
  <2> DEFINE k == CHOOSE i \in 1 .. Len(s[q]) : s[q][i] = x
  <2>1. k \in 1 .. n /\ s[q][k] = x
    BY <1>4
  <2>2. /\ cnt' = [cnt EXCEPT ![q] = @ + 1]
        /\ next' = [next EXCEPT ![e] = next[x], ![x] = e]
        /\ s' = [s EXCEPT ![q] = With(@, k, e)]
        /\ UNCHANGED <<head, tail>>
    BY <1>4 DEF Q_insert_after, With
  <2> HIDE DEF k
  <2>3. k \in 1 .. n - 1 /\ k \in 0 .. n /\ k # 0 /\ k # n /\ k > 0
    <3>1. k # n
      BY <1>1, <1>4, <2>1
    <3> QED BY <1>1, <2>1, <3>1
  <2>4. next[x] = s[q][k + 1] /\ x # e /\ x \in Block
    <3>1. x # e
      BY <2>1 DEF IInv, OnePlace
    <3> QED BY <1>1, <2>1, <2>3, <3>1
  <2>5. next' = Relinked(next, s[q], k, e)
    <3>1. Relinked(next, s[q], k, e) =
            [b \in Block |-> IF b = e THEN s[q][k + 1] ELSE IF b = x THEN e ELSE next[b]]
      BY <2>1, <2>3 DEF Relinked
    <3> QED BY <1>0, <2>2, <2>4, <3>1
  <2>6. head' = [head EXCEPT ![q] = IF k = 0 THEN e ELSE @] /\ tail' = [tail EXCEPT ![q] = IF k = n THEN e ELSE @]
    BY <1>0, <2>2, <2>3
  <2>7. Added(q, e, k)
    BY <2>2, <2>5, <2>6 DEF Added
  <2> QED BY <2>3, <2>7
<1> QED BY <1>2, <1>3, <1>4

---------------------------------------------------------------------------
(***************************************************************************)
(* Thread numbers.                                                         *)
(***************************************************************************)
LEMMA LiveIs ==
    ASSUME NEW t \in Seq(Block)
    PROVE  {t[i] : i \in DOMAIN t} = {t[i] : i \in 1 .. Len(t)}
BY LenProperties

\* TidsUnique, over the live blocks.
LEMMA TidsUniqueIs == TidsUnique <=> \A a, b \in Live : a # b => btid[a] # btid[b]
BY DEF TidsUnique, Live

\* Moving blocks keeps the numbers.
LEMMA TidsOld ==
    ASSUME TidsBelow, TidsUnique, Live' \subseteq Live, UNCHANGED <<btid, tid>>
    PROVE  TidsBelow' /\ TidsUnique'
<1>1. TidsBelow'
  BY DEF TidsBelow
<1>2. \A a, b \in Live' : a # b => btid'[a] # btid'[b]
  BY TidsUniqueIs
<1>3. TidsUnique'
  BY <1>2 DEF TidsUnique, Live
<1> QED BY <1>1, <1>3

\* A new thread gets a number of its own.
LEMMA TidsNew ==
    ASSUME QTypeOK, TidsBelow, TidsUnique, NEW t \in Block, Live \subseteq Block, Live' \subseteq Live \cup {t},
           btid' = [btid EXCEPT ![t] = tid], tid' = tid + 1
    PROVE  TidsBelow' /\ TidsUnique'
<1>0. tid \in Nat /\ btid \in [Block -> Nat] /\ btid'[t] = tid
  BY DEF QTypeOK
<1>1. \A b \in Live' : b # t => b \in Live /\ btid'[b] = btid[b] /\ btid[b] \in Nat /\ btid[b] < tid
  BY <1>0 DEF TidsBelow
<1>2. TidsBelow'
  <2> SUFFICES ASSUME NEW b \in Live' PROVE btid'[b] < tid'
    BY DEF TidsBelow
  <2>1. CASE b = t
    BY <1>0, <2>1
  <2>2. CASE b # t
    BY <1>0, <1>1, <2>2
  <2> QED BY <2>1, <2>2
<1>3. \A a, b \in Live' : a # b => btid'[a] # btid'[b]
  <2> SUFFICES ASSUME NEW a \in Live', NEW b \in Live', a # b PROVE btid'[a] # btid'[b]
    OBVIOUS
  <2>1. CASE a = t
    BY <1>0, <1>1, <2>1
  <2>2. CASE b = t
    BY <1>0, <1>1, <2>2
  <2>3. CASE a # t /\ b # t
    BY <1>1, <2>3, TidsUniqueIs
  <2> QED BY <2>1, <2>2, <2>3
<1>4. TidsUnique'
  BY <1>3 DEF TidsUnique, Live
<1> QED BY <1>2, <1>4

---------------------------------------------------------------------------
(***************************************************************************)
(* The steps.                                                              *)
(***************************************************************************)
LEMMA HeldFinite == ASSUME QTypeOK PROVE IsFiniteSet(held) /\ Cardinality(held) \in Nat
BY FS_Subset, FS_CardinalityType, ThreadAssumption DEF QTypeOK

\* A block in use is put on a queue.
LEMMA AddStep ==
    ASSUME IInv, NEW q \in Queue, NEW e \in held, NEW k \in 0 .. Len(s[q]), Added(q, e, k),
           held' = held \ {e}, UNCHANGED <<nalloced, tid, btid, got>>
    PROVE  IInv'
<1> DEFINE n == Len(s[q])
           w == With(s[q], k, e)
<1>0. e \in Block /\ QTypeOK /\ WellLinked /\ OnePlace /\ NoLeak /\ TidsBelow /\ TidsUnique
  BY DEF IInv, QTypeOK
<1>1. \A p \in Queue : s[p] \in Seq(Block) /\ Len(s[p]) \in Nat /\ \A i \in 1 .. Len(s[p]) : s[p][i] \in Block
  BY <1>0, QueueFacts
<1>2. /\ w \in Seq(Block) /\ Len(w) = n + 1
      /\ \A i \in 1 .. n + 1 : w[i] = IF i <= k THEN s[q][i] ELSE IF i = k + 1 THEN e ELSE s[q][i - 1]
  <2>1. s[q] \in Seq(Block)
    BY <1>1
  <2> QED BY <1>0, <2>1, WithAll
<1>3. s'[q] = w /\ \A p \in Queue \ {q} : s'[p] = s[p]
  BY <1>0 DEF Added, QTypeOK
<1>4. \A p \in Queue : s'[p] \in Seq(Block)
  BY <1>1, <1>2, <1>3
<1> HIDE DEF w
<1>5. Relinked(next, s[q], k, e) \in [Block -> Block \cup {NULL}]
  <2>1. k # n => s[q][k + 1] \in Block
    <3>1. k # n => k + 1 \in 1 .. n
      BY <1>1
    <3> QED BY <1>1, <3>1
  <2> QED BY <1>0, <2>1 DEF Relinked, QTypeOK
<1>6. QTypeOK'
  <2>1. s' \in [Queue -> Seq(Block)]
    BY <1>2, <1>0 DEF Added, QTypeOK, w
  <2>2. cnt' \in [Queue -> Nat]
    BY <1>0 DEF Added, QTypeOK
  <2>3. head' \in [Queue -> Block \cup {NULL}] /\ tail' \in [Queue -> Block \cup {NULL}]
    BY <1>0 DEF Added, QTypeOK
  <2>4. next' \in [Block -> Block \cup {NULL}]
    BY <1>5 DEF Added
  <2>5. held' \subseteq Block /\ got' \in Block \cup {NULL} /\ nalloced' \in Nat /\ tid' \in Nat /\ btid' \in [Block -> Nat]
    BY <1>0 DEF QTypeOK
  <2> QED BY <2>1, <2>2, <2>3, <2>4, <2>5 DEF QTypeOK
<1>7. WellLinked'
  <2>1. \A p \in Queue : \A i \in 1 .. Len(s[p]) : s[p][i] # e
    BY <1>0 DEF OnePlace
  <2>2. \A i, j \in 1 .. n : s[q][i] = s[q][j] => i = j
    BY <1>0 DEF OnePlace
  <2>3. \A p \in Queue : Chained(p)
    BY <1>0, ChainedIs
  <2>4. Chained(q)'
    <3>1. Chain(Relinked(next, s[q], k, e), IF k = 0 THEN e ELSE head[q], IF k = Len(s[q]) THEN e ELSE tail[q],
                cnt[q] + 1, With(s[q], k, e))
      BY <1>0, <1>1, <2>1, <2>2, <2>3, ChainWith DEF Chained
    <3>2. /\ next' = Relinked(next, s[q], k, e) /\ head'[q] = (IF k = 0 THEN e ELSE head[q])
          /\ tail'[q] = (IF k = Len(s[q]) THEN e ELSE tail[q]) /\ cnt'[q] = cnt[q] + 1 /\ s'[q] = With(s[q], k, e)
      BY <1>0 DEF Added, QTypeOK
    <3>3. Chain(next', head'[q], tail'[q], cnt'[q], s'[q])
      BY <3>1, <3>2
    <3> QED BY <3>3 DEF Chained
  <2>5. ASSUME NEW p \in Queue, p # q PROVE Chained(p)'
    <3>1. head'[p] = head[p] /\ tail'[p] = tail[p] /\ cnt'[p] = cnt[p] /\ s'[p] = s[p]
      BY <1>0, <2>5 DEF Added, QTypeOK
    <3>2. \A i \in 1 .. Len(s[p]) : next'[s[p][i]] = next[s[p][i]]
      <4> TAKE i \in 1 .. Len(s[p])
      <4>1. s[p][i] \in Block /\ s[p][i] # e
        BY <1>1, <2>1
      <4>2. k > 0 => s[p][i] # s[q][k]
        <5>1. k > 0 => k \in 1 .. Len(s[q])
          BY <1>1
        <5> QED BY <1>0, <2>5, <5>1 DEF OnePlace
      <4> QED BY <4>1, <4>2 DEF Added, Relinked
    <3>3. Chain(next', head[p], tail[p], cnt[p], s[p])
      BY <1>1, <2>3, <3>2, ChainKept DEF Chained
    <3> QED BY <3>1, <3>3 DEF Chained
  <2>6. \A p \in Queue : Chained(p)'
    BY <2>4, <2>5
  <2> QED BY <2>6 DEF WellLinked, Chained, Chain
<1>8. OnePlace'
  <2> DEFINE Old(i) == IF i <= k THEN i ELSE i - 1
  <2>1. ASSUME NEW i \in 1 .. n + 1
        PROVE  \/ i = k + 1 /\ w[i] = e
               \/ i # k + 1 /\ Old(i) \in 1 .. n /\ w[i] = s[q][Old(i)] /\ w[i] # e /\ w[i] \notin held
    <3>1. CASE i = k + 1
      BY <1>1, <1>2, <3>1
    <3>2. CASE i # k + 1
      <4>1. Old(i) \in 1 .. n
        BY <1>1, <3>2
      <4>2. w[i] = s[q][Old(i)]
        BY <1>2, <3>2
      <4>3. s[q][Old(i)] \notin held
        BY <1>0, <4>1 DEF OnePlace
      <4> QED BY <3>2, <4>1, <4>2, <4>3
    <3> QED BY <3>1, <3>2
  <2>2. ASSUME NEW i \in 1 .. n + 1, NEW j \in 1 .. n + 1, w[i] = w[j] PROVE i = j
    <3>1. CASE i = k + 1
      BY <2>1, <2>2, <3>1
    <3>2. CASE j = k + 1
      BY <2>1, <2>2, <3>2
    <3>3. CASE i # k + 1 /\ j # k + 1
      <4>1. Old(i) \in 1 .. n /\ Old(j) \in 1 .. n /\ s[q][Old(i)] = s[q][Old(j)]
        BY <2>1, <2>2, <3>3
      <4>2. Old(i) = Old(j)
        BY <1>0, <4>1 DEF OnePlace
      <4> QED BY <1>1, <3>3, <4>2
    <3> QED BY <3>1, <3>2, <3>3
  <2>3. ASSUME NEW p \in Queue, p # q, NEW j \in 1 .. Len(s[p]), NEW i \in 1 .. n + 1 PROVE w[i] # s[p][j]
    <3>1. CASE i = k + 1
      BY <1>0, <2>1, <3>1 DEF OnePlace
    <3>2. CASE i # k + 1
      <4>1. Old(i) \in 1 .. n /\ w[i] = s[q][Old(i)]
        BY <2>1, <3>2
      <4> QED BY <1>0, <2>3, <4>1 DEF OnePlace
    <3> QED BY <3>1, <3>2
  <2>4. \A i \in 1 .. n + 1 : w[i] \notin held'
    BY <2>1
  <2>5. ASSUME NEW p \in Queue, NEW i \in 1 .. Len(s'[p]) PROVE s'[p][i] \notin held'
    <3>1. CASE p = q
      BY <1>2, <1>3, <2>4, <3>1
    <3>2. CASE p # q
      BY <1>0, <1>3, <3>2 DEF OnePlace
    <3> QED BY <3>1, <3>2
  <2>6. ASSUME NEW p \in Queue, NEW i \in 1 .. Len(s'[p]), NEW r \in Queue, NEW j \in 1 .. Len(s'[r]),
               s'[p][i] = s'[r][j]
        PROVE  p = r /\ i = j
    <3>1. CASE p = q /\ r = q
      BY <1>2, <1>3, <2>2, <2>6, <3>1
    <3>2. CASE p = q /\ r # q
      <4>1. i \in 1 .. n + 1 /\ s'[p] = w
        BY <1>2, <1>3, <3>2
      <4>2. j \in 1 .. Len(s[r]) /\ s'[r] = s[r]
        BY <1>3, <3>2
      <4>3. w[i] # s[r][j]
        BY <2>3, <3>2, <4>1, <4>2
      <4> QED BY <2>6, <4>1, <4>2, <4>3
    <3>3. CASE p # q /\ r = q
      <4>1. j \in 1 .. n + 1 /\ s'[r] = w
        BY <1>2, <1>3, <3>3
      <4>2. i \in 1 .. Len(s[p]) /\ s'[p] = s[p]
        BY <1>3, <3>3
      <4>3. w[j] # s[p][i]
        BY <2>3, <3>3, <4>1, <4>2
      <4> QED BY <2>6, <4>1, <4>2, <4>3
    <3>4. CASE p # q /\ r # q
      <4>1. /\ i \in 1 .. Len(s[p]) /\ s'[p] = s[p]
            /\ j \in 1 .. Len(s[r]) /\ s'[r] = s[r]
        BY <1>3, <3>4
      <4>2. s[p][i] = s[r][j]
        BY <2>6, <4>1
      <4>3. OnePlace
        BY <1>0
      <4> QED BY <4>1, <4>2, <4>3 DEF OnePlace
    <3> QED BY <3>1, <3>2, <3>3, <3>4
  <2> QED BY <2>5, <2>6 DEF OnePlace
<1>9. NoLeak'
  <2>1. IsFiniteSet(held) /\ Cardinality(held) \in Nat
    BY <1>0, HeldFinite
  <2>2. Cardinality(held') = Cardinality(held) - 1
    BY <2>1, FS_RemoveElement
  <2>3. cnt'["runq"] + cnt'["freeq"] = cnt["runq"] + cnt["freeq"] + 1
    <3>1. cnt["runq"] \in Nat /\ cnt["freeq"] \in Nat /\ cnt \in [Queue -> Nat]
      BY <1>0 DEF QTypeOK, Queue
    <3>2. CASE q = "runq"
      BY <3>1, <3>2 DEF Added, Queue
    <3>3. CASE q = "freeq"
      BY <3>1, <3>3 DEF Added, Queue
    <3> QED BY <3>2, <3>3 DEF Queue
  <2>4. cnt["runq"] \in Nat /\ cnt["freeq"] \in Nat /\ cnt'["runq"] \in Nat /\ cnt'["freeq"] \in Nat
    BY <1>0, <1>6 DEF QTypeOK, Queue
  <2>5. nalloced' = cnt["runq"] + cnt["freeq"] + Cardinality(held)
    BY <1>0 DEF NoLeak
  <2>6. nalloced' = cnt'["runq"] + cnt'["freeq"] + Cardinality(held')
    <3> DEFINE r == cnt["runq"] + cnt["freeq"]
               r1 == cnt'["runq"] + cnt'["freeq"]
               c == Cardinality(held)
    <3>1. r \in Nat /\ r1 = r + 1
      BY <2>3, <2>4
    <3>2. c \in Nat /\ Cardinality(held') = c - 1
      BY <2>1, <2>2
    <3>3. nalloced' = r + c
      BY <2>5
    <3> HIDE DEF r, r1, c
    <3>4. nalloced' = r1 + Cardinality(held')
      BY <3>1, <3>2, <3>3
    <3> QED BY <3>4 DEF r1
  <2> QED BY <2>6 DEF NoLeak
<1>10. Live' \subseteq Live
  <2>0. "runq" \in Queue
    BY DEF Queue
  <2>1. Live = held \cup {s["runq"][i] : i \in 1 .. Len(s["runq"])}
    BY <1>1, <2>0, LiveIs DEF Live
  <2>2. Live' = held' \cup {s'["runq"][i] : i \in 1 .. Len(s'["runq"])}
    BY <1>4, <2>0, LiveIs DEF Live
  <2>3. CASE q # "runq"
    BY <1>3, <2>0, <2>1, <2>2, <2>3
  <2>4. CASE q = "runq"
    <3>1. \A i \in 1 .. n + 1 : w[i] \in Live
      <4> TAKE i \in 1 .. n + 1
      <4>1. CASE i = k + 1
        BY <1>1, <1>2, <2>1, <4>1
      <4>2. CASE i <= k
        <5>1. i \in 1 .. n
          BY <1>1, <4>2
        <5> QED BY <1>2, <2>1, <2>4, <4>2, <5>1
      <4>3. CASE i > k + 1
        <5>1. i - 1 \in 1 .. n /\ ~(i <= k) /\ i # k + 1
          BY <1>1, <4>3
        <5> QED BY <1>2, <2>1, <2>4, <5>1
      <4> QED BY <1>1, <4>1, <4>2, <4>3
    <3> QED BY <1>2, <1>3, <2>1, <2>2, <2>4, <3>1
  <2> QED BY <2>3, <2>4
<1> QED BY <1>0, <1>6, <1>7, <1>8, <1>9, <1>10, TidsOld DEF IInv

\* The first block of a queue is taken into use; the links stay as they are.
LEMMA TakeStep ==
    ASSUME IInv, NEW q \in Queue, Q_pop(q), head[q] # NULL, held' = held \cup {head[q]},
           nalloced' = nalloced
    PROVE  /\ WellLinked' /\ OnePlace' /\ NoLeak'
           /\ head' \in [Queue -> Block \cup {NULL}] /\ tail' \in [Queue -> Block \cup {NULL}]
           /\ cnt' \in [Queue -> Nat] /\ next' \in [Block -> Block \cup {NULL}]
           /\ s' \in [Queue -> Seq(Block)] /\ held' \subseteq Block /\ got' \in Block
           /\ Live' \subseteq Live \cup {head[q]} /\ (q = "runq" => Live' \subseteq Live)
           /\ head[q] \in Block /\ nalloced' \in Nat
<1> DEFINE n == Len(s[q])
           w == Tail(s[q])
           b == head[q]
<1>0. QTypeOK /\ WellLinked /\ OnePlace /\ NoLeak
  BY DEF IInv
<1>1. \A p \in Queue : s[p] \in Seq(Block) /\ Len(s[p]) \in Nat /\ \A i \in 1 .. Len(s[p]) : s[p][i] \in Block
  BY <1>0, QueueFacts
<1>2. n # 0 /\ b = s[q][1] /\ b \in Block /\ s[q] # <<>> /\ 1 \in 1 .. n /\ n - 1 \in Nat
  <2>1. n # 0 /\ b = s[q][1]
    BY <1>0, QueueFacts
  <2>2. s[q] # <<>>
    BY <2>1, EmptySeq
  <2>3. 1 \in 1 .. n /\ n - 1 \in Nat
    BY <1>1, <2>1
  <2> QED BY <1>1, <2>1, <2>2, <2>3
<1>3. w \in Seq(Block) /\ Len(w) = n - 1 /\ \A i \in 1 .. n - 1 : w[i] = s[q][i + 1]
  BY <1>1, <1>2, HeadTailProperties
<1>4. /\ cnt' = [cnt EXCEPT ![q] = @ - 1] /\ head' = [head EXCEPT ![q] = next[head[q]]]
      /\ tail' = [tail EXCEPT ![q] = IF next[head[q]] = NULL THEN NULL ELSE @]
      /\ s' = [s EXCEPT ![q] = w] /\ next' = next /\ got' = b
  BY DEF Q_pop
<1>5. s'[q] = w /\ \A p \in Queue \ {q} : s'[p] = s[p]
  BY <1>0, <1>4 DEF QTypeOK
<1> HIDE DEF w
<1>6. s' \in [Queue -> Seq(Block)]
  BY <1>0, <1>3, <1>4 DEF QTypeOK
<1>7. /\ head' \in [Queue -> Block \cup {NULL}] /\ tail' \in [Queue -> Block \cup {NULL}]
      /\ next' \in [Block -> Block \cup {NULL}] /\ held' \subseteq Block /\ got' \in Block
      /\ nalloced' \in Nat
  BY <1>0, <1>2, <1>4 DEF QTypeOK
<1>8. cnt[q] = n /\ cnt' \in [Queue -> Nat]
  <2>1. cnt[q] = n
    BY <1>0 DEF WellLinked
  <2> QED BY <1>0, <1>2, <1>4, <2>1 DEF QTypeOK
<1>9. WellLinked'
  <2>1. \A p \in Queue : Chained(p)
    BY <1>0, ChainedIs
  <2>2. Chained(q)'
    <3>1. Chain(next, next[head[q]], IF next[head[q]] = NULL THEN NULL ELSE tail[q], cnt[q] - 1, w)
      BY <1>1, <1>2, <2>1, ChainTail DEF Chained, w
    <3>2. /\ head'[q] = next[head[q]] /\ cnt'[q] = cnt[q] - 1 /\ next' = next
          /\ tail'[q] = (IF next[head[q]] = NULL THEN NULL ELSE tail[q])
      BY <1>0, <1>4 DEF QTypeOK
    <3>3. Chain(next', head'[q], tail'[q], cnt'[q], s'[q])
      BY <1>5, <3>1, <3>2
    <3> QED BY <3>3 DEF Chained
  <2>3. ASSUME NEW p \in Queue, p # q PROVE Chained(p)'
    <3>1. head'[p] = head[p] /\ tail'[p] = tail[p] /\ cnt'[p] = cnt[p] /\ s'[p] = s[p] /\ next' = next
      BY <1>0, <1>4, <2>3 DEF QTypeOK
    <3> QED BY <2>1, <3>1 DEF Chained
  <2>4. \A p \in Queue : Chained(p)'
    BY <2>2, <2>3
  <2> QED BY <2>4 DEF WellLinked, Chained, Chain
<1>10. ASSUME NEW i \in 1 .. n - 1
       PROVE  i + 1 \in 1 .. n /\ w[i] = s[q][i + 1] /\ w[i] \notin held /\ w[i] # b
  <2>1. i + 1 \in 1 .. n /\ i + 1 # 1 /\ w[i] = s[q][i + 1]
    BY <1>1, <1>2, <1>3
  <2> QED BY <1>0, <1>2, <2>1 DEF OnePlace
<1>11. OnePlace'
  <2>1. ASSUME NEW p \in Queue, NEW i \in 1 .. Len(s'[p]) PROVE s'[p][i] \notin held'
    <3>1. CASE p = q
      BY <1>3, <1>5, <1>10, <3>1
    <3>2. CASE p # q
      BY <1>0, <1>2, <1>5, <3>2 DEF OnePlace
    <3> QED BY <3>1, <3>2
  <2>2. ASSUME NEW p \in Queue, NEW i \in 1 .. Len(s'[p]), NEW r \in Queue, NEW j \in 1 .. Len(s'[r]),
               s'[p][i] = s'[r][j]
        PROVE  p = r /\ i = j
    <3>1. CASE p = q /\ r = q
      <4>1. i \in 1 .. n - 1 /\ j \in 1 .. n - 1 /\ w[i] = w[j]
        BY <1>3, <1>5, <2>2, <3>1
      <4>2. i + 1 \in 1 .. n /\ j + 1 \in 1 .. n /\ s[q][i + 1] = s[q][j + 1]
        BY <1>10, <4>1
      <4>3. i + 1 = j + 1
        BY <1>0, <4>2 DEF OnePlace
      <4> QED BY <3>1, <4>1, <4>3
    <3>2. CASE p = q /\ r # q
      <4>1. i \in 1 .. n - 1 /\ j \in 1 .. Len(s[r]) /\ w[i] = s[r][j]
        BY <1>3, <1>5, <2>2, <3>2
      <4>2. i + 1 \in 1 .. n /\ s[q][i + 1] = s[r][j]
        BY <1>10, <4>1
      <4> QED BY <1>0, <3>2, <4>1, <4>2 DEF OnePlace
    <3>3. CASE p # q /\ r = q
      <4>1. j \in 1 .. n - 1 /\ i \in 1 .. Len(s[p]) /\ w[j] = s[p][i]
        BY <1>3, <1>5, <2>2, <3>3
      <4>2. j + 1 \in 1 .. n /\ s[q][j + 1] = s[p][i]
        BY <1>10, <4>1
      <4> QED BY <1>0, <3>3, <4>1, <4>2 DEF OnePlace
    <3>4. CASE p # q /\ r # q
      BY <1>0, <1>5, <2>2, <3>4 DEF OnePlace
    <3> QED BY <3>1, <3>2, <3>3, <3>4
  <2> QED BY <2>1, <2>2 DEF OnePlace
<1>12. NoLeak'
  <2>1. IsFiniteSet(held) /\ Cardinality(held) \in Nat
    BY <1>0, HeldFinite
  <2>2. Cardinality(held') = Cardinality(held) + 1
    <3>1. b \notin held
      BY <1>0, <1>2 DEF OnePlace
    <3> QED BY <2>1, <3>1, FS_AddElement
  <2>3. cnt["runq"] \in Nat /\ cnt["freeq"] \in Nat /\ cnt \in [Queue -> Nat] /\ cnt'["runq"] \in Nat /\ cnt'["freeq"] \in Nat
    BY <1>0, <1>8 DEF QTypeOK, Queue
  <2>4. cnt'["runq"] + cnt'["freeq"] = cnt["runq"] + cnt["freeq"] - 1
    <3>1. CASE q = "runq"
      BY <1>4, <2>3, <3>1 DEF Queue
    <3>2. CASE q = "freeq"
      BY <1>4, <2>3, <3>2 DEF Queue
    <3> QED BY <3>1, <3>2 DEF Queue
  <2>5. nalloced' = cnt["runq"] + cnt["freeq"] + Cardinality(held)
    BY <1>0 DEF NoLeak
  <2>6. nalloced' = cnt'["runq"] + cnt'["freeq"] + Cardinality(held')
    <3> DEFINE r == cnt["runq"] + cnt["freeq"]
               r1 == cnt'["runq"] + cnt'["freeq"]
               c == Cardinality(held)
    <3>1. r \in Nat /\ r1 = r - 1
      BY <2>3, <2>4
    <3>2. c \in Nat /\ Cardinality(held') = c + 1
      BY <2>1, <2>2
    <3>3. nalloced' = r + c
      BY <2>5
    <3> HIDE DEF r, r1, c
    <3>4. nalloced' = r1 + Cardinality(held')
      BY <3>1, <3>2, <3>3
    <3> QED BY <3>4 DEF r1
  <2> QED BY <2>6 DEF NoLeak
<1>13. Live' \subseteq Live \cup {b} /\ (q = "runq" => Live' \subseteq Live)
  <2>0. "runq" \in Queue /\ s' \in [Queue -> Seq(Block)]
    BY <1>6 DEF Queue
  <2>1. Live = held \cup {s["runq"][i] : i \in 1 .. Len(s["runq"])}
    BY <1>1, <2>0, LiveIs DEF Live
  <2>2. Live' = held' \cup {s'["runq"][i] : i \in 1 .. Len(s'["runq"])}
    BY <2>0, LiveIs DEF Live
  <2>3. CASE q # "runq"
    BY <1>5, <2>0, <2>1, <2>2, <2>3
  <2>4. CASE q = "runq"
    <3>1. \A i \in 1 .. n - 1 : w[i] \in Live
      BY <1>10, <2>1, <2>4
    <3>2. b \in Live
      BY <1>2, <2>1, <2>4
    <3>3. Live' = held' \cup {w[i] : i \in 1 .. n - 1}
      BY <1>3, <1>5, <2>2, <2>4
    <3>4. held \subseteq Live
      BY <2>1
    <3> QED BY <3>1, <3>2, <3>3, <3>4
  <2> QED BY <2>3, <2>4
<1> QED BY <1>2, <1>6, <1>7, <1>8, <1>9, <1>11, <1>12, <1>13

\* kmalloc_aligned gives a block that is nowhere.
LEMMA NewBlockStep ==
    ASSUME IInv, NEW t \in Block, t \notin kmalloced, held' = held \cup {t}, UNCHANGED <<links, s>>,
           nalloced' = nalloced + 1, btid' = [btid EXCEPT ![t] = tid], tid' = tid + 1, got' \in Block \cup {NULL}
    PROVE  IInv'
<1>0. QTypeOK /\ WellLinked /\ OnePlace /\ NoLeak /\ TidsBelow /\ TidsUnique
  BY DEF IInv
<1>1. UNCHANGED <<head, tail, cnt, next, s>>
  BY DEF links
<1>2. \A p \in Queue : s[p] \in Seq(Block) /\ \A i \in 1 .. Len(s[p]) : s[p][i] \in Block
  BY <1>0, QueueFacts
<1>3. t \notin held /\ \A p \in Queue : \A i \in 1 .. Len(s[p]) : s[p][i] # t
  <2>1. kmalloced = held \cup {s["runq"][i] : i \in 1 .. Len(s["runq"])} \cup {s["freeq"][i] : i \in 1 .. Len(s["freeq"])}
    BY <1>2, LiveIs DEF kmalloced, Queue
  <2> QED BY <2>1 DEF Queue
<1>4. QTypeOK'
  BY <1>0, <1>1 DEF QTypeOK
<1>5. WellLinked'
  BY <1>0, <1>1 DEF WellLinked
<1>6. OnePlace'
  BY <1>0, <1>1, <1>3 DEF OnePlace
<1>7. NoLeak'
  <2>1. IsFiniteSet(held) /\ Cardinality(held) \in Nat
    BY <1>0, HeldFinite
  <2>2. Cardinality(held') = Cardinality(held) + 1
    BY <1>3, <2>1, FS_AddElement
  <2>3. cnt["runq"] \in Nat /\ cnt["freeq"] \in Nat
    BY <1>0 DEF QTypeOK, Queue
  <2>4. nalloced' = cnt["runq"] + cnt["freeq"] + Cardinality(held')
    BY <1>0, <2>1, <2>2, <2>3 DEF NoLeak
  <2> QED BY <1>1, <2>4 DEF NoLeak
<1>8. Live' \subseteq Live \cup {t}
  BY <1>1 DEF Live
<1>9. Live \subseteq Block
  <2>1. "runq" \in Queue
    BY DEF Queue
  <2>2. Live = held \cup {s["runq"][i] : i \in 1 .. Len(s["runq"])}
    BY <1>2, <2>1, LiveIs DEF Live
  <2> QED BY <1>0, <1>2, <2>1, <2>2 DEF QTypeOK
<1> QED BY <1>0, <1>4, <1>5, <1>6, <1>7, <1>8, <1>9, TidsNew DEF IInv

---------------------------------------------------------------------------
\* The invariant holds at the start.
LEMMA IInvInit == QInit => IInv
<1> SUFFICES ASSUME QInit PROVE IInv
  OBVIOUS
<1>1. \A q \in Queue : s[q] = <<>> /\ head[q] = NULL /\ tail[q] = NULL /\ cnt[q] = 0
  BY DEF QInit
<1>2. QTypeOK
  BY DEF QInit, QTypeOK
<1>3. Len(<<>>) = 0 /\ (\A i \in 1 .. 0 : FALSE) /\ (\A i \in 1 .. 0 - 1 : FALSE)
  OBVIOUS
<1>4. WellLinked
  BY <1>1, <1>3 DEF WellLinked
<1>5. OnePlace
  BY <1>1, <1>3 DEF OnePlace
<1>6. NoLeak
  BY <1>1, FS_EmptySet DEF QInit, NoLeak, Queue
<1>7. Live = {}
  BY DEF Live, QInit, Queue
<1> QED BY <1>2, <1>4, <1>5, <1>6, <1>7 DEF IInv, TidsBelow, TidsUnique, Live

\* Every step of Q.h's clients.
LEMMA IInvStep == ASSUME IInv, [QNext]_qvars PROVE IInv'
<1>0. "runq" \in Queue /\ "freeq" \in Queue /\ QTypeOK /\ (\A b \in held : b \in Block)
  BY DEF Queue, IInv, QTypeOK
<1>1. CASE th_alloc
  <2>1. PICK t \in Block :
          /\ IF head["freeq"] # NULL
             THEN t = head["freeq"] /\ UNCHANGED nalloced
             ELSE t \notin kmalloced /\ nalloced' = nalloced + 1
          /\ btid' = [btid EXCEPT ![t] = tid] /\ tid' = tid + 1
          /\ held' = held \cup {t}
    BY <1>1 DEF th_alloc
  <2>2. Q_pop("freeq")
    BY <1>1 DEF th_alloc
  <2>3. CASE head["freeq"] = NULL
    <3>1. UNCHANGED <<links, s>> /\ got' \in Block \cup {NULL} /\ t \notin kmalloced /\ nalloced' = nalloced + 1
      BY <2>1, <2>2, <2>3 DEF Q_pop
    <3> QED BY <2>1, <3>1, NewBlockStep
  <2>4. CASE head["freeq"] # NULL
    <3>1. held' = held \cup {head["freeq"]} /\ nalloced' = nalloced /\ t = head["freeq"]
      BY <2>1, <2>4
    <3>2. /\ WellLinked' /\ OnePlace' /\ NoLeak'
          /\ head' \in [Queue -> Block \cup {NULL}] /\ tail' \in [Queue -> Block \cup {NULL}]
          /\ cnt' \in [Queue -> Nat] /\ next' \in [Block -> Block \cup {NULL}]
          /\ s' \in [Queue -> Seq(Block)] /\ held' \subseteq Block /\ got' \in Block
          /\ Live' \subseteq Live \cup {head["freeq"]} /\ nalloced' \in Nat
      BY <1>0, <2>2, <2>4, <3>1, TakeStep
    <3>3. Live \subseteq Block
      <4>1. s["runq"] \in Seq(Block) /\ \A i \in 1 .. Len(s["runq"]) : s["runq"][i] \in Block
        BY <1>0, QueueFacts DEF IInv
      <4>2. Live = held \cup {s["runq"][i] : i \in 1 .. Len(s["runq"])}
        BY <4>1, LiveIs DEF Live
      <4> QED BY <1>0, <4>1, <4>2
    <3>4. TidsBelow' /\ TidsUnique'
      BY <1>0, <2>1, <3>1, <3>2, <3>3, TidsNew DEF IInv
    <3>5. QTypeOK'
      <4>1. btid' \in [Block -> Nat] /\ tid' \in Nat
        BY <1>0, <2>1 DEF QTypeOK
      <4> QED BY <3>2, <4>1 DEF QTypeOK
    <3> QED BY <3>2, <3>4, <3>5 DEF IInv
  <2> QED BY <2>3, <2>4
<1>2. CASE TakeNext
  <2>1. Q_pop("runq") /\ UNCHANGED <<nalloced, tid, btid>>
    BY <1>2 DEF TakeNext
  <2>2. CASE head["runq"] = NULL
    <3>1. UNCHANGED <<head, tail, cnt, next, s, nalloced, tid, btid, held>> /\ got' = NULL
      BY <1>2, <2>1, <2>2 DEF TakeNext, Q_pop, links
    <3> QED BY <3>1 DEF IInv, QTypeOK, WellLinked, OnePlace, NoLeak, TidsBelow, TidsUnique, Live
  <2>3. CASE head["runq"] # NULL
    <3>1. held' = held \cup {head["runq"]}
      BY <1>2, <2>3 DEF TakeNext
    <3>2. /\ WellLinked' /\ OnePlace' /\ NoLeak'
          /\ head' \in [Queue -> Block \cup {NULL}] /\ tail' \in [Queue -> Block \cup {NULL}]
          /\ cnt' \in [Queue -> Nat] /\ next' \in [Block -> Block \cup {NULL}]
          /\ s' \in [Queue -> Seq(Block)] /\ held' \subseteq Block /\ got' \in Block
          /\ Live' \subseteq Live /\ nalloced' \in Nat
      BY <1>0, <2>1, <2>3, <3>1, TakeStep
    <3>3. TidsBelow' /\ TidsUnique'
      BY <2>1, <3>2, TidsOld DEF IInv
    <3>4. QTypeOK'
      BY <1>0, <2>1, <3>2 DEF QTypeOK
    <3> QED BY <3>2, <3>3, <3>4 DEF IInv
  <2> QED BY <2>2, <2>3
<1>3. ASSUME NEW b \in Block, th_free(b) PROVE IInv'
  <2>1. b \in held /\ held' = held \ {b} /\ Q_push("freeq", b) /\ UNCHANGED <<nalloced, tid, btid, got>>
    BY <1>3 DEF th_free
  <2>2. Added("freeq", b, 0) /\ 0 \in 0 .. Len(s["freeq"])
    BY <1>0, <2>1, PushAdds
  <2> QED BY <1>0, <2>1, <2>2, AddStep
<1>4. ASSUME NEW b \in Block, MakeRunnable(b) PROVE IInv'
  <2>1. b \in held /\ held' = held \ {b} /\ Q_append("runq", b) /\ UNCHANGED <<nalloced, tid, btid, got>>
    BY <1>4 DEF MakeRunnable
  <2>2. PICK k \in 0 .. Len(s["runq"]) : Added("runq", b, k)
    BY <1>0, <2>1, AppendAdds
  <2> QED BY <1>0, <2>1, <2>2, AddStep
<1>5. ASSUME NEW b \in Block, NEW e \in Block \cup {NULL}, Schedule(e, b) PROVE IInv'
  <2>1. /\ b \in held /\ held' = held \ {b} /\ Q_insert_after("runq", e, b) /\ UNCHANGED <<nalloced, tid, btid, got>>
        /\ e = NULL \/ \E i \in 1 .. Len(s["runq"]) : s["runq"][i] = e
    BY <1>5 DEF Schedule
  <2>2. PICK k \in 0 .. Len(s["runq"]) : Added("runq", b, k)
    BY <1>0, <2>1, InsertAdds
  <2> QED BY <1>0, <2>1, <2>2, AddStep
<1>6. CASE UNCHANGED qvars
  <2>1. UNCHANGED <<head, tail, cnt, next, nalloced, tid, btid, held, got, s>>
    BY <1>6 DEF qvars, links
  <2> QED BY <2>1 DEF IInv, QTypeOK, WellLinked, OnePlace, NoLeak, TidsBelow, TidsUnique, Live
<1> QED BY <1>1, <1>2, <1>3, <1>4, <1>5, <1>6 DEF QNext

\* For any number of blocks and of threads: links, tails and counts agree with what
\* the queues hold, a block is in one place only, none is lost, and no two live
\* threads share a number (Q.h, th_alloc and th_free of rpi-thread.c).
THEOREM ThreadBlocks == QSpec => []BlocksWellKept
<1>1. QSpec => []IInv
  BY IInvInit, IInvStep, PTL DEF QSpec
<1>2. IInv => BlocksWellKept
  BY DEF IInv, BlocksWellKept
<1> QED BY <1>1, <1>2, PTL

---------------------------------------------------------------------------
(***************************************************************************)
(* The refinement: every step is a Pop or an Insert of AbsQueues, or leaves *)
(* the queues and the result alone.                                        *)
(***************************************************************************)
LEMMA AddInserts ==
    ASSUME IInv, NEW q \in Queue, NEW e \in held, NEW k \in 0 .. Len(s[q]), Added(q, e, k), got' = got
    PROVE  Lists!ANext
<1>1. \A p \in Queue : \A i \in 1 .. Len(s[p]) : s[p][i] # e
  BY DEF IInv, OnePlace
<1>2. s' = [s EXCEPT ![q] = SubSeq(@, 1, k) \o <<e>> \o SubSeq(@, k + 1, Len(@))]
  BY DEF Added, With
<1>3. Lists!Insert(q, e, k)
  BY <1>1, <1>2 DEF Lists!Insert
<1>4. e \in Block
  BY DEF IInv, QTypeOK
<1> QED BY <1>3, <1>4 DEF Lists!ANext

\* Q_pop takes the first element of the abstract list.
LEMMA PopPops ==
    ASSUME IInv, NEW q \in Queue, Q_pop(q)
    PROVE  Lists!ANext
<1>0. /\ s[q] \in Seq(Block) /\ Len(s[q]) \in Nat /\ head[q] = (IF Len(s[q]) = 0 THEN NULL ELSE s[q][1])
      /\ ((head[q] = NULL) <=> (Len(s[q]) = 0))
  BY QueueFacts DEF IInv
<1>1. CASE head[q] = NULL
  <2>1. s[q] = <<>>
    BY <1>0, <1>1, EmptySeq
  <2>2. got' = NULL /\ s' = s
    BY <1>1 DEF Q_pop
  <2>3. Lists!Pop(q)
    BY <2>1, <2>2 DEF Lists!Pop
  <2> QED BY <2>3 DEF Lists!ANext
<1>2. CASE head[q] # NULL
  <2>1. s[q] # <<>>
    BY <1>0, <1>2, EmptySeq
  <2>2. Head(s[q]) = head[q]
    BY <1>0, <1>2, <2>1
  <2>3. got' = Head(s[q]) /\ s' = [s EXCEPT ![q] = Tail(@)]
    BY <1>2, <2>2 DEF Q_pop
  <2>4. Lists!Pop(q)
    BY <2>1, <2>3 DEF Lists!Pop
  <2> QED BY <2>4 DEF Lists!ANext
<1> QED BY <1>1, <1>2

\* The linked queues of Q.h behave as sequences: what goes in at a place comes out
\* in order, and Q_pop returns NULL exactly when there is nothing.
THEOREM QueuesAreSequences == QSpec => ImplementsQueues
<1>1. QInit => Lists!AInit
  BY DEF QInit, Lists!AInit
<1>2. ASSUME IInv, [QNext]_qvars PROVE [Lists!ANext]_(Lists!avars)
  <2>0. "runq" \in Queue /\ "freeq" \in Queue
    BY DEF Queue
  <2>1. CASE th_alloc
    BY <2>0, <1>2, <2>1, PopPops DEF th_alloc
  <2>2. CASE TakeNext
    BY <2>0, <1>2, <2>2, PopPops DEF TakeNext
  <2>3. ASSUME NEW b \in Block, th_free(b) PROVE Lists!ANext
    <3>1. b \in held /\ Q_push("freeq", b) /\ got' = got
      BY <2>3 DEF th_free
    <3>2. Added("freeq", b, 0) /\ 0 \in 0 .. Len(s["freeq"])
      BY <1>2, <2>0, <3>1, PushAdds
    <3> QED BY <1>2, <2>0, <3>1, <3>2, AddInserts
  <2>4. ASSUME NEW b \in Block, MakeRunnable(b) PROVE Lists!ANext
    <3>1. b \in held /\ Q_append("runq", b) /\ got' = got
      BY <2>4 DEF MakeRunnable
    <3>2. PICK k \in 0 .. Len(s["runq"]) : Added("runq", b, k)
      BY <1>2, <2>0, <3>1, AppendAdds
    <3> QED BY <1>2, <2>0, <3>1, <3>2, AddInserts
  <2>5. ASSUME NEW b \in Block, NEW e \in Block \cup {NULL}, Schedule(e, b) PROVE Lists!ANext
    <3>1. /\ b \in held /\ Q_insert_after("runq", e, b) /\ got' = got
          /\ e = NULL \/ \E i \in 1 .. Len(s["runq"]) : s["runq"][i] = e
      BY <2>5 DEF Schedule
    <3>2. PICK k \in 0 .. Len(s["runq"]) : Added("runq", b, k)
      BY <1>2, <2>0, <3>1, InsertAdds
    <3> QED BY <1>2, <2>0, <3>1, <3>2, AddInserts
  <2>6. CASE UNCHANGED qvars
    BY <2>6 DEF qvars, Lists!avars
  <2> QED BY <1>2, <2>1, <2>2, <2>3, <2>4, <2>5, <2>6 DEF QNext
<1>3. QSpec => []IInv
  BY IInvInit, IInvStep, PTL DEF QSpec
<1>4. QSpec => Lists!ASpec
  BY <1>1, <1>2, <1>3, PTL DEF QSpec, Lists!ASpec
<1> QED BY <1>4 DEF ImplementsQueues

=============================================================================
