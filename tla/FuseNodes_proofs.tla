------------------------- MODULE FuseNodes_proofs -------------------------
(***************************************************************************)
(* Proofs about the two pass-through file systems of lab 12, for any number *)
(* of threads, names, files, node objects, descriptors and faults.          *)
(***************************************************************************)
EXTENDS MCFuseNodes, FiniteSetTheorems, SequenceTheorems, WellFoundedInduction, TLAPS

---------------------------------------------------------------------------
(***************************************************************************)
(* The inductive invariant.                                                *)
(***************************************************************************)
LookOps == {"lookup", "mknod", "create", "readdirplus"}
Looking == {"openat", "fstatat", "find", "insert", "map", "dup", "count", "failed"}
WithFd == {"fstatat", "find", "insert", "map", "dup", "count", "flush"}
WithNode == {"dup", "count", "found", "linked", "forget", "free", "drop", "erase"}

Ops == {"none", "lookup", "mknod", "create", "link", "forget", "readdirplus", "flush"}
Places == {"idle", "openat", "fstatat", "find", "insert", "map", "dup", "count", "failed", "found",
           "linked", "forget", "free", "drop", "erase", "forgot", "next", "flush"}

Request == [op : Ops, pc : Places, i : Nat, n : 0 .. MaxNode, cnt : Nat, fd : 0 .. MaxFd,
            file : Files \cup {NoFile}, fh : 0 .. MaxFd, got : Seq(Nodes)]

\* What the place a request has come to says of its own variables.
ReqOK(r) ==
    /\ r \in Request
    /\ r.pc = "idle" => r = Idle
    /\ r.pc \in Looking => r.op \in LookOps
    /\ r.pc = "found" => r.op \in LookOps \cup {"link"}
    /\ r.pc = "linked" => r.op = "link"
    /\ r.pc \in {"forget", "free", "drop", "erase"} => r.op \in {"forget", "readdirplus"}
    /\ r.pc \in {"next", "forgot"} => r.op = "readdirplus"
    /\ r.pc = "flush" => r.op = "flush"
    /\ r.fd # 0 <=> r.pc \in WithFd
    /\ r.fh # 0 <=> r.op = "create"
    /\ r.cnt # 0 <=> r.pc = "forget"
    /\ r.pc \in WithNode => r.n \in Nodes
    /\ r.op = "link" => r.n \in Nodes
    /\ r.op \in {"lookup", "mknod", "create"} => r.i \in Names
    /\ r.op = "readdirplus" =>
         Len(r.got) < r.i /\ r.i <= NNames + 1 /\ (r.pc # "next" => r.i <= NNames)
    /\ r.op # "readdirplus" => r.got = <<>>

\* What it says of the files, the nodes and the locks.
ReqRight(t, r) ==
    /\ ReqOK(r)
    /\ r.fd # 0 /\ r.op # "flush" => fds[r.fd] = r.file
    /\ r.pc \in {"dup", "found"} /\ r.op # "link" => node[r.n].file = r.file
    /\ r.op = "create" => /\ fds[r.fh] = dir[r.i]
                          /\ r.pc \notin {"openat", "failed"} => r.file = dir[r.i]
    /\ r.op = "link" => klook[r.n] > 0
    /\ r.pc = "free" => node[r.n].st = "gone"
    /\ r.pc \in {"drop", "erase"} => impl = "hp" /\ node[r.n].st = "live" /\ node[r.n].ref = 0
    /\ r.pc = "drop" => lock[r.n] = t
    /\ r.pc = "count" => impl = "hp" /\ node[r.n].st = "live" /\ node[r.n].file = r.file

Requests ==
    /\ th \in [Threads -> Request]
    /\ \A t \in Threads : ReqRight(t, th[t])

Handles ==
    /\ hdl \subseteq [fd : Fds, file : Files, n : Nodes]
    /\ \A h \in hdl : klook[h.n] > 0 /\ h.file = node[h.n].file /\ fds[h.fd] = h.file

NodesHold == \A n \in Nodes : node[n].st # "free" =>
                node[n].fd \in Fds /\ fds[node[n].fd] = node[n].file

\* The list or map holds the live nodes, each once.
KnownLive ==
    /\ known \in Seq(Nodes)
    /\ \A n \in Nodes : node[n].st = "live" <=> (\E j \in DOMAIN known : known[j] = n)
    /\ \A j, k \in DOMAIN known : known[j] = known[k] => j = k

\* Only hp's forget_one keeps a node's mutex from one step to the next.
Locks == \A n \in Nodes : lock[n] # NoThread =>
            /\ impl = "hp" /\ lock[n] \in Threads
            /\ th[lock[n]].pc = "drop" /\ th[lock[n]].n = n

\* One thread removes a node, and no lookup of hp waits for it.
Freeing ==
    /\ \A t, u \in Threads :
         th[t].pc \in {"free", "drop", "erase"} /\ th[u].pc \in {"free", "drop", "erase"} /\ th[t].n = th[u].n
           => t = u
    /\ \A t, u \in Threads :
         th[t].pc \in {"drop", "erase"} /\ th[u].pc = "count" => th[t].n # th[u].n

\* Request r of thread t does not meet the others there.
Apart(t, r) ==
    /\ r.pc \in {"free", "drop", "erase"} =>
         \A u \in Threads \ {t} : th[u].pc \in {"free", "drop", "erase"} => th[u].n # r.n
    /\ r.pc \in {"drop", "erase"} => \A u \in Threads \ {t} : th[u].pc = "count" => th[u].n # r.n
    /\ r.pc = "count" => \A u \in Threads \ {t} : th[u].pc \in {"drop", "erase"} => th[u].n # r.n

OnePerFile ==
    impl = "hp" => \A n, m \in Nodes :
        node[n].st = "live" /\ node[m].st = "live" /\ node[n].file = node[m].file => n = m

\* What is due to node n is what its count says, and nothing is due to a node
\* that is not on the list any more.
Refs == \A n \in Nodes :
          klook[n] + InFlight(n) + Returned(n) = IF node[n].st = "live" THEN node[n].ref ELSE 0

\* Variable v of kind k holds descriptor x.
Has(k, v, x) ==
    \/ k = "node" /\ v \in Nodes /\ node[v].st # "free" /\ node[v].fd = x
    \/ k = "handle" /\ v \in hdl /\ v.fd = x
    \/ k = "newfd" /\ v \in Threads /\ th[v].fd = x
    \/ k = "fh" /\ v \in Threads /\ th[v].fh = x
    \/ k = "lost" /\ v = x /\ x \in lost

\* A closed descriptor is held by nothing, an open one by one variable.
Once == \A x \in Fds :
          /\ fds[x] = NoFile => \A k, v : ~Has(k, v, x)
          /\ fds[x] # NoFile => \E k, v : /\ Has(k, v, x)
                                          /\ \A l, w : Has(l, w, x) => l = k /\ w = v

IInv == TypeOK /\ impl \in Impl /\ Requests /\ Handles /\ NodesHold /\ KnownLive /\ Locks
        /\ Freeing /\ OnePerFile /\ Refs /\ Once

---------------------------------------------------------------------------
(***************************************************************************)
(* Least elements, descriptors and the list.                               *)
(***************************************************************************)
\* A set of numbers that is not empty has a least one.
LEMMA Least ==
    ASSUME NEW S \in SUBSET Nat, S # {}
    PROVE  \E x \in S : \A y \in S : x <= y
<1> DEFINE R == OpToRel(<, Nat)
<1>1. IsWellFoundedOn(R, Nat)
  BY NatLessThanWellFounded
<1>2. \A x, y \in Nat : <<x, y>> \in R <=> x < y
  BY DEF OpToRel
<1> HIDE DEF R
<1>3. PICK x \in S : \A y \in S : ~(<<y, x>> \in R)
  BY <1>1, WFMin
<1>4. ASSUME NEW y \in S PROVE x <= y
  <2>1. x \in Nat /\ y \in Nat /\ ~(y < x)
    BY <1>2, <1>3
  <2> QED BY <2>1
<1> QED BY <1>3, <1>4

\* openat and dup return the lowest descriptor that is not open.
LEMMA LowFdIs ==
    ASSUME FreeFds(fds) # {}
    PROVE  LowFd(fds) \in Fds /\ fds[LowFd(fds)] = NoFile
<1>1. FreeFds(fds) \in SUBSET Nat
  BY NodesAssumption DEF FreeFds, Fds
<1>2. PICK x \in FreeFds(fds) : \A y \in FreeFds(fds) : x <= y
  BY <1>1, Least
<1>3. LowFd(fds) \in FreeFds(fds)
  BY <1>2 DEF LowFd
<1> QED BY <1>3 DEF FreeFds

\* What is assumed of the constants.
LEMMA Numbers == /\ NNames \in Nat /\ MaxNode \in Nat /\ MaxFd \in Nat /\ MaxLook \in Nat /\ MaxFaults \in Nat
                 /\ NoFile \notin Files /\ NoThread \notin Threads /\ IsFiniteSet(Threads)
BY NodesAssumption

\* The descriptors of a request are numbers of open files, when they are set.
LEMMA RequestFds ==
    ASSUME NEW r \in Request
    PROVE  (r.fd # 0 => r.fd \in Fds) /\ (r.fh # 0 => r.fh \in Fds)
<1>1. r.fd \in 0 .. MaxFd /\ r.fh \in 0 .. MaxFd
  BY DEF Request
<1> QED BY <1>1, Numbers DEF Fds

---------------------------------------------------------------------------
(***************************************************************************)
(* What is due to a node, thread by thread.                                *)
(***************************************************************************)
Tokens(S, F) == UNION {{u} \X F[u] : u \in S}

\* The tokens of finitely many threads, finitely many each, are finitely many.
LEMMA TokensFinite ==
    ASSUME NEW S, IsFiniteSet(S), NEW F, \A u \in S : IsFiniteSet(F[u])
    PROVE  IsFiniteSet(Tokens(S, F))
<1> DEFINE T == {{u} \X F[u] : u \in S}
           g == [u \in S |-> {u} \X F[u]]
<1>1. g \in Surjection(S, T)
  BY DEF Surjection
<1>2. IsFiniteSet(T)
  BY <1>1, FS_Surjection
<1>3. \A X \in T : IsFiniteSet(X)
  <2> TAKE X \in T
  <2>1. PICK u \in S : X = {u} \X F[u]
    OBVIOUS
  <2>2. IsFiniteSet({u}) /\ IsFiniteSet(F[u])
    BY FS_Singleton
  <2> QED BY <2>1, <2>2, FS_Product
<1> QED BY <1>2, <1>3, FS_UNION DEF Tokens

\* The tokens of one thread, and those of the others.
LEMMA TokensSplit ==
    ASSUME NEW S, IsFiniteSet(S), NEW F, \A u \in S : IsFiniteSet(F[u]), NEW t \in S
    PROVE  /\ Cardinality(Tokens(S \ {t}, F)) \in Nat /\ Cardinality(F[t]) \in Nat
           /\ Cardinality(Tokens(S, F)) = Cardinality(Tokens(S \ {t}, F)) + Cardinality(F[t])
<1> DEFINE A == Tokens(S \ {t}, F)
           B == {t} \X F[t]
<1>1. IsFiniteSet(S \ {t}) /\ IsFiniteSet(A)
  BY FS_RemoveElement, TokensFinite
<1>2. IsFiniteSet(B) /\ Cardinality(B) = Cardinality(F[t]) /\ Cardinality(F[t]) \in Nat
  <2>1. IsFiniteSet({t}) /\ Cardinality({t}) = 1 /\ IsFiniteSet(F[t]) /\ Cardinality(F[t]) \in Nat
    BY FS_Singleton, FS_CardinalityType
  <2>2. IsFiniteSet(B) /\ Cardinality(B) = Cardinality({t}) * Cardinality(F[t])
    BY <2>1, FS_Product
  <2> HIDE DEF B
  <2> QED BY <2>1, <2>2
<1>3. Tokens(S, F) = A \cup B
  BY DEF Tokens
<1>4. A \cap B = {}
  BY DEF Tokens
<1>5. Cardinality(A) \in Nat /\ Cardinality(A \cap B) = 0
  BY <1>1, <1>4, FS_CardinalityType, FS_EmptySet
<1> HIDE DEF A, B
<1>6. Cardinality(A \cup B) = Cardinality(A) + Cardinality(B) - Cardinality(A \cap B)
  BY <1>1, <1>2, FS_Union
<1>7. Cardinality(A \cup B) = Cardinality(A) + Cardinality(B)
  BY <1>2, <1>5, <1>6
<1> QED BY <1>2, <1>3, <1>5, <1>7 DEF A

\* When one thread's tokens change, their number changes by as many.
LEMMA TokensStep ==
    ASSUME NEW F, NEW G, NEW t \in Threads,
           \A u \in Threads : IsFiniteSet(F[u]) /\ IsFiniteSet(G[u]),
           \A u \in Threads \ {t} : F[u] = G[u]
    PROVE  /\ Cardinality(Tokens(Threads, F)) \in Nat /\ Cardinality(Tokens(Threads, G)) \in Nat
           /\ Cardinality(F[t]) \in Nat /\ Cardinality(G[t]) \in Nat
           /\ Cardinality(Tokens(Threads, G)) + Cardinality(F[t])
                = Cardinality(Tokens(Threads, F)) + Cardinality(G[t])
           /\ Cardinality(F[t]) <= Cardinality(Tokens(Threads, F))
<1> DEFINE S == Threads
<1>0. IsFiniteSet(S)
  BY Numbers
<1>1. Tokens(S \ {t}, F) = Tokens(S \ {t}, G)
  BY DEF Tokens
<1>2. /\ Cardinality(Tokens(S \ {t}, F)) \in Nat /\ Cardinality(F[t]) \in Nat
      /\ Cardinality(Tokens(S, F)) = Cardinality(Tokens(S \ {t}, F)) + Cardinality(F[t])
  BY <1>0, TokensSplit
<1>3. /\ Cardinality(Tokens(S \ {t}, G)) \in Nat /\ Cardinality(G[t]) \in Nat
      /\ Cardinality(Tokens(S, G)) = Cardinality(Tokens(S \ {t}, G)) + Cardinality(G[t])
  BY <1>0, TokensSplit
<1> QED BY <1>1, <1>2, <1>3

\* The entries for node n in a readdirplus buffer, and what else request r owes it.
Told(r, n) == {j \in DOMAIN r.got : r.got[j] = n}
Answers(r, n) == r.pc \in {"dup", "found"} /\ r.n = n
Gives(r, n) == IF r.pc = "forget" /\ r.n = n THEN 1 .. r.cnt ELSE {}
Due(r, n) == (IF Answers(r, n) THEN 1 ELSE 0) + Cardinality(Told(r, n))
             + (IF r.pc = "forget" /\ r.n = n THEN r.cnt ELSE 0)
Answering(n) == {t \in Threads : Answers(th[t], n)}
ToldAll(n) == [t \in Threads |-> Told(th[t], n)]
GivesAll(n) == [t \in Threads |-> Gives(th[t], n)]

\* InFlight, in parts that can be followed thread by thread.
LEMMA InFlightIs == \A n : InFlight(n) = Cardinality(Answering(n)) + Cardinality(Tokens(Threads, ToldAll(n)))
<1> TAKE n
<1>1. Answering(n) = {t \in Threads : th[t].pc \in {"dup", "found"} /\ th[t].n = n}
  BY DEF Answering, Answers
<1>2. Tokens(Threads, ToldAll(n)) = UNION {{t} \X {j \in DOMAIN th[t].got : th[t].got[j] = n} : t \in Threads}
  BY DEF Tokens, ToldAll, Told
<1> QED BY <1>1, <1>2 DEF InFlight

\* Returned, the same way.
LEMMA ReturnedIs == \A n : Returned(n) = Cardinality(Tokens(Threads, GivesAll(n)))
<1> TAKE n
<1>1. Tokens(Threads, GivesAll(n)) =
        UNION {{t} \X (1 .. th[t].cnt) : t \in {u \in Threads : th[u].pc = "forget" /\ th[u].n = n}}
  BY DEF Tokens, GivesAll, Gives
<1> QED BY <1>1 DEF Returned

\* The two after a step.
LEMMA InFlightThen ==
    (\A n : InFlight(n) = Cardinality(Answering(n)) + Cardinality(Tokens(Threads, ToldAll(n))))'
BY InFlightIs, PTL
\* The same after a step.
LEMMA ReturnedThen == (\A n : Returned(n) = Cardinality(Tokens(Threads, GivesAll(n))))'
BY ReturnedIs, PTL

\* The tokens of one request.
LEMMA TokensOfRequest ==
    ASSUME NEW r, r \in Request, NEW n
    PROVE  /\ IsFiniteSet(Told(r, n)) /\ IsFiniteSet(Gives(r, n)) /\ Cardinality(Told(r, n)) \in Nat
           /\ Cardinality(Gives(r, n)) = IF r.pc = "forget" /\ r.n = n THEN r.cnt ELSE 0
           /\ r.got = <<>> => Cardinality(Told(r, n)) = 0
<1>0. r.got \in Seq(Nodes) /\ r.cnt \in Nat /\ DOMAIN r.got = 1 .. Len(r.got) /\ Len(r.got) \in Nat
  BY DEF Request
<1>1. IsFiniteSet(Told(r, n)) /\ Cardinality(Told(r, n)) \in Nat
  <2>1. IsFiniteSet(DOMAIN r.got)
    BY <1>0, FS_Interval
  <2>2. Told(r, n) \in SUBSET (DOMAIN r.got)
    BY DEF Told
  <2> QED BY <2>1, <2>2, FS_Subset, FS_CardinalityType
<1>2. IsFiniteSet(Gives(r, n)) /\ Cardinality(Gives(r, n)) = IF r.pc = "forget" /\ r.n = n THEN r.cnt ELSE 0
  <2>1. CASE r.pc = "forget" /\ r.n = n
    <3>1. Gives(r, n) = 1 .. r.cnt
      BY <2>1 DEF Gives
    <3>2. IsFiniteSet(1 .. r.cnt) /\ Cardinality(1 .. r.cnt) = r.cnt
      <4>1. 1 \in Int /\ r.cnt \in Int /\ r.cnt \in Nat
        BY <1>0
      <4>2. IsFiniteSet(1 .. r.cnt) /\ Cardinality(1 .. r.cnt) = IF 1 > r.cnt THEN 0 ELSE r.cnt - 1 + 1
        BY <4>1, FS_Interval
      <4> QED BY <4>1, <4>2
    <3> QED BY <2>1, <3>1, <3>2
  <2>2. CASE ~(r.pc = "forget" /\ r.n = n)
    BY <2>2, FS_EmptySet DEF Gives
  <2> QED BY <2>1, <2>2
<1>3. r.got = <<>> => Told(r, n) = {}
  BY DEF Told
<1> QED BY <1>1, <1>2, <1>3, FS_EmptySet

\* What is due to a node is a number, and each thread's part of it no more.
LEMMA DueNow ==
    ASSUME th \in [Threads -> Request], NEW n
    PROVE  /\ InFlight(n) \in Nat /\ Returned(n) \in Nat
           /\ \A t \in Threads : Due(th[t], n) \in Nat /\ Due(th[t], n) <= InFlight(n) + Returned(n)
<1> DEFINE A == Answering(n)
           F == ToldAll(n)
           G == GivesAll(n)
<1>0. IsFiniteSet(Threads)
  BY Numbers
<1>1. \A u \in Threads : /\ F[u] = Told(th[u], n) /\ IsFiniteSet(F[u])
                         /\ G[u] = Gives(th[u], n) /\ IsFiniteSet(G[u])
                         /\ Cardinality(G[u]) = IF th[u].pc = "forget" /\ th[u].n = n THEN th[u].cnt ELSE 0
  BY TokensOfRequest DEF ToldAll, GivesAll
<1>2. IsFiniteSet(A)
  BY <1>0, FS_Subset DEF Answering
<1>3. InFlight(n) = Cardinality(A) + Cardinality(Tokens(Threads, F)) /\ Returned(n) = Cardinality(Tokens(Threads, G))
  BY InFlightIs, ReturnedIs
<1>4. ASSUME NEW t \in Threads PROVE (IF Answers(th[t], n) THEN 1 ELSE 0) <= Cardinality(A)
  <2>1. CASE Answers(th[t], n)
    <3>1. A # {}
      BY <2>1 DEF Answering
    <3>2. Cardinality(A) \in Nat /\ Cardinality(A) # 0
      BY <1>2, <3>1, FS_EmptySet, FS_CardinalityType
    <3> HIDE DEF A
    <3> QED BY <2>1, <3>2
  <2>2. CASE ~Answers(th[t], n)
    <3>1. Cardinality(A) \in Nat
      BY <1>2, FS_CardinalityType
    <3> HIDE DEF A
    <3> QED BY <2>2, <3>1
  <2> QED BY <2>1, <2>2
<1> HIDE DEF A, F, G
<1>5. /\ Cardinality(A) \in Nat /\ Cardinality(Tokens(Threads, F)) \in Nat /\ Cardinality(Tokens(Threads, G)) \in Nat
  BY <1>0, <1>1, <1>2, TokensFinite, FS_CardinalityType
<1>6. ASSUME NEW t \in Threads
      PROVE  /\ Cardinality(F[t]) \in Nat /\ Cardinality(F[t]) <= Cardinality(Tokens(Threads, F))
             /\ Cardinality(G[t]) \in Nat /\ Cardinality(G[t]) <= Cardinality(Tokens(Threads, G))
  <2>0. (\A u \in Threads : IsFiniteSet(F[u])) /\ (\A u \in Threads : IsFiniteSet(G[u]))
    BY <1>1
  <2>1. /\ Cardinality(Tokens(Threads \ {t}, F)) \in Nat /\ Cardinality(F[t]) \in Nat
        /\ Cardinality(Tokens(Threads, F)) = Cardinality(Tokens(Threads \ {t}, F)) + Cardinality(F[t])
    BY <1>0, <2>0, TokensSplit
  <2>2. /\ Cardinality(Tokens(Threads \ {t}, G)) \in Nat /\ Cardinality(G[t]) \in Nat
        /\ Cardinality(Tokens(Threads, G)) = Cardinality(Tokens(Threads \ {t}, G)) + Cardinality(G[t])
    BY <1>0, <2>0, TokensSplit
  <2> QED BY <2>1, <2>2
<1>7. ASSUME NEW t \in Threads
      PROVE  Due(th[t], n) = (IF Answers(th[t], n) THEN 1 ELSE 0) + Cardinality(F[t]) + Cardinality(G[t])
  BY <1>1, <1>7 DEF Due
<1>8. ASSUME NEW t \in Threads
      PROVE  Due(th[t], n) \in Nat /\ Due(th[t], n) <= InFlight(n) + Returned(n)
  BY <1>3, <1>4, <1>5, <1>6, <1>7, <1>8
<1> QED BY <1>3, <1>5, <1>8

\* A step of one thread changes what is due by the difference of that thread's part.
LEMMA DueStep ==
    ASSUME th \in [Threads -> Request], NEW t \in Threads, th' \in [Threads -> Request],
           \A u \in Threads \ {t} : th'[u] = th[u], NEW n
    PROVE  /\ InFlight(n) \in Nat /\ Returned(n) \in Nat /\ InFlight(n)' \in Nat /\ Returned(n)' \in Nat
           /\ InFlight(n) + Returned(n) \in Nat /\ (InFlight(n) + Returned(n))' \in Nat
           /\ Due(th[t], n) \in Nat /\ Due(th'[t], n) \in Nat
           /\ (InFlight(n) + Returned(n))' + Due(th[t], n) = InFlight(n) + Returned(n) + Due(th'[t], n)
           /\ Due(th[t], n) <= InFlight(n) + Returned(n)
<1> DEFINE A == Answering(n)
           B == Answering(n)'
<1>0. IsFiniteSet(Threads)
  BY Numbers
<1>1. /\ Cardinality(A) \in Nat /\ Cardinality(B) \in Nat
      /\ Cardinality(B) + (IF Answers(th[t], n) THEN 1 ELSE 0) = Cardinality(A) + (IF Answers(th'[t], n) THEN 1 ELSE 0)
      /\ (IF Answers(th[t], n) THEN 1 ELSE 0) <= Cardinality(A)
  <2>1. A \ {t} = B \ {t}
    BY DEF Answering
  <2>2. (t \in A <=> Answers(th[t], n)) /\ (t \in B <=> Answers(th'[t], n))
    BY DEF Answering
  <2>3. IsFiniteSet(A) /\ IsFiniteSet(B) /\ Cardinality(A) \in Nat /\ Cardinality(B) \in Nat
    <3>1. A \in SUBSET Threads /\ B \in SUBSET Threads
      BY DEF Answering
    <3> QED BY <1>0, <3>1, FS_Subset, FS_CardinalityType
  <2>4. /\ Cardinality(A \ {t}) = IF t \in A THEN Cardinality(A) - 1 ELSE Cardinality(A)
        /\ Cardinality(B \ {t}) = IF t \in B THEN Cardinality(B) - 1 ELSE Cardinality(B)
    BY <2>3, FS_RemoveElement
  <2>5. Cardinality(A \ {t}) \in Nat
    BY <2>3, FS_RemoveElement, FS_CardinalityType
  <2> HIDE DEF A, B
  <2>6. Cardinality(A) = Cardinality(A \ {t}) + (IF Answers(th[t], n) THEN 1 ELSE 0)
    BY <2>2, <2>3, <2>4, <2>5
  <2>7. Cardinality(B) = Cardinality(A \ {t}) + (IF Answers(th'[t], n) THEN 1 ELSE 0)
    BY <2>1, <2>2, <2>3, <2>4, <2>5
  <2> QED BY <2>3, <2>5, <2>6, <2>7
<1>2. \A u \in Threads : /\ IsFiniteSet(Told(th[u], n)) /\ IsFiniteSet(Told(th'[u], n))
                         /\ IsFiniteSet(Gives(th[u], n)) /\ IsFiniteSet(Gives(th'[u], n))
  BY TokensOfRequest
<1>3. /\ Cardinality(Tokens(Threads, ToldAll(n))) \in Nat /\ Cardinality(Tokens(Threads, ToldAll(n)')) \in Nat
      /\ Cardinality(Told(th[t], n)) \in Nat /\ Cardinality(Told(th'[t], n)) \in Nat
      /\ Cardinality(Tokens(Threads, ToldAll(n)')) + Cardinality(Told(th[t], n))
           = Cardinality(Tokens(Threads, ToldAll(n))) + Cardinality(Told(th'[t], n))
      /\ Cardinality(Told(th[t], n)) <= Cardinality(Tokens(Threads, ToldAll(n)))
  <2>1. \A u \in Threads : ToldAll(n)[u] = Told(th[u], n) /\ (ToldAll(n)')[u] = Told(th'[u], n)
    BY DEF ToldAll, Told
  <2> DEFINE F == ToldAll(n)
             G == ToldAll(n)'
  <2>2. \A u \in Threads : IsFiniteSet(F[u]) /\ IsFiniteSet(G[u])
    BY <1>2, <2>1
  <2>3. \A u \in Threads \ {t} : F[u] = G[u]
    BY <2>1
  <2> HIDE DEF F, G
  <2>4. /\ Cardinality(Tokens(Threads, F)) \in Nat /\ Cardinality(Tokens(Threads, G)) \in Nat
        /\ Cardinality(F[t]) \in Nat /\ Cardinality(G[t]) \in Nat
        /\ Cardinality(Tokens(Threads, G)) + Cardinality(F[t])
             = Cardinality(Tokens(Threads, F)) + Cardinality(G[t])
        /\ Cardinality(F[t]) <= Cardinality(Tokens(Threads, F))
    BY <1>0, <2>2, <2>3, TokensStep
  <2> QED BY <2>1, <2>4 DEF F, G
<1>4. /\ Cardinality(Tokens(Threads, GivesAll(n))) \in Nat /\ Cardinality(Tokens(Threads, GivesAll(n)')) \in Nat
      /\ Cardinality(Gives(th[t], n)) \in Nat /\ Cardinality(Gives(th'[t], n)) \in Nat
      /\ Cardinality(Tokens(Threads, GivesAll(n)')) + Cardinality(Gives(th[t], n))
           = Cardinality(Tokens(Threads, GivesAll(n))) + Cardinality(Gives(th'[t], n))
      /\ Cardinality(Gives(th[t], n)) <= Cardinality(Tokens(Threads, GivesAll(n)))
  <2>1. \A u \in Threads : GivesAll(n)[u] = Gives(th[u], n) /\ (GivesAll(n)')[u] = Gives(th'[u], n)
    BY DEF GivesAll, Gives
  <2> DEFINE F == GivesAll(n)
             G == GivesAll(n)'
  <2>2. \A u \in Threads : IsFiniteSet(F[u]) /\ IsFiniteSet(G[u])
    BY <1>2, <2>1
  <2>3. \A u \in Threads \ {t} : F[u] = G[u]
    BY <2>1
  <2> HIDE DEF F, G
  <2>4. /\ Cardinality(Tokens(Threads, F)) \in Nat /\ Cardinality(Tokens(Threads, G)) \in Nat
        /\ Cardinality(F[t]) \in Nat /\ Cardinality(G[t]) \in Nat
        /\ Cardinality(Tokens(Threads, G)) + Cardinality(F[t])
             = Cardinality(Tokens(Threads, F)) + Cardinality(G[t])
        /\ Cardinality(F[t]) <= Cardinality(Tokens(Threads, F))
    BY <1>0, <2>2, <2>3, TokensStep
  <2> QED BY <2>1, <2>4 DEF F, G
<1>5. /\ InFlight(n) = Cardinality(A) + Cardinality(Tokens(Threads, ToldAll(n)))
      /\ InFlight(n)' = Cardinality(B) + Cardinality(Tokens(Threads, ToldAll(n)'))
      /\ Returned(n) = Cardinality(Tokens(Threads, GivesAll(n)))
      /\ Returned(n)' = Cardinality(Tokens(Threads, GivesAll(n)'))
  BY InFlightIs, ReturnedIs, InFlightThen, ReturnedThen DEF Tokens
<1>6. /\ Cardinality(Gives(th[t], n)) = IF th[t].pc = "forget" /\ th[t].n = n THEN th[t].cnt ELSE 0
      /\ Cardinality(Gives(th'[t], n)) = IF th'[t].pc = "forget" /\ th'[t].n = n THEN th'[t].cnt ELSE 0
  BY TokensOfRequest
<1> HIDE DEF A, B
<1> QED BY <1>1, <1>3, <1>4, <1>5, <1>6 DEF Due

---------------------------------------------------------------------------
(***************************************************************************)
(* What follows from the invariant, in any state.                          *)
(***************************************************************************)
OwedFacts ==
    /\ \A n \in Nodes : klook[n] > 0 => node[n].st = "live" /\ node[n].ref > 0
    /\ \A t \in Threads :
         /\ th[t].pc \in {"dup", "found"} => node[th[t].n].st = "live" /\ node[th[t].n].ref > 0
         /\ th[t].pc = "forget" => node[th[t].n].st = "live" /\ th[t].cnt <= node[th[t].n].ref

Placed == th \in [Threads -> Request] /\ \A t \in Threads : ReqOK(th[t])

\* A node something is due to is live, and its count says at least that much.
LEMMA Owed == TypeOK /\ Placed /\ Refs => OwedFacts
<1> SUFFICES ASSUME TypeOK, Placed, Refs PROVE OwedFacts
  OBVIOUS
<1>1. \A t \in Threads : ReqOK(th[t]) /\ th[t] \in Request
  BY DEF Placed
<1>2. \A n \in Nodes : klook[n] \in Nat /\ node[n].ref \in Nat
  BY DEF TypeOK
<1>3. \A n \in Nodes : klook[n] + InFlight(n) + Returned(n) = IF node[n].st = "live" THEN node[n].ref ELSE 0
  BY DEF Refs
<1>4. \A n \in Nodes : InFlight(n) \in Nat /\ Returned(n) \in Nat
  BY DueNow DEF Placed
<1>5. \A n \in Nodes : klook[n] > 0 => node[n].st = "live" /\ node[n].ref > 0
  BY <1>2, <1>3, <1>4
<1>6. ASSUME NEW t \in Threads, NEW n \in Nodes
      PROVE  Due(th[t], n) \in Nat /\ Due(th[t], n) <= IF node[n].st = "live" THEN node[n].ref ELSE 0
  <2>1. Due(th[t], n) \in Nat /\ Due(th[t], n) <= InFlight(n) + Returned(n)
    BY DueNow DEF Placed
  <2> QED BY <2>1, <1>2, <1>3, <1>4, <1>6
<1>7. ASSUME NEW t \in Threads, NEW n \in Nodes, th[t].n = n
      PROVE  /\ th[t].pc \in {"dup", "found"} => Due(th[t], n) > 0
             /\ th[t].pc = "forget" => th[t].cnt <= Due(th[t], n)
  <2>1. Cardinality(Told(th[t], n)) \in Nat /\ th[t].cnt \in Nat
    BY <1>1, TokensOfRequest DEF Request
  <2> QED BY <2>1, <1>7 DEF Due, Answers
<1>8. \A t \in Threads : /\ th[t].pc \in {"dup", "found", "forget"} => th[t].n \in Nodes
                         /\ th[t].cnt \in Nat /\ (th[t].pc = "forget" => th[t].cnt > 0)
  BY <1>1 DEF ReqOK, WithNode, Request
<1> QED BY <1>2, <1>5, <1>6, <1>7, <1>8 DEF OwedFacts

\* The same after a step.
LEMMA OwedThen == (TypeOK /\ Placed /\ Refs)' => OwedFacts'
BY Owed, PTL

\* Nothing is due to a node but what keeps it.
LEMMA RefsStep ==
    ASSUME TypeOK, Refs, th \in [Threads -> Request], NEW t \in Threads, th' \in [Threads -> Request],
           \A u \in Threads \ {t} : th'[u] = th[u], TypeOK',
           \A n \in Nodes :
             klook'[n] + Due(th'[t], n) + (IF node[n].st = "live" THEN node[n].ref ELSE 0)
               = klook[n] + Due(th[t], n) + (IF node'[n].st = "live" THEN node'[n].ref ELSE 0)
    PROVE  Refs'
<1> SUFFICES ASSUME NEW n \in Nodes
             PROVE  klook'[n] + (InFlight(n) + Returned(n))' = IF node'[n].st = "live" THEN node'[n].ref ELSE 0
  <2>1. \A n \in Nodes : InFlight(n) \in Nat /\ Returned(n) \in Nat /\ InFlight(n)' \in Nat /\ Returned(n)' \in Nat
    BY DueStep
  <2> QED BY <2>1 DEF Refs, TypeOK
<1>1. /\ klook[n] \in Nat /\ klook'[n] \in Nat /\ node[n].ref \in Nat /\ node'[n].ref \in Nat
  BY DEF TypeOK
<1>2. /\ InFlight(n) + Returned(n) \in Nat /\ (InFlight(n) + Returned(n))' \in Nat
      /\ Due(th[t], n) \in Nat /\ Due(th'[t], n) \in Nat
      /\ (InFlight(n) + Returned(n))' + Due(th[t], n) = InFlight(n) + Returned(n) + Due(th'[t], n)
  BY DueStep
<1>3. InFlight(n) \in Nat /\ Returned(n) \in Nat
  BY DueStep
<1>4. klook[n] + (InFlight(n) + Returned(n)) = IF node[n].st = "live" THEN node[n].ref ELSE 0
  BY <1>1, <1>3 DEF Refs
<1> DEFINE k == IF node[n].st = "live" THEN node[n].ref ELSE 0
           l == IF node'[n].st = "live" THEN node'[n].ref ELSE 0
           x == InFlight(n) + Returned(n)
<1>5. klook'[n] + Due(th'[t], n) + k = klook[n] + Due(th[t], n) + l
  OBVIOUS
<1>6. k \in Nat /\ l \in Nat
  BY <1>1
<1>7. x \in Nat /\ x' \in Nat /\ x' + Due(th[t], n) = x + Due(th'[t], n) /\ klook[n] + x = k
  BY <1>2, <1>4
<1> HIDE DEF k, l, x
<1>8. klook'[n] + x' = l
  <2> DEFINE a == klook[n]
             b == klook'[n]
             c == Due(th[t], n)
             d == Due(th'[t], n)
             z == x'
  <2>1. /\ a \in Nat /\ b \in Nat /\ c \in Nat /\ d \in Nat /\ z \in Nat /\ x \in Nat /\ k \in Nat /\ l \in Nat
        /\ b + d + k = a + c + l /\ z + c = x + d /\ a + x = k
    BY <1>1, <1>2, <1>5, <1>6, <1>7
  <2> HIDE DEF a, b, c, d, z
  <2>2. b + z = l
    BY <2>1
  <2> QED BY <2>2 DEF b, z
<1> QED BY <1>8 DEF l, x

---------------------------------------------------------------------------
(***************************************************************************)
(* Who holds a descriptor.                                                 *)
(***************************************************************************)
\* A variable that holds a descriptor before and after a step sees the same file.
FdsKept == \A k, v : \A x \in Fds : Has(k, v, x) /\ Has(k, v, x)' => fds'[x] = fds[x]

\* What a step does to the holders: one more, one less, or another in its place.
Gains(k0, v0, d) == \A k, v : \A x \in Fds :
    Has(k, v, x)' <=> Has(k, v, x) \/ (k = k0 /\ v = v0 /\ x = d)
Drops(k0, v0, d) == \A k, v : \A x \in Fds :
    Has(k, v, x)' <=> Has(k, v, x) /\ ~(k = k0 /\ v = v0 /\ x = d)
Passes(k0, v0, k1, v1, d) == \A k, v : \A x \in Fds :
    Has(k, v, x)' <=> (Has(k, v, x) /\ ~(k = k0 /\ v = v0 /\ x = d)) \/ (k = k1 /\ v = v1 /\ x = d)

\* A step that leaves the descriptors and their holders alone.
LEMMA OnceKeep ==
    ASSUME Once, fds' = fds, \A k, v : \A x \in Fds : Has(k, v, x)' <=> Has(k, v, x)
    PROVE  Once' /\ FdsKept
BY DEF Once, FdsKept

\* A step that opens a descriptor (openat, open, dup): it has one new holder.
LEMMA OnceOpen ==
    ASSUME Once, fds \in [Fds -> Files \cup {NoFile}], NEW d \in Fds, fds[d] = NoFile, NEW f \in Files,
           fds' = [fds EXCEPT ![d] = f], NEW k0, NEW v0, Gains(k0, v0, d)
    PROVE  Once' /\ FdsKept
<1>1. fds'[d] # NoFile /\ \A x \in Fds \ {d} : fds'[x] = fds[x]
  BY Numbers
<1>2. \A k, v : ~Has(k, v, d)
  BY DEF Once
<1>3. ASSUME NEW x \in Fds
      PROVE  /\ fds'[x] = NoFile => \A k, v : ~Has(k, v, x)'
             /\ fds'[x] # NoFile => \E k, v : Has(k, v, x)' /\ \A l, w : Has(l, w, x)' => l = k /\ w = v
  <2>1. CASE x = d
    BY <1>1, <1>2, <2>1 DEF Gains
  <2>2. CASE x # d
    <3>1. \A k, v : Has(k, v, x)' <=> Has(k, v, x)
      BY <2>2 DEF Gains
    <3> QED BY <1>1, <2>2, <3>1 DEF Once
  <2> QED BY <2>1, <2>2
<1>4. Once'
  BY <1>3 DEF Once
<1>5. FdsKept
  BY <1>1, <1>2 DEF FdsKept
<1> QED BY <1>4, <1>5

\* A step that closes a descriptor: its holder lets go of it.
LEMMA OnceClose ==
    ASSUME Once, fds \in [Fds -> Files \cup {NoFile}], NEW d \in Fds, NEW k0, NEW v0, Has(k0, v0, d),
           fds' = [fds EXCEPT ![d] = NoFile], Drops(k0, v0, d)
    PROVE  Once' /\ FdsKept
<1>1. fds'[d] = NoFile /\ \A x \in Fds \ {d} : fds'[x] = fds[x]
  OBVIOUS
<1>2. \A k, v : Has(k, v, d) => k = k0 /\ v = v0
  BY DEF Once
<1>3. ASSUME NEW x \in Fds
      PROVE  /\ fds'[x] = NoFile => \A k, v : ~Has(k, v, x)'
             /\ fds'[x] # NoFile => \E k, v : Has(k, v, x)' /\ \A l, w : Has(l, w, x)' => l = k /\ w = v
  <2>1. CASE x = d
    BY <1>1, <1>2, <2>1 DEF Drops
  <2>2. CASE x # d
    <3>1. \A k, v : Has(k, v, x)' <=> Has(k, v, x)
      BY <2>2 DEF Drops
    <3> QED BY <1>1, <2>2, <3>1 DEF Once
  <2> QED BY <2>1, <2>2
<1>4. Once'
  BY <1>3 DEF Once
<1>5. FdsKept
  BY <1>1, <1>2 DEF FdsKept, Drops
<1> QED BY <1>4, <1>5

\* A step that hands a descriptor from one variable to another.
LEMMA OnceMove ==
    ASSUME Once, fds' = fds, NEW d \in Fds, NEW k0, NEW v0, Has(k0, v0, d), NEW k1, NEW v1,
           Passes(k0, v0, k1, v1, d)
    PROVE  Once' /\ FdsKept
<1>1. fds[d] # NoFile /\ \A k, v : Has(k, v, d) => k = k0 /\ v = v0
  BY DEF Once
<1>2. \A k, v : Has(k, v, d)' <=> k = k1 /\ v = v1
  BY <1>1 DEF Passes
<1>3. ASSUME NEW x \in Fds
      PROVE  /\ fds'[x] = NoFile => \A k, v : ~Has(k, v, x)'
             /\ fds'[x] # NoFile => \E k, v : Has(k, v, x)' /\ \A l, w : Has(l, w, x)' => l = k /\ w = v
  <2>1. CASE x = d
    BY <1>1, <1>2, <2>1 DEF Passes
  <2>2. CASE x # d
    <3>1. \A k, v : Has(k, v, x)' <=> Has(k, v, x)
      BY <2>2 DEF Passes
    <3> QED BY <2>2, <3>1 DEF Once
  <2> QED BY <2>1, <2>2
<1>4. Once'
  BY <1>3 DEF Once
<1> QED BY <1>4 DEF FdsKept

---------------------------------------------------------------------------
(***************************************************************************)
(* A step of thread t: what has to be shown of it.                         *)
(***************************************************************************)
\* The part of the invariant about the other threads and the open files follows.
LEMMA Step ==
    ASSUME IInv, NEW t \in Threads, th' \in [Threads -> Request],
           \A u \in Threads \ {t} : th'[u] = th[u], TypeOK', impl' = impl,
           ReqRight(t, th[t])', Once', FdsKept, Refs', KnownLive', Locks', OnePerFile',
           dir' = dir \/ \A u \in Threads \ {t} : th[u].op # "create",
           \A n \in Nodes : klook[n] > 0 => klook'[n] > 0 \/ ~InUse(n),
           hdl' \subseteq [fd : Fds, file : Files, n : Nodes],
           \A h \in hdl' \ hdl : klook'[h.n] > 0 /\ h.file = node'[h.n].file /\ fds'[h.fd] = h.file,
           \A n \in Nodes : node[n].st # "free" /\ node'[n].st # "free" =>
                              node'[n].fd = node[n].fd /\ node'[n].file = node[n].file,
           \A n \in Nodes : node[n].st = "free" /\ node'[n].st # "free" =>
                              node'[n].fd \in Fds /\ fds'[node'[n].fd] = node'[n].file,
           \A u \in Threads \ {t} : th[u].pc \in {"free", "drop", "erase"} =>
                              node'[th[u].n] = node[th[u].n] /\ lock'[th[u].n] = lock[th[u].n],
           \A u \in Threads \ {t} : th[u].pc = "count" => node'[th[u].n].st = "live",
           Apart(t, th'[t])
    PROVE  IInv'
<1>0. /\ TypeOK /\ impl \in Impl /\ Requests /\ Handles /\ NodesHold /\ KnownLive /\ Locks
      /\ Freeing /\ OnePerFile /\ Refs /\ Once
  BY DEF IInv
<1>1. Placed /\ OwedFacts
  <2>1. Placed
    BY <1>0 DEF Requests, ReqRight, Placed
  <2> QED BY <1>0, <2>1, Owed
<1>2. Placed' /\ OwedFacts'
  <2>1. ReqOK(th'[t])
    BY DEF ReqRight
  <2>2. \A u \in Threads \ {t} : ReqOK(th'[u])
    BY <1>1 DEF Placed
  <2>3. ASSUME NEW u \in Threads PROVE ReqOK(th[u])'
    <3>1. ReqOK(th'[u])
      BY <2>1, <2>2
    <3> QED BY <3>1 DEF ReqOK, Request
  <2>4. Placed'
    BY <2>3 DEF Placed
  <2> QED BY <2>4, OwedThen
<1>3. ASSUME NEW u \in Threads \ {t} PROVE ReqRight(u, th[u])'
  <2>0. ReqRight(u, th[u]) /\ ReqOK(th[u]) /\ th'[u] = th[u] /\ ReqOK(th[u])'
    BY <1>0, <1>1, <1>2 DEF Requests, Placed
  <2>1. th[u].fd # 0 /\ th[u].op # "flush" => fds'[th[u].fd] = th[u].file
    <3> SUFFICES ASSUME th[u].fd # 0, th[u].op # "flush" PROVE fds'[th[u].fd] = th[u].file
      OBVIOUS
    <3>1. th[u].fd \in Fds
      BY <2>0, RequestFds DEF ReqOK
    <3>2. Has("newfd", u, th[u].fd) /\ Has("newfd", u, th[u].fd)'
      BY <2>0 DEF Has
    <3>3. fds'[th[u].fd] = fds[th[u].fd]
      BY <3>1, <3>2 DEF FdsKept
    <3> QED BY <2>0, <3>3 DEF ReqRight
  <2>2. th[u].op = "create" => /\ fds'[th[u].fh] = dir'[th[u].i]
                               /\ th[u].pc \notin {"openat", "failed"} => th[u].file = dir'[th[u].i]
    <3> SUFFICES ASSUME th[u].op = "create"
                 PROVE  fds'[th[u].fh] = fds[th[u].fh] /\ dir' = dir
      BY <2>0 DEF ReqRight
    <3>1. th[u].fh \in Fds
      <4>1. th[u] \in Request /\ th[u].fh # 0
        BY <2>0 DEF ReqOK
      <4> QED BY <4>1, RequestFds
    <3>2. Has("fh", u, th[u].fh) /\ Has("fh", u, th[u].fh)'
      BY <2>0 DEF Has
    <3> QED BY <3>1, <3>2, <1>3 DEF FdsKept
  <2>3. th[u].op = "link" => klook'[th[u].n] > 0
    <3> SUFFICES ASSUME th[u].op = "link" PROVE klook'[th[u].n] > 0
      OBVIOUS
    <3>1. th[u].n \in Nodes /\ klook[th[u].n] > 0
      BY <2>0 DEF ReqRight, ReqOK
    <3>2. InUse(th[u].n)
      BY <1>3 DEF InUse
    <3> QED BY <3>1, <3>2
  <2>4. th[u].pc \in {"free", "drop", "erase"} => node'[th[u].n] = node[th[u].n] /\ lock'[th[u].n] = lock[th[u].n]
    BY <1>3
  <2>4a. ASSUME th[u].pc = "count" PROVE node'[th[u].n].st = "live" /\ node'[th[u].n].file = node[th[u].n].file
    <3>1. th[u].n \in Nodes /\ node[th[u].n].st = "live"
      BY <2>0, <2>4a DEF ReqOK, WithNode, ReqRight
    <3>2. node'[th[u].n].st = "live"
      BY <2>4a
    <3> QED BY <3>1, <3>2
  <2>5. ASSUME th[u].pc \in {"dup", "found"} PROVE node'[th[u].n].file = node[th[u].n].file
    <3>1. th[u].n \in Nodes
      BY <2>0, <2>5 DEF ReqOK, WithNode
    <3>2. node[th[u].n].st = "live" /\ node'[th[u].n].st = "live"
      BY <1>1, <1>2, <1>3, <2>0, <2>5 DEF OwedFacts
    <3> QED BY <3>1, <3>2
  <2> QED BY <2>0, <2>1, <2>2, <2>3, <2>4, <2>4a, <2>5 DEF ReqRight
<1>4. Requests'
  BY <1>3 DEF Requests
<1>5. Handles'
  <2> SUFFICES ASSUME NEW h \in hdl' PROVE klook'[h.n] > 0 /\ h.file = node'[h.n].file /\ fds'[h.fd] = h.file
    BY DEF Handles
  <2>1. CASE h \in hdl
    <3>1. /\ h.fd \in Fds /\ h.n \in Nodes /\ klook[h.n] > 0 /\ h.file = node[h.n].file /\ fds[h.fd] = h.file
      BY <1>0, <2>1 DEF Handles
    <3>2. InUse(h.n)
      BY <2>1 DEF InUse
    <3>3. klook'[h.n] > 0
      BY <3>1, <3>2
    <3>4. node[h.n].st = "live" /\ node'[h.n].st = "live"
      BY <1>1, <1>2, <3>1, <3>3 DEF OwedFacts
    <3>5. Has("handle", h, h.fd) /\ Has("handle", h, h.fd)'
      BY <2>1 DEF Has
    <3> QED BY <3>1, <3>3, <3>4, <3>5 DEF FdsKept
  <2>2. CASE h \notin hdl
    BY <2>2
  <2> QED BY <2>1, <2>2
<1>6. NodesHold'
  <2> SUFFICES ASSUME NEW n \in Nodes, node'[n].st # "free"
               PROVE  node'[n].fd \in Fds /\ fds'[node'[n].fd] = node'[n].file
    BY DEF NodesHold
  <2>1. CASE node[n].st # "free"
    <3>1. node[n].fd \in Fds /\ fds[node[n].fd] = node[n].file
      BY <1>0, <2>1 DEF NodesHold
    <3>2. node'[n].fd = node[n].fd /\ node'[n].file = node[n].file
      BY <2>1
    <3>3. Has("node", n, node[n].fd) /\ Has("node", n, node[n].fd)'
      BY <2>1, <3>2 DEF Has
    <3> QED BY <3>1, <3>2, <3>3 DEF FdsKept
  <2>2. CASE node[n].st = "free"
    BY <2>2
  <2> QED BY <2>1, <2>2
<1>7. Freeing'
  BY <1>0 DEF Freeing, Apart
<1> QED BY <1>0, <1>4, <1>5, <1>6, <1>7 DEF IInv

---------------------------------------------------------------------------
(***************************************************************************)
(* Steps that leave the nodes where they are.                              *)
(***************************************************************************)
\* Only thread t moves.
Mine(t) == th' \in [Threads -> Request] /\ \A u \in Threads \ {t} : th'[u] = th[u]

NodesStay == \A n \in Nodes : /\ node'[n].st = node[n].st
                              /\ node'[n].fd = node[n].fd /\ node'[n].file = node[n].file

\* One that may change a count.
LEMMA CountStep ==
    ASSUME IInv, NEW t \in Threads, Mine(t), TypeOK', impl' = impl, ReqRight(t, th[t])',
           Once', FdsKept, Refs', NodesStay, known' = known, \A n \in Nodes : lock'[n] = lock[n],
           th[t].pc # "drop", th'[t].pc \notin {"free", "drop", "erase", "count"} \/ Apart(t, th'[t]),
           dir' = dir \/ \A u \in Threads \ {t} : th[u].op # "create",
           \A n \in Nodes : klook[n] > 0 => klook'[n] > 0 \/ ~InUse(n),
           hdl' \subseteq [fd : Fds, file : Files, n : Nodes],
           \A h \in hdl' \ hdl : klook'[h.n] > 0 /\ h.file = node'[h.n].file /\ fds'[h.fd] = h.file,
           \A u \in Threads \ {t} : th[u].pc \in {"free", "drop", "erase"} => node'[th[u].n] = node[th[u].n]
    PROVE  IInv'
<1>0. /\ TypeOK /\ impl \in Impl /\ Requests /\ KnownLive /\ Locks /\ OnePerFile
  BY DEF IInv
<1>1. KnownLive'
  BY <1>0 DEF KnownLive, NodesStay
<1>2. Locks'
  <2> SUFFICES ASSUME NEW n \in Nodes, lock'[n] # NoThread
               PROVE  /\ impl = "hp" /\ lock[n] \in Threads
                      /\ th'[lock[n]].pc = "drop" /\ th'[lock[n]].n = n
    BY DEF Locks
  <2>1. /\ impl = "hp" /\ lock[n] \in Threads /\ th[lock[n]].pc = "drop" /\ th[lock[n]].n = n
    BY <1>0 DEF Locks
  <2> QED BY <2>1 DEF Mine
<1>3. OnePerFile'
  BY <1>0 DEF OnePerFile, NodesStay
<1>4. \A u \in Threads \ {t} : th[u].pc \in {"free", "drop", "erase"} =>
           node'[th[u].n] = node[th[u].n] /\ lock'[th[u].n] = lock[th[u].n]
  BY <1>0 DEF Requests, ReqRight, ReqOK, WithNode
<1>5. \A n \in Nodes : node[n].st # "free" /\ node'[n].st # "free" =>
                              node'[n].fd = node[n].fd /\ node'[n].file = node[n].file
  BY DEF NodesStay
<1>6. \A n \in Nodes : node[n].st = "free" /\ node'[n].st # "free" =>
                              node'[n].fd \in Fds /\ fds'[node'[n].fd] = node'[n].file
  BY DEF NodesStay
<1>7. th' \in [Threads -> Request] /\ \A u \in Threads \ {t} : th'[u] = th[u]
  BY DEF Mine
<1>8. Apart(t, th'[t])
  BY DEF Apart
<1>9. \A u \in Threads \ {t} : th[u].pc = "count" => node'[th[u].n].st = "live"
  <2> SUFFICES ASSUME NEW u \in Threads \ {t}, th[u].pc = "count" PROVE node'[th[u].n].st = "live"
    OBVIOUS
  <2>1. th[u].n \in Nodes /\ node[th[u].n].st = "live"
    BY <1>0 DEF Requests, ReqRight, ReqOK, WithNode
  <2> QED BY <2>1 DEF NodesStay
<1> QED BY <1>1, <1>2, <1>3, <1>4, <1>5, <1>6, <1>7, <1>8, <1>9, Step

\* One that changes no count either.
LEMMA PlainStep ==
    ASSUME IInv, NEW t \in Threads, Mine(t), TypeOK', impl' = impl, ReqRight(t, th[t])',
           Once', FdsKept, node' = node, known' = known, \A n \in Nodes : lock'[n] = lock[n],
           th[t].pc # "drop", th'[t].pc \notin {"free", "drop", "erase", "count"} \/ Apart(t, th'[t]),
           dir' = dir \/ \A u \in Threads \ {t} : th[u].op # "create",
           \A n \in Nodes : klook[n] > 0 => klook'[n] > 0 \/ ~InUse(n),
           hdl' \subseteq [fd : Fds, file : Files, n : Nodes],
           \A h \in hdl' \ hdl : klook'[h.n] > 0 /\ h.file = node'[h.n].file /\ fds'[h.fd] = h.file,
           \A n \in Nodes : klook'[n] + Due(th'[t], n) = klook[n] + Due(th[t], n)
    PROVE  IInv'
<1>1. TypeOK /\ Refs /\ th \in [Threads -> Request]
  BY DEF IInv, Requests
<1>2. \A n \in Nodes :
             klook'[n] + Due(th'[t], n) + (IF node[n].st = "live" THEN node[n].ref ELSE 0)
               = klook[n] + Due(th[t], n) + (IF node'[n].st = "live" THEN node'[n].ref ELSE 0)
  OBVIOUS
<1>3. Refs'
  BY <1>1, <1>2, RefsStep DEF Mine
<1>4. NodesStay
  BY DEF NodesStay
<1> QED BY <1>3, <1>4, CountStep

---------------------------------------------------------------------------
(***************************************************************************)
(* What a step of a thread does to the descriptors it holds.               *)
(***************************************************************************)
\* Nothing is opened or closed.
LEMMA HoldSame ==
    ASSUME Once, NEW t \in Threads, Mine(t), NodesStay, fds' = fds, hdl' = hdl, lost' = lost,
           th'[t].fd = th[t].fd, th'[t].fh = th[t].fh
    PROVE  Once' /\ FdsKept
<1>1. \A k, v : \A x \in Fds : Has(k, v, x)' <=> Has(k, v, x)
  BY DEF Has, Mine, NodesStay
<1> QED BY <1>1, OnceKeep

\* A request opens newfd.
LEMMA HoldOpenFd ==
    ASSUME Once, NEW t \in Threads, Mine(t), NodesStay, fds \in [Fds -> Files \cup {NoFile}],
           NEW d \in Fds, fds[d] = NoFile, NEW f \in Files, fds' = [fds EXCEPT ![d] = f],
           hdl' = hdl, lost' = lost, th[t].fd = 0, th'[t].fd = d, th'[t].fh = th[t].fh
    PROVE  Once' /\ FdsKept
<1>1. Gains("newfd", t, d)
  BY Numbers DEF Gains, Has, Mine, NodesStay, Fds
<1> QED BY <1>1, OnceOpen

\* create opens the file.
LEMMA HoldOpenFh ==
    ASSUME Once, NEW t \in Threads, Mine(t), NodesStay, fds \in [Fds -> Files \cup {NoFile}],
           NEW d \in Fds, fds[d] = NoFile, NEW f \in Files, fds' = [fds EXCEPT ![d] = f],
           hdl' = hdl, lost' = lost, th[t].fh = 0, th'[t].fh = d, th'[t].fd = th[t].fd
    PROVE  Once' /\ FdsKept
<1>1. Gains("fh", t, d)
  BY Numbers DEF Gains, Has, Mine, NodesStay, Fds
<1> QED BY <1>1, OnceOpen

\* A request closes newfd.
LEMMA HoldCloseFd ==
    ASSUME Once, NEW t \in Threads, Mine(t), NodesStay, fds \in [Fds -> Files \cup {NoFile}],
           th[t].fd \in Fds, fds' = [fds EXCEPT ![th[t].fd] = NoFile],
           hdl' = hdl, lost' = lost, th'[t].fd = 0, th'[t].fh = th[t].fh
    PROVE  Once' /\ FdsKept
<1> DEFINE d == th[t].fd
<1>1. Drops("newfd", t, d)
  BY Numbers DEF Drops, Has, Mine, NodesStay, Fds
<1>2. Has("newfd", t, d)
  BY DEF Has
<1> QED BY <1>1, <1>2, OnceClose

\* An error path forgets newfd without closing it.
LEMMA HoldLoseFd ==
    ASSUME Once, NEW t \in Threads, Mine(t), NodesStay,
           th[t].fd \in Fds, fds' = fds, hdl' = hdl, lost' = lost \cup {th[t].fd},
           th'[t].fd = 0, th'[t].fh = th[t].fh
    PROVE  Once' /\ FdsKept
<1> DEFINE d == th[t].fd
<1>2. Has("newfd", t, d)
  BY DEF Has
<1>3. ~Has("lost", d, d)
  BY <1>2 DEF Once
<1>1. Passes("newfd", t, "lost", d, d)
  BY Numbers DEF Passes, Has, Mine, NodesStay, Fds
<1> QED BY <1>1, <1>2, OnceMove

---------------------------------------------------------------------------
(***************************************************************************)
(* What a request owes.                                                    *)
(***************************************************************************)
\* Two requests with the same buffer, which owes n c times: the replies and the
\* forget are what differs.
Owe(r, q, n, c) ==
    /\ Due(r, n) = (IF Answers(r, n) THEN 1 ELSE 0) + c + (IF r.pc = "forget" /\ r.n = n THEN r.cnt ELSE 0)
    /\ Due(q, n) = (IF Answers(q, n) THEN 1 ELSE 0) + c + (IF q.pc = "forget" /\ q.n = n THEN q.cnt ELSE 0)
    /\ r.got = <<>> => c = 0

\* What a request owes before and after a step that leaves its buffer alone.
LEMMA DueOf ==
    ASSUME NEW r \in Request, NEW q \in Request, q.got = r.got, NEW n
    PROVE  \E c \in Nat : Owe(r, q, n, c)
<1> DEFINE c == Cardinality(Told(r, n))
<1>1. c \in Nat /\ (r.got = <<>> => c = 0)
  BY TokensOfRequest
<1>2. Told(q, n) = Told(r, n)
  BY DEF Told
<1> HIDE DEF c
<1>3. Owe(r, q, n, c)
  BY <1>1, <1>2 DEF Due, Owe, c
<1> QED BY <1>1, <1>3

\* Neither before nor after the step does the request answer or forget.
LEMMA DueSame ==
    ASSUME NEW r \in Request, NEW q \in Request, q.got = r.got,
           r.pc \notin {"dup", "found", "forget"}, q.pc \notin {"dup", "found", "forget"}, NEW n
    PROVE  Due(q, n) = Due(r, n)
<1>1. Told(q, n) = Told(r, n)
  BY DEF Told
<1> QED BY <1>1 DEF Due, Answers

\* It answers with the same node before and after.
LEMMA DueAnswer ==
    ASSUME NEW r \in Request, NEW q \in Request, q.got = r.got, q.n = r.n,
           r.pc \in {"dup", "found"}, q.pc \in {"dup", "found"}, NEW n
    PROVE  Due(q, n) = Due(r, n)
<1>1. Told(q, n) = Told(r, n)
  BY DEF Told
<1> QED BY <1>1 DEF Due, Answers

\* A thread without a request owes nothing.
LEMMA DueIdle == \A n : Due(Idle, n) = 0 /\ Idle \in Request
<1> TAKE n
<1>1. Idle \in Request
  <2>1. <<>> \in Seq(Nodes)
    OBVIOUS
  <2>2. "none" \in Ops /\ "idle" \in Places
    BY DEF Ops, Places
  <2>3. 0 \in Nat /\ 0 \in 0 .. MaxNode /\ 0 \in 0 .. MaxFd
    BY Numbers
  <2> QED BY <2>1, <2>2, <2>3 DEF Idle, Request
<1>2. Idle.got = <<>> /\ Idle.pc = "idle"
  BY DEF Idle
<1>3. Cardinality(Told(Idle, n)) = 0
  BY <1>1, <1>2, TokensOfRequest
<1> QED BY <1>1, <1>2, <1>3 DEF Due, Answers

---------------------------------------------------------------------------
(***************************************************************************)
(* The steps of a lookup.                                                  *)
(***************************************************************************)
\* The invariant, and what follows from it in the same state.
LEMMA Parts == IInv => /\ TypeOK /\ impl \in Impl /\ Requests /\ Handles /\ NodesHold /\ KnownLive /\ Locks
                       /\ Freeing /\ OnePerFile /\ Refs /\ Once
                       /\ Placed /\ OwedFacts
<1> SUFFICES ASSUME IInv PROVE Placed /\ OwedFacts
  BY DEF IInv
<1>1. Placed
  BY DEF IInv, Requests, ReqRight, Placed
<1> QED BY <1>1, Owed DEF IInv

\* openat of the name.
LEMMA OpenatStep ==
    ASSUME IInv, NEW t \in Threads, lo_do_lookup_openat(t) \/ do_lookup_openat(t), impl' = impl
    PROVE  IInv'
<1> DEFINE f == dir[th[t].i]
           ok == f # NoFile /\ FreeFds(fds) # {}
<1>0. /\ TypeOK /\ Once /\ Handles /\ ReqRight(t, th[t]) /\ ReqOK(th[t]) /\ th[t] \in Request
      /\ th \in [Threads -> Request]
  BY Parts DEF Requests, Placed
<1>1. /\ th[t].pc = "openat" /\ OpenPath(t, "fstatat", "failed")
      /\ UNCHANGED <<dir, node, known, klook, hdl, lock, faults, lost, uaf, raced>>
  BY DEF lo_do_lookup_openat, do_lookup_openat
<1>2. th[t].op \in LookOps /\ th[t].i \in Names /\ th[t].fd = 0
  BY <1>0, <1>1, Numbers DEF ReqOK, Looking, LookOps, WithFd, Names, Request
<1>3. CASE ok
  <2>1. LowFd(fds) \in Fds /\ fds[LowFd(fds)] = NoFile /\ f \in Files
    BY <1>0, <1>2, <1>3, LowFdIs DEF TypeOK
  <2>2. /\ th' = [th EXCEPT ![t] = [@ EXCEPT !.pc = "fstatat", !.file = f, !.fd = LowFd(fds)]]
        /\ fds' = [fds EXCEPT ![LowFd(fds)] = f]
    BY <1>1, <1>3 DEF OpenPath, Open
  <2>3. LowFd(fds) \in 0 .. MaxFd /\ LowFd(fds) # 0 /\ "fstatat" \in Places
    BY <2>1, Numbers DEF Fds, Places
  <2>4. /\ th'[t] \in Request /\ th'[t].pc = "fstatat" /\ th'[t].file = f /\ th'[t].fd = LowFd(fds)
        /\ th'[t].op = th[t].op /\ th'[t].i = th[t].i /\ th'[t].n = th[t].n /\ th'[t].cnt = th[t].cnt
        /\ th'[t].fh = th[t].fh /\ th'[t].got = th[t].got
    BY <1>0, <2>1, <2>2, <2>3 DEF Request
  <2>5. Mine(t)
    BY <1>0, <2>2, <2>4 DEF Mine
  <2>6. ReqOK(th'[t])
    BY <1>0, <1>1, <1>2, <2>3, <2>4 DEF ReqOK, Looking, LookOps, WithFd, WithNode
  <2>7. ReqRight(t, th[t])'
    BY <1>0, <1>1, <2>1, <2>2, <2>4, <2>6, Numbers DEF ReqRight, TypeOK
  <2>8. TypeOK'
    BY <1>0, <1>1, <2>1, <2>2 DEF TypeOK
  <2>9. NodesStay
    BY <1>1 DEF NodesStay
  <2>10. Once' /\ FdsKept
    BY <1>0, <1>1, <1>2, <2>1, <2>2, <2>4, <2>5, <2>9, HoldOpenFd DEF TypeOK
  <2>11. \A m \in Nodes : klook'[m] + Due(th'[t], m) = klook[m] + Due(th[t], m)
    BY <1>0, <1>1, <2>4, DueSame
  <2> QED BY <1>0, <1>1, <2>4, <2>5, <2>7, <2>8, <2>10, <2>11, PlainStep DEF Handles
<1>4. CASE ~ok
  <2>1. th' = [th EXCEPT ![t] = [@ EXCEPT !.pc = "failed"]] /\ fds' = fds
    BY <1>1, <1>4 DEF OpenPath
  <2>2. "failed" \in Places
    BY DEF Places
  <2>4. /\ th'[t] \in Request /\ th'[t].pc = "failed" /\ th'[t].file = th[t].file /\ th'[t].fd = th[t].fd
        /\ th'[t].op = th[t].op /\ th'[t].i = th[t].i /\ th'[t].n = th[t].n /\ th'[t].cnt = th[t].cnt
        /\ th'[t].fh = th[t].fh /\ th'[t].got = th[t].got
    BY <1>0, <2>1, <2>2 DEF Request
  <2>5. Mine(t)
    BY <1>0, <2>1, <2>4 DEF Mine
  <2>6. ReqOK(th'[t])
    BY <1>0, <1>1, <1>2, <2>4 DEF ReqOK, Looking, LookOps, WithFd, WithNode
  <2>7. ReqRight(t, th[t])'
    BY <1>0, <1>1, <1>2, <2>1, <2>4, <2>6 DEF ReqRight
  <2>8. TypeOK'
    BY <1>0, <1>1, <2>1 DEF TypeOK
  <2>9. NodesStay
    BY <1>1 DEF NodesStay
  <2>10. Once' /\ FdsKept
    BY <1>0, <1>1, <2>1, <2>4, <2>5, <2>9, HoldSame
  <2>11. \A m \in Nodes : klook'[m] + Due(th'[t], m) = klook[m] + Due(th[t], m)
    BY <1>0, <1>1, <2>4, DueSame
  <2> QED BY <1>0, <1>1, <2>4, <2>5, <2>7, <2>8, <2>10, <2>11, PlainStep DEF Handles
<1> QED BY <1>3, <1>4

\* The descriptors a request holds are open, and different ones.
LEMMA OwnFds ==
    ASSUME IInv, NEW t \in Threads
    PROVE  /\ th[t].fd # 0 => th[t].fd \in Fds /\ fds[th[t].fd] \in Files
           /\ th[t].fh # 0 => th[t].fh \in Fds /\ fds[th[t].fh] \in Files /\ th[t].fh # th[t].fd
<1>0. TypeOK /\ Once /\ th[t] \in Request
  BY Parts DEF Requests
<1>1. /\ th[t].fd # 0 => th[t].fd \in Fds /\ Has("newfd", t, th[t].fd)
      /\ th[t].fh # 0 => th[t].fh \in Fds /\ Has("fh", t, th[t].fh)
  BY <1>0, Numbers DEF Request, Fds, Has
<1>2. \A x \in Fds : \A k, v : Has(k, v, x) => fds[x] \in Files
  BY <1>0 DEF Once, TypeOK
<1>3. ASSUME th[t].fh # 0, th[t].fh = th[t].fd PROVE FALSE
  <2>1. Has("newfd", t, th[t].fh) /\ Has("fh", t, th[t].fh) /\ th[t].fh \in Fds
    BY <1>1, <1>3
  <2>2. "newfd" = "fh"
    BY <1>0, <2>1 DEF Once
  <2> QED BY <2>2
<1> QED BY <1>1, <1>2, <1>3

\* fstatat of newfd; hp refuses foreign files and forgets newfd.
LEMMA FstatatStep ==
    ASSUME IInv, NEW t \in Threads, lo_do_lookup_fstatat(t) \/ do_lookup_fstatat(t), impl' = impl
    PROVE  IInv'
<1>0. /\ TypeOK /\ Once /\ Handles /\ ReqRight(t, th[t]) /\ ReqOK(th[t]) /\ th[t] \in Request
      /\ th \in [Threads -> Request]
  BY Parts DEF Requests, Placed
<1>1. /\ th[t].pc = "fstatat"
      /\ UNCHANGED <<dir, node, known, klook, hdl, lock, uaf, raced>>
  BY DEF lo_do_lookup_fstatat, do_lookup_fstatat
<1>2. /\ th[t].op \in LookOps /\ th[t].fd \in Fds
      /\ th[t].op = "create" => th[t].fh \in Fds /\ th[t].fh # th[t].fd
  BY <1>0, <1>1, OwnFds DEF ReqOK, Looking, LookOps, WithFd
<1>3. \/ \E p \in {"find", "map"} : th' = [th EXCEPT ![t].pc = p] /\ UNCHANGED <<fds, lost>>
      \/ /\ th' = [th EXCEPT ![t].pc = "failed", ![t].fd = 0]
         /\ \/ fds' = [fds EXCEPT ![th[t].fd] = NoFile] /\ UNCHANGED lost
            \/ lost' = lost \cup {th[t].fd} /\ UNCHANGED fds
  BY DEF lo_do_lookup_fstatat, do_lookup_fstatat, Close
<1>4. CASE \E p \in {"find", "map"} : th' = [th EXCEPT ![t].pc = p] /\ UNCHANGED <<fds, lost>>
  <2>0. PICK p \in {"find", "map"} : th' = [th EXCEPT ![t].pc = p] /\ UNCHANGED <<fds, lost>>
    BY <1>4
  <2>1. th' = [th EXCEPT ![t].pc = p] /\ UNCHANGED <<fds, lost>>
    BY <2>0
  <2>2. p \in Places
    BY DEF Places
  <2>4. /\ th'[t] \in Request /\ th'[t].pc = p /\ th'[t].file = th[t].file /\ th'[t].fd = th[t].fd
         /\ th'[t].op = th[t].op /\ th'[t].i = th[t].i /\ th'[t].n = th[t].n /\ th'[t].cnt = th[t].cnt
         /\ th'[t].fh = th[t].fh /\ th'[t].got = th[t].got
    BY <1>0, <2>1, <2>2 DEF Request
  <2>5. Mine(t)
    BY <1>0, <2>1, <2>4 DEF Mine
  <2>6. ReqOK(th'[t])
    BY <1>0, <1>1, <1>2, <2>2, <2>4 DEF ReqOK, Looking, LookOps, WithFd, WithNode
  <2>7. ReqRight(t, th[t])'
    BY <1>0, <1>1, <1>2, <2>1, <2>4, <2>6 DEF ReqRight
  <2>8. TypeOK'
    BY <1>0, <1>1, <1>2, <2>1 DEF TypeOK
  <2>9. NodesStay
    BY <1>1, <2>1 DEF NodesStay
  <2>10. Once' /\ FdsKept
    BY <1>0, <1>1, <1>2, <2>1, <2>2, <2>4, <2>5, <2>9, HoldSame DEF TypeOK
  <2>11. \A m \in Nodes : klook'[m] + Due(th'[t], m) = klook[m] + Due(th[t], m)
    BY <1>0, <1>1, <2>4, DueSame
  <2> QED BY <1>0, <1>1, <1>2, <2>1, <2>4, <2>5, <2>7, <2>8, <2>10, <2>11, PlainStep DEF Handles
<1>5. CASE /\ th' = [th EXCEPT ![t].pc = "failed", ![t].fd = 0]
           /\ fds' = [fds EXCEPT ![th[t].fd] = NoFile] /\ UNCHANGED lost
  <2>1. /\ th' = [th EXCEPT ![t].pc = "failed", ![t].fd = 0]
        /\ fds' = [fds EXCEPT ![th[t].fd] = NoFile] /\ UNCHANGED lost
    BY <1>5
  <2>2. "failed" \in Places /\ 0 \in 0 .. MaxFd
    BY Numbers DEF Places
  <2>4. /\ th'[t] \in Request /\ th'[t].pc = "failed" /\ th'[t].file = th[t].file /\ th'[t].fd = 0
         /\ th'[t].op = th[t].op /\ th'[t].i = th[t].i /\ th'[t].n = th[t].n /\ th'[t].cnt = th[t].cnt
         /\ th'[t].fh = th[t].fh /\ th'[t].got = th[t].got
    BY <1>0, <2>1, <2>2 DEF Request
  <2>5. Mine(t)
    BY <1>0, <2>1, <2>4 DEF Mine
  <2>6. ReqOK(th'[t])
    BY <1>0, <1>1, <1>2, <2>2, <2>4 DEF ReqOK, Looking, LookOps, WithFd, WithNode
  <2>7. ReqRight(t, th[t])'
    BY <1>0, <1>1, <1>2, <2>1, <2>4, <2>6 DEF ReqRight, TypeOK
  <2>8. TypeOK'
    BY <1>0, <1>1, <1>2, <2>1, Numbers DEF TypeOK
  <2>9. NodesStay
    BY <1>1, <2>1 DEF NodesStay
  <2>10. Once' /\ FdsKept
    BY <1>0, <1>1, <1>2, <2>1, <2>2, <2>4, <2>5, <2>9, HoldCloseFd DEF TypeOK
  <2>11. \A m \in Nodes : klook'[m] + Due(th'[t], m) = klook[m] + Due(th[t], m)
    BY <1>0, <1>1, <2>4, DueSame
  <2> QED BY <1>0, <1>1, <1>2, <2>1, <2>4, <2>5, <2>7, <2>8, <2>10, <2>11, PlainStep DEF Handles
<1>6. CASE /\ th' = [th EXCEPT ![t].pc = "failed", ![t].fd = 0]
           /\ lost' = lost \cup {th[t].fd} /\ UNCHANGED fds
  <2>1. /\ th' = [th EXCEPT ![t].pc = "failed", ![t].fd = 0]
        /\ lost' = lost \cup {th[t].fd} /\ UNCHANGED fds
    BY <1>6
  <2>2. "failed" \in Places /\ 0 \in 0 .. MaxFd
    BY Numbers DEF Places
  <2>4. /\ th'[t] \in Request /\ th'[t].pc = "failed" /\ th'[t].file = th[t].file /\ th'[t].fd = 0
         /\ th'[t].op = th[t].op /\ th'[t].i = th[t].i /\ th'[t].n = th[t].n /\ th'[t].cnt = th[t].cnt
         /\ th'[t].fh = th[t].fh /\ th'[t].got = th[t].got
    BY <1>0, <2>1, <2>2 DEF Request
  <2>5. Mine(t)
    BY <1>0, <2>1, <2>4 DEF Mine
  <2>6. ReqOK(th'[t])
    BY <1>0, <1>1, <1>2, <2>2, <2>4 DEF ReqOK, Looking, LookOps, WithFd, WithNode
  <2>7. ReqRight(t, th[t])'
    BY <1>0, <1>1, <1>2, <2>1, <2>4, <2>6 DEF ReqRight, TypeOK
  <2>8. TypeOK'
    BY <1>0, <1>1, <1>2, <2>1, Numbers DEF TypeOK
  <2>9. NodesStay
    BY <1>1, <2>1 DEF NodesStay
  <2>10. Once' /\ FdsKept
    BY <1>0, <1>1, <1>2, <2>1, <2>2, <2>4, <2>5, <2>9, HoldLoseFd DEF TypeOK
  <2>11. \A m \in Nodes : klook'[m] + Due(th'[t], m) = klook[m] + Due(th[t], m)
    BY <1>0, <1>1, <2>4, DueSame
  <2> QED BY <1>0, <1>1, <1>2, <2>1, <2>4, <2>5, <2>7, <2>8, <2>10, <2>11, PlainStep DEF Handles
<1> QED BY <1>3, <1>4, <1>5, <1>6

\* A node under way to be removed is one that nobody counts or is about to count.
LEMMA Unfreed ==
    ASSUME IInv, NEW n \in Nodes, node[n].st = "live",
           node[n].ref > 0 \/ impl = "ll" \/ \E t \in Threads : th[t].pc = "count" /\ th[t].n = n
    PROVE  \A u \in Threads : th[u].pc \in {"free", "drop", "erase"} => th[u].n # n
<1>1. \A u \in Threads : ReqRight(u, th[u])
  BY Parts DEF Requests
<1> QED BY <1>1, Parts, Numbers DEF ReqRight, Freeing

\* One more reference, for the request that is going to answer with the node.
LEMMA RefUp ==
    ASSUME IInv, NEW t \in Threads, Mine(t), TypeOK', NEW n \in Nodes, node[n].st = "live",
           node' = [node EXCEPT ![n].ref = @ + 1], klook' = klook,
           th'[t].got = th[t].got, th[t].pc \notin {"dup", "found", "forget"},
           th'[t].pc \in {"dup", "found"}, th'[t].n = n
    PROVE  Refs' /\ NodesStay /\ \A m \in Nodes \ {n} : node'[m] = node[m]
<1>0. TypeOK /\ Refs /\ th \in [Threads -> Request] /\ th[t] \in Request
  BY Parts DEF Requests
<1>1. th'[t] \in Request /\ th' \in [Threads -> Request] /\ \A u \in Threads \ {t} : th'[u] = th[u]
  BY DEF Mine
<1>2. /\ node'[n].ref = node[n].ref + 1 /\ node[n].ref \in Nat /\ node'[n].st = "live"
      /\ \A m \in Nodes \ {n} : node'[m] = node[m]
      /\ node'[n].fd = node[n].fd /\ node'[n].file = node[n].file
  BY <1>0 DEF TypeOK
<1>3. NodesStay
  BY <1>2 DEF NodesStay
<1>4. ASSUME NEW m \in Nodes
      PROVE  klook'[m] + Due(th'[t], m) + (IF node[m].st = "live" THEN node[m].ref ELSE 0)
               = klook[m] + Due(th[t], m) + (IF node'[m].st = "live" THEN node'[m].ref ELSE 0)
  <2>0. klook[m] \in Nat /\ node[m].ref \in Nat
    BY <1>0 DEF TypeOK
  <2>1. PICK c \in Nat : Owe(th[t], th'[t], m, c)
    BY <1>0, <1>1, DueOf
  <2>2. Due(th[t], m) = c /\ Due(th'[t], m) = c + (IF m = n THEN 1 ELSE 0)
    BY <2>1 DEF Answers, Owe
  <2>3. CASE m = n
    BY <1>2, <2>0, <2>2, <2>3
  <2>4. CASE m # n
    BY <1>2, <2>0, <2>2, <2>4
  <2> QED BY <2>3, <2>4
<1>5. Refs'
  BY <1>0, <1>1, <1>4, RefsStep
<1> QED BY <1>2, <1>3, <1>5

\* Nodes of the list or map are live.
LEMMA LiveIsKnown ==
    ASSUME IInv, NEW j \in DOMAIN known
    PROVE  known[j] \in Nodes /\ node[known[j]].st = "live"
BY Parts DEF KnownLive

\* lo_find, in ll: no mutex of a node is held there.
LEMMA FindStep ==
    ASSUME IInv, NEW t \in Threads, lo_find(t), impl = "ll", impl' = impl
    PROVE  IInv'
<1>0. /\ TypeOK /\ Once /\ Handles /\ ReqRight(t, th[t]) /\ ReqOK(th[t]) /\ th[t] \in Request
      /\ th \in [Threads -> Request]
  BY Parts DEF Requests, Placed
<1> DEFINE hits == {j \in DOMAIN known : node[known[j]].file = th[t].file}
           n == known[CHOOSE j \in hits : \A k \in hits : j <= k]
<1>1. /\ th[t].pc = "find"
      /\ UNCHANGED <<dir, fds, known, klook, hdl, lock, faults, lost, uaf, raced>>
      /\ IF hits # {}
         THEN node' = [node EXCEPT ![n].ref = @ + 1] /\ th' = [th EXCEPT ![t].pc = "dup", ![t].n = n]
         ELSE th' = [th EXCEPT ![t].pc = "insert"] /\ UNCHANGED node
  BY DEF lo_find
<1>2. /\ th[t].op \in LookOps /\ th[t].fd \in Fds
      /\ th[t].op = "create" => th[t].fh \in Fds /\ th[t].fh # th[t].fd
  BY <1>0, <1>1, OwnFds DEF ReqOK, Looking, LookOps, WithFd
<1>3. CASE hits # {}
  <2>0. n \in Nodes /\ node[n].st = "live" /\ node[n].file = th[t].file
    <3>1. hits \in SUBSET Nat
      BY Parts DEF KnownLive
    <3>2. \E j \in hits : \A k \in hits : j <= k
      BY <1>3, <3>1, Least
    <3>3. PICK j \in hits : n = known[j]
      BY <3>2
    <3> QED BY <3>3, LiveIsKnown
  <2> HIDE DEF hits, n
  <2>1. node' = [node EXCEPT ![n].ref = @ + 1] /\ th' = [th EXCEPT ![t].pc = "dup", ![t].n = n]
    BY <1>1, <1>3
  <2>2. "dup" \in Places /\ n \in 0 .. MaxNode
    BY <2>0, Numbers DEF Places, Nodes
  <2>4. /\ th'[t] \in Request /\ th'[t].pc = "dup" /\ th'[t].file = th[t].file /\ th'[t].fd = th[t].fd
         /\ th'[t].op = th[t].op /\ th'[t].i = th[t].i /\ th'[t].n = n /\ th'[t].cnt = th[t].cnt
         /\ th'[t].fh = th[t].fh /\ th'[t].got = th[t].got
    BY <1>0, <2>1, <2>2 DEF Request
  <2>5. Mine(t)
    BY <1>0, <2>1, <2>4 DEF Mine
  <2>6. ReqOK(th'[t])
    BY <1>0, <1>1, <1>2, <2>0, <2>4 DEF ReqOK, Looking, LookOps, WithFd, WithNode
  <2>7. TypeOK'
    BY <1>0, <1>1, <2>0, <2>1 DEF TypeOK
  <2>8. Refs' /\ NodesStay /\ \A m \in Nodes \ {n} : node'[m] = node[m]
    BY <1>1, <2>0, <2>1, <2>4, <2>5, <2>7, RefUp
  <2>9. ReqRight(t, th[t])'
    BY <1>0, <1>1, <1>2, <2>0, <2>4, <2>6, <2>8 DEF ReqRight, NodesStay, LookOps
  <2>10. Once' /\ FdsKept
    BY <1>0, <1>1, <2>4, <2>5, <2>8, HoldSame
  <2>11. \A u \in Threads \ {t} : th[u].pc \in {"free", "drop", "erase"} => node'[th[u].n] = node[th[u].n]
    <3>2. \A u \in Threads : th[u].pc \in {"free", "drop", "erase"} => th[u].n # n /\ th[u].n \in Nodes
      BY Parts, <2>0, Unfreed DEF Placed, ReqOK, WithNode
    <3> QED BY <2>8, <3>2
  <2> QED BY <1>0, <1>1, <2>4, <2>5, <2>7, <2>8, <2>9, <2>10, <2>11, CountStep DEF Handles
<1>4. CASE hits = {}
  <2>1. th' = [th EXCEPT ![t].pc = "insert"] /\ UNCHANGED node
    BY <1>1, <1>4
  <2>2. "insert" \in Places
    BY DEF Places
  <2>4. /\ th'[t] \in Request /\ th'[t].pc = "insert" /\ th'[t].file = th[t].file /\ th'[t].fd = th[t].fd
         /\ th'[t].op = th[t].op /\ th'[t].i = th[t].i /\ th'[t].n = th[t].n /\ th'[t].cnt = th[t].cnt
         /\ th'[t].fh = th[t].fh /\ th'[t].got = th[t].got
    BY <1>0, <2>1, <2>2 DEF Request
  <2>5. Mine(t)
    BY <1>0, <2>1, <2>4 DEF Mine
  <2>6. ReqOK(th'[t])
    BY <1>0, <1>1, <1>2, <2>2, <2>4 DEF ReqOK, Looking, LookOps, WithFd, WithNode
  <2>7. ReqRight(t, th[t])'
    BY <1>0, <1>1, <1>2, <2>1, <2>4, <2>6 DEF ReqRight
  <2>8. TypeOK'
    BY <1>0, <1>1, <1>2, <2>1 DEF TypeOK
  <2>9. NodesStay
    BY <1>1, <2>1 DEF NodesStay
  <2>10. Once' /\ FdsKept
    BY <1>0, <1>1, <1>2, <2>1, <2>2, <2>4, <2>5, <2>9, HoldSame DEF TypeOK
  <2>11. \A m \in Nodes : klook'[m] + Due(th'[t], m) = klook[m] + Due(th[t], m)
    <3>1. th[t].pc \notin {"dup", "found", "forget"} /\ th'[t].pc \notin {"dup", "found", "forget"}
      BY <1>1, <2>4
    <3>2. \A m : Due(th'[t], m) = Due(th[t], m)
      BY <1>0, <2>4, <3>1, DueSame
    <3> QED BY <1>1, <3>2
  <2> QED BY <1>0, <1>1, <1>2, <2>1, <2>4, <2>5, <2>7, <2>8, <2>10, <2>11, PlainStep DEF Handles
<1> QED BY <1>3, <1>4

\* ll: newfd is closed when the node was there already.
LEMMA DupStep ==
    ASSUME IInv, NEW t \in Threads, lo_do_lookup_dup(t), impl' = impl
    PROVE  IInv'
<1>0. /\ TypeOK /\ Once /\ Handles /\ ReqRight(t, th[t]) /\ ReqOK(th[t]) /\ th[t] \in Request
      /\ th \in [Threads -> Request]
  BY Parts DEF Requests, Placed
<1>1. th[t].pc = "dup" /\ UNCHANGED <<dir, node, known, klook, hdl, lock, faults, lost, uaf, raced>>
  BY DEF lo_do_lookup_dup
<1>2. /\ th[t].op \in LookOps /\ th[t].fd \in Fds
      /\ th[t].op = "create" => th[t].fh \in Fds /\ th[t].fh # th[t].fd
  BY <1>0, <1>1, OwnFds DEF ReqOK, Looking, LookOps, WithFd
<1> QED
  <2>1. /\ fds' = [fds EXCEPT ![th[t].fd] = NoFile]
        /\ th' = [th EXCEPT ![t].pc = "found", ![t].fd = 0]
    BY DEF lo_do_lookup_dup, Close
  <2>2. "found" \in Places /\ 0 \in 0 .. MaxFd
    BY Numbers DEF Places
  <2>4. /\ th'[t] \in Request /\ th'[t].pc = "found" /\ th'[t].file = th[t].file /\ th'[t].fd = 0
         /\ th'[t].op = th[t].op /\ th'[t].i = th[t].i /\ th'[t].n = th[t].n /\ th'[t].cnt = th[t].cnt
         /\ th'[t].fh = th[t].fh /\ th'[t].got = th[t].got
    BY <1>0, <2>1, <2>2 DEF Request
  <2>5. Mine(t)
    BY <1>0, <2>1, <2>4 DEF Mine
  <2>6. ReqOK(th'[t])
    BY <1>0, <1>1, <1>2, <2>2, <2>4 DEF ReqOK, Looking, LookOps, WithFd, WithNode
  <2>7. ReqRight(t, th[t])'
    BY <1>0, <1>1, <1>2, <2>1, <2>4, <2>6 DEF ReqRight
  <2>8. TypeOK'
    BY <1>0, <1>1, <1>2, <2>1 DEF TypeOK
  <2>9. NodesStay
    BY <1>1, <2>1 DEF NodesStay
  <2>10. Once' /\ FdsKept
    BY <1>0, <1>1, <1>2, <2>1, <2>2, <2>4, <2>5, <2>9, HoldCloseFd DEF TypeOK
  <2>11. \A m \in Nodes : klook'[m] + Due(th'[t], m) = klook[m] + Due(th[t], m)
    BY <1>0, <1>1, <2>4, DueAnswer
  <2> QED BY <1>0, <1>1, <1>2, <2>1, <2>4, <2>5, <2>7, <2>8, <2>10, <2>11, PlainStep DEF Handles

\* A node at the head of the list
LEMMA ConsFacts ==
    ASSUME NEW k \in Seq(Nodes), NEW n \in Nodes
    PROVE  /\ <<n>> \o k \in Seq(Nodes) /\ DOMAIN (<<n>> \o k) = 1 .. Len(k) + 1 /\ DOMAIN k = 1 .. Len(k)
           /\ (<<n>> \o k)[1] = n /\ \A j \in 1 .. Len(k) : (<<n>> \o k)[j + 1] = k[j]
           /\ \A j \in 2 .. Len(k) + 1 : (<<n>> \o k)[j] = k[j - 1] /\ j - 1 \in DOMAIN k
OBVIOUS

\* The list with a new node is right again.
LEMMA KnownMore ==
    ASSUME IInv, NEW n \in Nodes, node[n].st = "free", known' = <<n>> \o known,
           node'[n].st = "live", \A m \in Nodes \ {n} : node'[m] = node[m]
    PROVE  KnownLive' /\ \A j \in DOMAIN known : known[j] # n
<1> DEFINE w == <<n>> \o known
<1>0. KnownLive /\ known \in Seq(Nodes)
  BY Parts DEF KnownLive
<1>1. /\ w \in Seq(Nodes) /\ DOMAIN w = 1 .. Len(known) + 1 /\ DOMAIN known = 1 .. Len(known)
      /\ w[1] = n /\ \A j \in 1 .. Len(known) : w[j + 1] = known[j]
      /\ \A j \in 2 .. Len(known) + 1 : w[j] = known[j - 1] /\ j - 1 \in DOMAIN known
  BY <1>0, ConsFacts
<1>2. \A j \in DOMAIN known : known[j] # n
  BY <1>0 DEF KnownLive
<1> HIDE DEF w
<1>3. Len(known) \in Nat
  BY <1>0
<1>4. \A m \in Nodes \ {n} : (\E j \in DOMAIN w : w[j] = m) <=> (\E j \in DOMAIN known : known[j] = m)
  <2> TAKE m \in Nodes \ {n}
  <2>1. ASSUME NEW j \in DOMAIN w, w[j] = m PROVE \E i \in DOMAIN known : known[i] = m
    <3>1. j # 1
      BY <1>1, <2>1
    <3>2. j \in 2 .. Len(known) + 1
      BY <1>1, <1>3, <3>1
    <3> QED BY <1>1, <2>1, <3>2
  <2>2. ASSUME NEW j \in DOMAIN known, known[j] = m PROVE \E i \in DOMAIN w : w[i] = m
    <3>1. j + 1 \in DOMAIN w /\ w[j + 1] = m
      BY <1>1, <1>3, <2>2
    <3> QED BY <3>1
  <2> QED BY <2>1, <2>2
<1>5. \E j \in DOMAIN w : w[j] = n
  <2>1. 1 \in DOMAIN w
    BY <1>1, <1>3
  <2> QED BY <1>1, <2>1
<1>6. ASSUME NEW j \in DOMAIN w, NEW k \in DOMAIN w, w[j] = w[k] PROVE j = k
  <2>1. CASE j = 1 /\ k = 1
    BY <2>1
  <2>2. CASE j # 1 /\ k # 1
    <3>1. j \in 2 .. Len(known) + 1 /\ k \in 2 .. Len(known) + 1
      BY <1>1, <1>3, <2>2
    <3>2. known[j - 1] = known[k - 1] /\ j - 1 \in DOMAIN known /\ k - 1 \in DOMAIN known
      BY <1>1, <1>6, <3>1
    <3>3. j - 1 = k - 1
      BY <1>0, <3>2 DEF KnownLive
    <3> QED BY <3>1, <3>3
  <2>3. CASE j = 1 /\ k # 1
    <3>1. k \in 2 .. Len(known) + 1
      BY <1>1, <1>3, <2>3
    <3> QED BY <1>1, <1>2, <1>6, <2>3, <3>1
  <2>4. CASE j # 1 /\ k = 1
    <3>1. j \in 2 .. Len(known) + 1
      BY <1>1, <1>3, <2>4
    <3> QED BY <1>1, <1>2, <1>6, <2>4, <3>1
  <2> QED BY <2>1, <2>2, <2>3, <2>4
<1>7. known' = w
  BY DEF w
<1>8. \A m \in Nodes : node'[m].st = "live" <=> (\E j \in DOMAIN w : w[j] = m)
  BY <1>0, <1>4, <1>5 DEF KnownLive
<1>9. KnownLive'
  <2>1. known' \in Seq(Nodes)
    BY <1>1, <1>7
  <2>2. \A m \in Nodes : node'[m].st = "live" <=> (\E j \in DOMAIN known' : known'[j] = m)
    BY <1>7, <1>8
  <2>3. \A j, k \in DOMAIN known' : known'[j] = known'[k] => j = k
    BY <1>6, <1>7
  <2> QED BY <2>1, <2>2, <2>3 DEF KnownLive
<1> QED BY <1>2, <1>9

\* The new object takes over the descriptor of the lookup and its first reference.
Inserts(t, n) ==
    /\ th[t].pc \in {"insert", "map"} /\ node[n].st = "free"
    /\ node' = [node EXCEPT ![n] = [st |-> "live", fd |-> th[t].fd, file |-> th[t].file, ref |-> 1]]
    /\ known' = <<n>> \o known
    /\ th' = [th EXCEPT ![t].pc = "found", ![t].n = n, ![t].fd = 0]
    /\ UNCHANGED <<dir, fds, klook, hdl, lock, lost, uaf, raced, impl>>
    /\ impl = "hp" => \A j \in DOMAIN known : node[known[j]].file # th[t].file

\* A new node takes newfd over.
LEMMA InsertNode ==
    ASSUME IInv, NEW t \in Threads, NEW n \in Nodes, Inserts(t, n)
    PROVE  IInv'
<1>0. /\ TypeOK /\ Once /\ Handles /\ ReqRight(t, th[t]) /\ ReqOK(th[t]) /\ th[t] \in Request
      /\ th \in [Threads -> Request]
  BY Parts DEF Requests, Placed
<1>1. /\ th[t].pc \in {"insert", "map"} /\ node[n].st = "free" /\ known' = <<n>> \o known
      /\ UNCHANGED <<dir, fds, klook, hdl, lock, lost, uaf, raced, impl>>
      /\ impl = "hp" => \A j \in DOMAIN known : node[known[j]].file # th[t].file
  BY DEF Inserts
<1>2. /\ th[t].op \in LookOps /\ th[t].fd \in Fds
      /\ th[t].op = "create" => th[t].fh \in Fds /\ th[t].fh # th[t].fd
  BY <1>0, <1>1, OwnFds DEF ReqOK, Looking, LookOps, WithFd
<1>3. n \in 0 .. MaxNode /\ 0 \in 0 .. MaxFd /\ "found" \in Places /\ fds[th[t].fd] = th[t].file
      /\ th[t].file \in Files /\ th[t].fd \in 0 .. MaxFd /\ th[t].fd # 0
  <2>1. n \in 0 .. MaxNode /\ 0 \in 0 .. MaxFd /\ "found" \in Places
    BY Numbers DEF Places, Nodes
  <2>2. th[t].fd # 0 /\ fds[th[t].fd] = th[t].file
    BY <1>0, <1>1, <1>2, Numbers DEF Fds, ReqRight, LookOps
  <2> QED BY <1>0, <2>1, <2>2, OwnFds DEF Request
<1>4. /\ th'[t] \in Request /\ th'[t].pc = "found" /\ th'[t].file = th[t].file /\ th'[t].fd = 0
       /\ th'[t].op = th[t].op /\ th'[t].i = th[t].i /\ th'[t].n = n /\ th'[t].cnt = th[t].cnt
       /\ th'[t].fh = th[t].fh /\ th'[t].got = th[t].got
  BY <1>0, <1>3 DEF Request, Inserts
<1>5. Mine(t)
  BY <1>0, <1>4 DEF Mine, Inserts
<1>6. ReqOK(th'[t])
  BY <1>0, <1>1, <1>2, <1>4 DEF ReqOK, Looking, LookOps, WithFd, WithNode
<1>7. /\ node'[n].st = "live" /\ node'[n].fd = th[t].fd /\ node'[n].file = th[t].file /\ node'[n].ref = 1
      /\ \A m \in Nodes \ {n} : node'[m] = node[m]
  BY <1>0 DEF TypeOK, Inserts
<1>8. ReqRight(t, th[t])'
  BY <1>0, <1>1, <1>2, <1>4, <1>6, <1>7 DEF ReqRight, LookOps
<1>9. KnownLive' /\ \A j \in DOMAIN known : known[j] # n
  BY <1>1, <1>7, KnownMore
<1>10. TypeOK'
  <2>1. node' \in [Nodes -> [st : {"free", "live", "gone"}, fd : 0 .. MaxFd, file : Files \cup {NoFile}, ref : Nat]]
    BY <1>0, <1>3 DEF TypeOK, Inserts
  <2>2. \A i \in DOMAIN known' : known'[i] \in Nodes
    BY <1>9 DEF KnownLive
  <2> QED BY <1>0, <1>1, <2>1, <2>2 DEF TypeOK
<1>11. Once' /\ FdsKept
  <2>1. Has("newfd", t, th[t].fd)
    BY DEF Has
  <2>2. Passes("newfd", t, "node", n, th[t].fd)
    BY <1>1, <1>2, <1>4, <1>5, <1>7, Numbers DEF Passes, Has, Mine, Fds
  <2> QED BY <1>0, <1>1, <1>2, <2>1, <2>2, OnceMove
<1>12. ASSUME NEW m \in Nodes
       PROVE  klook'[m] + Due(th'[t], m) + (IF node[m].st = "live" THEN node[m].ref ELSE 0)
               = klook[m] + Due(th[t], m) + (IF node'[m].st = "live" THEN node'[m].ref ELSE 0)
  <2>0. klook[m] \in Nat /\ node[m].ref \in Nat
    BY <1>0 DEF TypeOK
  <2>1. PICK c \in Nat : Owe(th[t], th'[t], m, c)
    <3>1. th[t] \in Request /\ th'[t] \in Request /\ th'[t].got = th[t].got
      BY <1>0, <1>4
    <3> QED BY <3>1, DueOf
  <2>2. Due(th[t], m) = c /\ Due(th'[t], m) = c + (IF m = n THEN 1 ELSE 0)
    BY <1>1, <1>4, <2>1 DEF Answers, Owe
  <2>3. CASE m = n
    <3>1. /\ klook'[m] = klook[m] /\ node[m].st = "free" /\ node'[m].st = "live" /\ node'[m].ref = 1
          /\ Due(th'[t], m) = c + 1
      BY <1>1, <1>7, <2>2, <2>3
    <3> QED BY <2>0, <2>2, <3>1
  <2>4. CASE m # n
    <3>1. klook'[m] = klook[m] /\ node'[m] = node[m] /\ Due(th'[t], m) = c
      BY <1>1, <1>7, <2>2, <2>4
    <3> QED BY <2>0, <2>2, <3>1
  <2> QED BY <2>3, <2>4
<1>13. Refs'
  BY Parts, <1>0, <1>5, <1>10, <1>12, RefsStep DEF Mine
<1>14. Locks'
  BY Parts, <1>1, <1>5 DEF Locks, Mine
<1>15. OnePerFile'
  <2> SUFFICES ASSUME impl = "hp", NEW a \in Nodes, NEW b \in Nodes, node'[a].st = "live", node'[b].st = "live",
                      node'[a].file = node'[b].file
               PROVE  a = b
    BY <1>1 DEF OnePerFile
  <2>1. \A m \in Nodes : node[m].st = "live" => node[m].file # th[t].file
    BY <1>1, Parts DEF KnownLive
  <2> QED BY Parts, <1>1, <1>7, <2>1 DEF OnePerFile
<1>16. \A u \in Threads \ {t} : th[u].pc \in {"free", "drop", "erase"} =>
                              node'[th[u].n] = node[th[u].n] /\ lock'[th[u].n] = lock[th[u].n]
  <2>1. \A u \in Threads : th[u].pc \in {"free", "drop", "erase"} => th[u].n # n /\ th[u].n \in Nodes
    BY Parts, <1>1 DEF Requests, ReqRight, ReqOK, WithNode
  <2> QED BY <1>1, <1>7, <2>1
<1>17. /\ \A m \in Nodes : node[m].st # "free" /\ node'[m].st # "free" =>
                              node'[m].fd = node[m].fd /\ node'[m].file = node[m].file
       /\ \A m \in Nodes : node[m].st = "free" /\ node'[m].st # "free" =>
                              node'[m].fd \in Fds /\ fds'[node'[m].fd] = node'[m].file
  BY <1>1, <1>2, <1>3, <1>7
<1>18. \A u \in Threads \ {t} : th[u].pc = "count" => node'[th[u].n].st = "live"
  <2>1. \A u \in Threads : th[u].pc = "count" => th[u].n \in Nodes /\ node[th[u].n].st = "live"
    BY Parts DEF Requests, ReqRight, ReqOK, WithNode
  <2> QED BY <1>1, <1>7, <2>1
<1>19. Apart(t, th'[t])
  BY <1>4 DEF Apart
<1> QED BY <1>0, <1>1, <1>4, <1>5, <1>8, <1>9, <1>10, <1>11, <1>13, <1>14, <1>15, <1>16, <1>17, <1>18, <1>19, Step DEF Mine, Handles

\* lo_do_lookup makes a new node, or fails for want of memory.
LEMMA InsertStep ==
    ASSUME IInv, NEW t \in Threads, lo_do_lookup_insert(t), impl = "ll", impl' = impl
    PROVE  IInv'
<1>0. /\ TypeOK /\ Once /\ Handles /\ ReqRight(t, th[t]) /\ ReqOK(th[t]) /\ th[t] \in Request
      /\ th \in [Threads -> Request]
  BY Parts DEF Requests, Placed
<1>1. th[t].pc = "insert" /\ UNCHANGED <<dir, klook, hdl, lock, lost, uaf, raced>>
  BY DEF lo_do_lookup_insert
<1>2. /\ th[t].op \in LookOps /\ th[t].fd \in Fds
      /\ th[t].op = "create" => th[t].fh \in Fds /\ th[t].fh # th[t].fd
  BY <1>0, <1>1, OwnFds DEF ReqOK, Looking, LookOps, WithFd
<1>3. CASE \E n \in Nodes : Inserts(t, n)
  BY <1>3, InsertNode
<1>4. CASE /\ fds' = Close(th[t].fd) /\ th' = [th EXCEPT ![t].pc = "failed", ![t].fd = 0]
           /\ UNCHANGED <<node, known>>
  <2>1. /\ th' = [th EXCEPT ![t].pc = "failed", ![t].fd = 0]
        /\ fds' = [fds EXCEPT ![th[t].fd] = NoFile] /\ UNCHANGED <<node, known>>
    BY <1>4 DEF Close
  <2>2. "failed" \in Places /\ 0 \in 0 .. MaxFd
    BY Numbers DEF Places
  <2>4. /\ th'[t] \in Request /\ th'[t].pc = "failed" /\ th'[t].file = th[t].file /\ th'[t].fd = 0
         /\ th'[t].op = th[t].op /\ th'[t].i = th[t].i /\ th'[t].n = th[t].n /\ th'[t].cnt = th[t].cnt
         /\ th'[t].fh = th[t].fh /\ th'[t].got = th[t].got
    BY <1>0, <2>1, <2>2 DEF Request
  <2>5. Mine(t)
    BY <1>0, <2>1, <2>4 DEF Mine
  <2>6. ReqOK(th'[t])
    BY <1>0, <1>1, <1>2, <2>2, <2>4 DEF ReqOK, Looking, LookOps, WithFd, WithNode
  <2>7. ReqRight(t, th[t])'
    BY <1>0, <1>1, <1>2, <2>1, <2>4, <2>6 DEF ReqRight, TypeOK
  <2>8. TypeOK'
    BY <1>0, <1>1, <1>2, <2>1, Numbers DEF TypeOK
  <2>9. NodesStay
    BY <1>1, <2>1 DEF NodesStay
  <2>10. Once' /\ FdsKept
    BY <1>0, <1>1, <1>2, <2>1, <2>2, <2>4, <2>5, <2>9, HoldCloseFd DEF TypeOK
  <2>11. \A m \in Nodes : klook'[m] + Due(th'[t], m) = klook[m] + Due(th[t], m)
    BY <1>0, <1>1, <2>4, DueSame
  <2> QED BY <1>0, <1>1, <1>2, <2>1, <2>4, <2>5, <2>7, <2>8, <2>10, <2>11, PlainStep DEF Handles
<1> QED BY <1>3, <1>4 DEF lo_do_lookup_insert, Inserts

\* do_lookup: an object of the map is not taken up yet, a new one is found.
LEMMA MapStep ==
    ASSUME IInv, NEW t \in Threads, do_lookup_map(t), impl' = impl, impl = "hp", ~raced'
    PROVE  IInv'
<1>0. /\ TypeOK /\ Once /\ Handles /\ ReqRight(t, th[t]) /\ ReqOK(th[t]) /\ th[t] \in Request
      /\ th \in [Threads -> Request]
  BY Parts DEF Requests, Placed
<1> DEFINE hits == {j \in DOMAIN known : node[known[j]].file = th[t].file}
           j0 == CHOOSE j \in hits : TRUE
<1>1. th[t].pc = "map" /\ UNCHANGED <<dir, fds, klook, hdl, lock, uaf>>
  BY DEF do_lookup_map
<1>2. /\ th[t].op \in LookOps /\ th[t].fd \in Fds
      /\ th[t].op = "create" => th[t].fh \in Fds /\ th[t].fh # th[t].fd
  BY <1>0, <1>1, OwnFds DEF ReqOK, Looking, LookOps, WithFd
<1>3. CASE hits = {} /\ \E n \in Nodes : Inserts(t, n)
  BY <1>3, InsertNode
<1>4. CASE /\ hits # {} /\ th' = [th EXCEPT ![t].pc = "count", ![t].n = known[j0]]
           /\ raced' = (raced \/ node[known[j0]].ref = 0) /\ UNCHANGED <<node, known, lost>>
  <2>0. /\ known[j0] \in Nodes /\ known[j0] \in 0 .. MaxNode
        /\ node[known[j0]].st = "live" /\ node[known[j0]].file = th[t].file
    <3>1. j0 \in DOMAIN known /\ node[known[j0]].file = th[t].file
      BY <1>4
    <3> QED BY <3>1, LiveIsKnown, Numbers DEF Nodes
  <2>0a. raced' = FALSE /\ node[known[j0]].ref # 0
    BY <1>4
  <2> DEFINE n == known[j0]
  <2> HIDE DEF n, hits, j0
  <2>1. th' = [th EXCEPT ![t].pc = "count", ![t].n = n] /\ UNCHANGED <<node, known, lost>>
    BY <1>4 DEF n
  <2>2. /\ "count" \in Places /\ n \in Nodes /\ n \in 0 .. MaxNode
        /\ node[n].st = "live" /\ node[n].file = th[t].file /\ node[n].ref # 0
    BY <2>0, <2>0a DEF Places, n
  <2>3. UNCHANGED <<node, known, lost>>
    BY <2>1
  <2>4. /\ th'[t] \in Request /\ th'[t].pc = "count" /\ th'[t].file = th[t].file /\ th'[t].fd = th[t].fd
         /\ th'[t].op = th[t].op /\ th'[t].i = th[t].i /\ th'[t].n = n /\ th'[t].cnt = th[t].cnt
         /\ th'[t].fh = th[t].fh /\ th'[t].got = th[t].got
    BY <1>0, <2>1, <2>2 DEF Request
  <2>5. Mine(t)
    BY <1>0, <2>1, <2>4 DEF Mine
  <2>6. ReqOK(th'[t])
    BY <1>0, <1>1, <1>2, <2>2, <2>4 DEF ReqOK, Looking, LookOps, WithFd, WithNode
  <2>7. ReqRight(t, th[t])'
    BY <1>0, <1>1, <1>2, <2>2, <2>3, <2>4, <2>6 DEF ReqRight, LookOps
  <2>8. TypeOK'
    BY <1>0, <1>1, <1>2, <2>0a, <2>1 DEF TypeOK
  <2>9. NodesStay
    BY <1>1, <2>1 DEF NodesStay
  <2>10. Once' /\ FdsKept
    BY <1>0, <1>1, <1>2, <2>1, <2>2, <2>4, <2>5, <2>9, HoldSame DEF TypeOK
  <2>11. \A m \in Nodes : klook'[m] + Due(th'[t], m) = klook[m] + Due(th[t], m)
    BY <1>0, <1>1, <2>4, DueSame
  <2>12. Apart(t, th'[t])
    <3>1. \A u \in Threads : th[u].pc \in {"drop", "erase"} => node[th[u].n].ref = 0
      BY Parts DEF Requests, ReqRight
    <3> QED BY <2>2, <2>4, <3>1 DEF Apart
  <2> QED BY <1>0, <1>1, <1>2, <2>1, <2>4, <2>5, <2>7, <2>8, <2>10, <2>11, <2>12, PlainStep DEF Handles
<1>5. CASE /\ th' = [th EXCEPT ![t].pc = "failed", ![t].fd = 0] /\ lost' = lost \cup {th[t].fd}
           /\ UNCHANGED <<node, known, raced>>
  <2>1. /\ th' = [th EXCEPT ![t].pc = "failed", ![t].fd = 0]
        /\ lost' = lost \cup {th[t].fd} /\ UNCHANGED <<node, known, raced>>
    BY <1>5
  <2>2. "failed" \in Places /\ 0 \in 0 .. MaxFd
    BY Numbers DEF Places
  <2>4. /\ th'[t] \in Request /\ th'[t].pc = "failed" /\ th'[t].file = th[t].file /\ th'[t].fd = 0
         /\ th'[t].op = th[t].op /\ th'[t].i = th[t].i /\ th'[t].n = th[t].n /\ th'[t].cnt = th[t].cnt
         /\ th'[t].fh = th[t].fh /\ th'[t].got = th[t].got
    BY <1>0, <2>1, <2>2 DEF Request
  <2>5. Mine(t)
    BY <1>0, <2>1, <2>4 DEF Mine
  <2>6. ReqOK(th'[t])
    BY <1>0, <1>1, <1>2, <2>2, <2>4 DEF ReqOK, Looking, LookOps, WithFd, WithNode
  <2>7. ReqRight(t, th[t])'
    BY <1>0, <1>1, <1>2, <2>1, <2>4, <2>6 DEF ReqRight, TypeOK
  <2>8. TypeOK'
    BY <1>0, <1>1, <1>2, <2>1, Numbers DEF TypeOK
  <2>9. NodesStay
    BY <1>1, <2>1 DEF NodesStay
  <2>10. Once' /\ FdsKept
    BY <1>0, <1>1, <1>2, <2>1, <2>2, <2>4, <2>5, <2>9, HoldLoseFd DEF TypeOK
  <2>11. \A m \in Nodes : klook'[m] + Due(th'[t], m) = klook[m] + Due(th[t], m)
    BY <1>0, <1>1, <2>4, DueSame
  <2> QED BY <1>0, <1>1, <1>2, <2>1, <2>4, <2>5, <2>7, <2>8, <2>10, <2>11, PlainStep DEF Handles
<1> QED
  <2>1. CASE hits = {} /\ \E n \in Nodes :
               /\ node[n].st = "free"
               /\ node' = [node EXCEPT ![n] = [st |-> "live", fd |-> th[t].fd,
                                               file |-> th[t].file, ref |-> 1]]
               /\ known' = <<n>> \o known
               /\ th' = [th EXCEPT ![t].pc = "found", ![t].n = n, ![t].fd = 0]
               /\ UNCHANGED <<lost, raced>>
    BY <1>1, <1>3, <2>1 DEF Inserts
  <2> QED BY <1>4, <1>5, <2>1 DEF do_lookup_map

\* A step that changes nothing.
LEMMA NothingElse ==
    ASSUME IInv, UNCHANGED <<dir, fds, node, known, klook, hdl, th, lock, lost, uaf, raced, impl>>
    PROVE  IInv'
<1>1. TypeOK'
  BY Parts DEF TypeOK
<1>2. impl' \in Impl /\ Requests'
  BY Parts DEF Requests, ReqRight
<1>3. Handles' /\ NodesHold' /\ KnownLive' /\ Locks'
  BY Parts DEF Handles, NodesHold, KnownLive, Locks
<1>4. Freeing' /\ OnePerFile'
  BY Parts DEF Freeing, OnePerFile
<1>5. Refs'
  <2>1. \A n : InFlight(n)' = InFlight(n) /\ Returned(n)' = Returned(n)
    BY DEF InFlight, Returned
  <2> QED BY Parts, <2>1 DEF Refs
<1>6. Once'
  <2>1. \A k, v, x : Has(k, v, x)' <=> Has(k, v, x)
    BY DEF Has
  <2> QED BY Parts, <2>1 DEF Once
<1> QED BY <1>1, <1>2, <1>3, <1>4, <1>5, <1>6 DEF IInv

Object == [st : {"free", "live", "gone"}, fd : 0 .. MaxFd, file : Files \cup {NoFile}, ref : Nat]

\* A count that goes up keeps the node well formed.
LEMMA CountTyped ==
    ASSUME TypeOK, NEW n \in Nodes, node' = [node EXCEPT ![n].ref = @ + 1]
    PROVE  node' \in [Nodes -> Object]
<1>1. node \in [Nodes -> Object] /\ node[n] \in Object
  BY DEF TypeOK, Object
<1>2. [node[n] EXCEPT !.ref = @ + 1] \in Object
  BY <1>1 DEF Object
<1> QED BY <1>1, <1>2

\* do_lookup, after fs.mutex was released.
LEMMA CountUpStep ==
    ASSUME IInv, NEW t \in Threads, do_lookup_count(t), impl' = impl
    PROVE  IInv'
<1>0. /\ TypeOK /\ Once /\ Handles /\ ReqRight(t, th[t]) /\ ReqOK(th[t]) /\ th[t] \in Request
      /\ th \in [Threads -> Request]
  BY Parts DEF Requests, Placed
<1> DEFINE n == th[t].n
<1>1. /\ th[t].pc = "count" /\ lock[n] = NoThread
      /\ UNCHANGED <<dir, known, klook, hdl, lock, lost, raced>>
  BY DEF do_lookup_count, Unlocked
<1>2. /\ th[t].op \in LookOps /\ th[t].fd \in Fds
      /\ th[t].op = "create" => th[t].fh \in Fds /\ th[t].fh # th[t].fd
  BY <1>0, <1>1, OwnFds DEF ReqOK, Looking, LookOps, WithFd
<1>3. n \in Nodes
  BY <1>0, <1>1 DEF ReqOK, WithNode
<1>4. node[n].st = "live" /\ node[n].file = th[t].file
  BY <1>0, <1>1 DEF ReqRight
<1> HIDE DEF n
<1> QED
  <2>1. /\ node' = [node EXCEPT ![n].ref = @ + 1] /\ fds' = [fds EXCEPT ![th[t].fd] = NoFile]
        /\ th' = [th EXCEPT ![t].pc = "found", ![t].fd = 0] /\ UNCHANGED uaf
    BY <1>4 DEF do_lookup_count, get_inode, Close, n
  <2>2. "found" \in Places /\ 0 \in 0 .. MaxFd /\ th[t].n = n
    BY Numbers DEF Places, n
  <2>4. /\ th'[t] \in Request /\ th'[t].pc = "found" /\ th'[t].file = th[t].file /\ th'[t].fd = 0
         /\ th'[t].op = th[t].op /\ th'[t].i = th[t].i /\ th'[t].n = th[t].n /\ th'[t].cnt = th[t].cnt
         /\ th'[t].fh = th[t].fh /\ th'[t].got = th[t].got
    BY <1>0, <2>1, <2>2 DEF Request
  <2>5. Mine(t)
    BY <1>0, <2>1, <2>4 DEF Mine
  <2>6. ReqOK(th'[t])
    BY <1>0, <1>1, <1>2, <1>3, <2>2, <2>4 DEF ReqOK, Looking, LookOps, WithFd, WithNode
  <2>3. node' = [node EXCEPT ![n].ref = @ + 1] /\ fds' = [fds EXCEPT ![th[t].fd] = NoFile] /\ uaf' = uaf
    BY <2>1
  <2>7. TypeOK'
    <3>1. node' \in [Nodes -> Object]
      BY <1>0, <1>3, <2>3, CountTyped
    <3>2. fds' \in [Fds -> Files \cup {NoFile}]
      BY <1>0, <2>3 DEF TypeOK
    <3> QED BY <1>0, <1>1, <2>3, <3>1, <3>2 DEF TypeOK, Object
  <2>8. Refs' /\ NodesStay /\ \A m \in Nodes \ {n} : node'[m] = node[m]
    BY <1>1, <1>3, <1>4, <2>1, <2>2, <2>4, <2>5, <2>7, RefUp
  <2>9. ReqRight(t, th[t])'
    <3>1. th[t].op = "create" => fds'[th[t].fh] = fds[th[t].fh]
      BY <1>0, <1>2, <2>1 DEF TypeOK
    <3> QED BY <1>0, <1>1, <1>2, <1>3, <1>4, <2>2, <2>4, <2>6, <2>8, <3>1 DEF ReqRight, NodesStay, LookOps
  <2>10. Once' /\ FdsKept
    BY <1>0, <1>1, <1>2, <2>1, <2>4, <2>5, <2>8, HoldCloseFd DEF TypeOK
  <2>11. \A u \in Threads \ {t} : th[u].pc \in {"free", "drop", "erase"} => node'[th[u].n] = node[th[u].n]
    <3>2. \A u \in Threads : th[u].pc \in {"free", "drop", "erase"} => th[u].n # n /\ th[u].n \in Nodes
      BY Parts, <1>1, <1>3, <1>4, <2>2, Unfreed DEF Placed, ReqOK, WithNode
    <3> QED BY <2>8, <3>2
  <2> QED BY <1>0, <1>1, <2>4, <2>5, <2>7, <2>8, <2>9, <2>10, <2>11, CountStep DEF Handles

---------------------------------------------------------------------------
(***************************************************************************)
(* Replies.                                                                *)
(***************************************************************************)
\* What a request owes, by the place it has come to.
LEMMA DueParts ==
    ASSUME NEW r \in Request, NEW n
    PROVE  /\ r.got = <<>> /\ r.pc \in {"dup", "found"} => Due(r, n) = IF r.n = n THEN 1 ELSE 0
           /\ r.got = <<>> /\ r.pc \notin {"dup", "found", "forget"} => Due(r, n) = 0
           /\ r.pc \notin {"dup", "found", "forget"} => Due(r, n) = Cardinality(Told(r, n))
<1>1. Cardinality(Told(r, n)) \in Nat /\ (r.got = <<>> => Cardinality(Told(r, n)) = 0)
  BY TokensOfRequest
<1> QED BY <1>1 DEF Due, Answers

\* A reply tells the kernel exactly what the request owes, and the thread is free.
LEMMA ReplyStep ==
    ASSUME IInv, NEW t \in Threads, th' = [th EXCEPT ![t] = Idle],
           UNCHANGED <<dir, fds, node, known, hdl, lost, impl>>, \A n \in Nodes : lock'[n] = lock[n],
           TypeOK', th[t].fd = 0, th[t].fh = 0, th[t].pc # "drop",
           \A n \in Nodes : klook'[n] = klook[n] + Due(th[t], n)
    PROVE  IInv'
<1>0. /\ TypeOK /\ Once /\ Handles /\ ReqRight(t, th[t]) /\ ReqOK(th[t]) /\ th[t] \in Request
      /\ th \in [Threads -> Request]
  BY Parts DEF Requests, Placed
<1>1. Idle \in Request /\ th'[t] = Idle
  BY <1>0, DueIdle
<1>2. Mine(t)
  BY <1>0, <1>1 DEF Mine
<1>3. ReqRight(t, th[t])'
  <2>1. ReqOK(Idle)
    BY <1>1 DEF ReqOK, Looking, LookOps, WithFd, WithNode, Idle
  <2>2. Idle.op = "none" /\ Idle.fd = 0 /\ Idle.pc = "idle"
    BY DEF Idle
  <2> QED BY <1>1, <2>1, <2>2 DEF ReqRight
<1>4. NodesStay
  BY DEF NodesStay
<1>5. th'[t].fd = 0 /\ th'[t].fh = 0 /\ th'[t].pc = "idle"
  BY <1>1 DEF Idle
<1>6. Once' /\ FdsKept
  BY <1>0, <1>2, <1>4, <1>5, HoldSame
<1>7. \A n \in Nodes : Due(th'[t], n) = 0 /\ Due(th[t], n) \in Nat /\ klook[n] \in Nat
  BY <1>0, <1>1, DueIdle, DueNow DEF TypeOK
<1>8. \A n \in Nodes : klook'[n] + Due(th'[t], n) = klook[n] + Due(th[t], n)
  BY <1>7
<1>9. \A n \in Nodes : klook[n] > 0 => klook'[n] > 0
  BY <1>7
<1> QED BY <1>0, <1>2, <1>3, <1>5, <1>6, <1>8, <1>9, PlainStep DEF Handles

\* The reply to lookup, mknod, mkdir and symlink.
LEMMA LookupReply ==
    ASSUME IInv, NEW t \in Threads, lo_lookup(t) \/ sfs_lookup(t), impl' = impl
    PROVE  IInv'
<1>0. /\ TypeOK /\ Once /\ Handles /\ ReqRight(t, th[t]) /\ ReqOK(th[t]) /\ th[t] \in Request
      /\ th \in [Threads -> Request]
  BY Parts DEF Requests, Placed
<1>1. /\ th[t].op \in {"lookup", "mknod"}
      /\ \/ th[t].pc = "found" /\ ReplyEntry(t)
         \/ th[t].pc = "failed" /\ ReplyErr(t)
      /\ UNCHANGED <<dir, fds, node, known, hdl, lock, faults, lost, uaf, raced>>
  BY DEF lo_lookup, sfs_lookup
<1>2. th[t].got = <<>> /\ th[t].fd = 0 /\ th[t].fh = 0
  BY <1>0, <1>1 DEF ReqOK, WithFd
<1>3. CASE th[t].pc = "found" /\ ReplyEntry(t)
  <2>1. klook' = [klook EXCEPT ![th[t].n] = @ + 1] /\ th' = [th EXCEPT ![t] = Idle]
    BY <1>3 DEF ReplyEntry
  <2>2. th[t].n \in Nodes
    BY <1>0, <1>3 DEF ReqOK, WithNode
  <2>3. \A n \in Nodes : Due(th[t], n) = (IF th[t].n = n THEN 1 ELSE 0) /\ klook[n] \in Nat
    BY <1>0, <1>2, <1>3, DueParts DEF TypeOK
  <2>4. \A n \in Nodes : klook'[n] = klook[n] + Due(th[t], n)
    BY <1>0, <2>1, <2>3 DEF TypeOK
  <2>5. TypeOK'
    BY <1>0, <1>1, <2>1, <2>2 DEF TypeOK
  <2> QED BY <1>1, <1>2, <1>3, <2>1, <2>4, <2>5, ReplyStep
<1>4. CASE th[t].pc = "failed" /\ ReplyErr(t)
  <2>1. klook' = klook /\ th' = [th EXCEPT ![t] = Idle]
    BY <1>4 DEF ReplyErr
  <2>3. \A n \in Nodes : Due(th[t], n) = 0 /\ klook[n] \in Nat
    BY <1>0, <1>2, <1>4, DueParts DEF TypeOK
  <2>4. \A n \in Nodes : klook'[n] = klook[n] + Due(th[t], n)
    BY <2>1, <2>3
  <2>5. TypeOK'
    BY <1>0, <1>1, <2>1 DEF TypeOK
  <2> QED BY <1>1, <1>2, <1>4, <2>1, <2>4, <2>5, ReplyStep
<1> QED BY <1>1, <1>3, <1>4

\* link: the new reference, and the reply.
LEMMA LinkStep ==
    ASSUME IInv, NEW t \in Threads, lo_link_entry(t) \/ sfs_link_entry(t), impl' = impl
    PROVE  IInv'
<1>0. /\ TypeOK /\ Once /\ Handles /\ ReqRight(t, th[t]) /\ ReqOK(th[t]) /\ th[t] \in Request
      /\ th \in [Threads -> Request]
  BY Parts DEF Requests, Placed
<1> DEFINE n == th[t].n
<1>1. /\ th[t].op = "link" /\ th[t].pc \in {"linked", "found"}
      /\ UNCHANGED <<dir, fds, known, hdl, lock, lost, raced>>
  BY DEF lo_link_entry, sfs_link_entry
<1>2. th[t].got = <<>> /\ th[t].fd = 0 /\ th[t].fh = 0 /\ n \in Nodes /\ klook[n] > 0
  BY <1>0, <1>1 DEF ReqOK, WithFd, ReqRight
<1>3. node[n].st = "live" /\ node[n].ref > 0
  BY Parts, <1>2 DEF OwedFacts
<1>3a. uaf' = uaf
  BY <1>3 DEF lo_link_entry, sfs_link_entry, get_inode
<1> HIDE DEF n
<1>4. CASE /\ th[t].pc = "linked"
           /\ node' = [node EXCEPT ![n].ref = @ + 1]
           /\ th' = [th EXCEPT ![t].pc = "found"] /\ UNCHANGED klook
  <2>1. /\ node' = [node EXCEPT ![n].ref = @ + 1]
        /\ th' = [th EXCEPT ![t].pc = "found"] /\ UNCHANGED klook
    BY <1>4
  <2>2. "found" \in Places /\ th[t].n = n
    BY DEF Places, n
  <2>4. /\ th'[t] \in Request /\ th'[t].pc = "found" /\ th'[t].file = th[t].file /\ th'[t].fd = th[t].fd
         /\ th'[t].op = th[t].op /\ th'[t].i = th[t].i /\ th'[t].n = th[t].n /\ th'[t].cnt = th[t].cnt
         /\ th'[t].fh = th[t].fh /\ th'[t].got = th[t].got
    BY <1>0, <2>1, <2>2 DEF Request
  <2>5. Mine(t)
    BY <1>0, <2>1, <2>4 DEF Mine
  <2>6. ReqOK(th'[t])
    BY <1>0, <1>1, <1>2, <1>4, <2>2, <2>4 DEF ReqOK, Looking, LookOps, WithFd, WithNode
  <2>3. node' = [node EXCEPT ![n].ref = @ + 1] /\ klook' = klook
    BY <2>1
  <2>7. TypeOK'
    <3>1. node' \in [Nodes -> Object]
      BY <1>0, <1>2, <2>3, CountTyped
    <3> QED BY <1>0, <1>1, <1>3a, <2>3, <3>1 DEF TypeOK, Object
  <2>8. Refs' /\ NodesStay /\ \A m \in Nodes \ {n} : node'[m] = node[m]
    BY <1>1, <1>2, <1>3, <1>4, <2>1, <2>2, <2>4, <2>5, <2>7, RefUp
  <2>9. ReqRight(t, th[t])'
    BY <1>0, <1>1, <1>2, <2>1, <2>2, <2>4, <2>6 DEF ReqRight
  <2>10. Once' /\ FdsKept
    BY <1>0, <1>1, <1>2, <2>4, <2>5, <2>8, HoldSame
  <2>11. \A u \in Threads \ {t} : th[u].pc \in {"free", "drop", "erase"} => node'[th[u].n] = node[th[u].n]
    <3>2. \A u \in Threads : th[u].pc \in {"free", "drop", "erase"} => th[u].n # n /\ th[u].n \in Nodes
      BY Parts, <1>2, <1>3, Unfreed DEF Placed, ReqOK, WithNode
    <3> QED BY <2>8, <3>2
  <2> QED BY <1>0, <1>1, <1>4, <2>1, <2>4, <2>5, <2>7, <2>8, <2>9, <2>10, <2>11, CountStep DEF Handles
<1>5. CASE th[t].pc = "linked" /\ ReplyErr(t) /\ UNCHANGED node
  <2>1. klook' = klook /\ th' = [th EXCEPT ![t] = Idle] /\ UNCHANGED node
    BY <1>5 DEF ReplyErr
  <2>3. \A m \in Nodes : Due(th[t], m) = 0 /\ klook[m] \in Nat
    BY <1>0, <1>2, <1>5, DueParts DEF TypeOK
  <2>4. \A m \in Nodes : klook'[m] = klook[m] + Due(th[t], m)
    BY <2>1, <2>3
  <2>5. TypeOK'
    BY <1>0, <1>1, <1>3a, <2>1 DEF TypeOK
  <2> QED BY <1>1, <1>2, <1>5, <2>1, <2>4, <2>5, ReplyStep
<1>6. CASE th[t].pc = "found" /\ ReplyEntry(t) /\ UNCHANGED node
  <2>1. klook' = [klook EXCEPT ![n] = @ + 1] /\ th' = [th EXCEPT ![t] = Idle] /\ UNCHANGED node
    BY <1>6 DEF ReplyEntry, n
  <2>3. \A m \in Nodes : Due(th[t], m) = (IF n = m THEN 1 ELSE 0) /\ klook[m] \in Nat
    BY <1>0, <1>2, <1>6, DueParts DEF TypeOK, n
  <2>4. \A m \in Nodes : klook'[m] = klook[m] + Due(th[t], m)
    BY <1>0, <2>1, <2>3 DEF TypeOK
  <2>5. TypeOK'
    BY <1>0, <1>1, <1>2, <1>3a, <2>1 DEF TypeOK
  <2> QED BY <1>1, <1>2, <1>6, <2>1, <2>4, <2>5, ReplyStep
<1> QED BY <1>1, <1>3, <1>4, <1>5, <1>6 DEF lo_link_entry, sfs_link_entry, get_inode, n

---------------------------------------------------------------------------
(***************************************************************************)
(* Requests of the kernel.                                                 *)
(***************************************************************************)
\* Zero and the sets of numbers used as fields.
LEMMA Typed0 == /\ 0 \in Nat /\ 1 \in Nat /\ 0 \in 0 .. MaxNode /\ 0 \in 0 .. MaxFd /\ <<>> \in Seq(Nodes)
                /\ NoFile \in Files \cup {NoFile} /\ Ops \subseteq Ops /\ Names \subseteq Nat
                /\ Nodes \subseteq 0 .. MaxNode /\ Fds \subseteq 0 .. MaxFd /\ 0 \notin Nodes /\ 0 \notin Fds
                /\ 0 \notin Names
BY Numbers DEF Names, Nodes, Fds

\* A thread that is not busy holds nothing.
LEMMA IdleNow ==
    ASSUME IInv, NEW t \in Threads, ~Busy(t)
    PROVE  th[t] = Idle /\ th[t].fd = 0 /\ th[t].fh = 0 /\ th[t].pc = "idle"
<1>1. th[t] = Idle
  BY Parts DEF Placed, Busy, ReqOK
<1> QED BY <1>1 DEF Idle

\* A request starts: it owes nothing yet.
LEMMA StartStep ==
    ASSUME IInv, NEW t \in Threads, th[t] = Idle, Mine(t), TypeOK', impl' = impl, ReqRight(t, th[t])',
           Once', FdsKept, node' = node, known' = known, \A n \in Nodes : lock'[n] = lock[n], hdl' = hdl,
           klook' = klook, th'[t].pc \in {"openat", "linked", "next", "flush"}, th'[t].got = <<>>,
           dir' = dir \/ \A u \in Threads : th[u].op # "create"
    PROVE  IInv'
<1>1. th'[t] \in Request /\ Handles
  BY Parts DEF Mine
<1>2. \A n \in Nodes : Due(th'[t], n) = 0 /\ Due(th[t], n) = 0
  BY <1>1, DueIdle, DueParts
<1>3. th[t].pc = "idle"
  BY DEF Idle
<1> QED BY <1>1, <1>2, <1>3, PlainStep DEF Handles

\* lookup
LEMMA LookupStart ==
    ASSUME IInv, NEW t \in Threads, NEW i \in Names, StartLookup(t, i), impl' = impl
    PROVE  IInv'
<1>0. TypeOK /\ Once /\ Handles /\ th \in [Threads -> Request]
  BY Parts DEF Requests
<1>1. Start(t, [Idle EXCEPT !.op = "lookup", !.pc = "openat", !.i = i])
  BY DEF StartLookup
<1>1a. UNCHANGED <<dir, fds, node, known, klook, hdl, lock, lost, uaf, raced, impl>>
  BY DEF StartLookup
<1>2. Start(t, [Idle EXCEPT !.op = "lookup", !.pc = "openat", !.i = i])
  BY <1>1
<1>3. /\ th[t] = Idle /\ th[t].fd = 0 /\ th[t].fh = 0 /\ th[t].pc = "idle"
  BY <1>2, IdleNow DEF Start
<1>3a. th' = [th EXCEPT ![t] = [Idle EXCEPT !.op = "lookup", !.pc = "openat", !.i = i]]
  BY <1>2 DEF Start
<1>4. "lookup" \in Ops /\ "openat" \in Places /\ i \in Names /\ i \in Nat
  BY Typed0 DEF Ops, Places
<1>5. /\ th'[t] \in Request /\ th'[t].pc = "openat" /\ th'[t].file = NoFile /\ th'[t].fd = 0
       /\ th'[t].op = "lookup" /\ th'[t].i = i /\ th'[t].n = 0 /\ th'[t].cnt = 0 /\ th'[t].fh = 0
       /\ th'[t].got = <<>>
  BY <1>0, <1>3a, <1>4, DueIdle, Typed0 DEF Idle, Request
<1>6. Mine(t)
  BY <1>0, <1>3a, <1>5 DEF Mine
<1>7. ReqOK(th'[t])
  BY <1>0, <1>4, <1>5, Typed0 DEF ReqOK, Looking, LookOps, WithFd, WithNode
<1>8. TypeOK'
  BY <1>0, <1>1a, <1>4 DEF TypeOK
<1>9. ReqRight(t, th[t])'
  BY <1>0, <1>1a, <1>4, <1>5, <1>7, <1>3 DEF ReqRight
<1>10. NodesStay
  BY <1>1a DEF NodesStay
<1>11. Once' /\ FdsKept
  BY <1>0, <1>1a, <1>3, <1>5, <1>6, <1>10, HoldSame
<1>12. dir' = dir \/ \A u \in Threads : th[u].op # "create"
  BY <1>1a
<1>13. th'[t].pc \in {"openat", "linked", "next", "flush"} /\ th'[t].got = <<>>
  BY <1>5
<1> QED BY <1>1a, <1>3, <1>6, <1>8, <1>9, <1>11, <1>12, <1>13, StartStep

\* mknod, mkdir and symlink: a name is made, then looked up.
LEMMA MknodStart ==
    ASSUME IInv, NEW t \in Threads, NEW i \in Names, lo_mknod_symlink(t, i) \/ mknod_symlink(t, i), impl' = impl
    PROVE  IInv'
<1>0. TypeOK /\ Once /\ Handles /\ th \in [Threads -> Request]
  BY Parts DEF Requests
<1>1. /\ Start(t, [Idle EXCEPT !.op = "mknod", !.pc = "openat", !.i = i])
      /\ MakeName(i)
  BY DEF lo_mknod_symlink, mknod_symlink
<1>1a. UNCHANGED <<fds, node, known, klook, hdl, lock, lost, uaf, raced, impl>>
  BY DEF lo_mknod_symlink, mknod_symlink
<1>1b. PICK f \in Files : dir' = [dir EXCEPT ![i] = f]
  BY <1>1 DEF MakeName
<1>1c. \A u \in Threads : th[u].op # "create"
  BY <1>1 DEF MakeName, DirFree, Changing
<1>2. Start(t, [Idle EXCEPT !.op = "mknod", !.pc = "openat", !.i = i])
  BY <1>1
<1>3. /\ th[t] = Idle /\ th[t].fd = 0 /\ th[t].fh = 0 /\ th[t].pc = "idle"
  BY <1>2, IdleNow DEF Start
<1>3a. th' = [th EXCEPT ![t] = [Idle EXCEPT !.op = "mknod", !.pc = "openat", !.i = i]]
  BY <1>2 DEF Start
<1>4. "mknod" \in Ops /\ "openat" \in Places /\ i \in Names /\ i \in Nat
  BY Typed0 DEF Ops, Places
<1>5. /\ th'[t] \in Request /\ th'[t].pc = "openat" /\ th'[t].file = NoFile /\ th'[t].fd = 0
       /\ th'[t].op = "mknod" /\ th'[t].i = i /\ th'[t].n = 0 /\ th'[t].cnt = 0 /\ th'[t].fh = 0
       /\ th'[t].got = <<>>
  BY <1>0, <1>3a, <1>4, DueIdle, Typed0 DEF Idle, Request
<1>6. Mine(t)
  BY <1>0, <1>3a, <1>5 DEF Mine
<1>7. ReqOK(th'[t])
  BY <1>0, <1>4, <1>5, Typed0 DEF ReqOK, Looking, LookOps, WithFd, WithNode
<1>8. TypeOK'
  BY <1>0, <1>1a, <1>1b DEF TypeOK
<1>9. ReqRight(t, th[t])'
  BY <1>0, <1>1a, <1>4, <1>5, <1>7, <1>3 DEF ReqRight
<1>10. NodesStay
  BY <1>1a DEF NodesStay
<1>11. Once' /\ FdsKept
  BY <1>0, <1>1a, <1>3, <1>5, <1>6, <1>10, HoldSame
<1>12. dir' = dir \/ \A u \in Threads : th[u].op # "create"
  BY <1>1c
<1>13. th'[t].pc \in {"openat", "linked", "next", "flush"} /\ th'[t].got = <<>>
  BY <1>5
<1> QED BY <1>1a, <1>3, <1>6, <1>8, <1>9, <1>11, <1>12, <1>13, StartStep

\* link
LEMMA LinkStart ==
    ASSUME IInv, NEW t \in Threads, NEW n \in Nodes, NEW i \in Names, lo_link(t, n, i) \/ sfs_link(t, n, i), impl' = impl
    PROVE  IInv'
<1>0. TypeOK /\ Once /\ Handles /\ th \in [Threads -> Request]
  BY Parts DEF Requests
<1>1. /\ Start(t, [Idle EXCEPT !.op = "link", !.pc = "linked", !.i = i, !.n = n])
      /\ dir' = [dir EXCEPT ![i] = node[n].file] /\ klook[n] > 0
  BY DEF lo_link, sfs_link, LinkName
<1>1a. UNCHANGED <<fds, node, known, klook, hdl, lock, lost, uaf, raced, impl>>
  BY DEF lo_link, sfs_link
<1>1b. dir' = [dir EXCEPT ![i] = node[n].file] /\ node[n].file \in Files \cup {NoFile}
  BY <1>0, <1>1 DEF TypeOK
<1>1c. \A u \in Threads : th[u].op # "create"
  BY DEF lo_link, sfs_link, LinkName, DirFree, Changing
<1>2. Start(t, [Idle EXCEPT !.op = "link", !.pc = "linked", !.i = i, !.n = n])
  BY <1>1
<1>3. /\ th[t] = Idle /\ th[t].fd = 0 /\ th[t].fh = 0 /\ th[t].pc = "idle"
  BY <1>2, IdleNow DEF Start
<1>3a. th' = [th EXCEPT ![t] = [Idle EXCEPT !.op = "link", !.pc = "linked", !.i = i, !.n = n]]
  BY <1>2 DEF Start
<1>4. "link" \in Ops /\ "linked" \in Places /\ i \in Names /\ i \in Nat /\ n \in 0 .. MaxNode /\ klook[n] > 0
  BY <1>1, Typed0 DEF Ops, Places
<1>5. /\ th'[t] \in Request /\ th'[t].pc = "linked" /\ th'[t].file = NoFile /\ th'[t].fd = 0
       /\ th'[t].op = "link" /\ th'[t].i = i /\ th'[t].n = n /\ th'[t].cnt = 0 /\ th'[t].fh = 0
       /\ th'[t].got = <<>>
  BY <1>0, <1>3a, <1>4, DueIdle, Typed0 DEF Idle, Request
<1>6. Mine(t)
  BY <1>0, <1>3a, <1>5 DEF Mine
<1>7. ReqOK(th'[t])
  BY <1>0, <1>4, <1>5, Typed0 DEF ReqOK, Looking, LookOps, WithFd, WithNode
<1>8. TypeOK'
  BY <1>0, <1>1a, <1>1b DEF TypeOK
<1>9. ReqRight(t, th[t])'
  BY <1>0, <1>1a, <1>4, <1>5, <1>7, <1>3 DEF ReqRight
<1>10. NodesStay
  BY <1>1a DEF NodesStay
<1>11. Once' /\ FdsKept
  BY <1>0, <1>1a, <1>3, <1>5, <1>6, <1>10, HoldSame
<1>12. dir' = dir \/ \A u \in Threads : th[u].op # "create"
  BY <1>1c
<1>13. th'[t].pc \in {"openat", "linked", "next", "flush"} /\ th'[t].got = <<>>
  BY <1>5
<1> QED BY <1>1a, <1>3, <1>6, <1>8, <1>9, <1>11, <1>12, <1>13, StartStep

\* readdirplus
LEMMA ReaddirStart ==
    ASSUME IInv, NEW t \in Threads, lo_readdirplus(t) \/ sfs_readdirplus(t), impl' = impl
    PROVE  IInv'
<1>0. TypeOK /\ Once /\ Handles /\ th \in [Threads -> Request]
  BY Parts DEF Requests
<1>1. Start(t, [Idle EXCEPT !.op = "readdirplus", !.pc = "next", !.i = 1])
  BY DEF lo_readdirplus, sfs_readdirplus
<1>1a. /\ UNCHANGED <<dir, fds, node, known, klook, hdl, lost, uaf, raced, impl>>
       /\ \A n \in Nodes : lock'[n] = lock[n]
       /\ lock' \in [Nodes \cup {0} -> Threads \cup {NoThread}]
  BY <1>0, Typed0 DEF lo_readdirplus, sfs_readdirplus, TypeOK
<1>2. Start(t, [Idle EXCEPT !.op = "readdirplus", !.pc = "next", !.i = 1])
  BY <1>1
<1>3. /\ th[t] = Idle /\ th[t].fd = 0 /\ th[t].fh = 0 /\ th[t].pc = "idle"
  BY <1>2, IdleNow DEF Start
<1>3a. th' = [th EXCEPT ![t] = [Idle EXCEPT !.op = "readdirplus", !.pc = "next", !.i = 1]]
  BY <1>2 DEF Start
<1>4. "readdirplus" \in Ops /\ "next" \in Places /\ Len(<<>>) < 1 /\ 1 <= NNames + 1
  BY Numbers DEF Ops, Places
<1>5. /\ th'[t] \in Request /\ th'[t].pc = "next" /\ th'[t].file = NoFile /\ th'[t].fd = 0
       /\ th'[t].op = "readdirplus" /\ th'[t].i = 1 /\ th'[t].n = 0 /\ th'[t].cnt = 0 /\ th'[t].fh = 0
       /\ th'[t].got = <<>>
  BY <1>0, <1>3a, <1>4, DueIdle, Typed0 DEF Idle, Request
<1>6. Mine(t)
  BY <1>0, <1>3a, <1>5 DEF Mine
<1>7. ReqOK(th'[t])
  BY <1>0, <1>4, <1>5, Typed0 DEF ReqOK, Looking, LookOps, WithFd, WithNode
<1>8. TypeOK'
  BY <1>0, <1>1a, <1>4 DEF TypeOK
<1>9. ReqRight(t, th[t])'
  BY <1>0, <1>1a, <1>4, <1>5, <1>7, <1>3 DEF ReqRight
<1>10. NodesStay
  BY <1>1a DEF NodesStay
<1>11. Once' /\ FdsKept
  BY <1>0, <1>1a, <1>3, <1>5, <1>6, <1>10, HoldSame
<1>12. dir' = dir \/ \A u \in Threads : th[u].op # "create"
  BY <1>1a
<1>13. th'[t].pc \in {"openat", "linked", "next", "flush"} /\ th'[t].got = <<>>
  BY <1>5
<1> QED BY <1>1a, <1>3, <1>6, <1>8, <1>9, <1>11, <1>12, <1>13, StartStep

\* create: the file is opened by name, then looked up.
LEMMA CreateStart ==
    ASSUME IInv, NEW t \in Threads, NEW i \in Names, lo_create(t, i) \/ sfs_create(t, i), impl' = impl
    PROVE  IInv'
<1>0. TypeOK /\ Once /\ Handles /\ th \in [Threads -> Request]
  BY Parts DEF Requests
<1>1. /\ Start(t, [Idle EXCEPT !.op = "create", !.pc = "openat", !.i = i, !.fh = LowFd(fds)])
      /\ FreeFds(fds) # {}
  BY DEF lo_create, sfs_create, CreateName
<1>1a. UNCHANGED <<node, known, klook, hdl, lock, lost, uaf, raced, impl>>
  BY DEF lo_create, sfs_create
<1>1b. PICK f \in Files : dir' = [dir EXCEPT ![i] = f] /\ fds' = [fds EXCEPT ![LowFd(fds)] = f]
  BY DEF lo_create, sfs_create, CreateName, Open
<1>1c. \A u \in Threads : th[u].op # "create"
  BY DEF lo_create, sfs_create, CreateName, DirFree, Changing
<1>1d. LowFd(fds) \in Fds /\ fds[LowFd(fds)] = NoFile
  BY <1>1, LowFdIs
<1>1e. fds'[LowFd(fds)] = dir'[i] /\ fds \in [Fds -> Files \cup {NoFile}]
  BY <1>0, <1>1b, <1>1d DEF TypeOK
<1>2. Start(t, [Idle EXCEPT !.op = "create", !.pc = "openat", !.i = i, !.fh = LowFd(fds)])
  BY <1>1
<1>3. /\ th[t] = Idle /\ th[t].fd = 0 /\ th[t].fh = 0 /\ th[t].pc = "idle"
  BY <1>2, IdleNow DEF Start
<1>3a. th' = [th EXCEPT ![t] = [Idle EXCEPT !.op = "create", !.pc = "openat", !.i = i, !.fh = LowFd(fds)]]
  BY <1>2 DEF Start
<1>4. "create" \in Ops /\ "openat" \in Places /\ i \in Names /\ i \in Nat /\ LowFd(fds) \in 0 .. MaxFd /\ LowFd(fds) # 0
  BY <1>1d, Typed0 DEF Ops, Places
<1>5. /\ th'[t] \in Request /\ th'[t].pc = "openat" /\ th'[t].file = NoFile /\ th'[t].fd = 0
       /\ th'[t].op = "create" /\ th'[t].i = i /\ th'[t].n = 0 /\ th'[t].cnt = 0
       /\ th'[t].fh = LowFd(fds) /\ th'[t].got = <<>>
  BY <1>0, <1>3a, <1>4, DueIdle, Typed0 DEF Idle, Request
<1>6. Mine(t)
  BY <1>0, <1>3a, <1>5 DEF Mine
<1>7. ReqOK(th'[t])
  BY <1>0, <1>4, <1>5, Typed0 DEF ReqOK, Looking, LookOps, WithFd, WithNode
<1>8. TypeOK'
  BY <1>0, <1>1a, <1>1b, <1>1d DEF TypeOK
<1>9. ReqRight(t, th[t])'
  BY <1>0, <1>1a, <1>4, <1>5, <1>7, <1>1e DEF ReqRight
<1>10. NodesStay
  BY <1>1a DEF NodesStay
<1>11. Once' /\ FdsKept
  BY <1>0, <1>1a, <1>3, <1>5, <1>6, <1>10, <1>1b, <1>1d, <1>1e, HoldOpenFh
<1>12. dir' = dir \/ \A u \in Threads : th[u].op # "create"
  BY <1>1c
<1>13. th'[t].pc \in {"openat", "linked", "next", "flush"} /\ th'[t].got = <<>>
  BY <1>5
<1> QED BY <1>1a, <1>3, <1>6, <1>8, <1>9, <1>11, <1>12, <1>13, StartStep

\* flush duplicates the descriptor of the open file.
LEMMA FlushStart ==
    ASSUME IInv, NEW t \in Threads, NEW h \in hdl, lo_flush(t, h) \/ sfs_flush(t, h), impl' = impl
    PROVE  IInv'
<1>0. TypeOK /\ Once /\ Handles /\ th \in [Threads -> Request]
  BY Parts DEF Requests
<1>1. /\ Start(t, [Idle EXCEPT !.op = "flush", !.pc = "flush", !.fd = LowFd(fds)])
      /\ FreeFds(fds) # {}
  BY DEF lo_flush, sfs_flush
<1>1a. UNCHANGED <<dir, node, known, klook, hdl, lock, lost, uaf, raced, impl>>
  BY DEF lo_flush, sfs_flush
<1>1b. fds' = [fds EXCEPT ![LowFd(fds)] = h.file] /\ h.file \in Files
  BY <1>0 DEF lo_flush, sfs_flush, Open, Handles
<1>1d. LowFd(fds) \in Fds /\ fds[LowFd(fds)] = NoFile
  BY <1>1, LowFdIs
<1>1e. fds \in [Fds -> Files \cup {NoFile}]
  BY <1>0 DEF TypeOK
<1>2. Start(t, [Idle EXCEPT !.op = "flush", !.pc = "flush", !.fd = LowFd(fds)])
  BY <1>1
<1>3. /\ th[t] = Idle /\ th[t].fd = 0 /\ th[t].fh = 0 /\ th[t].pc = "idle"
  BY <1>2, IdleNow DEF Start
<1>3a. th' = [th EXCEPT ![t] = [Idle EXCEPT !.op = "flush", !.pc = "flush", !.fd = LowFd(fds)]]
  BY <1>2 DEF Start
<1>4. "flush" \in Ops /\ "flush" \in Places /\ LowFd(fds) \in 0 .. MaxFd /\ LowFd(fds) # 0
  BY <1>1d, Typed0 DEF Ops, Places
<1>5. /\ th'[t] \in Request /\ th'[t].pc = "flush" /\ th'[t].file = NoFile /\ th'[t].fd = LowFd(fds)
       /\ th'[t].op = "flush" /\ th'[t].i = 0 /\ th'[t].n = 0 /\ th'[t].cnt = 0 /\ th'[t].fh = 0
       /\ th'[t].got = <<>>
  BY <1>0, <1>3a, <1>4, DueIdle, Typed0 DEF Idle, Request
<1>6. Mine(t)
  BY <1>0, <1>3a, <1>5 DEF Mine
<1>7. ReqOK(th'[t])
  BY <1>0, <1>4, <1>5, Typed0 DEF ReqOK, Looking, LookOps, WithFd, WithNode
<1>8. TypeOK'
  BY <1>0, <1>1a, <1>1b, <1>1d DEF TypeOK
<1>9. ReqRight(t, th[t])'
  BY <1>0, <1>1a, <1>4, <1>5, <1>7, <1>1e DEF ReqRight
<1>10. NodesStay
  BY <1>1a DEF NodesStay
<1>11. Once' /\ FdsKept
  BY <1>0, <1>1a, <1>3, <1>5, <1>6, <1>10, <1>1b, <1>1d, <1>1e, HoldOpenFd
<1>12. dir' = dir \/ \A u \in Threads : th[u].op # "create"
  BY <1>1a
<1>13. th'[t].pc \in {"openat", "linked", "next", "flush"} /\ th'[t].got = <<>>
  BY <1>5
<1> QED BY <1>1a, <1>3, <1>6, <1>8, <1>9, <1>11, <1>12, <1>13, StartStep

\* FORGET takes back what the kernel holds.
LEMMA ForgetStart ==
    ASSUME IInv, NEW t \in Threads, NEW n \in Nodes, StartForget(t, n), impl' = impl
    PROVE  IInv'
<1>0. TypeOK /\ Once /\ Handles /\ th \in [Threads -> Request]
  BY Parts DEF Requests
<1>1. /\ Start(t, [Idle EXCEPT !.op = "forget", !.pc = "forget", !.n = n, !.cnt = klook[n]])
      /\ klook[n] > 0 /\ ~InUse(n)
  BY DEF StartForget
<1>1a. UNCHANGED <<dir, fds, node, known, hdl, lock, lost, uaf, raced, impl>>
  BY DEF StartForget
<1>1b. klook' = [klook EXCEPT ![n] = 0] /\ klook \in [Nodes -> Nat]
  BY <1>0 DEF StartForget, TypeOK
<1>3. /\ th[t] = Idle /\ th[t].fd = 0 /\ th[t].fh = 0 /\ th[t].pc = "idle"
  BY <1>1, IdleNow DEF Start
<1>3a. th' = [th EXCEPT ![t] = [Idle EXCEPT !.op = "forget", !.pc = "forget", !.n = n, !.cnt = klook[n]]]
  BY <1>1 DEF Start
<1>4. "forget" \in Ops /\ "forget" \in Places /\ n \in 0 .. MaxNode /\ klook[n] \in Nat
  BY <1>0, Typed0 DEF Ops, Places, TypeOK
<1>5. /\ th'[t] \in Request /\ th'[t].pc = "forget" /\ th'[t].file = NoFile /\ th'[t].fd = 0
       /\ th'[t].op = "forget" /\ th'[t].i = 0 /\ th'[t].n = n /\ th'[t].cnt = klook[n] /\ th'[t].fh = 0
       /\ th'[t].got = <<>>
  BY <1>0, <1>3a, <1>4, DueIdle, Typed0 DEF Idle, Request
<1>6. Mine(t)
  BY <1>0, <1>3a, <1>5 DEF Mine
<1>7. ReqOK(th'[t])
  BY <1>0, <1>1, <1>4, <1>5, Typed0 DEF ReqOK, Looking, LookOps, WithFd, WithNode
<1>8. TypeOK'
  BY <1>0, <1>1a, <1>1b DEF TypeOK
<1>9. ReqRight(t, th[t])'
  BY <1>5, <1>7 DEF ReqRight
<1>10. NodesStay
  BY <1>1a DEF NodesStay
<1>11. Once' /\ FdsKept
  BY <1>0, <1>1a, <1>3, <1>5, <1>6, <1>10, HoldSame
<1>12. ASSUME NEW m \in Nodes PROVE klook'[m] + Due(th'[t], m) = klook[m] + Due(th[t], m)
  <2>1. Due(th[t], m) = 0 /\ th[t] \in Request /\ th'[t] \in Request /\ th[t].got = <<>> /\ th'[t].got = th[t].got
    BY <1>0, <1>3, <1>5, DueIdle DEF Idle
  <2>2. PICK c \in Nat : Owe(th[t], th'[t], m, c)
    BY <2>1, DueOf
  <2>3. Due(th'[t], m) = IF n = m THEN klook[n] ELSE 0
    BY <1>4, <1>5, <2>1, <2>2 DEF Owe, Answers
  <2> QED BY <1>1b, <2>1, <2>3
<1>13. \A m \in Nodes : klook[m] > 0 => klook'[m] > 0 \/ ~InUse(m)
  BY <1>1, <1>1b
<1> QED BY <1>0, <1>1a, <1>3, <1>5, <1>6, <1>8, <1>9, <1>11, <1>12, <1>13, PlainStep DEF Handles

\* A reply after which the descriptors of the request are closed or passed on.
LEMMA LastReply ==
    ASSUME IInv, NEW t \in Threads, th' = [th EXCEPT ![t] = Idle],
           UNCHANGED <<dir, node, known, lock, impl>>, TypeOK', Once', FdsKept, th[t].pc # "drop",
           hdl' \subseteq [fd : Fds, file : Files, n : Nodes],
           \A h \in hdl' \ hdl : klook'[h.n] > 0 /\ h.file = node'[h.n].file /\ fds'[h.fd] = h.file,
           \A n \in Nodes : klook'[n] = klook[n] + Due(th[t], n)
    PROVE  IInv'
<1>0. /\ TypeOK /\ Once /\ Handles /\ ReqRight(t, th[t]) /\ ReqOK(th[t]) /\ th[t] \in Request
      /\ th \in [Threads -> Request]
  BY Parts DEF Requests, Placed
<1>1. Idle \in Request /\ th'[t] = Idle
  BY <1>0, DueIdle
<1>2. Mine(t)
  BY <1>0, <1>1 DEF Mine
<1>3. ReqRight(t, th[t])'
  <2>1. ReqOK(Idle)
    BY <1>1 DEF ReqOK, Looking, LookOps, WithFd, WithNode, Idle
  <2>2. Idle.op = "none" /\ Idle.fd = 0 /\ Idle.pc = "idle"
    BY DEF Idle
  <2> QED BY <1>1, <2>1, <2>2 DEF ReqRight
<1>5. th'[t].pc = "idle"
  BY <1>1 DEF Idle
<1>7. \A n \in Nodes : Due(th'[t], n) = 0 /\ Due(th[t], n) \in Nat /\ klook[n] \in Nat
  BY <1>0, <1>1, DueIdle, DueNow DEF TypeOK
<1>8. \A n \in Nodes : klook'[n] + Due(th'[t], n) = klook[n] + Due(th[t], n)
  BY <1>7
<1>9. \A n \in Nodes : klook[n] > 0 => klook'[n] > 0
  BY <1>7
<1> QED BY <1>0, <1>2, <1>3, <1>5, <1>8, <1>9, PlainStep

\* The reply to create: the descriptor goes to the open file, or is forgotten.
LEMMA CreateReply ==
    ASSUME IInv, NEW t \in Threads, lo_create_reply(t) \/ sfs_create_reply(t), impl' = impl
    PROVE  IInv'
<1>0. /\ TypeOK /\ Once /\ Handles /\ ReqRight(t, th[t]) /\ ReqOK(th[t]) /\ th[t] \in Request
      /\ th \in [Threads -> Request]
  BY Parts DEF Requests, Placed
<1> DEFINE d == th[t].fh
           n == th[t].n
           h0 == [fd |-> d, file |-> fds[d], n |-> n]
<1>1. /\ th[t].op = "create" /\ th' = [th EXCEPT ![t] = Idle]
      /\ UNCHANGED <<dir, fds, node, known, lock, faults, uaf, raced>>
  BY DEF lo_create_reply, sfs_create_reply, ReplyEntry, ReplyErr
<1>1a. th[t].pc \in {"found", "failed"}
  BY DEF lo_create_reply, sfs_create_reply
<1>2. th[t].got = <<>> /\ th[t].fd = 0 /\ d \in Fds /\ fds[d] \in Files /\ Has("fh", t, d)
  BY <1>0, <1>1, <1>1a, OwnFds DEF ReqOK, WithFd, Has
<1>3. th'[t].fd = 0 /\ th'[t].fh = 0 /\ th'[t].pc = "idle" /\ \A u \in Threads \ {t} : th'[u] = th[u]
  BY <1>0, <1>1 DEF Idle
<1> HIDE DEF d, n
<1>4. CASE /\ th[t].pc = "found" /\ klook' = [klook EXCEPT ![n] = @ + 1] /\ UNCHANGED lost
           /\ hdl' = hdl \cup {h0}
  <2>1. n \in Nodes /\ klook \in [Nodes -> Nat]
    BY <1>0, <1>4 DEF ReqOK, WithNode, TypeOK, n
  <2>2. fds[d] = node[n].file
    BY <1>0, <1>1, <1>4 DEF ReqRight, d, n
  <2>3. \A m \in Nodes : klook'[m] = klook[m] + Due(th[t], m)
    <3>1. \A m \in Nodes : Due(th[t], m) = (IF n = m THEN 1 ELSE 0)
      BY <1>0, <1>2, <1>4, DueParts DEF n
    <3> QED BY <1>4, <2>1, <3>1
  <2>4. TypeOK'
    BY <1>0, <1>1, <1>4, <2>1 DEF TypeOK
  <2>5. Passes("fh", t, "handle", h0, d)
    <3> SUFFICES ASSUME NEW k, NEW v, NEW x \in Fds
                 PROVE  Has(k, v, x)' <=> (Has(k, v, x) /\ ~(k = "fh" /\ v = t /\ x = d))
                                          \/ (k = "handle" /\ v = h0 /\ x = d)
      BY DEF Passes
    <3>1. x # 0 /\ th[t].fd = 0 /\ th[t].fh = d /\ h0.fd = d
      BY <1>2, Typed0 DEF d
    <3>2. hdl' = hdl \cup {h0} /\ node' = node /\ lost' = lost
      BY <1>1, <1>4
    <3> HIDE DEF h0
    <3>3. CASE k = "fh" \/ k = "newfd"
      BY <1>3, <3>1, <3>3 DEF Has
    <3>4. CASE k = "handle"
      BY <3>1, <3>2, <3>4 DEF Has
    <3>5. CASE k \notin {"fh", "newfd", "handle"}
      BY <3>2, <3>5 DEF Has
    <3> QED BY <3>3, <3>4, <3>5
  <2>6. Once' /\ FdsKept
    BY <1>0, <1>1, <1>2, <2>5, OnceMove
  <2>7. hdl' \subseteq [fd : Fds, file : Files, n : Nodes]
    BY <1>0, <1>2, <1>4, <2>1 DEF Handles
  <2>8. klook'[n] > 0
    BY <1>4, <2>1
  <2>9. \A h \in hdl' \ hdl : klook'[h.n] > 0 /\ h.file = node'[h.n].file /\ fds'[h.fd] = h.file
    BY <1>1, <1>4, <2>2, <2>8
  <2> QED BY <1>1, <1>4, <2>3, <2>4, <2>6, <2>7, <2>9, LastReply
<1>5. CASE /\ th[t].pc = "failed" /\ UNCHANGED <<klook, hdl>> /\ lost' = lost \cup {d}
  <2>3. \A m \in Nodes : klook'[m] = klook[m] + Due(th[t], m)
    <3>1. \A m \in Nodes : Due(th[t], m) = 0 /\ klook[m] \in Nat
      BY <1>0, <1>2, <1>5, DueParts DEF TypeOK
    <3> QED BY <1>5, <3>1
  <2>4. TypeOK'
    BY <1>0, <1>1, <1>2, <1>5 DEF TypeOK
  <2>5. Passes("fh", t, "lost", d, d)
    <3> SUFFICES ASSUME NEW k, NEW v, NEW x \in Fds
                 PROVE  Has(k, v, x)' <=> (Has(k, v, x) /\ ~(k = "fh" /\ v = t /\ x = d))
                                          \/ (k = "lost" /\ v = d /\ x = d)
      BY DEF Passes
    <3>1. x # 0 /\ th[t].fd = 0 /\ th[t].fh = d
      BY <1>2, Typed0 DEF d
    <3>2. hdl' = hdl /\ node' = node /\ lost' = lost \cup {d}
      BY <1>1, <1>5
    <3>3. CASE k = "fh" \/ k = "newfd"
      BY <1>3, <3>1, <3>3 DEF Has
    <3>4. CASE k = "lost"
      BY <3>1, <3>2, <3>4 DEF Has
    <3>5. CASE k \notin {"fh", "newfd", "lost"}
      BY <3>2, <3>5 DEF Has
    <3> QED BY <3>3, <3>4, <3>5
  <2>6. Once' /\ FdsKept
    BY <1>0, <1>1, <1>2, <2>5, OnceMove
  <2> QED BY <1>0, <1>1, <1>5, <2>3, <2>4, <2>6, LastReply DEF Handles
<1> QED BY <1>4, <1>5 DEF lo_create_reply, sfs_create_reply, ReplyEntry, ReplyErr, d, n

\* flush closes the duplicate.
LEMMA FlushStep ==
    ASSUME IInv, NEW t \in Threads, lo_flush_close(t) \/ sfs_flush_close(t), impl' = impl
    PROVE  IInv'
<1>0. /\ TypeOK /\ Once /\ Handles /\ ReqRight(t, th[t]) /\ ReqOK(th[t]) /\ th[t] \in Request
      /\ th \in [Threads -> Request]
  BY Parts DEF Requests, Placed
<1>1. /\ th[t].pc = "flush" /\ th' = [th EXCEPT ![t] = Idle] /\ klook' = klook
      /\ UNCHANGED <<dir, node, known, hdl, lock, lost, uaf, raced>>
  BY DEF lo_flush_close, sfs_flush_close, ReplyErr
<1>1a. fds' = [fds EXCEPT ![th[t].fd] = NoFile]
  BY DEF lo_flush_close, sfs_flush_close, Close
<1>2. th[t].got = <<>> /\ th[t].fd \in Fds /\ th[t].fh = 0 /\ fds \in [Fds -> Files \cup {NoFile}]
  BY <1>0, <1>1, OwnFds DEF ReqOK, WithFd, TypeOK
<1>3. th'[t].fd = 0 /\ th'[t].fh = 0 /\ Mine(t) /\ NodesStay
  BY <1>0, <1>1, DueIdle DEF Idle, Mine, NodesStay
<1>4. Once' /\ FdsKept
  BY <1>0, <1>1, <1>1a, <1>2, <1>3, HoldCloseFd
<1>5. TypeOK'
  BY <1>0, <1>1, <1>1a, <1>2 DEF TypeOK
<1>6. \A m \in Nodes : klook'[m] = klook[m] + Due(th[t], m)
  <2>1. \A m \in Nodes : Due(th[t], m) = 0 /\ klook[m] \in Nat
    BY <1>0, <1>1, <1>2, DueParts DEF TypeOK
  <2> QED BY <1>1, <2>1
<1> QED BY <1>0, <1>1, <1>4, <1>5, <1>6, LastReply DEF Handles

---------------------------------------------------------------------------
(***************************************************************************)
(* readdirplus.                                                            *)
(***************************************************************************)
\* One more entry in the buffer.
LEMMA ToldMore ==
    ASSUME NEW r \in Request, NEW q \in Request, NEW n \in Nodes, q.got = Append(r.got, n), NEW m
    PROVE  Cardinality(Told(q, m)) = Cardinality(Told(r, m)) + IF n = m THEN 1 ELSE 0
<1> DEFINE e == Len(r.got) + 1
<1>1. /\ r.got \in Seq(Nodes) /\ DOMAIN r.got = 1 .. Len(r.got) /\ Len(r.got) \in Nat
      /\ DOMAIN q.got = 1 .. Len(r.got) + 1 /\ q.got[e] = n
      /\ \A j \in 1 .. Len(r.got) : q.got[j] = r.got[j]
  BY DEF Request
<1>2. IsFiniteSet(Told(r, m)) /\ Cardinality(Told(r, m)) \in Nat /\ e \notin Told(r, m)
  <2>1. e \notin Told(r, m)
    BY <1>1 DEF Told
  <2> QED BY <2>1, TokensOfRequest
<1>3. \A j : j \in DOMAIN q.got <=> j \in DOMAIN r.got \/ j = e
  BY <1>1
<1>4. CASE n = m
  <2>1. Told(q, m) = Told(r, m) \cup {e}
    BY <1>1, <1>3, <1>4 DEF Told
  <2> QED BY <1>2, <1>4, <2>1, FS_AddElement
<1>5. CASE n # m
  <2>1. Told(q, m) = Told(r, m)
    BY <1>1, <1>3, <1>5 DEF Told
  <2> QED BY <1>2, <1>5, <2>1
<1> QED BY <1>4, <1>5

\* The reply of readdirplus.
LEMMA DirReply ==
    ASSUME IInv, NEW t \in Threads, th[t].op = "readdirplus", th[t].pc \in {"next", "failed", "forgot"},
           ReplyDir(t), UNCHANGED <<dir, fds, node, known, hdl, lost, uaf, raced, impl>>,
           \A n \in Nodes : lock'[n] = lock[n], lock' \in [Nodes \cup {0} -> Threads \cup {NoThread}]
    PROVE  IInv'
<1>0. /\ TypeOK /\ Once /\ Handles /\ ReqRight(t, th[t]) /\ ReqOK(th[t]) /\ th[t] \in Request
      /\ th \in [Threads -> Request]
  BY Parts DEF Requests, Placed
<1>1. /\ th' = [th EXCEPT ![t] = Idle]
      /\ klook' = [n \in Nodes |-> klook[n] + Cardinality(Told(th[t], n))]
  BY DEF ReplyDir, Told
<1>2. th[t].fd = 0 /\ th[t].fh = 0
  BY <1>0 DEF ReqOK, WithFd
<1>3. \A n \in Nodes : Due(th[t], n) = Cardinality(Told(th[t], n)) /\ Cardinality(Told(th[t], n)) \in Nat
                       /\ klook[n] \in Nat
  BY <1>0, DueParts, TokensOfRequest DEF TypeOK
<1>4. TypeOK'
  <2>1. klook' \in [Nodes -> Nat]
    BY <1>1, <1>3
  <2> QED BY <1>0, <2>1 DEF TypeOK
<1>5. \A n \in Nodes : klook'[n] = klook[n] + Due(th[t], n)
  BY <1>1, <1>3
<1> QED BY <1>1, <1>2, <1>4, <1>5, ReplyStep

\* The next name, or the end.
LEMMA ReaddirNext ==
    ASSUME IInv, NEW t \in Threads, lo_do_readdir_next(t) \/ do_readdir_next(t), impl' = impl
    PROVE  IInv'
<1>0. /\ TypeOK /\ Once /\ Handles /\ ReqRight(t, th[t]) /\ ReqOK(th[t]) /\ th[t] \in Request
      /\ th \in [Threads -> Request]
  BY Parts DEF Requests, Placed
<1>1. /\ th[t].op = "readdirplus" /\ th[t].pc = "next"
      /\ UNCHANGED <<dir, fds, node, known, hdl, faults, lost, uaf, raced>>
  BY DEF lo_do_readdir_next, do_readdir_next
<1>2. /\ \A n \in Nodes : lock'[n] = lock[n]
      /\ lock' \in [Nodes \cup {0} -> Threads \cup {NoThread}]
  BY <1>0, Typed0 DEF lo_do_readdir_next, do_readdir_next, TypeOK
<1>3. CASE th[t].i > NNames /\ ReplyDir(t)
  BY <1>1, <1>2, <1>3, DirReply
<1>4. CASE /\ ~(th[t].i > NNames) /\ UNCHANGED <<klook, lock>>
           /\ th' = [th EXCEPT ![t].pc = IF dir[th[t].i] = NoFile THEN "next" ELSE "openat",
                               ![t].i = IF dir[th[t].i] = NoFile THEN @ + 1 ELSE @]
  <2> DEFINE p == IF dir[th[t].i] = NoFile THEN "next" ELSE "openat"
             k == IF dir[th[t].i] = NoFile THEN th[t].i + 1 ELSE th[t].i
  <2>0. /\ th[t].i \in Nat /\ NNames \in Nat /\ th[t].fd = 0 /\ th[t].fh = 0 /\ th[t].cnt = 0
        /\ Len(th[t].got) \in Nat /\ Len(th[t].got) < th[t].i
    BY <1>0, <1>1, Numbers DEF Request, ReqOK, WithFd
  <2>1. th' = [th EXCEPT ![t].pc = p, ![t].i = k] /\ UNCHANGED <<klook, lock>>
    BY <1>4
  <2>2. p \in Places /\ k \in Nat /\ p \in {"next", "openat"} /\ Len(th[t].got) < k /\ k <= NNames + 1
        /\ (p # "next" => k <= NNames)
    BY <1>4, <2>0 DEF Places
  <2> HIDE DEF p, k
  <2>3. UNCHANGED <<klook, lock>>
    BY <2>1
  <2>4. /\ th'[t] \in Request /\ th'[t].pc = p /\ th'[t].file = th[t].file /\ th'[t].fd = th[t].fd
         /\ th'[t].op = th[t].op /\ th'[t].i = k /\ th'[t].n = th[t].n /\ th'[t].cnt = th[t].cnt
         /\ th'[t].fh = th[t].fh /\ th'[t].got = th[t].got
    BY <1>0, <2>1, <2>2 DEF Request
  <2>5. Mine(t)
    BY <1>0, <2>1, <2>4 DEF Mine
  <2>6. ReqOK(th'[t])
    BY <1>0, <1>1, <2>0, <2>2, <2>4 DEF ReqOK, Looking, LookOps, WithFd, WithNode
  <2>7. ReqRight(t, th[t])'
    BY <1>0, <1>1, <2>0, <2>2, <2>4, <2>6 DEF ReqRight
  <2>8. TypeOK'
    BY <1>0, <1>1, <1>2, <2>3 DEF TypeOK
  <2>9. NodesStay
    BY <1>1 DEF NodesStay
  <2>10. Once' /\ FdsKept
    BY <1>0, <1>1, <2>4, <2>5, <2>9, HoldSame
  <2>11. \A m \in Nodes : klook'[m] + Due(th'[t], m) = klook[m] + Due(th[t], m)
    <3>1. th[t].pc \notin {"dup", "found", "forget"} /\ th'[t].pc \notin {"dup", "found", "forget"}
      BY <1>1, <2>2, <2>4
    <3>2. th[t] \in Request /\ th'[t] \in Request /\ th'[t].got = th[t].got
      BY <1>0, <2>4
    <3> QED BY <2>3, <3>1, <3>2, DueSame
  <2>12. th[t].pc # "drop" /\ th'[t].pc \notin {"free", "drop", "erase", "count"}
    BY <1>1, <2>2, <2>4
  <2> QED BY <1>0, <1>1, <1>2, <2>3, <2>5, <2>7, <2>8, <2>10, <2>11, <2>12, PlainStep DEF Handles
<1> QED BY <1>3, <1>4 DEF lo_do_readdir_next, do_readdir_next

\* An entry is put into the buffer, or forgotten again; an error ends the buffer.
LEMMA ReaddirStep ==
    ASSUME IInv, NEW t \in Threads, lo_do_readdir(t) \/ do_readdir(t), impl' = impl
    PROVE  IInv'
<1>0. /\ TypeOK /\ Once /\ Handles /\ ReqRight(t, th[t]) /\ ReqOK(th[t]) /\ th[t] \in Request
      /\ th \in [Threads -> Request]
  BY Parts DEF Requests, Placed
<1>1. /\ th[t].op = "readdirplus"
      /\ UNCHANGED <<dir, fds, node, known, hdl, faults, lost, uaf, raced>>
  BY DEF lo_do_readdir, do_readdir
<1>2. /\ \A n \in Nodes : lock'[n] = lock[n]
      /\ lock' \in [Nodes \cup {0} -> Threads \cup {NoThread}]
  BY <1>0, Typed0 DEF lo_do_readdir, do_readdir, TypeOK
<1>3. CASE th[t].pc \in {"failed", "forgot"} /\ ReplyDir(t)
  BY <1>1, <1>2, <1>3, DirReply
<1> DEFINE n == th[t].n
<1>4. ASSUME th[t].pc = "found"
      PROVE  /\ th[t].i \in Nat /\ NNames \in Nat /\ th[t].fd = 0 /\ th[t].fh = 0 /\ th[t].cnt = 0
             /\ Len(th[t].got) \in Nat /\ Len(th[t].got) < th[t].i /\ th[t].i <= NNames /\ n \in Nodes
             /\ th[t].got \in Seq(Nodes)
  BY <1>0, <1>1, <1>4, Numbers DEF Request, ReqOK, WithFd, WithNode
<1> HIDE DEF n
<1>5. CASE /\ th[t].pc = "found" /\ UNCHANGED klook
           /\ th' = [th EXCEPT ![t].pc = "next", ![t].i = @ + 1, ![t].n = 0,
                               ![t].file = NoFile, ![t].got = Append(@, n)]
  <2> DEFINE g == Append(th[t].got, n)
             k == th[t].i + 1
  <2>0. UNCHANGED klook /\ th[t].pc = "found"
    BY <1>5
  <2>1. th' = [th EXCEPT ![t].pc = "next", ![t].i = k, ![t].n = 0, ![t].file = NoFile, ![t].got = g]
    BY <1>5
  <2>2. g \in Seq(Nodes) /\ k \in Nat /\ "next" \in Places /\ Len(g) = Len(th[t].got) + 1
        /\ Len(g) < k /\ k <= NNames + 1
    BY <1>4, <2>0 DEF Places
  <2> HIDE DEF g, k
  <2>4. /\ th'[t] \in Request /\ th'[t].pc = "next" /\ th'[t].file = NoFile /\ th'[t].fd = th[t].fd
         /\ th'[t].op = th[t].op /\ th'[t].i = k /\ th'[t].n = 0 /\ th'[t].cnt = th[t].cnt
         /\ th'[t].fh = th[t].fh /\ th'[t].got = g
    BY <1>0, <2>1, <2>2, Typed0 DEF Request
  <2>5. Mine(t)
    BY <1>0, <2>1, <2>4 DEF Mine
  <2>6. ReqOK(th'[t])
    BY <1>0, <1>1, <1>4, <2>0, <2>2, <2>4 DEF ReqOK, Looking, LookOps, WithFd, WithNode
  <2>7. ReqRight(t, th[t])'
    BY <1>1, <1>4, <2>0, <2>4, <2>6 DEF ReqRight
  <2>8. TypeOK'
    BY <1>0, <1>1, <1>2, <2>0 DEF TypeOK
  <2>9. NodesStay
    BY <1>1 DEF NodesStay
  <2>10. Once' /\ FdsKept
    BY <1>0, <1>1, <2>4, <2>5, <2>9, HoldSame
  <2>11. ASSUME NEW m \in Nodes PROVE klook'[m] + Due(th'[t], m) = klook[m] + Due(th[t], m)
    <3>1. th[t] \in Request /\ th'[t] \in Request /\ th'[t].got = Append(th[t].got, n) /\ n \in Nodes
      BY <1>0, <1>4, <2>0, <2>4 DEF g
    <3>2. Cardinality(Told(th'[t], m)) = Cardinality(Told(th[t], m)) + IF n = m THEN 1 ELSE 0
      <4> DEFINE r == th[t]
                 q == th'[t]
      <4>1. r \in Request /\ q \in Request /\ q.got = Append(r.got, n) /\ n \in Nodes
        BY <3>1
      <4> HIDE DEF r, q
      <4>2. Cardinality(Told(q, m)) = Cardinality(Told(r, m)) + IF n = m THEN 1 ELSE 0
        BY <4>1, ToldMore
      <4> QED BY <4>2 DEF r, q
    <3>3. Cardinality(Told(th[t], m)) \in Nat
      BY <3>1, TokensOfRequest
    <3>4. Due(th'[t], m) = Cardinality(Told(th'[t], m))
      BY <2>4, <3>1, DueParts
    <3>5. Due(th[t], m) = (IF n = m THEN 1 ELSE 0) + Cardinality(Told(th[t], m))
      BY <2>0, <3>3 DEF Due, Answers, n
    <3> QED BY <2>0, <3>2, <3>3, <3>4, <3>5
  <2>12. th[t].pc # "drop" /\ th'[t].pc \notin {"free", "drop", "erase", "count"}
    BY <2>0, <2>4
  <2> QED BY <1>0, <1>1, <1>2, <2>0, <2>5, <2>7, <2>8, <2>10, <2>11, <2>12, PlainStep DEF Handles
<1>6. CASE /\ th[t].pc = "found" /\ UNCHANGED klook
           /\ th' = [th EXCEPT ![t].pc = "forget", ![t].cnt = 1]
  <2>0. UNCHANGED klook /\ th[t].pc = "found"
    BY <1>6
  <2>1. th' = [th EXCEPT ![t].pc = "forget", ![t].cnt = 1]
    BY <1>6
  <2>2. "forget" \in Places /\ th[t].n = n
    BY DEF Places, n
  <2>4. /\ th'[t] \in Request /\ th'[t].pc = "forget" /\ th'[t].file = th[t].file /\ th'[t].fd = th[t].fd
         /\ th'[t].op = th[t].op /\ th'[t].i = th[t].i /\ th'[t].n = th[t].n /\ th'[t].cnt = 1
         /\ th'[t].fh = th[t].fh /\ th'[t].got = th[t].got
    BY <1>0, <2>1, <2>2, Typed0 DEF Request
  <2>5. Mine(t)
    BY <1>0, <2>1, <2>4 DEF Mine
  <2>6. ReqOK(th'[t])
    BY <1>0, <1>1, <1>4, <2>0, <2>2, <2>4 DEF ReqOK, Looking, LookOps, WithFd, WithNode
  <2>7. ReqRight(t, th[t])'
    BY <1>1, <1>4, <2>0, <2>4, <2>6 DEF ReqRight
  <2>8. TypeOK'
    BY <1>0, <1>1, <1>2, <2>0 DEF TypeOK
  <2>9. NodesStay
    BY <1>1 DEF NodesStay
  <2>10. Once' /\ FdsKept
    BY <1>0, <1>1, <2>4, <2>5, <2>9, HoldSame
  <2>11. ASSUME NEW m \in Nodes PROVE klook'[m] + Due(th'[t], m) = klook[m] + Due(th[t], m)
    <3>1. th[t] \in Request /\ th'[t] \in Request /\ th'[t].got = th[t].got
      BY <1>0, <2>4
    <3>2. PICK c \in Nat : Owe(th[t], th'[t], m, c)
      BY <3>1, DueOf
    <3>3. Due(th'[t], m) = Due(th[t], m)
      BY <2>0, <2>4, <3>2 DEF Owe, Answers
    <3> QED BY <2>0, <3>3
  <2>12. th[t].pc # "drop" /\ th'[t].pc \notin {"free", "drop", "erase", "count"}
    BY <2>0, <2>4
  <2> QED BY <1>0, <1>1, <1>2, <2>0, <2>5, <2>7, <2>8, <2>10, <2>11, <2>12, PlainStep DEF Handles
<1> QED BY <1>3, <1>5, <1>6 DEF lo_do_readdir, do_readdir, n

---------------------------------------------------------------------------
(***************************************************************************)
(* forget.                                                                 *)
(***************************************************************************)
\* The list without node n, entry by entry.
LEMMA WithoutFacts ==
    ASSUME KnownLive, NEW n \in Nodes, node[n].st = "live"
    PROVE  \E j \in DOMAIN known :
             /\ known[j] = n /\ Without(n) \in Seq(Nodes)
             /\ DOMAIN known = 1 .. Len(known) /\ DOMAIN Without(n) = 1 .. Len(known) - 1
             /\ \A k \in 1 .. Len(known) - 1 : Without(n)[k] = IF k < j THEN known[k] ELSE known[k + 1]
<1> DEFINE j == CHOOSE j \in DOMAIN known : known[j] = n
           a == SubSeq(known, 1, j - 1)
           b == SubSeq(known, j + 1, Len(known))
<1>1. known \in Seq(Nodes) /\ j \in DOMAIN known /\ known[j] = n
  BY DEF KnownLive
<1>2. Without(n) = a \o b
  BY DEF Without
<1> HIDE DEF j
<1>3. Len(known) \in Nat /\ j \in 1 .. Len(known) /\ DOMAIN known = 1 .. Len(known)
  BY <1>1
<1>4. /\ a \in Seq(Nodes) /\ Len(a) = j - 1 /\ \A k \in 1 .. j - 1 : a[k] = known[k]
      /\ b \in Seq(Nodes) /\ Len(b) = Len(known) - j /\ \A k \in 1 .. Len(known) - j : b[k] = known[j + k]
  <2>1. /\ a \in Seq(Nodes) /\ Len(a) = IF 1 <= j - 1 THEN (j - 1) - 1 + 1 ELSE 0
        /\ \A k \in 1 .. (j - 1) - 1 + 1 : a[k] = known[1 + k - 1]
    <3>1. 1 \in Int /\ j - 1 \in Int /\ \A k \in 1 .. j - 1 : known[k] \in Nodes
      BY <1>1, <1>3
    <3> QED BY <3>1, SubSeqProperties
  <2>2. /\ b \in Seq(Nodes) /\ Len(b) = IF j + 1 <= Len(known) THEN Len(known) - (j + 1) + 1 ELSE 0
        /\ \A k \in 1 .. Len(known) - (j + 1) + 1 : b[k] = known[(j + 1) + k - 1]
    <3>1. j + 1 \in Int /\ Len(known) \in Int /\ \A k \in j + 1 .. Len(known) : known[k] \in Nodes
      BY <1>1, <1>3
    <3> QED BY <3>1, SubSeqProperties
  <2> HIDE DEF a, b
  <2>0. j \in Nat /\ 1 <= j /\ j <= Len(known)
    BY <1>3
  <2>3. Len(a) = j - 1 /\ \A k \in 1 .. j - 1 : a[k] = known[k]
    <3>1. \A k \in 1 .. j - 1 : k \in 1 .. (j - 1) - 1 + 1 /\ 1 + k - 1 = k
      BY <2>0
    <3>2. Len(a) = j - 1
      BY <2>0, <2>1
    <3> QED BY <2>1, <3>1, <3>2
  <2>4. Len(b) = Len(known) - j /\ \A k \in 1 .. Len(known) - j : b[k] = known[j + k]
    <3> DEFINE l == Len(known)
    <3>1. l \in Nat /\ j \in Nat /\ j <= l
      BY <1>3, <2>0
    <3>2. Len(b) = IF j + 1 <= l THEN l - (j + 1) + 1 ELSE 0
      BY <2>2
    <3> HIDE DEF l
    <3>3. Len(b) = l - j /\ \A k \in 1 .. l - j : k \in 1 .. l - (j + 1) + 1 /\ (j + 1) + k - 1 = j + k
      BY <3>1, <3>2
    <3> QED BY <2>2, <3>3 DEF l
  <2> QED BY <2>1, <2>2, <2>3, <2>4
<1> HIDE DEF a, b
<1>5. /\ a \o b \in Seq(Nodes) /\ Len(a \o b) = Len(known) - 1
      /\ \A k \in 1 .. Len(known) - 1 : (a \o b)[k] = IF k <= j - 1 THEN a[k] ELSE b[k - (j - 1)]
  <2>1. /\ a \o b \in Seq(Nodes) /\ Len(a \o b) = Len(a) + Len(b)
        /\ \A k \in 1 .. Len(a) + Len(b) : (a \o b)[k] = IF k <= Len(a) THEN a[k] ELSE b[k - Len(a)]
    BY <1>4, ConcatProperties
  <2>2. Len(a) + Len(b) = Len(known) - 1 /\ Len(a) = j - 1
    BY <1>3, <1>4
  <2> QED BY <2>1, <2>2
<1>6. ASSUME NEW k \in 1 .. Len(known) - 1
      PROVE  (a \o b)[k] = IF k < j THEN known[k] ELSE known[k + 1]
  <2>1. CASE k < j
    BY <1>3, <1>4, <1>5, <2>1
  <2>2. CASE ~(k < j)
    <3>1. k - (j - 1) \in 1 .. Len(known) - j /\ j + (k - (j - 1)) = k + 1
      BY <1>3, <2>2
    <3>2. (a \o b)[k] = b[k - (j - 1)]
      BY <1>3, <1>5, <2>2
    <3> QED BY <1>4, <2>2, <3>1, <3>2
  <2> QED BY <2>1, <2>2
<1>7. DOMAIN (a \o b) = 1 .. Len(known) - 1
  <2>1. \A s \in Seq(Nodes) : DOMAIN s = 1 .. Len(s)
    OBVIOUS
  <2> QED BY <1>5, <2>1
<1> QED BY <1>1, <1>2, <1>3, <1>5, <1>6, <1>7

\* The list without a node.
LEMMA KnownLess ==
    ASSUME IInv, NEW n \in Nodes, node[n].st = "live", known' = Without(n),
           node'[n].st # "live", \A m \in Nodes \ {n} : node'[m] = node[m]
    PROVE  KnownLive'
<1> DEFINE w == Without(n)
<1>0. KnownLive
  BY Parts
<1>1. PICK j \in DOMAIN known :
             /\ known[j] = n /\ w \in Seq(Nodes)
             /\ DOMAIN known = 1 .. Len(known) /\ DOMAIN w = 1 .. Len(known) - 1
             /\ \A k \in 1 .. Len(known) - 1 : w[k] = IF k < j THEN known[k] ELSE known[k + 1]
  BY <1>0, WithoutFacts
<1>2. known' = w
  OBVIOUS
<1> HIDE DEF w
<1>3. Len(known) \in Nat /\ j \in 1 .. Len(known)
  BY <1>0, <1>1 DEF KnownLive
<1>4. \A i, k \in DOMAIN known : known[i] = known[k] => i = k
  BY <1>0 DEF KnownLive
<1>5. \A k \in DOMAIN w : LET i == IF k < j THEN k ELSE k + 1 IN
                          i \in DOMAIN known /\ w[k] = known[i] /\ i # j
  BY <1>1, <1>3
<1>6. \A k \in DOMAIN w : w[k] # n
  BY <1>1, <1>4, <1>5
<1>7. ASSUME NEW i \in DOMAIN w, NEW k \in DOMAIN w, w[i] = w[k] PROVE i = k
  <2>1. (IF i < j THEN i ELSE i + 1) = (IF k < j THEN k ELSE k + 1)
    BY <1>4, <1>5, <1>7
  <2> QED BY <1>1, <1>3, <2>1
<1>8. ASSUME NEW m \in Nodes \ {n}, NEW i \in DOMAIN known, known[i] = m
      PROVE  \E k \in DOMAIN w : w[k] = m
  <2>1. CASE i < j
    <3>1. i \in DOMAIN w /\ w[i] = m
      BY <1>1, <1>3, <1>8, <2>1
    <3> QED BY <3>1
  <2>2. CASE i > j
    <3>1. i - 1 \in DOMAIN w /\ ~(i - 1 < j) /\ (i - 1) + 1 = i
      BY <1>1, <1>3, <2>2
    <3>2. w[i - 1] = m
      BY <1>1, <1>8, <3>1
    <3> QED BY <3>1, <3>2
  <2>3. i # j
    BY <1>1, <1>8
  <2> QED BY <1>1, <1>3, <2>1, <2>2, <2>3
<1>9. \A m \in Nodes : node'[m].st = "live" <=> (\E k \in DOMAIN w : w[k] = m)
  <2> TAKE m \in Nodes
  <2>1. CASE m = n
    BY <1>6, <2>1
  <2>2. CASE m # n
    <3>1. node'[m] = node[m]
      BY <2>2
    <3>2. node[m].st = "live" => \E k \in DOMAIN w : w[k] = m
      BY <1>0, <1>8, <2>2 DEF KnownLive
    <3>3. (\E k \in DOMAIN w : w[k] = m) => node[m].st = "live"
      BY <1>0, <1>5 DEF KnownLive
    <3> QED BY <3>1, <3>2, <3>3
  <2> QED BY <2>1, <2>2
<1> QED
  <2>1. known' \in Seq(Nodes)
    BY <1>1, <1>2
  <2>2. \A m \in Nodes : node'[m].st = "live" <=> (\E k \in DOMAIN known' : known'[k] = m)
    BY <1>2, <1>9
  <2>3. \A i, k \in DOMAIN known' : known'[i] = known'[k] => i = k
    BY <1>2, <1>7
  <2> QED BY <2>1, <2>2, <2>3 DEF KnownLive

\* What thread t does when a node is forgotten.
Forgets(t) == th' = [th EXCEPT ![t] = Forgotten(t)]

\* The thread is free, or goes on with its readdirplus.
LEMMA ForgottenFacts ==
    ASSUME IInv, NEW t \in Threads, th[t].pc \in {"forget", "free", "drop", "erase"}, Forgets(t)
    PROVE  /\ Mine(t) /\ ReqRight(t, th[t])' /\ th'[t].pc \in {"idle", "forgot"}
           /\ th'[t].fd = th[t].fd /\ th'[t].fh = th[t].fh /\ th'[t].got = th[t].got
<1>0. /\ TypeOK /\ Once /\ Handles /\ ReqRight(t, th[t]) /\ ReqOK(th[t]) /\ th[t] \in Request
      /\ th \in [Threads -> Request]
  BY Parts DEF Requests, Placed
<1>1. /\ th[t].op \in {"forget", "readdirplus"} /\ th[t].fd = 0 /\ th[t].fh = 0
      /\ th[t].op # "readdirplus" => th[t].got = <<>>
  BY <1>0 DEF ReqOK, WithFd
<1>2. CASE th[t].op = "forget"
  <2>1. th'[t] = Idle /\ Idle \in Request /\ th' \in [Threads -> Request] /\ \A u \in Threads \ {t} : th'[u] = th[u]
    BY <1>0, <1>2, DueIdle DEF Forgotten, Forgets
  <2>2. ReqOK(Idle)
    BY <2>1 DEF ReqOK, Looking, LookOps, WithFd, WithNode, Idle
  <2>3. Idle.op = "none" /\ Idle.fd = 0 /\ Idle.pc = "idle" /\ Idle.fh = 0 /\ Idle.got = <<>>
    BY DEF Idle
  <2> QED BY <1>1, <1>2, <2>1, <2>2, <2>3 DEF ReqRight, Mine
<1>3. CASE th[t].op # "forget"
  <2>1. th' = [th EXCEPT ![t] = [th[t] EXCEPT !.pc = "forgot", !.cnt = 0, !.n = 0]]
    BY <1>3 DEF Forgotten, Forgets
  <2>2. "forgot" \in Places
    BY DEF Places
  <2>4. /\ th'[t] \in Request /\ th'[t].pc = "forgot" /\ th'[t].file = th[t].file /\ th'[t].fd = th[t].fd
         /\ th'[t].op = th[t].op /\ th'[t].i = th[t].i /\ th'[t].n = 0 /\ th'[t].cnt = 0
         /\ th'[t].fh = th[t].fh /\ th'[t].got = th[t].got
    BY <1>0, <2>1, <2>2, Typed0 DEF Request
  <2>5. Mine(t)
    BY <1>0, <2>1, <2>4 DEF Mine
  <2>6. ReqOK(th'[t])
    BY <1>0, <1>1, <1>3, <2>4 DEF ReqOK, Looking, LookOps, WithFd, WithNode
  <2>7. ReqRight(t, th[t])'
    BY <1>1, <1>3, <2>4, <2>6 DEF ReqRight
  <2> QED BY <2>4, <2>5, <2>7
<1> QED BY <1>2, <1>3

\* What unref_inode and forget_one rely on.
LEMMA ForgetFacts ==
    ASSUME IInv, NEW t \in Threads, th[t].pc = "forget"
    PROVE  /\ th[t].n \in Nodes /\ th[t].n \in 0 .. MaxNode /\ node[th[t].n].st = "live" /\ node[th[t].n].ref \in Nat
           /\ th[t].cnt \in Nat /\ th[t].cnt > 0 /\ th[t].cnt <= node[th[t].n].ref
           /\ \A u \in Threads : th[u].pc \in {"free", "drop", "erase"} => th[u].n # th[t].n /\ th[u].n \in Nodes
<1>0. /\ TypeOK /\ Once /\ Handles /\ ReqRight(t, th[t]) /\ ReqOK(th[t]) /\ th[t] \in Request
      /\ th \in [Threads -> Request]
  BY Parts DEF Requests, Placed
<1>1. /\ th[t].n \in Nodes /\ node[th[t].n].st = "live" /\ node[th[t].n].ref \in Nat
      /\ th[t].cnt \in Nat /\ th[t].cnt > 0 /\ th[t].cnt <= node[th[t].n].ref
  <2>1. th[t].n \in Nodes /\ th[t].cnt # 0
    BY <1>0 DEF ReqOK, WithNode
  <2>2. th[t].cnt \in Nat
    BY <1>0 DEF Request
  <2>3. node[th[t].n].ref \in Nat
    BY <1>0, <2>1 DEF TypeOK
  <2>4. node[th[t].n].st = "live" /\ th[t].cnt <= node[th[t].n].ref
    BY Parts DEF OwedFacts
  <2> QED BY <2>1, <2>2, <2>3, <2>4
<1>2. \A u \in Threads : th[u].pc \in {"free", "drop", "erase"} => th[u].n # th[t].n
  BY <1>1, Unfreed
<1>3. \A u \in Threads : th[u].pc \in {"free", "drop", "erase"} => th[u].n \in Nodes
  BY Parts DEF Placed, ReqOK, WithNode
<1> QED BY <1>1, <1>2, <1>3, Typed0

\* The references given back are taken off the count.
LEMMA RefDown ==
    ASSUME IInv, NEW t \in Threads, Mine(t), TypeOK', th[t].pc = "forget",
           th'[t].got = th[t].got, th'[t].pc \notin {"dup", "found", "forget"}, klook' = klook,
           \A m \in Nodes \ {th[t].n} : node'[m] = node[m],
           (IF node'[th[t].n].st = "live" THEN node'[th[t].n].ref ELSE 0) = node[th[t].n].ref - th[t].cnt
    PROVE  Refs'
<1> DEFINE n == th[t].n
<1>0. TypeOK /\ Refs /\ th \in [Threads -> Request] /\ th[t] \in Request
  BY Parts DEF Requests
<1>1. th'[t] \in Request /\ th' \in [Threads -> Request] /\ \A u \in Threads \ {t} : th'[u] = th[u]
  BY DEF Mine
<1>2. /\ n \in Nodes /\ node[n].st = "live" /\ node[n].ref \in Nat
      /\ th[t].cnt \in Nat /\ th[t].cnt > 0 /\ th[t].cnt <= node[n].ref
  BY ForgetFacts
<1>4. ASSUME NEW m \in Nodes
      PROVE  klook'[m] + Due(th'[t], m) + (IF node[m].st = "live" THEN node[m].ref ELSE 0)
               = klook[m] + Due(th[t], m) + (IF node'[m].st = "live" THEN node'[m].ref ELSE 0)
  <2>0. klook[m] \in Nat /\ klook'[m] = klook[m] /\ node[m].ref \in Nat
    BY <1>0 DEF TypeOK
  <2>1. PICK c \in Nat : Owe(th[t], th'[t], m, c)
    BY <1>0, <1>1, DueOf
  <2>2. Due(th[t], m) = c + (IF m = n THEN th[t].cnt ELSE 0) /\ Due(th'[t], m) = c
    BY <1>2, <2>1 DEF Answers, Owe
  <2>3. CASE m = n
    <3>1. /\ Due(th[t], m) = c + th[t].cnt /\ node[m].st = "live" /\ node[m].ref = node[n].ref
          /\ (IF node'[m].st = "live" THEN node'[m].ref ELSE 0) = node[n].ref - th[t].cnt
      BY <1>2, <2>2, <2>3
    <3> QED BY <1>2, <2>0, <2>2, <3>1
  <2>4. CASE m # n
    <3>1. node'[m] = node[m] /\ Due(th[t], m) = c
      BY <2>2, <2>4
    <3> QED BY <2>0, <2>2, <3>1
  <2> QED BY <2>3, <2>4
<1>5. Refs'
  BY <1>0, <1>1, <1>4, RefsStep
<1> QED BY <1>5

\* Fewer references.
TakesOff(t) == node' = [node EXCEPT ![th[t].n].ref = @ - th[t].cnt]

\* The count stays a number: a forget gives back no more than the node was told of.
LEMMA TakesOffFacts ==
    ASSUME IInv, NEW t \in Threads, th[t].pc = "forget", TakesOff(t)
    PROVE  /\ node' \in [Nodes -> Object] /\ NodesStay /\ \A m \in Nodes \ {th[t].n} : node'[m] = node[m]
           /\ node'[th[t].n].ref = node[th[t].n].ref - th[t].cnt /\ node'[th[t].n].st = "live"
<1> DEFINE n == th[t].n
           r == node[n].ref - th[t].cnt
<1>1. n \in Nodes /\ node[n].st = "live" /\ r \in Nat
  BY ForgetFacts
<1>2. node \in [Nodes -> Object] /\ node[n] \in Object
  BY <1>1, Parts DEF TypeOK, Object
<1> HIDE DEF r
<1>3. node' = [node EXCEPT ![n].ref = r]
  BY DEF TakesOff, r
<1>4. [node[n] EXCEPT !.ref = r] \in Object
  BY <1>1, <1>2 DEF Object
<1>5. node' \in [Nodes -> Object]
  BY <1>2, <1>3, <1>4
<1>6. /\ node'[n].ref = r /\ node'[n].st = node[n].st /\ node'[n].fd = node[n].fd /\ node'[n].file = node[n].file
      /\ \A m \in Nodes \ {n} : node'[m] = node[m]
  BY <1>1, <1>2, <1>3 DEF Object
<1>7. NodesStay
  BY <1>6 DEF NodesStay
<1> QED BY <1>1, <1>5, <1>6, <1>7 DEF r

\* unref_inode and forget_one when references remain.
LEMMA KeepNode ==
    ASSUME IInv, NEW t \in Threads, th[t].pc = "forget", TakesOff(t), Forgets(t),
           UNCHANGED <<dir, fds, known, klook, hdl, lock, lost, uaf, raced, impl>>
    PROVE  IInv'
<1>0. /\ TypeOK /\ Once /\ Handles /\ th[t] \in Request /\ th \in [Threads -> Request]
  BY Parts DEF Requests
<1>1. /\ node' \in [Nodes -> Object] /\ NodesStay /\ \A m \in Nodes \ {th[t].n} : node'[m] = node[m]
      /\ node'[th[t].n].ref = node[th[t].n].ref - th[t].cnt /\ node'[th[t].n].st = "live"
  BY TakesOffFacts
<1>2. /\ Mine(t) /\ ReqRight(t, th[t])' /\ th'[t].pc \in {"idle", "forgot"}
      /\ th'[t].fd = th[t].fd /\ th'[t].fh = th[t].fh /\ th'[t].got = th[t].got
  BY ForgottenFacts
<1>3. TypeOK'
  BY <1>0, <1>1 DEF TypeOK, Object
<1>4. Refs'
  BY <1>1, <1>2, <1>3, RefDown
<1>5. Once' /\ FdsKept
  BY <1>0, <1>1, <1>2, HoldSame
<1>6. \A u \in Threads \ {t} : th[u].pc \in {"free", "drop", "erase"} => node'[th[u].n] = node[th[u].n]
  BY <1>1, ForgetFacts
<1>7. hdl' \subseteq [fd : Fds, file : Files, n : Nodes]
  BY <1>0 DEF Handles
<1> QED BY <1>1, <1>2, <1>3, <1>4, <1>5, <1>6, <1>7, CountStep

\* A node that nothing refers to leaves the table, with its descriptor.
LEMMA FreeStep ==
    ASSUME IInv, NEW t \in Threads, th[t].pc \in {"free", "erase"}, Forgets(t),
           fds' = Close(node[th[t].n].fd), node' = [node EXCEPT ![th[t].n] = FreeNode],
           UNCHANGED <<dir, klook, hdl, lock, lost, uaf, raced, impl>>, KnownLive',
           \A u \in Threads \ {t} : th[u].pc \in {"free", "drop", "erase", "count"} => th[u].n # th[t].n
    PROVE  IInv'
<1> DEFINE n == th[t].n
           d == node[n].fd
<1>0. /\ TypeOK /\ Once /\ Handles /\ ReqRight(t, th[t]) /\ ReqOK(th[t]) /\ th[t] \in Request
      /\ th \in [Threads -> Request] /\ NodesHold /\ Refs /\ OnePerFile /\ Locks
  BY Parts DEF Requests, Placed
<1>1. /\ n \in Nodes /\ node[n].st # "free" /\ d \in Fds
      /\ (IF node[n].st = "live" THEN node[n].ref ELSE 0) = 0
  <2>1. n \in Nodes
    BY <1>0 DEF ReqOK, WithNode
  <2>2. node[n].st = "gone" \/ (node[n].st = "live" /\ node[n].ref = 0)
    BY <1>0 DEF ReqRight
  <2> QED BY <1>0, <2>1, <2>2 DEF NodesHold
<1>2. /\ Mine(t) /\ ReqRight(t, th[t])' /\ th'[t].pc \in {"idle", "forgot"}
      /\ th'[t].fd = th[t].fd /\ th'[t].fh = th[t].fh /\ th'[t].got = th[t].got
  BY ForgottenFacts
<1>3. fds' = [fds EXCEPT ![d] = NoFile]
  BY DEF Close
<1> HIDE DEF d
<1>4. node'[n].st = "free" /\ (\A m \in Nodes \ {n} : node'[m] = node[m]) /\ node' \in [Nodes -> Object]
  <2>1. FreeNode \in Object /\ FreeNode.st = "free"
    BY Typed0 DEF FreeNode, Object
  <2>2. node \in [Nodes -> Object]
    BY <1>0 DEF TypeOK, Object
  <2> QED BY <1>1, <2>1, <2>2
<1>5. TypeOK'
  <2>1. fds' \in [Fds -> Files \cup {NoFile}]
    BY <1>0, <1>3 DEF TypeOK
  <2>2. \A i \in DOMAIN known' : known'[i] \in Nodes
    BY DEF KnownLive
  <2> QED BY <1>0, <1>4, <2>1, <2>2 DEF TypeOK, Object
<1>6. Once' /\ FdsKept
  <2>1. Has("node", n, d)
    BY <1>1 DEF Has, d
  <2>2. Drops("node", n, d)
    <3> SUFFICES ASSUME NEW k, NEW v, NEW x \in Fds
                 PROVE  Has(k, v, x)' <=> Has(k, v, x) /\ ~(k = "node" /\ v = n /\ x = d)
      BY DEF Drops
    <3>1. CASE k = "node" /\ v = n
      BY <1>4, <3>1 DEF Has, d
    <3>2. CASE k = "node" /\ v # n
      BY <1>4, <3>2 DEF Has
    <3>3. CASE k \in {"newfd", "fh"}
      BY <1>2, <3>3 DEF Has, Mine
    <3>4. CASE k \notin {"node", "newfd", "fh"}
      BY <3>4 DEF Has
    <3> QED BY <3>1, <3>2, <3>3, <3>4
  <2>3. d \in Fds
    BY <1>1 DEF d
  <2>4. fds \in [Fds -> Files \cup {NoFile}]
    BY <1>0 DEF TypeOK
  <2> QED BY <1>0, <1>3, <2>1, <2>2, <2>3, <2>4, OnceClose
<1>7. Refs'
  <2>1. ASSUME NEW m \in Nodes
        PROVE  klook'[m] + Due(th'[t], m) + (IF node[m].st = "live" THEN node[m].ref ELSE 0)
               = klook[m] + Due(th[t], m) + (IF node'[m].st = "live" THEN node'[m].ref ELSE 0)
    <3>1. Due(th'[t], m) = Due(th[t], m)
      <4>1. /\ th[t] \in Request /\ th'[t] \in Request /\ th'[t].got = th[t].got
            /\ th[t].pc \notin {"dup", "found", "forget"} /\ th'[t].pc \notin {"dup", "found", "forget"}
        BY <1>0, <1>2 DEF Mine
      <4> QED BY <4>1, DueSame
    <3>2. (IF node[m].st = "live" THEN node[m].ref ELSE 0) = (IF node'[m].st = "live" THEN node'[m].ref ELSE 0)
      BY <1>1, <1>4
    <3> QED BY <3>1, <3>2
  <2>2. th' \in [Threads -> Request] /\ \A u \in Threads \ {t} : th'[u] = th[u]
    BY <1>2 DEF Mine
  <2> QED BY <1>0, <1>5, <2>1, <2>2, RefsStep
<1>8. OnePerFile'
  BY <1>0, <1>4 DEF OnePerFile
<1>9. hdl' \subseteq [fd : Fds, file : Files, n : Nodes]
  BY <1>0 DEF Handles
<1>10. \A u \in Threads \ {t} : th[u].pc \in {"free", "drop", "erase"} =>
                              node'[th[u].n] = node[th[u].n] /\ lock'[th[u].n] = lock[th[u].n]
  <2>1. \A u \in Threads : th[u].pc \in {"free", "drop", "erase"} => th[u].n \in Nodes
    BY Parts DEF Placed, ReqOK, WithNode
  <2> QED BY <1>4, <2>1
<1>11. /\ \A m \in Nodes : node[m].st # "free" /\ node'[m].st # "free" =>
                              node'[m].fd = node[m].fd /\ node'[m].file = node[m].file
       /\ \A m \in Nodes : node[m].st = "free" /\ node'[m].st # "free" =>
                              node'[m].fd \in Fds /\ fds'[node'[m].fd] = node'[m].file
  BY <1>4
<1>12. th' \in [Threads -> Request] /\ (\A u \in Threads \ {t} : th'[u] = th[u]) /\ Apart(t, th'[t])
  BY <1>2 DEF Mine, Apart
<1>13. Locks'
  BY <1>0, <1>12 DEF Locks
<1>14. \A u \in Threads \ {t} : th[u].pc = "count" => node'[th[u].n].st = "live"
  <2>1. \A u \in Threads : th[u].pc = "count" => th[u].n \in Nodes /\ node[th[u].n].st = "live"
    BY Parts DEF Requests, ReqRight, ReqOK, WithNode
  <2> QED BY <1>4, <2>1
<1> QED BY <1>2, <1>5, <1>6, <1>7, <1>8, <1>9, <1>10, <1>11, <1>12, <1>13, <1>14, Step

\* unref_inode: the last reference takes the object off the list.
LEMMA UnrefStep ==
    ASSUME IInv, NEW t \in Threads, unref_inode(t), impl = "ll", impl' = impl
    PROVE  IInv'
<1> DEFINE n == th[t].n
<1>0. /\ TypeOK /\ Once /\ Handles /\ ReqRight(t, th[t]) /\ ReqOK(th[t]) /\ th[t] \in Request
      /\ th \in [Threads -> Request] /\ Locks /\ OnePerFile
  BY Parts DEF Requests, Placed
<1>1. th[t].pc = "forget" /\ UNCHANGED <<dir, fds, klook, hdl, lock, faults, lost, uaf, raced>>
  BY DEF unref_inode
<1>2. /\ n \in Nodes /\ node[n].st = "live" /\ node[n].ref \in Nat /\ th[t].cnt \in Nat
      /\ \A u \in Threads : th[u].pc \in {"free", "drop", "erase"} => th[u].n # n /\ th[u].n \in Nodes
  BY <1>1, ForgetFacts
<1>3. CASE TakesOff(t) /\ Forgets(t) /\ UNCHANGED known
  BY <1>1, <1>3, KeepNode
<1>4. CASE /\ node[n].ref = th[t].cnt /\ node' = [node EXCEPT ![n].ref = 0, ![n].st = "gone"]
           /\ known' = Without(n) /\ th' = [th EXCEPT ![t].pc = "free", ![t].cnt = 0]
  <2>1. th' = [th EXCEPT ![t].pc = "free", ![t].cnt = 0] /\ "free" \in Places
    BY <1>4 DEF Places
  <2>2. /\ th'[t] \in Request /\ th'[t].pc = "free" /\ th'[t].file = th[t].file /\ th'[t].fd = th[t].fd
        /\ th'[t].op = th[t].op /\ th'[t].i = th[t].i /\ th'[t].n = th[t].n /\ th'[t].cnt = 0
        /\ th'[t].fh = th[t].fh /\ th'[t].got = th[t].got
    BY <1>0, <2>1, Typed0 DEF Request
  <2>3. Mine(t)
    BY <1>0, <2>1, <2>2 DEF Mine
  <2>4. ReqOK(th'[t])
    BY <1>0, <1>1, <1>2, <2>2 DEF ReqOK, Looking, LookOps, WithFd, WithNode
  <2> HIDE DEF n
  <2>5. /\ node' \in [Nodes -> Object] /\ (\A m \in Nodes \ {n} : node'[m] = node[m])
        /\ node'[n].st = "gone" /\ node'[n].fd = node[n].fd /\ node'[n].file = node[n].file
    <3>1. node \in [Nodes -> Object] /\ node[n] \in Object
      BY <1>0, <1>2 DEF TypeOK, Object
    <3>2. [node[n] EXCEPT !.ref = 0, !.st = "gone"] \in Object
      BY <3>1 DEF Object
    <3>3. node' = [node EXCEPT ![n] = [node[n] EXCEPT !.ref = 0, !.st = "gone"]]
      BY <1>4
    <3> QED BY <1>2, <3>1, <3>2, <3>3 DEF Object
  <2>6. KnownLive'
    <3>1. node'[n].st # "live" /\ known' = Without(n)
      BY <1>4, <2>5
    <3> QED BY <1>2, <2>5, <3>1, KnownLess
  <2>7. TypeOK'
    <3>1. \A i \in DOMAIN known' : known'[i] \in Nodes
      BY <2>6 DEF KnownLive
    <3> QED BY <1>0, <1>1, <2>5, <3>1 DEF TypeOK, Object
  <2>8. ReqRight(t, th[t])'
    <3>1. th[t].op \notin {"create", "link"} /\ th[t].fd = 0 /\ th'[t].n = n
      BY <1>0, <1>1, <2>2 DEF ReqOK, WithFd, n
    <3> QED BY <2>2, <2>4, <2>5, <3>1 DEF ReqRight
  <2>9. Once' /\ FdsKept
    <3>1. \A m \in Nodes : node'[m].fd = node[m].fd /\ (node'[m].st = "free" <=> node[m].st = "free")
      BY <1>2, <2>5
    <3>2. \A k, v : \A x \in Fds : Has(k, v, x)' <=> Has(k, v, x)
      BY <1>1, <2>2, <2>3, <3>1 DEF Has, Mine
    <3> QED BY <1>0, <1>1, <3>2, OnceKeep
  <2>10. Refs'
    <3>1. (IF node'[th[t].n].st = "live" THEN node'[th[t].n].ref ELSE 0) = node[th[t].n].ref - th[t].cnt
      <4>1. (IF node'[n].st = "live" THEN node'[n].ref ELSE 0) = 0
        BY <2>5
      <4>2. node[n].ref = th[t].cnt /\ th[t].cnt \in Nat
        BY <1>2, <1>4
      <4>3. node[n].ref - th[t].cnt = 0
        BY <4>2
      <4> QED BY <4>1, <4>3 DEF n
    <3>2. \A m \in Nodes \ {th[t].n} : node'[m] = node[m]
      BY <2>5 DEF n
    <3> QED BY <1>1, <2>2, <2>3, <2>7, <3>1, <3>2, RefDown
  <2>11. Locks'
    BY <1>0, <1>1, <2>3 DEF Locks, Mine
  <2>12. OnePerFile'
    BY <1>0, <2>5 DEF OnePerFile
  <2>13. /\ \A m \in Nodes : node[m].st # "free" /\ node'[m].st # "free" =>
                               node'[m].fd = node[m].fd /\ node'[m].file = node[m].file
         /\ \A m \in Nodes : node[m].st = "free" /\ node'[m].st # "free" =>
                               node'[m].fd \in Fds /\ fds'[node'[m].fd] = node'[m].file
    BY <1>2, <2>5
  <2>14. \A u \in Threads \ {t} : th[u].pc \in {"free", "drop", "erase"} =>
                               node'[th[u].n] = node[th[u].n] /\ lock'[th[u].n] = lock[th[u].n]
    BY <1>1, <1>2, <2>5
  <2>15. Apart(t, th'[t])
    BY <1>2, <2>2 DEF n, Apart
  <2>15a. \A u \in Threads \ {t} : th[u].pc = "count" => node'[th[u].n].st = "live"
    BY Parts DEF Requests, ReqRight
  <2>16. th' \in [Threads -> Request] /\ \A u \in Threads \ {t} : th'[u] = th[u]
    BY <2>3 DEF Mine
  <2>17. hdl' \subseteq [fd : Fds, file : Files, n : Nodes] /\ hdl' = hdl /\ klook' = klook /\ dir' = dir
    BY <1>0, <1>1 DEF Handles
  <2> QED BY <2>6, <2>7, <2>8, <2>9, <2>10, <2>11, <2>12, <2>13, <2>14, <2>15, <2>15a, <2>16, <2>17, Step
<1> QED BY <1>3, <1>4 DEF unref_inode, TakesOff, Forgets

\* forget_one: the last reference keeps the mutex of the object.
LEMMA ForgetOneStep ==
    ASSUME IInv, NEW t \in Threads, forget_one(t), impl = "hp", impl' = impl, ~raced'
    PROVE  IInv'
<1> DEFINE n == th[t].n
<1>0. /\ TypeOK /\ Once /\ Handles /\ ReqRight(t, th[t]) /\ ReqOK(th[t]) /\ th[t] \in Request
      /\ th \in [Threads -> Request] /\ Locks /\ OnePerFile /\ KnownLive
  BY Parts DEF Requests, Placed
<1>1. th[t].pc = "forget" /\ UNCHANGED <<dir, fds, known, klook, hdl, faults, lost>>
  BY DEF forget_one
<1>2. /\ n \in Nodes /\ node[n].st = "live" /\ node[n].ref \in Nat /\ th[t].cnt \in Nat
      /\ \A u \in Threads : th[u].pc \in {"free", "drop", "erase"} => th[u].n # n /\ th[u].n \in Nodes
  BY <1>1, ForgetFacts
<1>2a. TakesOff(t) /\ UNCHANGED uaf
  BY <1>2 DEF forget_one, get_inode, TakesOff
<1>3. CASE Forgets(t) /\ UNCHANGED <<lock, raced>>
  BY <1>1, <1>2a, <1>3, KeepNode
<1>4. CASE /\ node[n].ref = th[t].cnt /\ lock' = [lock EXCEPT ![n] = t]
           /\ th' = [th EXCEPT ![t].pc = "drop", ![t].cnt = 0]
           /\ raced' = (raced \/ Awaited(n))
  <2>0. raced' = FALSE /\ \A u \in Threads : th[u].pc = "count" => th[u].n # n
    BY <1>4 DEF Awaited
  <2>1. th' = [th EXCEPT ![t].pc = "drop", ![t].cnt = 0] /\ "drop" \in Places
    BY <1>4 DEF Places
  <2>2. /\ th'[t] \in Request /\ th'[t].pc = "drop" /\ th'[t].file = th[t].file /\ th'[t].fd = th[t].fd
        /\ th'[t].op = th[t].op /\ th'[t].i = th[t].i /\ th'[t].n = th[t].n /\ th'[t].cnt = 0
        /\ th'[t].fh = th[t].fh /\ th'[t].got = th[t].got
    BY <1>0, <2>1, Typed0 DEF Request
  <2>3. Mine(t)
    BY <1>0, <2>1, <2>2 DEF Mine
  <2>4. ReqOK(th'[t])
    BY <1>0, <1>1, <1>2, <2>2 DEF ReqOK, Looking, LookOps, WithFd, WithNode
  <2>5. /\ node' \in [Nodes -> Object] /\ NodesStay /\ (\A m \in Nodes \ {n} : node'[m] = node[m])
        /\ node'[n].st = "live" /\ node'[n].ref = 0
    <3>1. /\ node' \in [Nodes -> Object] /\ NodesStay /\ (\A m \in Nodes \ {n} : node'[m] = node[m])
          /\ node'[n].st = "live" /\ node'[n].ref = node[n].ref - th[t].cnt
      BY <1>1, <1>2a, TakesOffFacts
    <3>2. node[n].ref - th[t].cnt = 0
      BY <1>2, <1>4
    <3> QED BY <3>1, <3>2
  <2> HIDE DEF n
  <2>6. lock'[n] = t /\ (\A m \in Nodes \ {n} : lock'[m] = lock[m])
        /\ lock' \in [Nodes \cup {0} -> Threads \cup {NoThread}]
    BY <1>0, <1>2, <1>4 DEF TypeOK
  <2>7. KnownLive'
    BY <1>0, <1>1, <2>5 DEF KnownLive, NodesStay
  <2>8. TypeOK'
    BY <1>0, <1>1, <1>2a, <2>0, <2>5, <2>6 DEF TypeOK, Object
  <2>9. ReqRight(t, th[t])'
    <3>1. th[t].op \notin {"create", "link"} /\ th[t].fd = 0 /\ th'[t].n = n
      BY <1>0, <1>1, <2>2 DEF ReqOK, WithFd, n
    <3> QED BY <2>2, <2>4, <2>5, <2>6, <3>1 DEF ReqRight
  <2>10. Once' /\ FdsKept
    BY <1>0, <1>1, <2>2, <2>3, <2>5, HoldSame
  <2>11. Refs'
    <3>1. (IF node'[th[t].n].st = "live" THEN node'[th[t].n].ref ELSE 0) = node[th[t].n].ref - th[t].cnt
      <4>1. node[n].ref - th[t].cnt = 0 /\ (IF node'[n].st = "live" THEN node'[n].ref ELSE 0) = 0
        BY <1>2, <1>4, <2>5
      <4> QED BY <4>1 DEF n
    <3>2. \A m \in Nodes \ {th[t].n} : node'[m] = node[m]
      BY <2>5 DEF n
    <3> QED BY <1>1, <2>2, <2>3, <2>8, <3>1, <3>2, RefDown
  <2>12. Locks'
    <3> SUFFICES ASSUME NEW m \in Nodes, lock'[m] # NoThread
                 PROVE  lock'[m] \in Threads /\ th'[lock'[m]].pc = "drop" /\ th'[lock'[m]].n = m
      BY DEF Locks
    <3>1. CASE m = n
      BY <2>2, <2>6, <3>1 DEF n
    <3>2. CASE m # n
      <4>1. lock'[m] = lock[m] /\ lock[m] \in Threads /\ th[lock[m]].pc = "drop" /\ th[lock[m]].n = m
        BY <1>0, <2>6, <3>2 DEF Locks
      <4>2. th'[lock[m]] = th[lock[m]]
        BY <1>1, <2>3, <4>1 DEF Mine
      <4> QED BY <4>1, <4>2
    <3> QED BY <3>1, <3>2
  <2>13. OnePerFile'
    BY <1>0, <2>5 DEF OnePerFile, NodesStay
  <2>14. /\ \A m \in Nodes : node[m].st # "free" /\ node'[m].st # "free" =>
                               node'[m].fd = node[m].fd /\ node'[m].file = node[m].file
         /\ \A m \in Nodes : node[m].st = "free" /\ node'[m].st # "free" =>
                               node'[m].fd \in Fds /\ fds'[node'[m].fd] = node'[m].file
    BY <2>5 DEF NodesStay
  <2>15. \A u \in Threads \ {t} : th[u].pc \in {"free", "drop", "erase"} =>
                               node'[th[u].n] = node[th[u].n] /\ lock'[th[u].n] = lock[th[u].n]
    BY <1>2, <2>5, <2>6
  <2>16. th' \in [Threads -> Request] /\ \A u \in Threads \ {t} : th'[u] = th[u]
    BY <2>2, <2>3 DEF Mine
  <2>16a. Apart(t, th'[t])
    BY <1>2, <2>0, <2>2 DEF Apart, n
  <2>16b. \A u \in Threads \ {t} : th[u].pc = "count" => node'[th[u].n].st = "live"
    <3>1. \A u \in Threads : th[u].pc = "count" => th[u].n \in Nodes /\ node[th[u].n].st = "live"
      BY Parts DEF Requests, ReqRight, ReqOK, WithNode
    <3> QED BY <2>5, <3>1 DEF NodesStay
  <2>17. hdl' \subseteq [fd : Fds, file : Files, n : Nodes] /\ hdl' = hdl /\ klook' = klook /\ dir' = dir
    BY <1>0, <1>1 DEF Handles
  <2> QED BY <2>7, <2>8, <2>9, <2>10, <2>11, <2>12, <2>13, <2>14, <2>15, <2>16, <2>16a, <2>16b, <2>17, Step
<1> QED BY <1>2, <1>3, <1>4 DEF forget_one, get_inode, Forgets

\* forget_one takes fs.mutex and releases the mutex of the object.
LEMMA UnlockStep ==
    ASSUME IInv, NEW t \in Threads, forget_one_unlock(t), impl' = impl
    PROVE  IInv'
<1> DEFINE n == th[t].n
<1>0. /\ TypeOK /\ Once /\ Handles /\ ReqRight(t, th[t]) /\ ReqOK(th[t]) /\ th[t] \in Request
      /\ th \in [Threads -> Request] /\ Locks /\ OnePerFile /\ KnownLive /\ Freeing /\ Refs
  BY Parts DEF Requests, Placed
<1>1. th[t].pc = "drop" /\ UNCHANGED <<dir, fds, node, known, klook, hdl, faults, lost, raced>>
  BY DEF forget_one_unlock
<1>2. /\ n \in Nodes /\ impl = "hp" /\ node[n].st = "live" /\ node[n].ref = 0 /\ th[t].cnt = 0
      /\ th[t].fd = 0 /\ th[t].op \in {"forget", "readdirplus"}
  BY <1>0, <1>1 DEF ReqOK, ReqRight, WithNode, WithFd
<1>3. lock' = [lock EXCEPT ![n] = NoThread] /\ th' = [th EXCEPT ![t].pc = "erase"] /\ uaf' = uaf
  BY <1>2 DEF forget_one_unlock, get_inode
<1>4. /\ th'[t] \in Request /\ th'[t].pc = "erase" /\ th'[t].file = th[t].file /\ th'[t].fd = th[t].fd
      /\ th'[t].op = th[t].op /\ th'[t].i = th[t].i /\ th'[t].n = th[t].n /\ th'[t].cnt = th[t].cnt
      /\ th'[t].fh = th[t].fh /\ th'[t].got = th[t].got
  <2>1. "erase" \in Places
    BY DEF Places
  <2> QED BY <1>0, <1>3, <2>1 DEF Request
<1>5. Mine(t)
  BY <1>0, <1>3, <1>4 DEF Mine
<1>6. ReqOK(th'[t])
  BY <1>0, <1>1, <1>2, <1>4 DEF ReqOK, Looking, LookOps, WithFd, WithNode
<1>7. ReqRight(t, th[t])'
  BY <1>1, <1>2, <1>4, <1>6 DEF ReqRight
<1>8. /\ lock'[n] = NoThread /\ (\A m \in Nodes \ {n} : lock'[m] = lock[m])
      /\ lock' \in [Nodes \cup {0} -> Threads \cup {NoThread}]
  BY <1>0, <1>2, <1>3 DEF TypeOK
<1>9. TypeOK'
  BY <1>0, <1>1, <1>3, <1>8 DEF TypeOK
<1>10. NodesStay
  BY <1>1 DEF NodesStay
<1>11. Once' /\ FdsKept
  BY <1>0, <1>1, <1>4, <1>5, <1>10, HoldSame
<1>12. Refs'
  <2>1. /\ th[t] \in Request /\ th'[t] \in Request /\ th'[t].got = th[t].got
        /\ th[t].pc \notin {"dup", "found", "forget"} /\ th'[t].pc \notin {"dup", "found", "forget"}
    BY <1>0, <1>1, <1>4
  <2>2. \A m : Due(th'[t], m) = Due(th[t], m)
    BY <2>1, DueSame
  <2>3. \A m \in Nodes :
             klook'[m] + Due(th'[t], m) + (IF node[m].st = "live" THEN node[m].ref ELSE 0)
               = klook[m] + Due(th[t], m) + (IF node'[m].st = "live" THEN node'[m].ref ELSE 0)
    BY <1>1, <2>2
  <2>4. th' \in [Threads -> Request] /\ \A u \in Threads \ {t} : th'[u] = th[u]
    BY <1>5 DEF Mine
  <2> QED BY <1>0, <1>9, <2>3, <2>4, RefsStep
<1>13. Locks'
  <2> SUFFICES ASSUME NEW m \in Nodes, lock'[m] # NoThread
               PROVE  impl = "hp" /\ lock'[m] \in Threads /\ th'[lock'[m]].pc = "drop" /\ th'[lock'[m]].n = m
    BY DEF Locks
  <2>1. m # n /\ lock'[m] = lock[m]
    BY <1>8
  <2>2. impl = "hp" /\ lock[m] \in Threads /\ th[lock[m]].pc = "drop" /\ th[lock[m]].n = m
    BY <1>0, <2>1 DEF Locks
  <2>3. lock[m] # t
    BY <2>1, <2>2
  <2> QED BY <1>5, <2>1, <2>2, <2>3 DEF Mine
<1>14. KnownLive' /\ OnePerFile'
  BY <1>0, <1>1 DEF KnownLive, OnePerFile
<1>15. \A u \in Threads \ {t} : th[u].pc \in {"free", "drop", "erase"} => th[u].n \in Nodes /\ th[u].n # n
  BY Parts, <1>1 DEF Freeing, Placed, ReqOK, WithNode
<1>16. \A u \in Threads \ {t} : th[u].pc \in {"free", "drop", "erase"} =>
                               node'[th[u].n] = node[th[u].n] /\ lock'[th[u].n] = lock[th[u].n]
  BY <1>1, <1>8, <1>15
<1>17. \A u \in Threads \ {t} : th[u].pc = "count" => node'[th[u].n].st = "live"
  BY Parts, <1>1 DEF Requests, ReqRight
<1>18. Apart(t, th'[t])
  BY Parts, <1>1, <1>4, <1>15 DEF Apart, Freeing
<1>19. hdl' \subseteq [fd : Fds, file : Files, n : Nodes] /\ hdl' = hdl /\ klook' = klook /\ dir' = dir
  BY <1>0, <1>1 DEF Handles
<1>20. th' \in [Threads -> Request] /\ \A u \in Threads \ {t} : th'[u] = th[u]
  BY <1>5 DEF Mine
<1>21. /\ \A m \in Nodes : node[m].st # "free" /\ node'[m].st # "free" =>
                              node'[m].fd = node[m].fd /\ node'[m].file = node[m].file
       /\ \A m \in Nodes : node[m].st = "free" /\ node'[m].st # "free" =>
                              node'[m].fd \in Fds /\ fds'[node'[m].fd] = node'[m].file
  BY <1>1
<1> QED BY <1>7, <1>9, <1>11, <1>12, <1>13, <1>14, <1>16, <1>17, <1>18, <1>19, <1>20, <1>21, Step

\* unref_inode after the critical section
LEMMA UnrefFreeStep ==
    ASSUME IInv, NEW t \in Threads, unref_inode_free(t), impl' = impl
    PROVE  IInv'
<1>0. ReqRight(t, th[t]) /\ TypeOK /\ KnownLive /\ Locks /\ Freeing /\ th[t].n \in Nodes
  BY Parts DEF Requests, unref_inode_free, ReqRight, ReqOK, WithNode
<1>1. /\ th[t].pc = "free" /\ fds' = Close(node[th[t].n].fd) /\ Forgets(t)
      /\ UNCHANGED <<dir, known, klook, hdl, lock, faults, lost, uaf, raced>>
  BY DEF unref_inode_free, Forgets
<1>1a. node' = [node EXCEPT ![th[t].n] = FreeNode]
  BY DEF unref_inode_free
<1>2. node[th[t].n].st = "gone"
  BY <1>0, <1>1 DEF ReqRight
<1>3. \A u \in Threads \ {t} : th[u].pc \in {"free", "drop", "erase", "count"} => th[u].n # th[t].n
  <2>1. \A u \in Threads : th[u].pc = "count" => node[th[u].n].st = "live"
    BY Parts DEF Requests, ReqRight
  <2> QED BY <1>0, <1>1, <1>2, <2>1 DEF Freeing
<1>4. Mine(t)
  BY <1>1, ForgottenFacts
<1>5. \A m \in Nodes : node'[m].st = "live" <=> node[m].st = "live"
  <2>1. node'[th[t].n].st = "free" /\ \A m \in Nodes \ {th[t].n} : node'[m] = node[m]
    BY <1>0, <1>1a DEF TypeOK, FreeNode
  <2> QED BY <1>2, <2>1
<1>6. KnownLive'
  BY <1>0, <1>1, <1>5 DEF KnownLive
<1> QED BY <1>1, <1>1a, <1>3, <1>6, FreeStep

\* forget_one with fs.mutex
LEMMA EraseStep ==
    ASSUME IInv, NEW t \in Threads, forget_one_erase(t), impl' = impl
    PROVE  IInv'
<1> DEFINE n == th[t].n
<1>0. ReqRight(t, th[t]) /\ TypeOK /\ KnownLive /\ Locks /\ Freeing /\ n \in Nodes
  BY Parts DEF Requests, forget_one_erase, ReqRight, ReqOK, WithNode
<1>1. /\ th[t].pc = "erase" /\ fds' = Close(node[n].fd) /\ Forgets(t) /\ known' = Without(n)
      /\ UNCHANGED <<dir, klook, hdl, lock, faults, lost, uaf, raced>>
  BY DEF forget_one_erase, Forgets
<1>2. node[n].st = "live" /\ node[n].ref = 0
  BY <1>0, <1>1 DEF ReqRight
<1>3. \A u \in Threads \ {t} : th[u].pc \in {"free", "drop", "erase", "count"} => th[u].n # n
  BY <1>0, <1>1 DEF Freeing
<1>3a. lock[n] = NoThread
  BY <1>0, <1>1, <1>3 DEF Locks
<1>3b. ~Awaited(n)
  BY <1>1, <1>3 DEF Awaited
<1>3c. node' = [node EXCEPT ![n] = FreeNode]
  BY <1>2, <1>3a, <1>3b DEF forget_one_erase, Unlocked
<1> HIDE DEF n
<1>5. node'[n].st = "free" /\ \A m \in Nodes \ {n} : node'[m] = node[m]
  BY <1>0, <1>3c DEF TypeOK, FreeNode
<1>6. KnownLive'
  BY <1>0, <1>1, <1>2, <1>5, KnownLess
<1> QED BY <1>1, <1>3, <1>3c, <1>6, FreeStep DEF n

---------------------------------------------------------------------------
(***************************************************************************)
(* Requests answered at once.                                              *)
(***************************************************************************)
\* No thread moves: what is to be shown is about the descriptors and the open files.
LEMMA QuietStep ==
    ASSUME IInv, UNCHANGED <<node, known, klook, th, lock, impl>>, TypeOK', Once', FdsKept,
           dir' = dir \/ \A u \in Threads : th[u].op # "create",
           hdl' \subseteq [fd : Fds, file : Files, n : Nodes],
           \A h \in hdl' \ hdl : klook'[h.n] > 0 /\ h.file = node'[h.n].file /\ fds'[h.fd] = h.file
    PROVE  IInv'
<1>0. /\ TypeOK /\ impl \in Impl /\ Requests /\ Handles /\ NodesHold /\ KnownLive /\ Locks
      /\ Freeing /\ OnePerFile /\ Refs
  BY Parts
<1>1. ASSUME NEW u \in Threads PROVE ReqRight(u, th[u])'
  <2>0. ReqRight(u, th[u]) /\ ReqOK(th[u]) /\ th'[u] = th[u] /\ ReqOK(th[u])'
    BY <1>0 DEF Requests, ReqRight
  <2>1. th[u].fd # 0 => fds'[th[u].fd] = fds[th[u].fd]
    <3>1. ASSUME th[u].fd # 0 PROVE th[u].fd \in Fds /\ Has("newfd", u, th[u].fd) /\ Has("newfd", u, th[u].fd)'
      BY <2>0, <3>1, OwnFds DEF Has
    <3> QED BY <3>1 DEF FdsKept
  <2>2. th[u].op = "create" => fds'[th[u].fh] = fds[th[u].fh] /\ dir' = dir
    <3>1. ASSUME th[u].op = "create" PROVE th[u].fh \in Fds /\ Has("fh", u, th[u].fh) /\ Has("fh", u, th[u].fh)'
      <4>1. th[u].fh # 0
        BY <2>0, <3>1 DEF ReqOK
      <4> QED BY <2>0, <4>1, OwnFds DEF Has
    <3> QED BY <3>1 DEF FdsKept
  <2> QED BY <2>0, <2>1, <2>2 DEF ReqRight
<1>2. Requests'
  BY <1>0, <1>1 DEF Requests
<1>3. Handles'
  <2> SUFFICES ASSUME NEW h \in hdl' PROVE klook'[h.n] > 0 /\ h.file = node'[h.n].file /\ fds'[h.fd] = h.file
    BY DEF Handles
  <2>1. CASE h \in hdl
    <3>1. /\ h.fd \in Fds /\ h.n \in Nodes /\ klook[h.n] > 0 /\ h.file = node[h.n].file /\ fds[h.fd] = h.file
      BY <1>0, <2>1 DEF Handles
    <3>2. Has("handle", h, h.fd) /\ Has("handle", h, h.fd)'
      BY <2>1 DEF Has
    <3>3. fds'[h.fd] = fds[h.fd]
      BY <3>1, <3>2 DEF FdsKept
    <3> QED BY <3>1, <3>3
  <2>2. CASE h \notin hdl
    BY <2>2
  <2> QED BY <2>1, <2>2
<1>4. NodesHold'
  <2> SUFFICES ASSUME NEW n \in Nodes, node[n].st # "free"
               PROVE  node[n].fd \in Fds /\ fds'[node[n].fd] = node[n].file
    BY DEF NodesHold
  <2>1. node[n].fd \in Fds /\ fds[node[n].fd] = node[n].file
    BY <1>0 DEF NodesHold
  <2>2. Has("node", n, node[n].fd) /\ Has("node", n, node[n].fd)'
    BY DEF Has
  <2> QED BY <2>1, <2>2 DEF FdsKept
<1>5. KnownLive' /\ Locks'
  BY <1>0 DEF KnownLive, Locks
<1>6. Freeing' /\ OnePerFile'
  BY <1>0 DEF Freeing, OnePerFile
<1>7. Refs'
  <2>1. \A n : InFlight(n)' = InFlight(n) /\ Returned(n)' = Returned(n)
    BY DEF InFlight, Returned
  <2> QED BY <1>0, <2>1 DEF Refs
<1> QED BY <1>0, <1>2, <1>3, <1>4, <1>5, <1>6, <1>7 DEF IInv

\* unlink, rmdir, rename: no create is under way.
LEMMA DirStep ==
    ASSUME IInv, UNCHANGED <<fds, node, known, klook, hdl, th, lock, lost, uaf, raced, impl>>,
           DirFree(Changing), dir' \in [Names -> Files \cup {NoFile}]
    PROVE  IInv'
<1>1. TypeOK'
  BY Parts DEF TypeOK
<1>2. \A k, v : \A x \in Fds : Has(k, v, x)' <=> Has(k, v, x)
  BY DEF Has
<1>3. Once' /\ FdsKept
  BY <1>2, Parts, OnceKeep
<1>4. \A u \in Threads : th[u].op # "create"
  BY DEF DirFree, Changing
<1>5. hdl' = hdl /\ hdl' \subseteq [fd : Fds, file : Files, n : Nodes]
  BY Parts DEF Handles
<1> QED BY <1>1, <1>3, <1>4, <1>5, QuietStep

\* unlink and rmdir
LEMMA RemoveStep ==
    ASSUME IInv, NEW i \in Names, Remove(i),
           UNCHANGED <<fds, node, known, klook, hdl, th, lock, lost, uaf, raced, impl>>
    PROVE  IInv'
<1>1. DirFree(Changing)
  BY DEF Remove, DirFree
<1>2. dir' \in [Names -> Files \cup {NoFile}]
  BY Parts DEF Remove, TypeOK
<1> QED BY <1>1, <1>2, DirStep

\* rename
LEMMA RenameStep ==
    ASSUME IInv, NEW i \in Names, NEW j \in Names, RenameTo(i, j),
           UNCHANGED <<fds, node, known, klook, hdl, th, lock, lost, uaf, raced, impl>>
    PROVE  IInv'
<1>1. DirFree(Changing)
  BY DEF RenameTo, DirFree
<1>2. dir \in [Names -> Files \cup {NoFile}]
  BY Parts DEF TypeOK
<1>3. dir' \in [Names -> Files \cup {NoFile}]
  BY <1>2 DEF RenameTo
<1> QED BY <1>1, <1>3, DirStep

\* open of a node's file: the descriptor goes to the open file.
LEMMA OpenStep ==
    ASSUME IInv, NEW n \in Nodes, lo_open(n) \/ sfs_open(n), impl' = impl
    PROVE  IInv'
<1> DEFINE d == LowFd(fds)
           h0 == [fd |-> d, file |-> node[n].file, n |-> n]
<1>0. TypeOK /\ Once /\ Handles /\ NodesHold /\ OwedFacts
  BY Parts
<1>1. /\ klook[n] > 0 /\ FreeFds(fds) # {} /\ hdl' = hdl \cup {h0}
      /\ UNCHANGED <<dir, node, known, klook, th, lock, faults, lost, uaf, raced>>
  BY DEF lo_open, sfs_open
<1>2. d \in Fds /\ fds[d] = NoFile
  BY <1>1, LowFdIs
<1>3. node[n].file \in Files
  <2>1. node[n].st # "free"
    BY <1>0, <1>1 DEF OwedFacts
  <2>2. node[n].fd \in Fds /\ fds[node[n].fd] = node[n].file /\ Has("node", n, node[n].fd)
    BY <1>0, <2>1 DEF NodesHold, Has
  <2> QED BY <1>0, <2>2 DEF Once, TypeOK
<1>4. fds' = [fds EXCEPT ![d] = node[n].file]
  BY DEF lo_open, sfs_open, Open
<1> HIDE DEF d
<1>5. Gains("handle", h0, d)
  <2> SUFFICES ASSUME NEW k, NEW v, NEW x \in Fds
               PROVE  Has(k, v, x)' <=> Has(k, v, x) \/ (k = "handle" /\ v = h0 /\ x = d)
    BY DEF Gains
  <2>1. h0.fd = d
    OBVIOUS
  <2> HIDE DEF h0
  <2>2. CASE k = "handle"
    BY <1>1, <2>1, <2>2 DEF Has
  <2>3. CASE k # "handle"
    BY <1>1, <2>3 DEF Has
  <2> QED BY <2>2, <2>3
<1>6. fds \in [Fds -> Files \cup {NoFile}]
  BY <1>0 DEF TypeOK
<1>7. Once' /\ FdsKept
  BY <1>0, <1>2, <1>3, <1>4, <1>5, <1>6, OnceOpen
<1>8. TypeOK'
  BY <1>0, <1>1, <1>3, <1>4 DEF TypeOK
<1>9. hdl' \subseteq [fd : Fds, file : Files, n : Nodes]
  BY <1>0, <1>1, <1>2, <1>3 DEF Handles
<1>10. fds'[d] = node[n].file
  BY <1>2, <1>4, <1>6
<1>11. \A h \in hdl' \ hdl : klook'[h.n] > 0 /\ h.file = node'[h.n].file /\ fds'[h.fd] = h.file
  BY <1>1, <1>10
<1> QED BY <1>1, <1>7, <1>8, <1>9, <1>11, QuietStep

\* release closes it.
LEMMA ReleaseStep ==
    ASSUME IInv, NEW h \in hdl, lo_release(h) \/ sfs_release(h), impl' = impl
    PROVE  IInv'
<1>0. TypeOK /\ Once /\ Handles
  BY Parts
<1>1. /\ hdl' = hdl \ {h} /\ UNCHANGED <<dir, node, known, klook, th, lock, faults, lost, uaf, raced>>
  BY DEF lo_release, sfs_release
<1>2. fds' = [fds EXCEPT ![h.fd] = NoFile]
  BY DEF lo_release, sfs_release, Close
<1>3. h.fd \in Fds /\ Has("handle", h, h.fd)
  BY <1>0 DEF Handles, Has
<1>4. Drops("handle", h, h.fd)
  <2> SUFFICES ASSUME NEW k, NEW v, NEW x \in Fds
               PROVE  Has(k, v, x)' <=> Has(k, v, x) /\ ~(k = "handle" /\ v = h /\ x = h.fd)
    BY DEF Drops
  <2>1. CASE k = "handle"
    BY <1>1, <2>1 DEF Has
  <2>2. CASE k # "handle"
    BY <1>1, <2>2 DEF Has
  <2> QED BY <2>1, <2>2
<1>5. fds \in [Fds -> Files \cup {NoFile}]
  BY <1>0 DEF TypeOK
<1>6. Once' /\ FdsKept
  BY <1>0, <1>2, <1>3, <1>4, <1>5, OnceClose
<1>7. TypeOK'
  BY <1>0, <1>1, <1>2 DEF TypeOK
<1>8. hdl' \subseteq [fd : Fds, file : Files, n : Nodes] /\ hdl' \ hdl = {}
  BY <1>0, <1>1 DEF Handles
<1> QED BY <1>1, <1>6, <1>7, <1>8, QuietStep

---------------------------------------------------------------------------
(***************************************************************************)
(* The invariant holds.                                                    *)
(***************************************************************************)
\* The file system has just been mounted.
LEMMA InitOK == Init => IInv
<1> SUFFICES ASSUME Init PROVE IInv
  OBVIOUS
<1>1. InitWorld /\ impl \in Impl
  BY DEF Init
<1>2. \A n \in Nodes : node[n].st = "free" /\ klook[n] = 0
  BY <1>1 DEF InitWorld, FreeNode
<1>3. \A t \in Threads : th[t] = Idle
  BY <1>1 DEF InitWorld
<1>4. TypeOK
  <2>1. FreeNode \in Object
    BY Typed0 DEF FreeNode, Object
  <2>2. node \in [Nodes -> Object]
    BY <1>1, <2>1 DEF InitWorld
  <2>3. klook \in [Nodes -> Nat] /\ lock \in [Nodes \cup {0} -> Threads \cup {NoThread}]
    BY <1>1 DEF InitWorld
  <2>4. known = <<>> /\ \A i \in DOMAIN known : known[i] \in Nodes
    BY <1>1 DEF InitWorld
  <2>5. fds \in [Fds -> Files \cup {NoFile}] /\ dir \in [Names -> Files \cup {NoFile}]
    BY <1>1 DEF InitWorld
  <2>6. lost \in SUBSET Fds /\ uaf \in BOOLEAN /\ raced \in BOOLEAN
    BY <1>1 DEF InitWorld
  <2> QED BY <2>2, <2>3, <2>4, <2>5, <2>6 DEF TypeOK, Object
<1>5. Requests
  <2>1. /\ Idle \in Request /\ Idle.pc = "idle" /\ Idle.op = "none" /\ Idle.fd = 0 /\ Idle.fh = 0
        /\ Idle.cnt = 0 /\ Idle.got = <<>>
    BY DueIdle DEF Idle
  <2>2. ReqOK(Idle)
    BY <2>1 DEF ReqOK, Looking, LookOps, WithFd, WithNode
  <2>3. \A t \in Threads : ReqRight(t, Idle)
    BY <2>1, <2>2 DEF ReqRight
  <2>4. th \in [Threads -> Request]
    BY <1>1, <2>1 DEF InitWorld
  <2> QED BY <1>3, <2>3, <2>4 DEF Requests
<1>6. Handles /\ NodesHold /\ KnownLive
  <2>1. hdl = {} /\ known = <<>>
    BY <1>1 DEF InitWorld
  <2> QED BY <1>2, <2>1 DEF Handles, NodesHold, KnownLive
<1>7. Locks /\ Freeing /\ OnePerFile
  <2>1. \A n \in Nodes : lock[n] = NoThread
    BY <1>1 DEF InitWorld
  <2>2. Idle.pc = "idle"
    BY DEF Idle
  <2> QED BY <1>2, <1>3, <2>1, <2>2 DEF Locks, Freeing, OnePerFile
<1>8. Refs
  <2> SUFFICES ASSUME NEW n \in Nodes PROVE InFlight(n) = 0 /\ Returned(n) = 0
    BY <1>2 DEF Refs
  <2>1. \A t \in Threads : th[t].pc = "idle" /\ th[t].got = <<>>
    BY <1>3 DEF Idle
  <2>2. Answering(n) = {}
    BY <2>1 DEF Answering, Answers
  <2>3. Tokens(Threads, ToldAll(n)) = {}
    BY <2>1 DEF Tokens, ToldAll, Told
  <2>4. Tokens(Threads, GivesAll(n)) = {}
    BY <2>1 DEF Tokens, GivesAll, Gives
  <2> QED BY <2>2, <2>3, <2>4, InFlightIs, ReturnedIs, FS_EmptySet
<1>9. Once
  <2>1. hdl = {} /\ lost = {} /\ \A x \in Fds : fds[x] = NoFile /\ x # 0
    BY <1>1, Typed0 DEF InitWorld
  <2>2. \A t \in Threads : th[t].fd = 0 /\ th[t].fh = 0
    BY <1>3 DEF Idle
  <2>3. \A x \in Fds : \A k, v : ~Has(k, v, x)
    BY <1>2, <2>1, <2>2 DEF Has
  <2> QED BY <2>1, <2>3 DEF Once
<1> QED BY <1>1, <1>4, <1>5, <1>6, <1>7, <1>8, <1>9 DEF IInv

\* Every step of a handler of passthrough_ll.c.
LEMMA LLStepOK ==
    ASSUME IInv, NEW t \in Threads, LLStep(t), impl = "ll", impl' = impl
    PROVE  IInv'
<1>1. CASE lo_do_lookup_openat(t) \/ lo_do_lookup_fstatat(t)
  BY <1>1, OpenatStep, FstatatStep
<1>2. CASE lo_find(t)
  BY <1>2, FindStep
<1>3. CASE lo_do_lookup_dup(t)
  BY <1>3, DupStep
<1>4. CASE lo_do_lookup_insert(t)
  BY <1>4, InsertStep
<1>5. CASE lo_lookup(t)
  BY <1>5, LookupReply
<1>6. CASE lo_link_entry(t)
  BY <1>6, LinkStep
<1>7. CASE lo_create_reply(t)
  BY <1>7, CreateReply
<1>8. CASE unref_inode(t)
  BY <1>8, UnrefStep
<1>9. CASE unref_inode_free(t)
  BY <1>9, UnrefFreeStep
<1>10. CASE lo_do_readdir_next(t)
  BY <1>10, ReaddirNext
<1>11. CASE lo_do_readdir(t)
  BY <1>11, ReaddirStep
<1>12. CASE lo_flush_close(t)
  BY <1>12, FlushStep
<1> QED BY <1>1, <1>2, <1>3, <1>4, <1>5, <1>6, <1>7, <1>8, <1>9, <1>10, <1>11, <1>12 DEF LLStep

\* Every request to it.
LEMMA LLRequestOK ==
    ASSUME IInv, NEW t \in Threads, LLRequest(t), impl' = impl
    PROVE  IInv'
<1>1. ASSUME NEW i \in Names, StartLookup(t, i) PROVE IInv'
  BY <1>1, LookupStart
<1>2. ASSUME NEW i \in Names, lo_mknod_symlink(t, i) PROVE IInv'
  BY <1>2, MknodStart
<1>3. ASSUME NEW i \in Names, lo_create(t, i) PROVE IInv'
  BY <1>3, CreateStart
<1>4. ASSUME NEW n \in Nodes, lo_forget(t, n) PROVE IInv'
  BY <1>4, ForgetStart DEF lo_forget
<1>5. ASSUME NEW n \in Nodes, NEW i \in Names, lo_link(t, n, i) PROVE IInv'
  BY <1>5, LinkStart
<1>6. CASE lo_readdirplus(t)
  BY <1>6, ReaddirStart
<1>7. ASSUME NEW h \in hdl, lo_flush(t, h) PROVE IInv'
  BY <1>7, FlushStart
<1> QED BY <1>1, <1>2, <1>3, <1>4, <1>5, <1>6, <1>7 DEF LLRequest

\* Every handler of it that is one step.
LEMMA LLAtomicOK ==
    ASSUME IInv, LLAtomic, impl' = impl
    PROVE  IInv'
<1>1. ASSUME NEW i \in Names, lo_unlink(i) PROVE IInv'
  BY <1>1, RemoveStep DEF lo_unlink
<1>2. ASSUME NEW i \in Names, NEW j \in Names, lo_rename(i, j) PROVE IInv'
  BY <1>2, RenameStep DEF lo_rename
<1>3. ASSUME NEW n \in Nodes, lo_open(n) PROVE IInv'
  BY <1>3, OpenStep
<1>4. ASSUME NEW h \in hdl, lo_release(h) PROVE IInv'
  BY <1>4, ReleaseStep
<1> QED BY <1>1, <1>2, <1>3, <1>4 DEF LLAtomic

\* Every step of a handler of passthrough_hp.cc.
LEMMA HPStepOK ==
    ASSUME IInv, NEW t \in Threads, HPStep(t), impl = "hp", impl' = impl, ~raced'
    PROVE  IInv'
<1>1. CASE do_lookup_openat(t) \/ do_lookup_fstatat(t)
  BY <1>1, OpenatStep, FstatatStep
<1>2. CASE do_lookup_map(t)
  BY <1>2, MapStep
<1>3. CASE do_lookup_count(t)
  BY <1>3, CountUpStep
<1>4. CASE sfs_lookup(t)
  BY <1>4, LookupReply
<1>5. CASE sfs_link_entry(t)
  BY <1>5, LinkStep
<1>6. CASE sfs_create_reply(t)
  BY <1>6, CreateReply
<1>7. CASE forget_one(t)
  BY <1>7, ForgetOneStep
<1>8. CASE forget_one_erase(t)
  BY <1>8, EraseStep
<1>8a. CASE forget_one_unlock(t)
  BY <1>8a, UnlockStep
<1>9. CASE do_readdir_next(t)
  BY <1>9, ReaddirNext
<1>10. CASE do_readdir(t)
  BY <1>10, ReaddirStep
<1>11. CASE sfs_flush_close(t)
  BY <1>11, FlushStep
<1> QED BY <1>1, <1>2, <1>3, <1>4, <1>5, <1>6, <1>7, <1>8, <1>8a, <1>9, <1>10, <1>11 DEF HPStep

\* Every request to it.
LEMMA HPRequestOK ==
    ASSUME IInv, NEW t \in Threads, HPRequest(t), impl' = impl
    PROVE  IInv'
<1>1. ASSUME NEW i \in Names, StartLookup(t, i) PROVE IInv'
  BY <1>1, LookupStart
<1>2. ASSUME NEW i \in Names, mknod_symlink(t, i) PROVE IInv'
  BY <1>2, MknodStart
<1>3. ASSUME NEW i \in Names, sfs_create(t, i) PROVE IInv'
  BY <1>3, CreateStart
<1>4. ASSUME NEW n \in Nodes, sfs_forget(t, n) PROVE IInv'
  BY <1>4, ForgetStart DEF sfs_forget
<1>5. ASSUME NEW n \in Nodes, NEW i \in Names, sfs_link(t, n, i) PROVE IInv'
  BY <1>5, LinkStart
<1>6. CASE sfs_readdirplus(t)
  BY <1>6, ReaddirStart
<1>7. ASSUME NEW h \in hdl, sfs_flush(t, h) PROVE IInv'
  BY <1>7, FlushStart
<1> QED BY <1>1, <1>2, <1>3, <1>4, <1>5, <1>6, <1>7 DEF HPRequest

\* Every handler of it that is one step.
LEMMA HPAtomicOK ==
    ASSUME IInv, HPAtomic, impl' = impl
    PROVE  IInv'
<1>1. ASSUME NEW i \in Names, sfs_unlink(i) \/ sfs_rmdir(i) PROVE IInv'
  BY <1>1, RemoveStep DEF sfs_unlink, sfs_rmdir
<1>2. ASSUME NEW i \in Names, NEW j \in Names, sfs_rename(i, j) PROVE IInv'
  BY <1>2, RenameStep DEF sfs_rename
<1>3. ASSUME NEW n \in Nodes, sfs_open(n) PROVE IInv'
  BY <1>3, OpenStep
<1>4. ASSUME NEW h \in hdl, sfs_release(h) PROVE IInv'
  BY <1>4, ReleaseStep
<1>5. \A n \in Nodes : ~get_inode_gone(n)
  BY Parts DEF OwedFacts, get_inode_gone, get_inode
<1> QED BY <1>1, <1>2, <1>3, <1>4, <1>5 DEF HPAtomic

\* Every step of either file system, but one that begins the race.
LEMMA NextOK == IInv /\ [Next]_<<vars, impl>> /\ ~raced' => IInv'
<1> SUFFICES ASSUME IInv, [Next]_<<vars, impl>>, ~raced' PROVE IInv'
  OBVIOUS
<1>1. CASE LLNext
  BY <1>1, LLStepOK, LLRequestOK, LLAtomicOK DEF LLNext, LLHandlers
<1>2. CASE HPNext
  BY <1>2, HPStepOK, HPRequestOK, HPAtomicOK DEF HPNext, HPHandlers
<1>3. CASE UNCHANGED <<vars, impl>>
  <2>1. UNCHANGED <<dir, fds, node, known, klook, hdl, th, lock, lost, uaf, raced, impl>>
    BY <1>3 DEF vars
  <2> QED BY <2>1, NothingElse
<1> QED BY <1>1, <1>2, <1>3 DEF Next

\* passthrough_ll.c has neither the race nor a use of a freed object.
LEMMA LLQuiet == LLNext => UNCHANGED <<uaf, raced, impl>>
<1> SUFFICES ASSUME LLNext PROVE UNCHANGED <<uaf, raced, impl>>
  OBVIOUS
<1>1. ASSUME NEW t \in Threads, LLStep(t) PROVE UNCHANGED <<uaf, raced>>
  BY <1>1 DEF LLStep, lo_do_lookup_openat, lo_do_lookup_fstatat, lo_find, lo_do_lookup_dup,
              lo_do_lookup_insert, lo_lookup, lo_link_entry, lo_create_reply, unref_inode,
              unref_inode_free, lo_do_readdir_next, lo_do_readdir, lo_flush_close
<1>2. ASSUME NEW t \in Threads, LLRequest(t) PROVE UNCHANGED <<uaf, raced>>
  BY <1>2 DEF LLRequest, StartLookup, lo_mknod_symlink, lo_create, lo_forget, StartForget, lo_link,
              lo_readdirplus, lo_flush
<1>3. ASSUME LLAtomic PROVE UNCHANGED <<uaf, raced>>
  BY <1>3 DEF LLAtomic, lo_unlink, lo_rename, lo_open, lo_release
<1> QED BY <1>1, <1>2, <1>3 DEF LLNext, LLHandlers

\* In passthrough_hp.cc the race is not undone, and unless it has begun, every object
\* that a handler uses is there.
LEMMA HPQuiet ==
    ASSUME HPNext
    PROVE  /\ impl' = impl /\ impl = "hp" /\ (raced => raced')
           /\ IInv => uaf' = uaf
<1>0. impl' = impl /\ impl = "hp"
  BY DEF HPNext
<1>1. ASSUME NEW t \in Threads, HPStep(t) PROVE raced => raced'
  BY <1>1 DEF HPStep, do_lookup_openat, do_lookup_fstatat, do_lookup_map, do_lookup_count, sfs_lookup,
              sfs_link_entry, sfs_create_reply, forget_one, forget_one_unlock, forget_one_erase,
              do_readdir_next, do_readdir, sfs_flush_close
<1>2. ASSUME NEW t \in Threads, HPRequest(t) PROVE UNCHANGED <<uaf, raced>>
  BY <1>2 DEF HPRequest, StartLookup, mknod_symlink, sfs_create, sfs_forget, StartForget, sfs_link,
              sfs_readdirplus, sfs_flush
<1>3. ASSUME HPAtomic PROVE (raced => raced') /\ (IInv => uaf' = uaf)
  <2>1. ASSUME IInv PROVE \A n \in Nodes : ~get_inode_gone(n)
    BY <2>1, Parts DEF OwedFacts, get_inode_gone, get_inode
  <2>2. CASE \E n \in Nodes : get_inode_gone(n)
    <3>1. raced' = raced
      BY <2>2 DEF get_inode_gone
    <3>2. IInv => uaf' = uaf
      BY <2>1, <2>2
    <3> QED BY <3>1, <3>2
  <2>3. CASE ~\E n \in Nodes : get_inode_gone(n)
    BY <1>3, <2>3 DEF HPAtomic, sfs_unlink, sfs_rmdir, sfs_rename, sfs_open, sfs_release
  <2> QED BY <2>2, <2>3
<1>4. ASSUME IInv, NEW t \in Threads, HPStep(t) PROVE uaf' = uaf
  <2>1. ReqRight(t, th[t]) /\ ReqOK(th[t]) /\ OwedFacts
    BY <1>4, Parts DEF Requests, Placed
  <2>2. CASE do_lookup_count(t)
    BY <2>1, <2>2 DEF do_lookup_count, get_inode, ReqRight
  <2>3. CASE sfs_link_entry(t)
    BY <2>1, <2>3 DEF sfs_link_entry, get_inode, ReqRight, ReqOK, OwedFacts
  <2>4. CASE forget_one(t)
    BY <2>1, <2>4 DEF forget_one, get_inode, OwedFacts
  <2>5. CASE forget_one_unlock(t)
    BY <2>1, <2>5 DEF forget_one_unlock, get_inode, ReqRight
  <2> QED BY <1>4, <2>2, <2>3, <2>4, <2>5
          DEF HPStep, do_lookup_openat, do_lookup_fstatat, do_lookup_map, sfs_lookup, sfs_create_reply,
              forget_one_erase, do_readdir_next, do_readdir, sfs_flush_close
<1> QED BY <1>0, <1>1, <1>2, <1>3, <1>4 DEF HPNext, HPHandlers

\* The invariant of every behaviour: that of the nodes until the race begins, which
\* is hp's alone, and no use of a freed object before it.
Safe ==
    /\ impl \in Impl
    /\ impl = "ll" => ~raced
    /\ uaf => raced
    /\ ~raced => IInv

\* Every step keeps it.
LEMMA SafeStep == Safe /\ [Next]_<<vars, impl>> => Safe'
<1> SUFFICES ASSUME Safe, [Next]_<<vars, impl>> PROVE Safe'
  OBVIOUS
<1>1. impl' = impl /\ (raced => raced') /\ (impl = "ll" => ~raced') /\ (IInv => uaf' = uaf)
  <2>1. CASE LLNext
    BY <2>1, LLQuiet DEF LLNext, Safe
  <2>2. CASE HPNext
    BY <2>2, HPQuiet
  <2>3. CASE UNCHANGED <<vars, impl>>
    BY <2>3 DEF vars, Safe
  <2> QED BY <2>1, <2>2, <2>3 DEF Next
<1>2. ~raced' => IInv /\ IInv' /\ ~uaf
  BY <1>1, NextOK DEF Safe
<1> QED BY <1>1, <1>2 DEF Safe

\* Every step of every handler, request and system call of both file systems keeps
\* the invariant.
THEOREM Invariance == Spec => []Safe
<1>1. Init => Safe
  <2>1. Init => impl \in Impl /\ ~raced /\ ~uaf
    BY DEF Init, InitWorld
  <2> QED BY <2>1, InitOK DEF Safe
<1> QED BY <1>1, SafeStep, PTL DEF Spec

---------------------------------------------------------------------------
(***************************************************************************)
(* What follows from it.                                                   *)
(***************************************************************************)
\* The five sets of OneOwner have one element between them, or none.
LEMMA OneOwnerNow == Safe => OneOwner
<1> SUFFICES ASSUME IInv, NEW x \in Fds PROVE Owners(x) = IF fds[x] = NoFile THEN 0 ELSE 1
  BY DEF OneOwner, Safe
<1>0. Once
  BY Parts
<1> DEFINE A == {n \in Nodes : node[n].st # "free" /\ node[n].fd = x}
           B == {h \in hdl : h.fd = x}
           C == {t \in Threads : th[t].fd = x}
           D == {t \in Threads : th[t].fh = x}
           E == lost \cap {x}
<1>1. \A v : /\ v \in A <=> Has("node", v, x)
             /\ v \in B <=> Has("handle", v, x)
             /\ v \in C <=> Has("newfd", v, x)
             /\ v \in D <=> Has("fh", v, x)
             /\ v \in E <=> Has("lost", v, x)
  BY DEF Has
<1>2. \A k, v : Has(k, v, x) => k \in {"node", "handle", "newfd", "fh", "lost"}
  BY DEF Has
<1>3. Owners(x) = Cardinality(A) + Cardinality(B) + Cardinality(C) + Cardinality(D) + Cardinality(E)
  BY DEF Owners
<1> HIDE DEF A, B, C, D, E
<1>4. Cardinality({}) = 0 /\ \A v : Cardinality({v}) = 1
  BY FS_EmptySet, FS_Singleton
<1>5. CASE fds[x] = NoFile
  <2>1. \A k, v : ~Has(k, v, x)
    BY <1>0, <1>5 DEF Once
  <2>2. A = {} /\ B = {} /\ C = {} /\ D = {} /\ E = {}
    BY <1>1, <2>1
  <2> QED BY <1>3, <1>4, <1>5, <2>2
<1>6. CASE fds[x] # NoFile
  <2>1. PICK k, v : Has(k, v, x) /\ \A l, w : Has(l, w, x) => l = k /\ w = v
    BY <1>0, <1>6 DEF Once
  <2>2. /\ A = (IF k = "node" THEN {v} ELSE {}) /\ B = (IF k = "handle" THEN {v} ELSE {})
        /\ C = (IF k = "newfd" THEN {v} ELSE {}) /\ D = (IF k = "fh" THEN {v} ELSE {})
        /\ E = (IF k = "lost" THEN {v} ELSE {})
    BY <1>1, <2>1
  <2>3. k \in {"node", "handle", "newfd", "fh", "lost"}
    BY <1>2, <2>1
  <2>4. /\ Cardinality(A) = (IF k = "node" THEN 1 ELSE 0) /\ Cardinality(B) = (IF k = "handle" THEN 1 ELSE 0)
        /\ Cardinality(C) = (IF k = "newfd" THEN 1 ELSE 0) /\ Cardinality(D) = (IF k = "fh" THEN 1 ELSE 0)
        /\ Cardinality(E) = (IF k = "lost" THEN 1 ELSE 0)
    BY <1>4, <2>2
  <2> QED BY <1>3, <1>6, <2>3, <2>4
<1> QED BY <1>5, <1>6

\* Every open descriptor is held by exactly one node, open file or running request,
\* or was forgotten by one of the error paths that forget it, and a closed one by
\* nothing: no handler closes a descriptor twice or one that was handed out again.
\* In passthrough_ll.c always; in passthrough_hp.cc until a lookup takes up a node
\* that a forget is removing.
THEOREM DescriptorsHaveOneOwner == Spec => []OneOwner
<1> QED BY Invariance, OneOwnerNow, PTL

\* The count in a node (refcount, nlookup) is at all times what the kernel holds,
\* plus what replies under way will tell it, plus what a forget under way gives back;
\* in passthrough_hp.cc until a lookup takes up a node that a forget is removing.
THEOREM CountsAreExact == Spec => []RefsExact
<1>1. Safe => RefsExact
  BY Parts DEF Refs, RefsExact, Safe
<1> QED BY <1>1, Invariance, PTL

\* The kernel's counts, the nodes, their descriptors and the answers agree.
LEMMA NodesRightNow == Safe => NodesRight
<1>a. Safe => OnlyHPRaces /\ OnlyByRace
  BY DEF Safe, OnlyHPRaces, OnlyByRace
<1>b. CASE raced \/ ~Safe
  BY <1>a, <1>b DEF NodesRight, KnownNodesLive, RightNode, HandleOfNode, HPOneNodePerFile, OneNodePerFile
<1> SUFFICES ASSUME IInv, OnlyHPRaces, OnlyByRace PROVE NodesRight
  BY <1>a, <1>b DEF Safe
<1>0. TypeOK /\ Requests /\ Handles /\ NodesHold /\ OnePerFile /\ OwedFacts
  BY Parts
<1>1. KnownNodesLive
  <2>1. ASSUME NEW n \in Nodes, InUse(n) PROVE klook[n] > 0
    <3>1. ASSUME NEW t \in Threads, th[t].op \in {"link", "open"}, th[t].n = n PROVE klook[n] > 0
      <4>1. th[t].op \in Ops /\ ReqRight(t, th[t])
        BY <1>0 DEF Requests, Request
      <4>2. th[t].op = "link"
        BY <3>1, <4>1 DEF Ops
      <4> QED BY <3>1, <4>1, <4>2 DEF ReqRight
    <3>2. ASSUME NEW h \in hdl, h.n = n PROVE klook[n] > 0
      BY <1>0, <3>2 DEF Handles
    <3> QED BY <2>1, <3>1, <3>2 DEF InUse
  <2>2. \A n \in Nodes : node[n].st = "live" => fds[node[n].fd] = node[n].file
    BY <1>0 DEF NodesHold
  <2> QED BY <1>0, <2>1, <2>2 DEF KnownNodesLive, KernelNodesKnown, OwedFacts
<1>2. RightNode
  BY <1>0 DEF RightNode, Requests, ReqRight
<1>3. HandleOfNode
  BY <1>0 DEF HandleOfNode, Handles
<1>4. HPOneNodePerFile
  BY <1>0 DEF HPOneNodePerFile, OneNodePerFile, OnePerFile
<1> QED BY <1>0, <1>1, <1>2, <1>3, <1>4 DEF NodesRight

\* A node the kernel may name in its next request is alive, its descriptor denotes
\* the file it was made for, lookups and opens answer with the node of the file they
\* found, and the hp variant never has two nodes for one file.  In passthrough_ll.c
\* always; in passthrough_hp.cc until a lookup takes up a node that a forget is
\* removing, before which no handler uses a freed object either.
THEOREM NodesAreRight == Spec => []NodesRight
<1> QED BY Invariance, NodesRightNow, PTL

\* A thread that waits for the mutex of a node waits for one that is about to erase
\* the node, and that one at most for one that is erasing another.
LEMMA SomeoneRunsNow == IInv => SomeoneRuns
<1> SUFFICES ASSUME IInv, NEW t \in Threads, Busy(t) PROVE \E u \in Threads : Busy(u) /\ ~Waits(u)
  BY DEF SomeoneRuns
<1>1. ASSUME ~MapFree PROVE \E u \in Threads : Busy(u) /\ ~Waits(u)
  <2>1. PICK u \in Threads : th[u].pc = "erase"
    BY <1>1 DEF MapFree
  <2> QED BY <2>1 DEF Busy, Waits
<1>2. CASE th[t].pc \in {"count", "forget", "linked"} /\ lock[th[t].n] # NoThread
  <2>1. th[t].n \in Nodes
    BY <1>2, Parts DEF Placed, ReqOK, WithNode
  <2>2. PICK u \in Threads : th[u].pc = "drop"
    BY <1>2, <2>1, Parts DEF Locks
  <2> QED BY <1>1, <2>2 DEF Busy, Waits
<1> QED BY <1>1, <1>2 DEF Waits

\* The handlers of hp that wait for the mutex of a node or for fs.mutex never wait for
\* each other: while a request is being handled, the thread of some request can go on.
THEOREM NoDeadlockOnMutexes == Spec => [](~raced => SomeoneRuns)
<1>1. Safe => (~raced => SomeoneRuns)
  BY SomeoneRunsNow DEF Safe
<1> QED BY <1>1, Invariance, PTL

=============================================================================
