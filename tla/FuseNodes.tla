----------------------------- MODULE FuseNodes -----------------------------
(***************************************************************************)
(* What the two low level pass-through file systems of lab 12 share:       *)
(* passthrough_ll.c and passthrough_hp.cc mirror a source directory.  For   *)
(* every file the kernel knows they keep an object (struct lo_inode, struct *)
(* Inode) that holds a descriptor of the file and the number of lookups the *)
(* kernel has been told of, and whose address is the node id given to the   *)
(* kernel.  Worker threads of libfuse run the handlers concurrently.        *)
(*                                                                          *)
(* This module is the world of those handlers, and external to src/: the    *)
(* source directory and the descriptor table of the process, and the kernel *)
(* with its lookup counts and its directory lock.  PassthroughLL and        *)
(* PassthroughHP add the handlers.                                          *)
(***************************************************************************)
EXTENDS Naturals, Sequences, FiniteSets, FiniteSetsExt

CONSTANTS
    Threads,    \* worker threads of libfuse
    NNames,     \* names of the source directory, in directory order
    Files,      \* identities (st_ino, st_dev) of the source files
    Foreign,    \* those the hp variant refuses: other device, or inode 1
    NoFile, NoThread,
    MaxNode,    \* bound: node objects the allocator hands out at a time
    MaxFd,      \* bound: size of the descriptor table
    MaxLook,    \* bound: a request that adds a lookup is made while the kernel holds fewer
    LookAfterRace,  \* bound: FALSE: no such request is made once hp's race has begun
    MaxFaults   \* bound: failures of fstatat, calloc and new

ASSUME NodesAssumption ==
    /\ {NNames, MaxNode, MaxFd, MaxLook, MaxFaults} \subseteq Nat
    /\ LookAfterRace \in BOOLEAN /\ NoFile \notin Files /\ NoThread \notin Threads
    /\ IsFiniteSet(Threads)

VARIABLES
    dir,     \* source directory: name -> file
    fds,     \* descriptor table: descriptor -> file
    node,    \* the heap: struct lo_inode / struct Inode
    known,   \* lo->root's list, newest first / the map fs.inodes
    klook,   \* the kernel's lookup count of each node
    hdl,     \* files the kernel has open: [fd, file, n]
    th,      \* the request each thread runs
    lock,    \* holder of the mutex of node n (0: of the directory); hp only
    faults,  \* failures so far
    lost,    \* descriptors no variable of the program holds any more
    uaf,     \* a handler used a node object after it was freed
    raced    \* history: hp's lookup took up a node that a forget was removing

vars == <<dir, fds, node, known, klook, hdl, th, lock, faults, lost, uaf, raced>>

Names == 1 .. NNames
Nodes == 1 .. MaxNode
Fds == 1 .. MaxFd

FreeNode == [st |-> "free", fd |-> 0, file |-> NoFile, ref |-> 0]

\* i: a name; n: a node; cnt: lookups a forget gives back;
\* fd, file: newfd of a lookup; fh: descriptor of a create;
\* got: nodes of the entries in a readdirplus buffer.
Idle == [op |-> "none", pc |-> "idle", i |-> 0, n |-> 0, cnt |-> 0, fd |-> 0,
         file |-> NoFile, fh |-> 0, got |-> <<>>]

Busy(t) == th[t].pc # "idle"

FreeFds(tab) == {x \in Fds : tab[x] = NoFile}
LowFd(tab) == CHOOSE x \in FreeFds(tab) : \A y \in FreeFds(tab) : x <= y
Open(f) == [fds EXCEPT ![LowFd(fds)] = f]
Close(x) == [fds EXCEPT ![x] = NoFile]
\* An inode number is handed out again once no name and no descriptor
\* refers to the file.
Unused(f) == (\A m \in Names : dir[m] # f) /\ (\A x \in Fds : fds[x] # f)

InitWorld ==
    /\ dir \in [Names -> Files \cup {NoFile}]
    /\ fds = [x \in Fds |-> NoFile]
    /\ node = [n \in Nodes |-> FreeNode]
    /\ known = <<>>
    /\ klook = [n \in Nodes |-> 0]
    /\ hdl = {}
    /\ th = [t \in Threads |-> Idle]
    /\ lock = [n \in Nodes \cup {0} |-> NoThread]
    /\ faults = 0
    /\ lost = {}
    /\ uaf = FALSE /\ raced = FALSE

---------------------------------------------------------------------------
(* The kernel.  It changes a directory by one request at a time and with    *)
(* no lookup in it, looks one name up at a time, runs one readdir per open  *)
(* directory, and keeps a node it uses in a request.                        *)

Changing == {"mknod", "create", "link", "unlink", "rename", "rmdir"}

DirFree(ops) == \A t \in Threads : th[t].op \notin ops

InUse(n) == \/ \E t \in Threads : th[t].op \in {"link", "open"} /\ th[t].n = n
            \/ \E h \in hdl : h.n = n

Start(t, r) == ~Busy(t) /\ ~uaf /\ th' = [th EXCEPT ![t] = r]

NodeRoom == MapThenSumSet(LAMBDA n : klook[n], Nodes) < MaxLook /\ (raced => LookAfterRace)

StartLookup(t, i) ==
    /\ DirFree(Changing) /\ NodeRoom
    /\ \A u \in Threads : th[u].op = "lookup" => th[u].i # i
    /\ Start(t, [Idle EXCEPT !.op = "lookup", !.pc = "openat", !.i = i])
    /\ UNCHANGED <<dir, fds, node, known, klook, hdl, lock, faults, lost, uaf, raced>>

\* FORGET gives back every lookup the kernel holds.
StartForget(t, n) ==
    /\ klook[n] > 0 /\ ~InUse(n)
    /\ Start(t, [Idle EXCEPT !.op = "forget", !.pc = "forget", !.n = n,
                             !.cnt = klook[n]])
    /\ klook' = [klook EXCEPT ![n] = 0]
    /\ UNCHANGED <<dir, fds, node, known, hdl, lock, faults, lost, uaf, raced>>

\* The list or map without node n
Without(n) ==
    LET j == CHOOSE j \in DOMAIN known : known[j] = n IN
    SubSeq(known, 1, j - 1) \o SubSeq(known, j + 1, Len(known))

---------------------------------------------------------------------------
(* System calls a handler makes on its way, with the state they leave.      *)

\* openat(dirfd, name, O_PATH | O_NOFOLLOW)
OpenPath(t, next, fail) ==
    LET f == dir[th[t].i]
        ok == f # NoFile /\ FreeFds(fds) # {} IN
    /\ th' = [th EXCEPT ![t] = IF ok THEN [@ EXCEPT !.pc = next, !.file = f,
                                                    !.fd = LowFd(fds)]
                                     ELSE [@ EXCEPT !.pc = fail]]
    /\ fds' = IF ok THEN Open(f) ELSE fds

\* A call that can only fail for want of memory or by an error of the disk.
Fails == faults < MaxFaults /\ faults' = faults + 1
Succeeds == UNCHANGED faults
NoMemory == IF \A n \in Nodes : node[n].st # "free" THEN UNCHANGED faults ELSE Fails

\* The reply that tells the kernel of a node: it holds one more lookup.
ReplyEntry(t) ==
    /\ klook' = [klook EXCEPT ![th[t].n] = @ + 1]
    /\ th' = [th EXCEPT ![t] = Idle]
ReplyErr(t) == th' = [th EXCEPT ![t] = Idle] /\ UNCHANGED klook
\* The reply of readdirplus tells of a node per entry in the buffer.
ReplyDir(t) ==
    /\ klook' = [n \in Nodes |-> klook[n] +
                   Cardinality({j \in DOMAIN th[t].got : th[t].got[j] = n})]
    /\ th' = [th EXCEPT ![t] = Idle]

\* hp's fs.mutex is held from one step to the next by a thread at "erase" only.
MapFree == \A t \in Threads : th[t].pc # "erase"

\* A forget is not answered; readdirplus goes on to its reply.
Forgotten(t) == IF th[t].op = "forget" THEN Idle
                ELSE [th[t] EXCEPT !.pc = "forgot", !.cnt = 0, !.n = 0]

\* unlinkat, with or without AT_REMOVEDIR, and renameat
Remove(i) ==
    /\ DirFree(Changing \cup {"lookup", "readdirplus"})
    /\ dir' = [dir EXCEPT ![i] = NoFile]
RenameTo(i, j) ==
    /\ DirFree(Changing \cup {"lookup", "readdirplus"})
    /\ i # j /\ dir[i] # NoFile
    /\ dir' = IF dir[i] = dir[j] THEN dir
              ELSE [dir EXCEPT ![j] = dir[i], ![i] = NoFile]

\* mknodat, mkdirat, symlinkat of a name that does not exist
MakeName(i) ==
    /\ DirFree(Changing \cup {"lookup", "readdirplus"})
    /\ dir[i] = NoFile
    /\ \E f \in Files : Unused(f) /\ dir' = [dir EXCEPT ![i] = f]

\* open of a name with O_CREAT
CreateName(t, i, next) ==
    /\ DirFree(Changing \cup {"lookup", "readdirplus"}) /\ NodeRoom
    /\ FreeFds(fds) # {}
    /\ \E f \in Files :
         /\ IF dir[i] = NoFile THEN Unused(f) ELSE f = dir[i]
         /\ dir' = [dir EXCEPT ![i] = f]
         /\ fds' = Open(f)
    /\ Start(t, [Idle EXCEPT !.op = "create", !.pc = next, !.i = i, !.fh = LowFd(fds)])

\* linkat of a node's file, which must still have a name
LinkName(t, n, i, next) ==
    /\ DirFree(Changing \cup {"lookup", "readdirplus"}) /\ NodeRoom
    /\ klook[n] > 0
    /\ dir[i] = NoFile /\ \E m \in Names : dir[m] = node[n].file
    /\ dir' = [dir EXCEPT ![i] = node[n].file]
    /\ Start(t, [Idle EXCEPT !.op = "link", !.pc = next, !.i = i, !.n = n])

---------------------------------------------------------------------------
(* Correctness of a variant.                                                *)

\* The values each variable may take.
TypeOK ==
    /\ dir \in [Names -> Files \cup {NoFile}]
    /\ fds \in [Fds -> Files \cup {NoFile}]
    /\ node \in [Nodes -> [st : {"free", "live", "gone"}, fd : 0 .. MaxFd,
                           file : Files \cup {NoFile}, ref : Nat]]
    /\ \A i \in DOMAIN known : known[i] \in Nodes
    /\ klook \in [Nodes -> Nat]
    /\ lock \in [Nodes \cup {0} -> Threads \cup {NoThread}]
    /\ lost \in SUBSET Fds /\ uaf \in BOOLEAN /\ raced \in BOOLEAN

\* How many variables of the program hold descriptor x, or forgot it
Owners(x) ==
    Cardinality({n \in Nodes : node[n].st # "free" /\ node[n].fd = x})
    + Cardinality({h \in hdl : h.fd = x})
    + Cardinality({t \in Threads : th[t].fd = x}) + Cardinality({t \in Threads : th[t].fh = x})
    + Cardinality(lost \cap {x})

\* Every open descriptor has exactly one owner (a node, an open file, a
\* running request, or nobody after one of the error paths that forget it)
\* and no closed descriptor has one: nothing is closed twice, and no
\* descriptor number is used after it was closed and handed out again.
OneOwner ==
    ~raced => \A x \in Fds : Owners(x) = IF fds[x] = NoFile THEN 0 ELSE 1

InFlight(n) ==
    Cardinality({t \in Threads : th[t].pc \in {"dup", "found"} /\ th[t].n = n})
    + Cardinality(UNION {{t} \X {j \in DOMAIN th[t].got : th[t].got[j] = n} : t \in Threads})

Returned(n) ==
    Cardinality(UNION {{t} \X (1 .. th[t].cnt) :
                         t \in {u \in Threads : th[u].pc = "forget" /\ th[u].n = n}})

\* refcount / nlookup is what the kernel holds, plus what replies under way
\* will tell it, plus what a forget under way gives back: a node is freed
\* exactly when the kernel has forgotten it.
RefsExact ==
    ~raced => \A n \in Nodes : node[n].st = "live" =>
              node[n].ref = klook[n] + InFlight(n) + Returned(n)

\* A node the kernel may name in its next request is alive (get_inode in
\* passthrough_hp.cc: "INTERNAL ERROR: Unknown inode").
KernelNodesKnown == \A n \in Nodes : klook[n] > 0 \/ InUse(n) => node[n].st = "live"

\* It is, and its descriptor still denotes the file it was made for, so that the
\* inode number it is found by cannot belong to another file.
KnownNodesLive ==
    ~raced => /\ KernelNodesKnown
              /\ \A n \in Nodes : node[n].st = "live" => fds[node[n].fd] = node[n].file

\* A lookup answers with the node of the file that openat found under the
\* name, however the directory and the table changed in between.
RightNode ==
    ~raced => \A t \in Threads :
        th[t].pc = "found" /\ th[t].op # "link" => node[th[t].n].file = th[t].file

\* The descriptor of an open file denotes the file of the node it was
\* opened for: a create that opens by name and looks the name up again
\* ends with one file, not two.
HandleOfNode ==
    ~raced => \A h \in hdl : h.file = node[h.n].file /\ fds[h.fd] = h.file

\* Two node objects for one file do not exist: the kernel would keep two
\* page caches for it.
OneNodePerFile ==
    ~raced => \A n, m \in Nodes :
        node[n].st = "live" /\ node[m].st = "live" /\ node[n].file = node[m].file => n = m

\* No handler touches a node object after it was freed.
NoUseAfterFree == ~uaf

\* Barring that race, none does.
OnlyByRace == uaf => raced

\* A thread waits only for a mutex, and never all of them at once: whenever
\* requests are being handled, one of the threads can take its next step.
Waits(t) ==
    \/ th[t].pc \in {"count", "forget", "linked"} /\ lock[th[t].n] # NoThread
    \/ th[t].pc \in {"map", "drop"} /\ ~MapFree
SomeoneRuns ==
    ~uaf /\ (\E t \in Threads : Busy(t)) => \E t \in Threads : Busy(t) /\ ~Waits(t)

=============================================================================
