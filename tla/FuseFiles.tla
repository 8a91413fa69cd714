----------------------------- MODULE FuseFiles -----------------------------
(***************************************************************************)
(* Worker threads of libfuse execute handlers (FuseCalls) interleaved, on   *)
(* one source directory and one descriptor table.  This module is the       *)
(* operating system, the kernel and libfuse: external to src/.  A table     *)
(* names the handlers of a file system: HighCalls, XmpFh, OldXmp, LowCalls. *)
(***************************************************************************)
EXTENDS FuseCalls

CONSTANTS
    Threads,
    NNames,      \* names in the source directory; name 0 is the directory
    Files,       \* source files
    Root,        \* the directory's own file
    NoFile,
    MaxFd,       \* bound: descriptor table
    MaxOpen,     \* bound: files and directories open at a time
    MaxFaults    \* bound: calls that fail without a reason in the model

VARIABLES
    dir,      \* name -> file
    fds,      \* descriptor -> file
    heap,     \* malloc'd blocks in use
    hdl,      \* what the kernel has open: [id, i, file, fd, mem]
    th,       \* the request of each thread
    faults,
    leaked    \* descriptors that a failed request left open

fvars == <<dir, fds, heap, hdl, th, faults, leaked>>

Names == 0 .. NNames
Fds == 1 .. MaxFd

NoHdl == [id |-> 0, i |-> 0, file |-> NoFile, fd |-> 0, mem |-> 0]
Empty == [s \in Slots |-> 0]
Idle == [op |-> "idle", prog |-> <<>>, at |-> 1, i |-> 0, j |-> 0, h |-> NoHdl,
         h2 |-> NoHdl, slot |-> Empty, file |-> NoFile, err |-> FALSE]

FreeFds(tab) == {x \in Fds : tab[x] = NoFile}
NewFd == Min(FreeFds(fds))
Unused(f) == (\A m \in Names : dir[m] # f) /\ (\A x \in Fds : fds[x] # f)

FInit ==
    /\ dir = [m \in Names |-> IF m = 0 THEN Root ELSE NoFile]
    /\ fds = [x \in Fds |-> NoFile]
    /\ heap = 0 /\ hdl = {} /\ faults = 0 /\ leaked = {}
    /\ th = [t \in Threads |-> Idle]

---------------------------------------------------------------------------
(* Requests.  libfuse locks the path of a request: shared, or exclusive for *)
(* one that changes the entry.  A request on an open file has no path when  *)
(* the file system says nullpath_ok.  An open file is not removed from its   *)
(* name (libfuse would rename it to a hidden name instead).  RELEASE comes  *)
(* once, after the last request on the open file.                           *)

Busy(t) == th[t].op # "idle"
Changing == {"make", "create", "remove", "rename", "link"}
Holds(t, m) == Busy(t) /\ m # 0 /\ m \in {th[t].i, th[t].j}
Shared(m) == \A t \in Threads : Holds(t, m) => th[t].op \notin Changing
Excl(m) == \A t \in Threads : ~Holds(t, m)
OpenName(m) == (\E h \in hdl : h.i = m) \/ (\E t \in Threads : th[t].op = "open" /\ th[t].i = m)

Start(t, r) == th' = [th EXCEPT ![t] = r]
               /\ UNCHANGED <<dir, fds, heap, faults, leaked>>
Line(op, p, i) == [Idle EXCEPT !.op = op, !.prog = p, !.i = i, !.at = After(p, 0, Empty, FALSE)]
OnHdl(op, p, h, null) ==
    [Line(op, p, IF null THEN 0 ELSE h.i) EXCEPT
        !.h = h, !.slot = [Empty EXCEPT !["fh"] = h.fd, !["mem"] = IF op = "release" THEN h.mem ELSE 0]]

ByPath(t, i, progs) ==
    /\ Shared(i)
    /\ \E p \in progs : Start(t, Line("path", p, i))
    /\ UNCHANGED hdl
Change(t, op, i, progs) ==
    /\ i # 0 /\ Excl(i)
    /\ op = "remove" => ~OpenName(i)
    /\ \E p \in progs : Start(t, Line(op, p, i))
    /\ UNCHANGED hdl
Change2(t, op, i, j, progs) ==
    /\ 0 \notin {i, j} /\ i # j /\ Excl(i) /\ Excl(j)
    /\ op = "rename" => ~OpenName(j)
    /\ \E p \in progs : Start(t, [Line(op, p, i) EXCEPT !.j = j])
    /\ UNCHANGED hdl
\* open, create, opendir: the answer makes an open file.
OpenReq(t, op, i, progs) ==
    /\ IF op = "create" THEN i # 0 /\ Excl(i) ELSE Shared(i)
    /\ Cardinality(hdl) + Cardinality({u \in Threads : th[u].op \in {"open", "create"}}) < MaxOpen
    /\ \E p \in progs : Start(t, Line(op, p, i))
    /\ UNCHANGED hdl
ByHandle(t, h, null, progs) ==
    /\ null \/ Shared(h.i)
    /\ \E p \in progs : Start(t, OnHdl("file", p, h, null))
    /\ UNCHANGED hdl
ByHandles(t, h, h2, null, progs) ==
    /\ null \/ (Shared(h.i) /\ Shared(h2.i))
    /\ \E p \in progs :
         LET r == OnHdl("file", p, h, null) IN
         Start(t, [r EXCEPT !.h2 = h2, !.slot["fh2"] = h2.fd, !.j = IF null THEN 0 ELSE h2.i])
    /\ UNCHANGED hdl
Release(t, h, null, progs) ==
    /\ \A u \in Threads : Busy(u) => h.id \notin {th[u].h.id, th[u].h2.id}
    /\ null \/ Shared(h.i)
    /\ \E p \in progs : Start(t, OnHdl("release", p, h, null))
    /\ hdl' = hdl \ {h}

---------------------------------------------------------------------------
(* One call of a handler.                                                   *)

Running(t) == Busy(t) /\ th[t].at <= Len(th[t].prog)
Now(t) == th[t].prog[th[t].at]

\* What an open that succeeds leaves in "new" and "mem" becomes fi->fh.
Opened(r, d, hs) ==
    IF r.op \in {"open", "create"} /\ ~r.err
    THEN hs \cup {[id |-> Min(1 .. MaxOpen \ {h.id : h \in hs}), i |-> r.i, file |-> d[r.i],
                   fd |-> r.slot["new"], mem |-> r.slot["mem"]]}
    ELSE hs
\* On to the next call; after the last one the request is answered.
Go(t, slot, file, err, d, hs) ==
    LET r == [th[t] EXCEPT !.slot = slot, !.file = file, !.err = err,
                           !.at = After(th[t].prog, @, slot, err)]
        done == r.at > Len(r.prog) IN
    /\ th' = [th EXCEPT ![t] = IF done THEN Idle ELSE r]
    /\ hdl' = IF done THEN Opened(r, d, hs) ELSE hs
    /\ dir' = d
    /\ leaked' = IF done /\ r.slot["new"] # 0 /\ (r.err \/ r.op \notin {"open", "create"})
                 THEN leaked \cup {r.slot["new"]} ELSE leaked

\* Whether the call has what it needs.
Possible(t) ==
    LET c == Now(t).c  i == th[t].i  j == th[t].j IN
    /\ c # "refuse"
    /\ c \in {"look", "open", "remove", "move", "link"} => dir[i] # NoFile
    /\ c \in {"make", "excl"} => dir[i] = NoFile
    /\ c = "link" => dir[j] = NoFile
    /\ c \in {"make", "excl"} \/ (c = "create" /\ dir[i] = NoFile) => \E f \in Files : Unused(f)
    /\ c \in {"open", "create", "excl", "dup"} => FreeFds(fds) # {}

OpenCall(t) ==
    /\ Running(t) /\ Possible(t) /\ Now(t).c \in {"open", "create", "excl", "dup"}
    /\ \E f \in Files \cup {Root} :
         /\ CASE Now(t).c = "dup" -> f = fds[th[t].slot["fh"]]
              [] dir[th[t].i] # NoFile /\ Now(t).c # "dup" -> f = dir[th[t].i]
              [] OTHER -> f \in Files /\ Unused(f)
         /\ fds' = [fds EXCEPT ![NewFd] = f]
         /\ Go(t, [th[t].slot EXCEPT ![Now(t).d] = NewFd], f, FALSE,
               IF Now(t).c \in {"create", "excl"} THEN [dir EXCEPT ![th[t].i] = f] ELSE dir, hdl)
    /\ UNCHANGED <<heap, faults>>

\* Of a call on the directory; open files move with a renamed name.
DirAfter(t) ==
    LET c == Now(t).c  i == th[t].i  j == th[t].j IN
    CASE c = "make" -> {[dir EXCEPT ![i] = f] : f \in {f \in Files : Unused(f)}}
      [] c = "remove" -> {[dir EXCEPT ![i] = NoFile]}
      [] c = "link" -> {[dir EXCEPT ![j] = dir[i]]}
      [] c = "move" /\ dir[i] # dir[j] -> {[dir EXCEPT ![j] = dir[i], ![i] = NoFile]}
      [] OTHER -> {dir}
HdlAfter(t) ==
    {IF Now(t).c = "move" /\ h.i = th[t].i THEN [h EXCEPT !.i = th[t].j] ELSE h : h \in hdl}

DirCall(t) ==
    /\ Running(t) /\ Possible(t)
    /\ Now(t).c \in {"look", "use", "make", "remove", "move", "link"}
    /\ \E d \in DirAfter(t) : Go(t, th[t].slot, th[t].file, FALSE, d, HdlAfter(t))
    /\ UNCHANGED <<fds, heap, faults>>

\* Whoever else still has the number: it may come back as another file's.
CloseCall(t) ==
    LET x == th[t].slot[Now(t).d] IN
    /\ Running(t) /\ Now(t).c \in {"close", "undo"} /\ Now(t).d # "mem"
    /\ fds' = [y \in Fds |-> IF y = x THEN NoFile ELSE fds[y]]
    /\ Go(t, [th[t].slot EXCEPT ![Now(t).d] = 0], th[t].file, th[t].err, dir, hdl)
    /\ UNCHANGED <<heap, faults>>

HeapCall(t) ==
    /\ Running(t) /\ Now(t).c \in {"alloc", "undo", "free"} /\ Now(t).d = "mem"
    /\ heap' = IF Now(t).c = "alloc" THEN heap + 1 ELSE heap - 1
    /\ Go(t, [th[t].slot EXCEPT !["mem"] = 1 - @], th[t].file, th[t].err, dir, hdl)
    /\ UNCHANGED <<fds, faults>>

FailCall(t) ==
    /\ Running(t) /\ Now(t).c \notin Cleanup
    /\ IF Possible(t) THEN faults < MaxFaults /\ faults' = faults + 1 ELSE UNCHANGED faults
    /\ Go(t, th[t].slot, th[t].file, TRUE, dir, hdl)
    /\ UNCHANGED <<fds, heap>>

\* The answer of a handler that makes no call.
Answer(t) ==
    /\ Busy(t) /\ th[t].prog = Nothing
    /\ th' = [th EXCEPT ![t] = Idle]
    /\ hdl' = Opened(th[t], dir, hdl)
    /\ UNCHANGED <<dir, fds, heap, faults, leaked>>

StepOf(t) == OpenCall(t) \/ DirCall(t) \/ CloseCall(t) \/ HeapCall(t) \/ FailCall(t) \/ Answer(t)

\* The requests the kernel may send for the names ns, given the table of a
\* file system.
RequestOf(t, T, ns) ==
    /\ ~Busy(t)
    /\ \/ \E i \in ns :
            \/ ByPath(t, i, T.path)
            \/ Change(t, "make", i, T.make) \/ Change(t, "remove", i, T.remove)
            \/ OpenReq(t, "open", i, IF i = 0 THEN T.opendir ELSE T.open)
            \/ OpenReq(t, "create", i, T.create)
            \/ \E j \in ns : \/ Change2(t, "rename", i, j, T.rename)
                             \/ Change2(t, "link", i, j, T.link)
       \/ \E h \in hdl :
            \/ ByHandle(t, h, T.nullpath, IF h.i = 0 THEN T.onDir ELSE T.onFile)
            \/ Release(t, h, T.nullpath, IF h.i = 0 THEN T.releasedir ELSE T.release)
            \/ \E h2 \in hdl : 0 \notin {h.i, h2.i} /\ ByHandles(t, h, h2, T.nullpath, T.onFiles)

FNext(T, ns) == \E t \in Threads : StepOf(t) \/ RequestOf(t, T, ns)

---------------------------------------------------------------------------
\* The values each variable may take.
FTypeOK ==
    /\ \A x \in Fds : fds[x] \in Files \cup {Root, NoFile}
    /\ \A h \in hdl : h.fd \in 0 .. MaxFd /\ h.id \in 1 .. MaxOpen
    /\ heap \in 0 .. MaxOpen + Cardinality(Threads)
    /\ \A t \in Threads, s \in Slots : th[t].slot[s] \in 0 .. MaxFd

Own(t) == {"new"} \cup IF th[t].op = "release" THEN {"fh"} ELSE {}

\* Every open descriptor of the process belongs to exactly one open file or
\* running request, or was left open by a request that failed: none is
\* closed twice, none is still in use after it was closed.
FdOwners ==
    \A x \in Fds :
        Cardinality({h \in hdl : h.fd = x})
        + Cardinality({p \in Threads \X {"new", "fh"} : p[2] \in Own(p[1]) /\ th[p[1]].slot[p[2]] = x})
        + Cardinality(leaked \cap {x})
        = IF fds[x] = NoFile THEN 0 ELSE 1

\* No handler closes a descriptor that it has closed before.
ClosesHeld == \A t \in Threads : Running(t) /\ Now(t).c = "close" => th[t].slot[Now(t).d] # 0

\* The descriptor in fi->fh is open until the file's release (fuse.h: "exactly one
\* release() call with the same flags and file handle ... only the last release
\* will mean, that no more reads/writes will happen on the file").
OpenUntilRelease == \A h \in hdl : h.fd # 0 => fds[h.fd] # NoFile

\* A call on a descriptor reaches the file the kernel has open, or the one
\* the request opened, whatever was closed, opened and renamed while it ran;
\* also where a file system opens the path again for every request.
UsesOwnFile ==
    \A t \in Threads :
        Running(t) /\ Now(t).c \in {"use", "dup"} =>
            /\ Now(t).c = "dup" \/ Now(t).d = "fh" => fds[th[t].slot["fh"]] = th[t].h.file
            /\ Now(t).d = "fh2" => fds[th[t].slot["fh2"]] = th[t].h2.file
            /\ Now(t).c = "use" /\ Now(t).d = "new" =>
                 fds[th[t].slot["new"]] = IF th[t].h = NoHdl THEN th[t].file ELSE th[t].h.file

\* The blocks in use are those of open directories and of running requests:
\* an opendir that fails gives its block back.
HeapOwners ==
    heap = Cardinality({h \in hdl : h.mem = 1}) + Cardinality({t \in Threads : th[t].slot["mem"] = 1})

=============================================================================
