----------------------------- MODULE FuseCalls -----------------------------
(***************************************************************************)
(* The high level FUSE file systems of lab 12 (passthrough.c,               *)
(* passthrough_fh.c, fusexmp.c, fusexmp_fh.c, bbfs.c), and the low level    *)
(* ones in most of their handlers, answer a request by a short straight     *)
(* line of system calls.  A handler is modelled as that line: a sequence of *)
(* calls on the path, and on descriptors and memory held in slots.  The     *)
(* rule for errors is the same in all of them: after a call fails, the      *)
(* handler only releases what it got, and answers -errno.  FuseFiles        *)
(* executes the lines of several requests interleaved.                      *)
(***************************************************************************)
EXTENDS Naturals, Sequences, FiniteSets, FiniteSetsExt

\* Slots: "fh" and "fh2" are descriptors that fi->fh holds, "new" is a
\* local, "mem" a malloc'd block.
Slots == {"fh", "fh2", "new", "mem"}

Call(c, d) == [c |-> c, d |-> d]

OnPath == <<Call("look", "new")>>       \* lstat, chmod, truncate, lsetxattr ... by path
On(d) == <<Call("use", d)>>             \* fstat, pread, pwrite, fsync ... on a descriptor
OpenAs(d) == <<Call("open", d)>>        \* open of the path
CreateAs(d) == <<Call("create", d)>>    \* open with O_CREAT
ExclAs(d) == <<Call("excl", d)>>        \* open with O_CREAT | O_EXCL
DupAs(d) == <<Call("dup", d)>>          \* dup(fi->fh)
CloseOf(d) == <<Call("close", d)>>
Alloc == <<Call("alloc", "mem")>>
CloseOnError(d) == <<Call("undo", d)>>
FreeOnError == <<Call("undo", "mem")>>
Free == <<Call("free", "mem")>>
MakeEntry == <<Call("make", "new")>>    \* mkdir, symlink, mkfifo, mknod
RemoveEntry == <<Call("remove", "new")>>
MoveEntry == <<Call("move", "new")>>
LinkEntry == <<Call("link", "new")>>
Nothing == <<>>                         \* an empty handler: success
Refuse == <<Call("refuse", "new")>>     \* -EINVAL, -EOPNOTSUPP at once

\* The descriptor of an open file, or else one of this request's own.
FileOr(fi) == IF fi THEN On("fh") ELSE OpenAs("new") \o On("new") \o CloseOf("new")
\* The descriptor of an open file, or else the path.
FileOrPath(fi) == IF fi THEN On("fh") ELSE OnPath
\* mknod of a regular file, and of anything else.
MakeFile(reg) == IF reg THEN ExclAs("new") \o CloseOf("new") ELSE MakeEntry

\* Calls that an error does not skip, if there is something to release.
Cleanup == {"close", "undo", "free"}
\* The call after number k, given what the slots hold.
After(p, k, slot, err) ==
    Min({q \in k + 1 .. Len(p) :
            IF err THEN p[q].c \in Cleanup /\ slot[p[q].d] # 0 ELSE p[q].c # "undo"}
        \cup {Len(p) + 1})

=============================================================================
