--------------------------- MODULE PassthroughLL ---------------------------
(***************************************************************************)
(* passthrough_ll.c: node objects on a list from lo->root, refcounts and    *)
(* list under lo->mutex.  The mutex is never held over two of the steps     *)
(* below: a step is a critical section or a system call.                    *)
(***************************************************************************)
EXTENDS FuseNodes

---------------------------------------------------------------------------
(* lo_do_lookup, in five steps: openat and fstatat of the name, the search  *)
(* of the list, then either close(newfd) or a new object at the list's head. *)

lo_do_lookup_openat(t) ==
    /\ th[t].pc = "openat"
    /\ OpenPath(t, "fstatat", "failed")
    /\ UNCHANGED <<dir, node, known, klook, hdl, lock, faults, lost, uaf, raced>>

lo_do_lookup_fstatat(t) ==
    /\ th[t].pc = "fstatat"
    /\ \/ /\ Succeeds
          /\ th' = [th EXCEPT ![t].pc = "find"]
          /\ UNCHANGED fds
       \/ /\ Fails
          /\ th' = [th EXCEPT ![t].pc = "failed", ![t].fd = 0]
          /\ fds' = Close(th[t].fd)
    /\ UNCHANGED <<dir, node, known, klook, hdl, lock, lost, uaf, raced>>

\* Under the mutex: the first object of the list with this ino and dev
\* gets one more reference.
lo_find(t) ==
    LET hits == {j \in DOMAIN known : node[known[j]].file = th[t].file}
        n == known[CHOOSE j \in hits : \A k \in hits : j <= k] IN
    /\ th[t].pc = "find"
    /\ IF hits # {}
       THEN /\ node' = [node EXCEPT ![n].ref = @ + 1]
            /\ th' = [th EXCEPT ![t].pc = "dup", ![t].n = n]
       ELSE /\ th' = [th EXCEPT ![t].pc = "insert"]
            /\ UNCHANGED node
    /\ UNCHANGED <<dir, fds, known, klook, hdl, lock, faults, lost, uaf, raced>>

lo_do_lookup_dup(t) ==
    /\ th[t].pc = "dup"
    /\ fds' = Close(th[t].fd)
    /\ th' = [th EXCEPT ![t].pc = "found", ![t].fd = 0]
    /\ UNCHANGED <<dir, node, known, klook, hdl, lock, faults, lost, uaf, raced>>

\* calloc, then under the mutex the insertion at the head.
lo_do_lookup_insert(t) ==
    /\ th[t].pc = "insert"
    /\ \/ /\ Succeeds
          /\ \E n \in Nodes :
               /\ node[n].st = "free" /\ \A m \in 1 .. n - 1 : node[m].st # "free"
               /\ node' = [node EXCEPT ![n] = [st |-> "live", fd |-> th[t].fd,
                                               file |-> th[t].file, ref |-> 1]]
               /\ known' = <<n>> \o known
               /\ th' = [th EXCEPT ![t].pc = "found", ![t].n = n, ![t].fd = 0]
          /\ UNCHANGED fds
       \/ /\ NoMemory
          /\ fds' = Close(th[t].fd)
          /\ th' = [th EXCEPT ![t].pc = "failed", ![t].fd = 0]
          /\ UNCHANGED <<node, known>>
    /\ UNCHANGED <<dir, klook, hdl, lock, lost, uaf, raced>>

---------------------------------------------------------------------------
(* The handlers around it.                                                  *)

lo_lookup(t) ==
    /\ th[t].op \in {"lookup", "mknod"}
    /\ \/ th[t].pc = "found" /\ ReplyEntry(t)
       \/ th[t].pc = "failed" /\ ReplyErr(t)
    /\ UNCHANGED <<dir, fds, node, known, hdl, lock, faults, lost, uaf, raced>>

lo_mknod_symlink(t, i) ==
    /\ MakeName(i) /\ NodeRoom
    /\ Start(t, [Idle EXCEPT !.op = "mknod", !.pc = "openat", !.i = i])
    /\ UNCHANGED <<fds, node, known, klook, hdl, lock, faults, lost, uaf, raced>>

\* linkat, then fstatat and the new reference; an error of fstatat is
\* reported although the link exists.
lo_link(t, n, i) ==
    /\ LinkName(t, n, i, "linked")
    /\ UNCHANGED <<fds, node, known, klook, hdl, lock, faults, lost, uaf, raced>>
lo_link_entry(t) ==
    /\ th[t].op = "link"
    /\ \/ /\ th[t].pc = "linked" /\ Succeeds
          /\ node' = [node EXCEPT ![th[t].n].ref = @ + 1]
          /\ th' = [th EXCEPT ![t].pc = "found"]
          /\ UNCHANGED klook
       \/ th[t].pc = "linked" /\ Fails /\ ReplyErr(t) /\ UNCHANGED node
       \/ th[t].pc = "found" /\ Succeeds /\ ReplyEntry(t) /\ UNCHANGED node
    /\ UNCHANGED <<dir, fds, known, hdl, lock, lost, uaf, raced>>

lo_unlink(i) == Remove(i) /\ ~uaf
                /\ UNCHANGED <<fds, node, known, klook, hdl, th, lock, faults, lost, uaf, raced>>
lo_rename(i, j) == RenameTo(i, j) /\ ~uaf
                   /\ UNCHANGED <<fds, node, known, klook, hdl, th, lock, faults, lost, uaf, raced>>

\* Seeded fault: the descriptor is closed while the object is still on the list.
unref_inode_early_close(t) ==
    LET n == th[t].n IN
    /\ th[t].pc = "forget"
    /\ node' = [node EXCEPT ![n].ref = @ - th[t].cnt]
    /\ fds' = Close(node[n].fd)
    /\ IF node[n].ref = th[t].cnt
       THEN th' = [th EXCEPT ![t].pc = "free", ![t].cnt = 0]
       ELSE th' = [th EXCEPT ![t] = Forgotten(t)]
    /\ UNCHANGED <<dir, known, klook, hdl, lock, faults, lost, uaf, raced>>
\* unref_inode under the mutex: the last reference takes the object off
\* the list; the descriptor is closed and the object freed after it.
unref_inode(t) ==
    LET n == th[t].n IN
    /\ th[t].pc = "forget"
    /\ IF node[n].ref = th[t].cnt
       THEN /\ node' = [node EXCEPT ![n].ref = 0, ![n].st = "gone"]
            /\ known' = Without(n)
            /\ th' = [th EXCEPT ![t].pc = "free", ![t].cnt = 0]
       ELSE /\ node' = [node EXCEPT ![n].ref = @ - th[t].cnt]
            /\ th' = [th EXCEPT ![t] = Forgotten(t)]
            /\ UNCHANGED known
    /\ UNCHANGED <<dir, fds, klook, hdl, lock, faults, lost, uaf, raced>>

unref_inode_free(t) ==
    /\ th[t].pc = "free"
    /\ fds' = Close(node[th[t].n].fd)
    /\ node' = [node EXCEPT ![th[t].n] = FreeNode]
    /\ th' = [th EXCEPT ![t] = Forgotten(t)]
    /\ UNCHANGED <<dir, known, klook, hdl, lock, faults, lost, uaf, raced>>

\* Also for each node of lo_forget_multi.
lo_forget(t, n) == StartForget(t, n)

---------------------------------------------------------------------------
(* lo_do_readdir with plus: a lookup per entry; an entry that does not fit  *)
(* into the buffer is forgotten again; an error ends the buffer.            *)

lo_readdirplus(t) ==
    /\ DirFree(Changing \cup {"readdirplus"}) /\ NodeRoom
    /\ Start(t, [Idle EXCEPT !.op = "readdirplus", !.pc = "next", !.i = 1])
    /\ UNCHANGED <<dir, fds, node, known, klook, hdl, lock, faults, lost, uaf, raced>>

lo_do_readdir_next(t) ==
    /\ th[t].op = "readdirplus" /\ th[t].pc = "next"
    /\ IF th[t].i > NNames
       THEN ReplyDir(t)
       ELSE /\ th' = [th EXCEPT ![t].pc = IF dir[th[t].i] = NoFile THEN "next" ELSE "openat",
                                ![t].i = IF dir[th[t].i] = NoFile THEN @ + 1 ELSE @]
            /\ UNCHANGED klook
    /\ UNCHANGED <<dir, fds, node, known, hdl, lock, faults, lost, uaf, raced>>

\* Seeded fault: an entry that does not fit is not given back.
lo_do_readdir_noforget(t) ==
    /\ th[t].op = "readdirplus"
    /\ \/ /\ th[t].pc = "found"
          /\ \/ th' = [th EXCEPT ![t].pc = "next", ![t].i = @ + 1, ![t].n = 0,
                                 ![t].file = NoFile, ![t].got = Append(@, th[t].n)]
             \/ th' = [th EXCEPT ![t].pc = "forgot"]
          /\ UNCHANGED klook
       \/ th[t].pc \in {"failed", "forgot"} /\ ReplyDir(t)
    /\ UNCHANGED <<dir, fds, node, known, hdl, lock, faults, lost, uaf, raced>>
lo_do_readdir(t) ==
    /\ th[t].op = "readdirplus"
    /\ \/ /\ th[t].pc = "found"
          /\ \/ th' = [th EXCEPT ![t].pc = "next", ![t].i = @ + 1, ![t].n = 0,
                                 ![t].file = NoFile, ![t].got = Append(@, th[t].n)]
             \/ th' = [th EXCEPT ![t].pc = "forget", ![t].cnt = 1]
          /\ UNCHANGED klook
       \/ th[t].pc \in {"failed", "forgot"} /\ ReplyDir(t)
    /\ UNCHANGED <<dir, fds, node, known, hdl, lock, faults, lost, uaf, raced>>

---------------------------------------------------------------------------
(* Open files.                                                              *)

lo_create(t, i) ==
    /\ CreateName(t, i, "openat")
    /\ UNCHANGED <<node, known, klook, hdl, lock, faults, lost, uaf, raced>>

\* fi->fh is not closed when the lookup fails: the descriptor is lost.
lo_create_reply(t) ==
    /\ th[t].op = "create"
    /\ \/ /\ th[t].pc = "found" /\ ReplyEntry(t)
          /\ hdl' = hdl \cup {[fd |-> th[t].fh, file |-> fds[th[t].fh], n |-> th[t].n]}
          /\ UNCHANGED lost
       \/ /\ th[t].pc = "failed" /\ ReplyErr(t)
          /\ lost' = lost \cup {th[t].fh}
          /\ UNCHANGED hdl
    /\ UNCHANGED <<dir, fds, node, known, lock, faults, uaf, raced>>

lo_open(n) ==
    /\ klook[n] > 0 /\ ~uaf /\ FreeFds(fds) # {}
    /\ fds' = Open(node[n].file)
    /\ hdl' = hdl \cup {[fd |-> LowFd(fds), file |-> node[n].file, n |-> n]}
    /\ UNCHANGED <<dir, node, known, klook, th, lock, faults, lost, uaf, raced>>

lo_release(h) ==
    /\ ~uaf /\ \A t \in Threads : th[t].pc # "flush"
    /\ fds' = Close(h.fd)
    /\ hdl' = hdl \ {h}
    /\ UNCHANGED <<dir, node, known, klook, th, lock, faults, lost, uaf, raced>>

\* Seeded fault: flush closes the descriptor itself.
lo_flush_closes(t, h) ==
    /\ Start(t, [Idle EXCEPT !.op = "flush", !.pc = "flush", !.fd = h.fd])
    /\ UNCHANGED <<dir, fds, node, known, klook, hdl, lock, faults, lost, uaf, raced>>
\* close(dup(fi->fh)): every close by a process flushes, the file stays open.
lo_flush(t, h) ==
    /\ FreeFds(fds) # {}
    /\ Start(t, [Idle EXCEPT !.op = "flush", !.pc = "flush", !.fd = LowFd(fds)])
    /\ fds' = Open(h.file)
    /\ UNCHANGED <<dir, node, known, klook, hdl, lock, faults, lost, uaf, raced>>
lo_flush_close(t) ==
    /\ th[t].pc = "flush"
    /\ fds' = Close(th[t].fd)
    /\ ReplyErr(t)
    /\ UNCHANGED <<dir, node, known, hdl, lock, faults, lost, uaf, raced>>

---------------------------------------------------------------------------
\* A step of the handler thread t runs.
LLStep(t) ==
    \/ lo_do_lookup_openat(t) \/ lo_do_lookup_fstatat(t) \/ lo_find(t)
    \/ lo_do_lookup_dup(t) \/ lo_do_lookup_insert(t)
    \/ lo_lookup(t) \/ lo_link_entry(t) \/ lo_create_reply(t)
    \/ unref_inode(t) \/ unref_inode_free(t)
    \/ lo_do_readdir_next(t) \/ lo_do_readdir(t) \/ lo_flush_close(t)

\* A request of the kernel.
LLRequest(t) ==
    \/ \E i \in Names :
         StartLookup(t, i) \/ lo_mknod_symlink(t, i) \/ lo_create(t, i)
    \/ \E n \in Nodes : lo_forget(t, n) \/ \E i \in Names : lo_link(t, n, i)
    \/ lo_readdirplus(t)
    \/ \E h \in hdl : lo_flush(t, h)

LLAtomic ==
    \/ \E i \in Names :
         (dir[i] # NoFile /\ lo_unlink(i)) \/ \E j \in Names : lo_rename(i, j)
    \/ \E n \in Nodes : lo_open(n)
    \/ \E h \in hdl : lo_release(h)

LLHandlers == LLAtomic \/ \E t \in Threads : (Busy(t) /\ LLStep(t)) \/ (~Busy(t) /\ LLRequest(t))

=============================================================================
