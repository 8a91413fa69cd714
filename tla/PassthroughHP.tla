--------------------------- MODULE PassthroughHP ---------------------------
(***************************************************************************)
(* passthrough_hp.cc: Inode objects in the map fs.inodes, found by (st_ino, *)
(* st_dev).  fs.mutex protects the map, Inode.m the lookup count; the rule  *)
(* is Inode.m before fs.mutex.  An Inode.m held over two steps is lock[n],  *)
(* with 0 for the directory; fs.mutex is held over two steps by forget_one  *)
(* alone, at "erase".                                                       *)
(***************************************************************************)
EXTENDS FuseNodes

Unlocked(n) == lock[n] = NoThread

\* A lookup has found node n and not counted yet.
Awaited(n) == \E t \in Threads : th[t].pc = "count" /\ th[t].n = n

\* get_inode of an object that is there
get_inode(n) == node[n].st = "live"

---------------------------------------------------------------------------
(* do_lookup.  A file on another device or with inode number 1 is refused   *)
(* after it was opened, and its descriptor is not closed.                   *)

do_lookup_openat(t) ==
    /\ th[t].pc = "openat"
    /\ OpenPath(t, "fstatat", "failed")
    /\ UNCHANGED <<dir, node, known, klook, hdl, lock, faults, lost, uaf, raced>>

do_lookup_fstatat(t) ==
    /\ th[t].pc = "fstatat"
    /\ \/ /\ Succeeds
          /\ IF th[t].file \in Foreign
             THEN /\ th' = [th EXCEPT ![t].pc = "failed", ![t].fd = 0]
                  /\ lost' = lost \cup {th[t].fd}
             ELSE th' = [th EXCEPT ![t].pc = "map"] /\ UNCHANGED lost
          /\ UNCHANGED fds
       \/ /\ Fails
          /\ th' = [th EXCEPT ![t].pc = "failed", ![t].fd = 0]
          /\ fds' = Close(th[t].fd)
          /\ UNCHANGED lost
    /\ UNCHANGED <<dir, node, known, klook, hdl, lock, uaf, raced>>

\* Under fs.mutex: fs.inodes[id].  An object that is there is taken up by
\* the next step, after fs.mutex is released, although a forget may have
\* counted it down to 0 and be about to erase it; a new one is filled in at
\* once.  The descriptor is not closed when the map cannot grow.
do_lookup_map(t) ==
    LET hits == {j \in DOMAIN known : node[known[j]].file = th[t].file}
        hit == known[CHOOSE j \in hits : TRUE] IN
    /\ th[t].pc = "map" /\ MapFree
    /\ \/ /\ hits # {} /\ Succeeds
          /\ th' = [th EXCEPT ![t].pc = "count", ![t].n = hit]
          /\ raced' = (raced \/ node[hit].ref = 0)
          /\ UNCHANGED <<node, known, lost>>
       \/ /\ hits = {} /\ Succeeds
          /\ \E n \in Nodes :
               /\ node[n].st = "free" /\ \A m \in 1 .. n - 1 : node[m].st # "free"
               /\ node' = [node EXCEPT ![n] = [st |-> "live", fd |-> th[t].fd,
                                               file |-> th[t].file, ref |-> 1]]
               /\ known' = <<n>> \o known
               /\ th' = [th EXCEPT ![t].pc = "found", ![t].n = n, ![t].fd = 0]
          /\ UNCHANGED <<lost, raced>>
       \/ /\ hits = {} /\ NoMemory
          /\ th' = [th EXCEPT ![t].pc = "failed", ![t].fd = 0]
          /\ lost' = lost \cup {th[t].fd}
          /\ UNCHANGED <<node, known, raced>>
    /\ UNCHANGED <<dir, fds, klook, hdl, lock, uaf>>

\* Seeded fault: Inode.m is not released.
do_lookup_count_keeps_m(t) ==
    LET n == th[t].n IN
    /\ th[t].pc = "count" /\ Unlocked(n)
    /\ node' = [node EXCEPT ![n].ref = @ + 1]
    /\ fds' = Close(th[t].fd)
    /\ th' = [th EXCEPT ![t].pc = "found", ![t].fd = 0]
    /\ lock' = [lock EXCEPT ![n] = t]
    /\ UNCHANGED <<dir, known, klook, hdl, faults, lost, uaf, raced>>
\* Under Inode.m, after fs.mutex was released: the object may have been
\* erased.
do_lookup_count(t) ==
    LET n == th[t].n IN
    /\ th[t].pc = "count" /\ Unlocked(n)
    /\ IF get_inode(n)
       THEN /\ node' = [node EXCEPT ![n].ref = @ + 1]
            /\ fds' = Close(th[t].fd)
            /\ th' = [th EXCEPT ![t].pc = "found", ![t].fd = 0]
            /\ UNCHANGED uaf
       ELSE uaf' = TRUE /\ UNCHANGED <<node, fds, th>>
    /\ UNCHANGED <<dir, known, klook, hdl, lock, faults, lost, raced>>

---------------------------------------------------------------------------
(* The handlers around it.                                                  *)

\* ENOENT is answered with an entry of node 0, which the kernel may cache.
sfs_lookup(t) ==
    /\ th[t].op \in {"lookup", "mknod"}
    /\ \/ th[t].pc = "found" /\ ReplyEntry(t)
       \/ th[t].pc = "failed" /\ ReplyErr(t)
    /\ UNCHANGED <<dir, fds, node, known, hdl, lock, faults, lost, uaf, raced>>

mknod_symlink(t, i) ==
    /\ MakeName(i) /\ NodeRoom
    /\ Start(t, [Idle EXCEPT !.op = "mknod", !.pc = "openat", !.i = i])
    /\ UNCHANGED <<fds, node, known, klook, hdl, lock, faults, lost, uaf, raced>>

sfs_link(t, n, i) ==
    /\ get_inode(n) /\ LinkName(t, n, i, "linked")
    /\ UNCHANGED <<fds, node, known, klook, hdl, lock, faults, lost, uaf, raced>>
sfs_link_entry(t) ==
    LET n == th[t].n IN
    /\ th[t].op = "link"
    /\ \/ /\ th[t].pc = "linked" /\ Succeeds /\ Unlocked(n)
          /\ IF get_inode(n)
             THEN /\ node' = [node EXCEPT ![n].ref = @ + 1]
                  /\ th' = [th EXCEPT ![t].pc = "found"]
                  /\ UNCHANGED uaf
             ELSE uaf' = TRUE /\ UNCHANGED <<node, th>>
          /\ UNCHANGED klook
       \/ th[t].pc = "linked" /\ Fails /\ ReplyErr(t) /\ UNCHANGED <<node, uaf>>
       \/ th[t].pc = "found" /\ Succeeds /\ ReplyEntry(t) /\ UNCHANGED <<node, uaf>>
    /\ UNCHANGED <<dir, fds, known, hdl, lock, lost, raced>>

\* rmdir holds the directory's mutex, unlink does not.
sfs_rmdir(i) == Remove(i) /\ ~uaf /\ Unlocked(0)
                /\ UNCHANGED <<fds, node, known, klook, hdl, th, lock, faults, lost, uaf, raced>>
sfs_unlink(i) == Remove(i) /\ ~uaf
                 /\ UNCHANGED <<fds, node, known, klook, hdl, th, lock, faults, lost, uaf, raced>>
sfs_rename(i, j) == RenameTo(i, j) /\ ~uaf
                    /\ UNCHANGED <<fds, node, known, klook, hdl, th, lock, faults, lost, uaf, raced>>

\* forget_one takes Inode.m and lowers the count; at 0 it keeps Inode.m.  A
\* lookup that waits for it is not told that the object is about to go.
forget_one(t) ==
    LET n == th[t].n IN
    /\ th[t].pc = "forget" /\ Unlocked(n)
    /\ IF ~get_inode(n)
       THEN uaf' = TRUE /\ UNCHANGED <<node, th, lock, raced>>
       ELSE /\ node' = [node EXCEPT ![n].ref = @ - th[t].cnt]
            /\ IF node[n].ref = th[t].cnt
               THEN /\ lock' = [lock EXCEPT ![n] = t]
                    /\ th' = [th EXCEPT ![t].pc = "drop", ![t].cnt = 0]
                    /\ raced' = (raced \/ Awaited(n))
               ELSE /\ th' = [th EXCEPT ![t] = Forgotten(t)]
                    /\ UNCHANGED <<lock, raced>>
            /\ UNCHANGED uaf
    /\ UNCHANGED <<dir, fds, known, klook, hdl, faults, lost>>

\* It takes fs.mutex and releases Inode.m: a lookup that waits may count now.
forget_one_unlock(t) ==
    LET n == th[t].n IN
    /\ th[t].pc = "drop" /\ MapFree
    /\ IF get_inode(n)
       THEN /\ lock' = [lock EXCEPT ![n] = NoThread]
            /\ th' = [th EXCEPT ![t].pc = "erase"]
            /\ UNCHANGED uaf
       ELSE uaf' = TRUE /\ UNCHANGED <<lock, th>>
    /\ UNCHANGED <<dir, fds, node, known, klook, hdl, faults, lost, raced>>

\* It erases the object, whose destructor closes the descriptor, and releases
\* fs.mutex.  Bound: the memory of an object that is erased while it is counted,
\* locked or waited for ("gone") is not handed out again.
forget_one_erase(t) ==
    LET n == th[t].n IN
    /\ th[t].pc = "erase"
    /\ known' = Without(n)
    /\ fds' = Close(node[n].fd)
    /\ node' = [node EXCEPT ![n] = IF node[n].ref = 0 /\ Unlocked(n) /\ ~Awaited(n) THEN FreeNode
                                   ELSE [FreeNode EXCEPT !.st = "gone"]]
    /\ th' = [th EXCEPT ![t] = Forgotten(t)]
    /\ UNCHANGED <<dir, klook, hdl, lock, faults, lost, uaf, raced>>

\* The kernel's next request names a node that was erased.
get_inode_gone(n) ==
    /\ klook[n] > 0 /\ ~get_inode(n) /\ ~uaf
    /\ uaf' = TRUE
    /\ UNCHANGED <<dir, fds, node, known, klook, hdl, th, lock, faults, lost, raced>>

sfs_forget(t, n) == get_inode(n) /\ StartForget(t, n)

---------------------------------------------------------------------------
(* do_readdir with plus holds the directory's mutex over the whole loop.    *)

sfs_readdirplus(t) ==
    /\ DirFree(Changing \cup {"readdirplus"}) /\ NodeRoom
    /\ Unlocked(0)
    /\ lock' = [lock EXCEPT ![0] = t]
    /\ Start(t, [Idle EXCEPT !.op = "readdirplus", !.pc = "next", !.i = 1])
    /\ UNCHANGED <<dir, fds, node, known, klook, hdl, faults, lost, uaf, raced>>

do_readdir_next(t) ==
    /\ th[t].op = "readdirplus" /\ th[t].pc = "next"
    /\ IF th[t].i > NNames
       THEN ReplyDir(t) /\ lock' = [lock EXCEPT ![0] = NoThread]
       ELSE /\ th' = [th EXCEPT ![t].pc = IF dir[th[t].i] = NoFile THEN "next" ELSE "openat",
                                ![t].i = IF dir[th[t].i] = NoFile THEN @ + 1 ELSE @]
            /\ UNCHANGED <<klook, lock>>
    /\ UNCHANGED <<dir, fds, node, known, hdl, faults, lost, uaf, raced>>

do_readdir(t) ==
    /\ th[t].op = "readdirplus"
    /\ \/ /\ th[t].pc = "found"
          /\ \/ th' = [th EXCEPT ![t].pc = "next", ![t].i = @ + 1, ![t].n = 0,
                                 ![t].file = NoFile, ![t].got = Append(@, th[t].n)]
             \/ th' = [th EXCEPT ![t].pc = "forget", ![t].cnt = 1]
          /\ UNCHANGED <<klook, lock>>
       \/ /\ th[t].pc \in {"failed", "forgot"} /\ ReplyDir(t)
          /\ lock' = [lock EXCEPT ![0] = NoThread]
    /\ UNCHANGED <<dir, fds, node, known, hdl, faults, lost, uaf, raced>>

---------------------------------------------------------------------------
(* Open files.                                                              *)

sfs_create(t, i) ==
    /\ CreateName(t, i, "openat")
    /\ UNCHANGED <<node, known, klook, hdl, lock, faults, lost, uaf, raced>>

sfs_create_reply(t) ==
    /\ th[t].op = "create"
    /\ \/ /\ th[t].pc = "found" /\ ReplyEntry(t)
          /\ hdl' = hdl \cup {[fd |-> th[t].fh, file |-> fds[th[t].fh], n |-> th[t].n]}
          /\ UNCHANGED lost
       \/ /\ th[t].pc = "failed" /\ ReplyErr(t)
          /\ lost' = lost \cup {th[t].fh}
          /\ UNCHANGED hdl
    /\ UNCHANGED <<dir, fds, node, known, lock, faults, uaf, raced>>

sfs_open(n) ==
    /\ klook[n] > 0 /\ get_inode(n) /\ ~uaf /\ FreeFds(fds) # {}
    /\ fds' = Open(node[n].file)
    /\ hdl' = hdl \cup {[fd |-> LowFd(fds), file |-> node[n].file, n |-> n]}
    /\ UNCHANGED <<dir, node, known, klook, th, lock, faults, lost, uaf, raced>>

sfs_release(h) ==
    /\ ~uaf /\ \A t \in Threads : th[t].pc # "flush"
    /\ fds' = Close(h.fd)
    /\ hdl' = hdl \ {h}
    /\ UNCHANGED <<dir, node, known, klook, th, lock, faults, lost, uaf, raced>>

sfs_flush(t, h) ==
    /\ FreeFds(fds) # {}
    /\ Start(t, [Idle EXCEPT !.op = "flush", !.pc = "flush", !.fd = LowFd(fds)])
    /\ fds' = Open(h.file)
    /\ UNCHANGED <<dir, node, known, klook, hdl, lock, faults, lost, uaf, raced>>
sfs_flush_close(t) ==
    /\ th[t].pc = "flush"
    /\ fds' = Close(th[t].fd)
    /\ ReplyErr(t)
    /\ UNCHANGED <<dir, node, known, hdl, lock, faults, lost, uaf, raced>>

---------------------------------------------------------------------------
HPStep(t) ==
    /\ ~uaf
    /\ \/ do_lookup_openat(t) \/ do_lookup_fstatat(t) \/ do_lookup_map(t)
       \/ do_lookup_count(t)
       \/ sfs_lookup(t) \/ sfs_link_entry(t) \/ sfs_create_reply(t)
       \/ forget_one(t) \/ forget_one_unlock(t) \/ forget_one_erase(t)
       \/ do_readdir_next(t) \/ do_readdir(t) \/ sfs_flush_close(t)

HPRequest(t) ==
    \/ \E i \in Names :
         StartLookup(t, i) \/ mknod_symlink(t, i) \/ sfs_create(t, i)
    \/ \E n \in Nodes : sfs_forget(t, n) \/ \E i \in Names : sfs_link(t, n, i)
    \/ sfs_readdirplus(t)
    \/ \E h \in hdl : sfs_flush(t, h)

HPAtomic ==
    \/ \E i \in Names :
         \/ dir[i] # NoFile /\ (sfs_unlink(i) \/ sfs_rmdir(i))
         \/ \E j \in Names : sfs_rename(i, j)
    \/ \E n \in Nodes : sfs_open(n) \/ get_inode_gone(n)
    \/ \E h \in hdl : sfs_release(h)

HPHandlers == HPAtomic \/ \E t \in Threads : (Busy(t) /\ HPStep(t)) \/ (~Busy(t) /\ HPRequest(t))

=============================================================================
