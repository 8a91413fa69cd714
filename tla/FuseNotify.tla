----------------------------- MODULE FuseNotify ----------------------------
(***************************************************************************)
(* File systems whose contents change by themselves and that tell the       *)
(* kernel so: notify_inval_inode.c, notify_store_retrieve.c,                 *)
(* notify_inval_entry.c and invalidate_path.c.  A thread of its own updates  *)
(* the contents and then notifies the kernel; the worker threads of libfuse *)
(* answer lookups, forgets and reads.  What a file holds, and the name of    *)
(* the file in notify_inval_entry.c, is a version; while strftime writes it  *)
(* a reader sees Torn.  lookup_cnt is read and written without a lock.       *)
(***************************************************************************)
EXTENDS Integers, FiniteSets

CONSTANTS MaxVersion,   \* bound: updates
          MaxKnown      \* bound: lookups the kernel counts for the file (lookup_cnt drifts
                        \* without -s, as updates get lost)

ASSUME NotifyAssumption == MaxVersion \in Nat \ {0} /\ MaxKnown \in Nat

VARIABLES
    nmode,        \* which program, and whether it runs with -s
    content,      \* file -> version; file 2 exists in invalidate_path.c
    lookup_cnt,
    upd,          \* the updater: place, and old_name
    work,         \* worker -> request
    kern,         \* kernel: lookups of the inode, a forget on its way, mounted
    ncache,       \* kernel: file -> cached page; or the cached name (0: none)
    ask,          \* a retrieve on its way: data and cookie
    retrieve_status,
    nend          \* why the process ended ("no": it has not)

nvars == <<nmode, content, lookup_cnt, upd, work, kern, ncache, ask, retrieve_status, nend>>

Notifiers == {"notify_inval_inode", "notify_store_retrieve", "notify_inval_entry", "invalidate_path"}

Workers == 1 .. 2
TheFiles == 1 .. 2
Torn == MaxVersion + 1
Rest == [op |-> "idle", at |-> "none", f |-> 1, v |-> 0, tmp |-> 0, n |-> 0]
NoAsk == [data |-> 0, cookie |-> 0]

\* main has called update_fs once.
NInit(program, single) ==
    /\ nmode = [program |-> program, single |-> single]
    /\ content = [f \in TheFiles |-> 1]
    /\ lookup_cnt = 0 /\ retrieve_status = 0
    /\ upd = [pc |-> "top", old |-> 0]
    /\ work = [w \in Workers |-> Rest]
    /\ kern = [known |-> 0, forget |-> 0, mounted |-> TRUE]
    /\ ncache = [f \in TheFiles |-> 0]
    /\ ask = NoAsk /\ nend = "no"

Is(p) == nmode.program = p
Alive == nend = "no"
FilesOf == IF Is("invalidate_path") THEN TheFiles ELSE {1}
\* -s: one request at a time
CanStart(w) == /\ Alive /\ kern.mounted /\ work[w] = Rest
               /\ nmode.single => \A x \in Workers : work[x] = Rest
In(w, op, at) == Alive /\ work[w].op = op /\ work[w].at = at
Request(w, r) == work' = [work EXCEPT ![w] = r]
InFlight(op) == \E w \in Workers : work[w].op = op
NotServed == UNCHANGED <<nmode, content, upd, retrieve_status, nend>>

---------------------------------------------------------------------------
(* tfs_lookup: the name is compared, the lookup counted, the reply sent.    *)
(* The kernel looks one name up once at a time.                              *)

tfs_lookup(w, v) ==
    /\ CanStart(w) /\ ~InFlight("lookup") /\ kern.known < MaxKnown /\ lookup_cnt \in -1 .. MaxKnown + 1
    /\ ~Is("invalidate_path")
    /\ IF Is("notify_inval_entry")
       THEN v = content[1]    \* any other name: ENOENT
       ELSE v = 1
    /\ Request(w, [Rest EXCEPT !.op = "lookup", !.at = "load", !.v = v])
    /\ UNCHANGED <<lookup_cnt, kern, ncache, ask>> /\ NotServed

\* lookup_cnt++
lookup_count(w) ==
    \/ /\ In(w, "lookup", "load")
       /\ Request(w, [work[w] EXCEPT !.at = "store", !.tmp = lookup_cnt])
       /\ UNCHANGED <<lookup_cnt, kern, ncache, ask>> /\ NotServed
    \/ /\ In(w, "lookup", "store")
       /\ lookup_cnt' = work[w].tmp + 1
       /\ Request(w, [work[w] EXCEPT !.at = "reply"])
       /\ UNCHANGED <<kern, ncache, ask>> /\ NotServed

\* fuse_reply_entry: the kernel counts the lookup, and caches the name.
lookup_reply(w) ==
    /\ In(w, "lookup", "reply")
    /\ Request(w, Rest)
    /\ kern' = [kern EXCEPT !.known = IF kern.mounted THEN @ + 1 ELSE @]
    /\ ncache' = IF Is("notify_inval_entry") THEN [ncache EXCEPT ![1] = work[w].v] ELSE ncache
    /\ UNCHANGED <<lookup_cnt, ask>> /\ NotServed

\* Seeded fault: a forget drops the whole count.
tfs_forget_all(w) ==
    \/ /\ CanStart(w) /\ kern.forget > 0 /\ ~Is("invalidate_path")
       /\ Request(w, [Rest EXCEPT !.op = "forget", !.at = "store", !.tmp = lookup_cnt, !.n = kern.forget])
       /\ kern' = [kern EXCEPT !.forget = 0]
       /\ UNCHANGED <<lookup_cnt, ncache, ask>> /\ NotServed
    \/ /\ In(w, "forget", "store")
       /\ lookup_cnt' = 0
       /\ Request(w, Rest)
       /\ UNCHANGED <<kern, ncache, ask>> /\ NotServed
\* lookup_cnt -= nlookup
tfs_forget(w) ==
    \/ /\ CanStart(w) /\ kern.forget > 0 /\ ~Is("invalidate_path")
       /\ Request(w, [Rest EXCEPT !.op = "forget", !.at = "store", !.tmp = lookup_cnt, !.n = kern.forget])
       /\ kern' = [kern EXCEPT !.forget = 0]
       /\ UNCHANGED <<lookup_cnt, ncache, ask>> /\ NotServed
    \/ /\ In(w, "forget", "store")
       /\ lookup_cnt' = work[w].tmp - work[w].n
       /\ Request(w, Rest)
       /\ UNCHANGED <<kern, ncache, ask>> /\ NotServed

\* A read of a page that is not cached; tfs_read and xmp_read answer with
\* what the file holds now.  The page is locked until the answer is in it.
tfs_read(w, f) ==
    \/ /\ CanStart(w) /\ ~Is("notify_inval_entry") /\ f \in FilesOf
       /\ kern.known > 0 /\ ncache[f] = 0 /\ ~InFlight("read")
       /\ Request(w, [Rest EXCEPT !.op = "read", !.at = "reply", !.f = f, !.v = content[f]])
       /\ UNCHANGED <<lookup_cnt, kern, ncache, ask>> /\ NotServed
    \/ /\ In(w, "read", "reply") /\ work[w].f = f
       /\ Request(w, Rest)
       /\ ncache' = [ncache EXCEPT ![f] = IF kern.mounted THEN work[w].v ELSE 0]
       /\ UNCHANGED <<lookup_cnt, kern, ask>> /\ NotServed

\* tfs_retrieve_reply: the asserts on the data the kernel sent back.
tfs_retrieve_reply(w) ==
    /\ CanStart(w) /\ ask # NoAsk
    /\ ask' = NoAsk
    /\ nend' = IF ask.data = 0 THEN "empty" ELSE IF ask.data # ask.cookie THEN "mismatch" ELSE nend
    /\ retrieve_status' = 2
    /\ UNCHANGED <<nmode, content, lookup_cnt, upd, work, kern, ncache>>

---------------------------------------------------------------------------
(* update_fs_loop                                                           *)

At(pc) == Alive /\ upd.pc = pc
Goto(pc) == upd' = [upd EXCEPT !.pc = pc]
Only == UNCHANGED <<nmode, lookup_cnt, work, kern, ask>>

\* strftime overwrites the contents, one file after the other.
update_fs ==
    \/ /\ At("top") /\ content[1] < MaxVersion
       /\ upd' = [pc |-> "update", old |-> content[1]]
       /\ content' = [content EXCEPT ![1] = Torn]
       /\ Only /\ UNCHANGED <<ncache, retrieve_status, nend>>
    \/ /\ At("update")
       /\ content' = [content EXCEPT ![1] = upd.old + 1]
       /\ Goto(IF Is("invalidate_path") THEN "grow" ELSE "check")
       /\ Only /\ UNCHANGED <<ncache, retrieve_status, nend>>
    \/ /\ At("grow")
       /\ content' = [content EXCEPT ![2] = upd.old + 1]
       /\ Goto("time")
       /\ Only /\ UNCHANGED <<ncache, retrieve_status, nend>>

\* Only if the kernel is aware of the inode.
loop_check ==
    /\ At("check")
    /\ Goto(IF lookup_cnt # 0 THEN "notify" ELSE "top")
    /\ Only /\ UNCHANGED <<content, ncache, retrieve_status, nend>>

\* What a notification returns; it waits for locked pages and lookups.
Quiet == IF Is("notify_inval_entry") THEN ~InFlight("lookup") ELSE ~InFlight("read")
Result == IF ~kern.mounted THEN "ENODEV"
          ELSE IF kern.known = 0 \/ (Is("notify_inval_entry") /\ ncache[1] # upd.old) THEN "ENOENT"
          ELSE "ok"
After0(res, next) == Goto(IF res = "ok" THEN next ELSE upd.pc) /\ nend' = IF res = "ok" THEN nend ELSE res

\* fuse_lowlevel_notify_inval_inode and fuse_lowlevel_notify_inval_entry
loop_notify ==
    /\ At("notify") /\ ~Is("notify_store_retrieve") /\ (Quiet \/ ~kern.mounted)
    /\ After0(Result, "top")
    /\ ncache' = IF Result = "ok" THEN [ncache EXCEPT ![1] = 0] ELSE ncache
    /\ Only /\ UNCHANGED <<content, retrieve_status>>

\* invalidate of both paths: ENOENT is no error.
invalidate(pc, f, next) ==
    LET res == IF Result = "ENOENT" THEN "ok" ELSE Result IN
    /\ At(pc) /\ (Quiet \/ ~kern.mounted)
    /\ After0(res, next)
    /\ ncache' = IF Result = "ok" THEN [ncache EXCEPT ![f] = 0] ELSE ncache
    /\ Only /\ UNCHANGED <<content, retrieve_status>>

\* fuse_lowlevel_notify_store: ENODEV ends the loop.
loop_store ==
    /\ At("notify") /\ Is("notify_store_retrieve") /\ (Quiet \/ ~kern.mounted)
    /\ IF Result = "ENODEV" THEN Goto("done") /\ UNCHANGED nend ELSE After0(Result, "retrieve")
    /\ ncache' = IF Result = "ok" THEN [ncache EXCEPT ![1] = content[1]] ELSE ncache
    /\ Only /\ UNCHANGED <<content, retrieve_status>>

\* fuse_lowlevel_notify_retrieve, with a copy of the contents as cookie.
loop_retrieve ==
    /\ At("retrieve") /\ (ask = NoAsk \/ ~kern.mounted)
    /\ IF Result = "ENODEV" THEN Goto("done") /\ UNCHANGED nend ELSE After0(Result, "status")
    /\ ask' = IF Result = "ok" THEN [data |-> ncache[1], cookie |-> content[1]] ELSE ask
    /\ UNCHANGED <<nmode, content, lookup_cnt, work, kern, ncache, retrieve_status>>

\* if (retrieve_status == 0) retrieve_status = 1
loop_status ==
    \/ /\ At("status")
       /\ Goto(IF retrieve_status = 0 THEN "set" ELSE "top")
       /\ Only /\ UNCHANGED <<content, ncache, retrieve_status, nend>>
    \/ /\ At("set")
       /\ retrieve_status' = 1 /\ Goto("top")
       /\ Only /\ UNCHANGED <<content, ncache, nend>>

update_fs_loop ==
    \/ update_fs \/ loop_check \/ loop_notify \/ loop_store \/ loop_retrieve \/ loop_status
    \/ invalidate("time", 1, "grown") \/ invalidate("grown", 2, "top")

---------------------------------------------------------------------------
(* The kernel and, for invalidate_path.c, libfuse's own node table.         *)

\* libfuse looks the paths up and counts for itself.
KernelKnows ==
    /\ Alive /\ kern.mounted /\ Is("invalidate_path") /\ kern.known = 0
    /\ kern' = [kern EXCEPT !.known = 1]
    /\ UNCHANGED <<lookup_cnt, work, ncache, ask>> /\ NotServed
\* The inode is evicted, its pages with it.
KernelForget ==
    /\ Alive /\ kern.known > 0 /\ kern.forget = 0 /\ ~InFlight("read")
    /\ kern' = [kern EXCEPT !.known = 0, !.forget = IF Is("invalidate_path") THEN 0 ELSE kern.known]
    /\ ncache' = [f \in TheFiles |-> 0]
    /\ UNCHANGED <<lookup_cnt, work, ask>> /\ NotServed
\* A page is reclaimed, or a name expires (--timeout).
KernelEvict(f) ==
    /\ Alive /\ ncache[f] # 0
    /\ ncache' = [ncache EXCEPT ![f] = 0]
    /\ UNCHANGED <<lookup_cnt, work, kern, ask>> /\ NotServed
Unmount ==
    /\ Alive /\ kern.mounted
    /\ kern' = [known |-> 0, forget |-> 0, mounted |-> FALSE]
    /\ ncache' = [f \in TheFiles |-> 0] /\ ask' = NoAsk
    /\ UNCHANGED <<lookup_cnt, work>> /\ NotServed
\* main returns from the session loop, checks retrieve_status and exits.
MainEnds ==
    /\ Alive /\ ~kern.mounted /\ \A w \in Workers : work[w] = Rest
    /\ nend' = IF retrieve_status = 1 THEN "status" ELSE "exit"
    /\ UNCHANGED <<nmode, content, lookup_cnt, upd, work, kern, ncache, ask, retrieve_status>>

NNext ==
    \/ \E w \in Workers :
         \/ \E v \in 1 .. MaxVersion : tfs_lookup(w, v)
         \/ lookup_count(w) \/ lookup_reply(w) \/ tfs_forget(w) \/ tfs_retrieve_reply(w)
         \/ \E f \in TheFiles : tfs_read(w, f)
    \/ update_fs_loop
    \/ KernelKnows \/ KernelForget \/ Unmount \/ MainEnds
    \/ \E f \in TheFiles : KernelEvict(f)

---------------------------------------------------------------------------
\* While the updater sleeps the kernel holds no page of an older version, nor
\* one that was being written when it was read: in a program that counts its
\* lookups in one thread, or does not count them.  (notify_inval_entry.c
\* compares the name before it counts, so an old name may slip through.)
CacheFresh ==
    /\ Alive /\ kern.mounted /\ upd.pc \in {"top", "status", "set"}
    /\ (nmode.single /\ ~Is("notify_inval_entry")) \/ Is("invalidate_path")
    => \A f \in TheFiles : ncache[f] \in {0, content[f]}

\* With -s, lookup_cnt is what the kernel counts, plus the reply or the forget
\* that is on its way.
CountExact ==
    nmode.single /\ kern.mounted /\ ~Is("invalidate_path") =>
        lookup_cnt = kern.known + kern.forget
            + Cardinality({w \in Workers : work[w].op = "lookup" /\ work[w].at = "reply"})
            + (IF InFlight("forget") THEN work[CHOOSE w \in Workers : work[w].op = "forget"].n ELSE 0)

\* What the kernel sends back is what was stored, although the contents may
\* have changed since: tfs_retrieve_reply compares with the copy.
RetrieveMatches == nend # "mismatch"

\* The kernel's cache follows the updates: no stale page is left, the lookups are
\* counted right, and a retrieved page is compared with what was stored.
CacheRight == CacheFresh /\ CountExact /\ RetrieveMatches

=============================================================================
