------------------------------- MODULE MCFuse -------------------------------
(* The FUSE examples of lab 12, one at a time: part picks the one.          *)
EXTENDS FuseFiles, FuseReaddir, FuseNotify, FuseDevice, FusePoll, FuseMain, FuseHello, TLC

CONSTANT HAVE_COPY_FILE_RANGE    \* the file systems that are built with it

VARIABLE part

Hi == INSTANCE HighCalls
Fh == INSTANCE XmpFh
Old == INSTANCE OldXmp
Lo == INSTANCE LowCalls

FileSystems == {"passthrough", "passthrough_fh", "fusexmp", "fusexmp_fh", "bbfs",
                "passthrough_ll", "passthrough_hp"}
Operations ==
    CASE part = "passthrough" -> Hi!xmp_oper
      [] part = "passthrough_fh" -> Fh!xmp_oper
      [] part = "fusexmp" -> Old!xmp_oper
      [] part = "fusexmp_fh" -> Old!xmp_oper_fh
      [] part = "bbfs" -> Hi!bb_oper
      [] part = "passthrough_ll" -> Lo!lo_oper
      [] part = "passthrough_hp" -> Lo!assign_operations

\* Bound: two names for a file system without, and for one with descriptors
\* in fi->fh; one for the others, whose rename and link are the same calls.
NamesOf == IF part \in {"fusexmp", "bbfs"} THEN Names ELSE 0 .. 1

Listings == {"readdir_ll", "readdir_hp", "readdir_fh"}

Devices == {"device", "poll", "main", "hello"}

Init ==
    /\ part \in FileSystems \cup Listings \cup Notifiers \cup Devices
    /\ \E single \in (IF part \in {"notify_store_retrieve", "invalidate_path"} THEN BOOLEAN ELSE {TRUE}) : NInit(part, single)
    /\ FInit /\ RInit /\ DInit /\ PInit /\ MInit /\ HInit

\* copy_file_range is compiled under an #ifdef.
Built == IF part \in HAVE_COPY_FILE_RANGE THEN Operations ELSE [Operations EXCEPT !.onFiles = {}]

FilesNext == /\ part \in FileSystems
             /\ FNext(Built, NamesOf)
             /\ UNCHANGED <<part, rvars, nvars, devars, povars, mvars, hevars>>
ReaddirNext == /\ \/ part = "readdir_ll" /\ LoReaddir
                  \/ part = "readdir_hp" /\ SfsReaddir
                  \/ part = "readdir_fh" /\ XmpReaddir
                  \/ part \in Listings /\ Environment
               /\ UNCHANGED <<part, fvars, nvars, devars, povars, mvars, hevars>>
NotifyNext == /\ part \in Notifiers /\ NNext
              /\ UNCHANGED <<part, fvars, rvars, devars, povars, mvars, hevars>>
DeviceNext == /\ part = "device" /\ DNext
              /\ UNCHANGED <<part, fvars, rvars, nvars, povars, mvars, hevars>>
PollNext == /\ part = "poll" /\ PNext
            /\ UNCHANGED <<part, fvars, rvars, nvars, devars, mvars, hevars>>
MainNext == /\ part = "main" /\ MNext
            /\ UNCHANGED <<part, fvars, rvars, nvars, devars, povars, hevars>>
HelloNext == /\ part = "hello" /\ HNext
             /\ UNCHANGED <<part, fvars, rvars, nvars, devars, povars, mvars>>

Next == FilesNext \/ ReaddirNext \/ NotifyNext \/ DeviceNext \/ PollNext \/ MainNext \/ HelloNext
Spec == Init /\ [][Next]_<<fvars, rvars, nvars, devars, povars, mvars, hevars, part>>

\* In passthrough_hp.cc and passthrough_fh.c.  (In passthrough_ll.c the entry
\* stays in d->entry and every further request fails on it.)
ListingGoesOn == part \in {"readdir_hp", "readdir_fh"} => ErrorsPass

\* No request leaves a descriptor open when it fails.  (In passthrough_hp.cc
\* an opendir whose fdopendir fails does, and nothing else.)
NoLeak == \A x \in leaked : part = "passthrough_hp" /\ fds[x] = Root

Symmetric == Permutations(Threads) \cup Permutations(Files)

\* Descriptors and memory of the pass-through file systems: each has one owner,
\* requests that fail leave none behind, and a call reaches the file it was for.
FilesOwned == FTypeOK /\ FdOwners /\ ClosesHeld /\ HeapOwners /\ NoLeak /\ UsesOwnFile

\* A directory listed in pieces while it changes is listed once and to its end.
ListingExact == NothingSkipped /\ NothingTwice /\ EndIsEnd /\ ListingGoesOn

=============================================================================
