---------------------------- MODULE MCFuseNodes ----------------------------
(* Both pass-through variants on one small directory: Impl picks the one.   *)
EXTENDS PassthroughLL, PassthroughHP, TLC

CONSTANT Impl   \* which variants a run explores, a subset of {"ll", "hp"}

VARIABLE impl   \* the one this behaviour runs

Init == InitWorld /\ impl \in Impl

LLNext == impl = "ll" /\ LLHandlers /\ UNCHANGED impl
HPNext == impl = "hp" /\ HPHandlers /\ UNCHANGED impl
Next == LLNext \/ HPNext

Spec == Init /\ [][Next]_<<vars, impl>>

\* Threads are interchangeable, and so are the files.
Symmetric == Permutations(Threads) \cup Permutations(Files)

\* hp finds or makes a node under one lock: no two nodes for one file.
HPOneNodePerFile == impl = "hp" => OneNodePerFile

\* passthrough_ll.c has no such race.
OnlyHPRaces == impl = "ll" => ~raced

\* The table of nodes tells the truth about the files: nodes the kernel may name
\* are alive and denote the file they were made for, lookups and opens answer with
\* the right one, hp has one node per file, and no object is used after it was
\* freed.  In passthrough_ll.c always, in passthrough_hp.cc until a lookup takes
\* up a node that a forget is removing.
NodesRight ==
    /\ ~raced => TypeOK
    /\ OnlyHPRaces /\ OnlyByRace
    /\ KnownNodesLive /\ RightNode /\ HandleOfNode /\ HPOneNodePerFile

=============================================================================
