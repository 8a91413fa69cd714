------------------------------ MODULE FuseMain -----------------------------
(***************************************************************************)
(* main of the low level file systems and of invalidate_path.c: a session   *)
(* is set up step by step, and taken down again in the opposite order; each *)
(* step may fail, and jumps to a label in the taking down.  A main is the    *)
(* sequence of its steps.                                                   *)
(***************************************************************************)
EXTENDS Naturals, Sequences, FiniteSetsExt

VARIABLES mprog,     \* the main that runs
          mpc,
          held,      \* what is set up
          undone     \* what was taken down without being set up

mvars == <<mprog, mpc, held, undone>>

\* Set r up, or go to label l; "exit" and "return" leave main at once.
Get(r, l) == <<[do |-> "get", r |-> r, l |-> l]>>
Put(r) == <<[do |-> "put", r |-> r, l |-> ""]>>
\* A check that may lead to label l: --help, --version, no mountpoint.
Check(l) == <<[do |-> "check", r |-> "", l |-> l]>>
Loop == <<[do |-> "loop", r |-> "", l |-> ""]>>
Label(l) == <<[do |-> "label", r |-> "", l |-> l]>>

TakeDown == Label("err_out3") \o Put("signals") \o Label("err_out2") \o Put("session")
            \o Label("err_out1") \o Put("opts")
SetUp == Get("session", "err_out1") \o Get("signals", "err_out2") \o Get("mount", "err_out3")

\* Seeded fault: failing to set the handlers jumps to the label that removes them.
main_hello_ll_early ==
    Get("opts", "return") \o Check("err_out1")
    \o Get("session", "err_out1") \o Get("signals", "err_out3") \o Get("mount", "err_out3")
    \o Loop \o Put("mount") \o TakeDown
main_hello_ll ==
    Get("opts", "return") \o Check("err_out1") \o SetUp \o Loop \o Put("mount") \o TakeDown

\* fuse_opt_parse fails: return; the source is no directory: exit.
main_passthrough_ll ==
    Get("opts", "return") \o Check("err_out1") \o Check("return") \o Check("exit")
    \o Get("root", "exit") \o SetUp \o Loop \o Put("mount") \o TakeDown
    \o <<[do |-> "put?", r |-> "root", l |-> ""]>>

\* The root descriptor stays open.
main_passthrough_hp ==
    Check("exit") \o Get("root", "exit") \o Get("opts", "exit") \o SetUp \o Loop \o Put("mount")
    \o TakeDown

\* The updater is not stopped; if it cannot be started the file system stays
\* mounted.
main_notify_inval_inode ==
    Check("return") \o Get("opts", "err_out1") \o Check("err_out1") \o SetUp
    \o Get("updater", "err_out3") \o Loop \o Put("mount") \o TakeDown
main_notify_inval_entry ==
    Check("return") \o Get("opts", "return") \o Check("err_out1") \o SetUp
    \o Get("updater", "err_out3") \o Loop \o Put("mount") \o TakeDown
main_notify_store_retrieve ==
    Check("return") \o Get("opts", "return") \o Check("err_out1") \o SetUp
    \o Get("updater", "err_out3") \o Loop \o Check("abort") \o Put("mount") \o TakeDown

\* The signal handlers come after the updater; without an updater: return.
main_invalidate_path ==
    Check("return") \o Get("opts", "return") \o Check("out1") \o Get("session", "out1")
    \o Get("mount", "out2") \o Check("out3") \o Get("updater", "return") \o Get("signals", "out3")
    \o Loop \o Put("signals") \o Label("out3") \o Put("mount") \o Label("out2") \o Put("session")
    \o Label("out1") \o Put("opts")

\* examples/hello_ll.c: nested ifs; the channel is mounted first.
main_hello_ll_old ==
    Get("opts", "return") \o Get("mount", "out") \o Get("session", "unmount")
    \o Get("signals", "destroy") \o Loop \o Put("signals") \o Label("destroy") \o Put("session")
    \o Label("unmount") \o Put("mount") \o Label("out") \o Put("opts")

\* poll.c: the producer is cancelled and joined after fuse_main.
main_poll ==
    Get("mutex", "return") \o Check("return") \o Get("updater", "return") \o Loop \o Put("updater")

Mains == [hello_ll |-> main_hello_ll, passthrough_ll |-> main_passthrough_ll,
          passthrough_hp |-> main_passthrough_hp, notify_inval_inode |-> main_notify_inval_inode,
          notify_inval_entry |-> main_notify_inval_entry,
          notify_store_retrieve |-> main_notify_store_retrieve,
          invalidate_path |-> main_invalidate_path, hello_ll_old |-> main_hello_ll_old,
          poll |-> main_poll]

MInit == mprog = "" /\ mpc = 1 /\ held = {} /\ undone = {}

---------------------------------------------------------------------------
Steps == Mains[mprog]
StepNow == Steps[mpc]
Running1 == mprog # "" /\ mpc <= Len(Steps)
Target(l) == IF \E k \in DOMAIN Steps : Steps[k].do = "label" /\ Steps[k].l = l
             THEN Min({k \in DOMAIN Steps : Steps[k].do = "label" /\ Steps[k].l = l})
             ELSE Len(Steps) + 2
Fail == mpc' = Target(StepNow.l) /\ UNCHANGED <<mprog, held, undone>>
OnTo == mpc' = mpc + 1

Choose(p) == mprog = "" /\ mprog' = p /\ UNCHANGED <<mpc, held, undone>>
SetUpStep ==
    /\ Running1 /\ StepNow.do = "get"
    /\ Fail \/ (OnTo /\ held' = held \cup {StepNow.r} /\ UNCHANGED <<mprog, undone>>)
CheckStep ==
    /\ Running1 /\ StepNow.do = "check"
    /\ Fail \/ (OnTo /\ UNCHANGED <<mprog, held, undone>>)
TakeDownStep ==
    /\ Running1 /\ StepNow.do \in {"put", "put?"}
    /\ held' = held \ {StepNow.r}
    /\ undone' = undone \cup {r \in {StepNow.r} \ held : StepNow.do = "put"}
    /\ OnTo /\ UNCHANGED mprog
OtherStep ==
    /\ Running1 /\ StepNow.do \in {"loop", "label"}
    /\ OnTo /\ UNCHANGED <<mprog, held, undone>>

MNext == (\E p \in DOMAIN Mains : Choose(p)) \/ SetUpStep \/ CheckStep \/ TakeDownStep \/ OtherStep

---------------------------------------------------------------------------
\* Whichever step fails, what is taken down had been set up: no error label
\* destroys a session, or removes handlers, that do not exist.  (Only
\* notify_inval_inode.c frees the mountpoint after fuse_parse_cmdline failed.)
UndoesWhatItDid == undone \subseteq IF mprog = "notify_inval_inode" THEN {"opts"} ELSE {}

\* A main that reaches its last line has taken everything down, but for the
\* root descriptor of passthrough_hp.cc, the mutex of poll.c, and in the
\* programs with an updater that thread and, if it could not be started, the
\* mount.
LeavesNothing ==
    mprog # "" /\ mpc = Len(Mains[mprog]) + 1 =>
        held \subseteq CASE mprog = "passthrough_hp" -> {"root"}
                         [] mprog = "poll" -> {"mutex"}
                         [] mprog \in {"notify_inval_inode", "notify_inval_entry",
                                       "notify_store_retrieve"} -> {"updater", "mount"}
                         [] mprog = "invalidate_path" -> {"updater"}
                         [] OTHER -> {}

\* Whichever step of a main fails, exactly what was set up is taken down.
MainsUndo == UndoesWhatItDid /\ LeavesNothing

=============================================================================
