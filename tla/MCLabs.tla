------------------------------- MODULE MCLabs -------------------------------
(* The programs of the labs on both ends of a serial line, the checksum they  *)
(* share, the printer, the thread queues and the random numbers of the pi and *)
(* the reader of the SD card, one at a time: part picks the one.              *)
EXTENDS Replay, Boot, PiEcho, EspRun, Crc, FatDriver, Printk, RpiThread, PiRandom

VARIABLE part

Init == /\ part \in {"replay", "boot", "echo", "esp", "crc", "fat", "printk", "threads", "random"}
        /\ RInit0 /\ BInit /\ EInit /\ RunInit /\ CrInit
        /\ part # "replay" => sent.p = <<>>
        /\ part # "boot" => usec = 0 /\ stray = 0
        /\ part # "echo" => prog = "pi_echo" /\ portname
        /\ part # "esp" => lab = 9 /\ eol[1] = "cr" /\ stale = <<>> /\ step = 1
        /\ part # "crc" => lib = "boot"
        /\ IF part = "fat" THEN FaInit
           ELSE card = GoodCard /\ files = <<>> /\ dirs = <<>> /\ job = "sd" /\ stage = "init" /\ at = 1 /\ listed = <<>>
        /\ PrInit /\ (part # "printk" => fmt = <<>> /\ room = 1)
        /\ QInit /\ RndInit

ReplayNext == part = "replay" /\ ReNext /\ UNCHANGED <<bovars, ecvars, rvars, crvars, favars, prvars, qvars, rndvars, part>>
BootNext == part = "boot" /\ BNext /\ UNCHANGED <<revars, ecvars, rvars, crvars, favars, prvars, qvars, rndvars, part>>
EchoNext == part = "echo" /\ EcNext /\ UNCHANGED <<revars, bovars, rvars, crvars, favars, prvars, qvars, rndvars, part>>
EspNext == part = "esp" /\ RunNext /\ UNCHANGED <<revars, bovars, ecvars, crvars, favars, prvars, qvars, rndvars, part>>
CrcNext == part = "crc" /\ CrNext /\ UNCHANGED <<revars, bovars, ecvars, rvars, favars, prvars, qvars, rndvars, part>>
FatNext == part = "fat" /\ FaNext /\ UNCHANGED <<revars, bovars, ecvars, rvars, crvars, prvars, qvars, rndvars, part>>
PrintkNext == part = "printk" /\ PrNext /\ UNCHANGED <<revars, bovars, ecvars, rvars, crvars, favars, qvars, rndvars, part>>
ThreadsNext == part = "threads" /\ QNext /\ UNCHANGED <<revars, bovars, ecvars, rvars, crvars, favars, prvars, rndvars, part>>
RandomNext == part = "random" /\ RndNext /\ UNCHANGED <<revars, bovars, ecvars, rvars, crvars, favars, prvars, qvars, part>>

Next == ReplayNext \/ BootNext \/ EchoNext \/ EspNext \/ CrcNext \/ FatNext \/ PrintkNext
        \/ ThreadsNext \/ RandomNext
Spec == Init /\ [][Next]_<<revars, bovars, ecvars, rvars, crvars, favars, prvars, qvars, rndvars, part>>
=============================================================================
