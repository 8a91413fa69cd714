----------------------------- MODULE FatDriver -----------------------------
(* The programs of lab 13 that use Fat32: the drivers' checks of the sectors  *)
(* and their loops over the root directory, one entry per step.              *)
EXTENDS Fat32

---------------------------------------------------------------------------
(* What may be on the card *)
NoPart == [type |-> 0, nsec |-> 0]
Mbrs == {[sigval |-> s, part |-> <<p, q, NoPart, NoPart>>] :
           s \in {"AA55", "0"}, p \in [type : {0, 11, 12, 27, 153}, nsec : {0, 1}],
           q \in {NoPart, [type |-> 131, nsec |-> 1]}}
GoodMbr == [sigval |-> "AA55", part |-> <<[type |-> 12, nsec |-> 1], NoPart, NoPart, NoPart>>]
GoodVolume == [bytes_per_sec |-> 512, nfats |-> 2, sig |-> "AA55", sec_per_cluster |-> 64, max_files |-> 0,
               fs_nsec |-> 0, zero |-> 0, nsec_in_fs |-> 1, info_sec_num |-> 1, backup_boot_loc |-> 6,
               extended_sig |-> 41]
Volumes == {GoodVolume, [GoodVolume EXCEPT !.sec_per_cluster = 3], [GoodVolume EXCEPT !.sec_per_cluster = 0],
            [GoodVolume EXCEPT !.nfats = 1]}
Infos == [sig1 : {TRUE}, sig2 : BOOLEAN, sig3 : {TRUE}]
GoodCard == [mbr |-> GoodMbr, volume |-> GoodVolume, info |-> [sig1 |-> TRUE, sig2 |-> TRUE, sig3 |-> TRUE],
             fat2 |-> [hi |-> 0, x |-> \hFFFFFF8]]
Fat2s == [hi : {0, 15}, x : {0, 1, 2, \hFFFFFEF, \hFFFFFF0, \hFFFFFF6, \hFFFFFF7, \hFFFFFF8, \hFFFFFFF}]
Cards == {[GoodCard EXCEPT !.mbr = m] : m \in Mbrs} \cup {[GoodCard EXCEPT !.volume = v] : v \in Volumes}
         \cup {[GoodCard EXCEPT !.info = i] : i \in Infos} \cup {[GoodCard EXCEPT !.fat2 = f] : f \in Fat2s}

Long(n) == [i \in 1 .. n |-> CASE i % 3 = 0 -> 8364 + i [] i % 3 = 1 -> 64 + i [] OTHER -> 246 + i]
File(base, ext, attr) == [base |-> base, ext |-> ext, attr |-> attr, lower |-> FALSE, long |-> <<>>,
                          gone |-> FALSE, old |-> FALSE]
Named(n) == [File(<<65, 126, 48 + n>>, <<66>>, {"ARCHIVE"}) EXCEPT !.long = Long(n)]
Kinds == {File(<<65, Space, 66>>, <<67, 68, 69>>, {"ARCHIVE"}),
          [File(<<70>>, <<>>, {"DIR", "RO"}) EXCEPT !.lower = TRUE],
          File(<<71, 71, 71, 71, 71, 71, 71, 71>>, <<72>>, {"LABEL"}),
          File(<<73>>, <<74>>, {}),
          [File(<<75>>, <<76>>, {"ARCHIVE"}) EXCEPT !.gone = TRUE],
          Named(5), Named(13), Named(26), Named(27), [Named(5) EXCEPT !.gone = TRUE],
          [Named(14) EXCEPT !.old = TRUE]}

\* A short name, padded with spaces
Raw(f) == [i \in 1 .. 11 |-> IF i <= 8 THEN (IF i \in DOMAIN f.base THEN f.base[i] ELSE Space)
                             ELSE IF i - 8 \in DOMAIN f.ext THEN f.ext[i - 8] ELSE Space]
\* Character i of a long name, behind it a 0 and then FFFF
Unit(f, i) == CASE i <= Len(f.long) -> f.long[i] [] i = Len(f.long) + 1 -> 0 [] OTHER -> 65535
LongEntry(f, k, n) ==
    [attr |-> LFN, seqno |-> IF f.gone THEN Deleted ELSE IF k = n THEN 64 + k ELSE k,
     cksum |-> IF f.old THEN (lfn_checksum(Raw(f)) + 1) % 256 ELSE lfn_checksum(Raw(f)),
     name1_5 |-> [j \in 1 .. 5 |-> Unit(f, 13 * (k - 1) + j)],
     name6_11 |-> [j \in 1 .. 6 |-> Unit(f, 13 * (k - 1) + 5 + j)],
     name12_13 |-> [j \in 1 .. 2 |-> Unit(f, 13 * (k - 1) + 11 + j)]]
ShortEntry(f) == [attr |-> f.attr, lower |-> f.lower,
                  filename |-> IF f.gone THEN [Raw(f) EXCEPT ![1] = Deleted] ELSE Raw(f)]
Entries(f) == LET n == (Len(f.long) + 12) \div 13 IN
              [k \in 1 .. n |-> LongEntry(f, n + 1 - k, n)] \o <<ShortEntry(f)>>
Unused == [attr |-> {}, lower |-> FALSE, filename |-> [i \in 1 .. 11 |-> 0]]
Alive(k) == ~files[k].gone

FaInit ==
    /\ card \in Cards /\ files \in UNION {[1 .. n -> Kinds] : n \in 0 .. MaxFiles}
    /\ card = GoodCard \/ files = <<>>
    /\ \A j, k \in DOMAIN files : j # k /\ Alive(j) /\ Alive(k) => Raw(files[j]) # Raw(files[k])
    /\ dirs = FlattenSeq([k \in DOMAIN files |-> Entries(files[k])])
              \o (IF Len(files) = MaxFiles THEN <<>> ELSE <<Unused>>)
    /\ job \in {"sd", "list", "lfn", "names", "convert", "lookup", "utf8"}
    /\ job \in {"sd", "utf8"} => files = <<>>
    /\ stage = "init" /\ at = 1 /\ listed = <<>>
Still == UNCHANGED <<card, files, dirs, job>>

---------------------------------------------------------------------------
To(s) == stage' = s /\ UNCHANGED <<at, listed>> /\ Still

pi_sd_init == /\ stage = "init" /\ job # "utf8"
              /\ To("mbr") \/ To("panic: init")
\* A short read panics.
pi_sec_read == stage \in {"mbr", "volume", "root"} /\ To("panic: read")

\* notmain: the MBR and its first partition
driver_mbr ==
    /\ stage = "mbr" /\ job # "sd"
    /\ To(IF mbr_check(card.mbr) THEN "partition" ELSE "panic: mbr")
driver_partition ==
    /\ stage = "partition"
    /\ To(IF mbr_partition_print(mbr_get_partition(card.mbr, 0)) THEN "volume" ELSE "panic: partition")
\* The first driver checks less, prints, and then checks the rest.
mbr_check_sd(mbr) == mbr.sigval = "AA55"
mbr_part_str_sd(x) == mbr_part_str(x)
mbr_partition_empty_sd(part) == part.type = 0 /\ part.nsec = 0
mbr_partition_print_sd(p) == mbr_part_str_sd(p.type) /\ p.type \in {11, 12}
sd_driver ==
    /\ stage = "mbr" /\ job = "sd"
    /\ LET p == card.mbr.part[1] IN
       To(IF mbr_check_sd(card.mbr) /\ mbr_partition_print_sd(p) /\ mbr_part_is_fat32(p.type)
             /\ ~mbr_partition_empty_sd(p) /\ \A k \in 2 .. 4 : mbr_partition_empty_sd(card.mbr.part[k])
          THEN "done" ELSE "panic: mbr")

driver_volume ==
    /\ stage = "volume"
    /\ To(IF fat32_volume_id_check(card.volume) /\ fat32_volume_id_print(card.volume)
             /\ card.volume.info_sec_num = 1 /\ fat32_fsinfo_check(card.info)
          THEN "root" ELSE "panic: volume")
fat32_readin_root_dir ==
    /\ stage = "root"
    /\ To(IF fat32_fat_entry_type(card.fat2.hi, card.fat2.x) = -1 THEN "panic: root" ELSE "walk")

---------------------------------------------------------------------------
ShowFile(i, name) == listed' = Append(listed, [at |-> i, name |-> name])
Skip(d) == fat32_dirent_free(d) \/ fat32_dirent_is_lfn(d)
\* r is what was printed at entry at: go on, or panic.
Step(r) == /\ IF r.ok THEN at' = r.next /\ ShowFile(r.next - 1, r.name) /\ UNCHANGED stage
              ELSE stage' = "panic: walk" /\ UNCHANGED <<at, listed>>
           /\ Still
Pass == at' = at + 1 /\ UNCHANGED <<stage, listed>> /\ Still
Walking(j) == stage = "walk" /\ job = j /\ at <= Len(dirs)

driver_list ==
    /\ Walking("list")
    /\ IF Skip(dirs[at]) THEN Pass
       ELSE LET p == fat32_dirent_print_helper(dirs[at]) IN Step([name |-> p.name, ok |-> p.ok, next |-> at + 1])
driver_lfn ==
    /\ Walking("lfn")
    /\ IF fat32_dirent_free(dirs[at]) THEN Pass ELSE Step(fat32_lfn_print(at))
fat32_dirent_convert(d) == fat32_dirent_name(d)
driver_convert ==
    /\ Walking("convert")
    /\ IF Skip(dirs[at]) THEN Pass
       ELSE Step([name |-> fat32_dirent_convert(dirs[at]), ok |-> TRUE, next |-> at + 1])
\* fat32_dir_filename has no caller; it is for entries that are not free.
all_filenames ==
    /\ Walking("names")
    /\ IF fat32_dirent_free(dirs[at]) THEN Pass ELSE Step(fat32_dir_filename(at))
driver_end ==
    /\ stage = "walk" /\ at > Len(dirs) /\ job # "lookup" /\ To("done")
dirent_fat32_lookup ==
    /\ stage = "walk" /\ job = "lookup"
    /\ \E f \in Kinds : listed' = <<[at |-> fat32_dir_lookup(Raw(f)), name |-> Raw(f)]>>
    /\ stage' = "done" /\ UNCHANGED at /\ Still
test_main ==
    /\ stage = "init" /\ job = "utf8"
    /\ \E cp \in {1, 65, 127, 128, 246, 1046, 2047, 2048, 8364, 65535, 65536, 119070, 1114111} :
         at' = cp /\ listed' = <<[at |-> to_cp(to_utf8(cp)), name |-> to_utf8(cp)]>>
    /\ stage' = "done" /\ Still

FaNext == \/ pi_sd_init \/ pi_sec_read \/ driver_mbr \/ driver_partition \/ sd_driver \/ driver_volume
          \/ fat32_readin_root_dir \/ driver_list \/ driver_lfn \/ driver_convert \/ all_filenames
          \/ driver_end \/ dirent_fat32_lookup \/ test_main

---------------------------------------------------------------------------
(* What the listings should say, from what was written *)
IndexOf(k) == Len(FlattenSeq([j \in 1 .. k |-> Entries(files[j])]))
Text8dot3(f) == f.base \o <<Dot>> \o SubSeq(Raw(f), 9, 11)
LowerCase(f, t) == [k \in DOMAIN t |-> IF f.lower /\ t[k] \in 65 .. 90 THEN t[k] + 32 ELSE t[k]]
NameOf(f) ==
    CASE job \in {"lfn", "names"} /\ f.long # <<>> /\ ~f.old -> FlattenSeq([i \in DOMAIN f.long |-> to_utf8(f.long[i])])
      [] job = "names" /\ f.long = <<>> -> LowerCase(f, SelectSeq(f.base, LAMBDA c : c # Space) \o <<Dot>> \o SubSeq(Raw(f), 9, 11))
      [] OTHER -> Text8dot3(f)
Written == LET ks == SelectSeq([k \in DOMAIN files |-> k], Alive) IN
           [j \in DOMAIN ks |-> [at |-> IndexOf(ks[j]), name |-> NameOf(files[ks[j]])]]
\* A file the code says it does not handle, or an old long name in front of it
Odd(f) == f.attr = {} \/ Len(f.long) > 26 \/ f.old

\* A listing that comes to its end names every file once, in order, by the name
\* it was given, however the name is cut into entries and whatever deleted
\* entries lie between; it gives up only on a file it says it cannot handle.
ListsEveryFile ==
    /\ stage = "done" /\ job \in {"list", "lfn", "convert", "names"} =>
         listed = Written \/ (job = "names" /\ \E k \in DOMAIN files : files[k].old)
    /\ stage = "panic: walk" => \E k \in DOMAIN files : Odd(files[k])

\* A long name left over from another file is never shown for the file behind it:
\* fat32_lfn_print compares the checksums.
NamesTheRightFile ==
    listed # <<>> /\ job \in {"list", "lfn", "convert"} => ToSet(listed) \subseteq ToSet(Written)

\* A lookup finds the file of that name that is alive, and no other entry.
LookupFinds ==
    stage = "done" /\ job = "lookup" =>
        LET k == {j \in DOMAIN files : Alive(j) /\ Raw(files[j]) = listed[1].name}
        IN  listed[1].at = IF k = {} THEN 0 ELSE IndexOf(CHOOSE j \in k : TRUE)

\* A partition table that passes the check can be printed: the driver does not
\* panic behind it.
PartitionPrints == stage # "panic: partition"

\* The kind of a cluster is that of the table in fat32.h, whatever its four upper
\* bits, which are not the file system's to set.
ClusterKinds ==
    stage = "root" =>
        LET x == card.fat2.x
            kind == fat32_fat_entry_type_str(fat32_fat_entry_type(card.fat2.hi, x))
        IN
          /\ (kind = "USED") = (x > 1 /\ x < \hFFFFFF0)
          /\ (kind = "LAST") = (x > \hFFFFFF7)
          /\ kind = "panic" => x \div 16 = \hFFFFFF

\* Decoding the UTF-8 of a code point gives it back, on both sides of every
\* change of length.
Utf8BothWays == job = "utf8" /\ stage = "done" => listed[1].at = at

\* The card is read as it was written: partitions, kinds of cluster, names long and
\* short, and lookups.
CardRead ==
    /\ ListsEveryFile /\ NamesTheRightFile /\ LookupFinds
    /\ PartitionPrints /\ ClusterKinds /\ Utf8BothWays

=============================================================================
