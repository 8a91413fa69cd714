------------------------------- MODULE Fat32 -------------------------------
(***************************************************************************)
(* Reading the boot sectors and the root directory of an SD card (lab 13):   *)
(* the checks of the MBR, volume id and FSINFO sectors, long and short file  *)
(* names, the listings and the lookup.  The reads between them are exercises *)
(* of the lab and are taken to deliver the sectors asked for.                *)
(*                                                                           *)
(* A directory entry is a record of the fields the code looks at; a long     *)
(* file name entry has the attributes LFN.  Bytes and code points are        *)
(* numbers, attributes a set of the bits.                                    *)
(***************************************************************************)
EXTENDS Integers, SequencesExt

CONSTANTS MaxFiles      \* bound: files, alive or deleted, in the directory

LFN == {"RO", "HIDDEN", "SYSTEM", "LABEL"}
Space == 32
Dot == 46
Deleted == 229

VARIABLES
    card,       \* the sectors in front of the directory
    files,      \* what was written to the directory, in order, for the properties
    dirs,       \* its entries
    job,        \* what is run: "sd", "list", "lfn", "names", "convert", "lookup", "utf8"
    stage,      \* where it is, or where it panicked
    at,         \* next entry of the walk
    listed      \* what it found: the name of each file
favars == <<card, files, dirs, job, stage, at, listed>>

---------------------------------------------------------------------------
(* UTF-8 of a code point and back (external-code/unicode-utf8.c).  A mask is *)
(* one less than a power of two and a lead byte has its bits above it, so    *)
(* that & and | are % and +.                                                 *)

utf == [k \in 0 .. 4 |->
          CASE k = 0 -> [mask |-> 63, lead |-> 128, beg |-> 0, end |-> 0]
            [] k = 1 -> [mask |-> 127, lead |-> 0, beg |-> 0, end |-> 127]
            [] k = 2 -> [mask |-> 31, lead |-> 192, beg |-> 128, end |-> 2047]
            [] k = 3 -> [mask |-> 15, lead |-> 224, beg |-> 2048, end |-> 65535]
            [] k = 4 -> [mask |-> 7, lead |-> 240, beg |-> 65536, end |-> 1114111]]

\* The first row that has it; a row does for every code point up to 10FFFF.
codepoint_len(cp) == Min({k \in 0 .. 4 : utf[k].beg <= cp /\ cp <= utf[k].end})
utf8_len(ch) == Min({k \in 0 .. 4 : ch - (ch % (utf[k].mask + 1)) = utf[k].lead})

\* Six bits a byte behind the lead byte
to_utf8(cp) ==
    LET n == codepoint_len(cp) IN
    [i \in 1 .. n |-> LET u == utf[IF i = 1 THEN n ELSE 0] IN ((cp \div (64 ^ (n - i))) % (u.mask + 1)) + u.lead]

to_cp(chr) ==
    LET n == utf8_len(chr[1]) IN
    MapThenSumSet(LAMBDA i : (chr[i] % (utf[IF i = 1 THEN n ELSE 0].mask + 1)) * (64 ^ (n - i)), 1 .. n)

---------------------------------------------------------------------------

---------------------------------------------------------------------------
(* The sectors *)
mbr_part_is_fat32(t) == t \in {11, 12}
\* memiszero over the 16 bytes of an entry
mbr_partition_empty(part) == part.type = 0 /\ part.nsec = 0
mbr_check(mbr) ==
    /\ mbr.sigval = "AA55"
    /\ mbr_part_is_fat32(mbr.part[1].type)
    /\ ~mbr_partition_empty(mbr.part[1])
    /\ \A k \in 2 .. 4 : mbr_partition_empty(mbr.part[k])
mbr_get_partition(mbr, partno) == mbr.part[partno + 1]
\* The types that have a name; any other panics.
mbr_part_str(x) ==
    x \in {0, 1, 4, 5, 6, 7, 11, 12, 14, 15, 17, 20, 22, 27, 28, 30, 66, 130, 131, 132, 133, 134, 135,
           160, 161, 165, 166, 168, 169, 171, 183, 184, 238, 239, 251, 252}
\* Whether printing a partition does not panic
mbr_partition_print(p) == mbr_part_str(p.type) /\ p.type \in {11, 12}

\* (x & -x) == x holds for 0 too.
is_pow2(x) == x \in {0, 1, 2, 4, 8, 16, 32, 64, 128}
fat32_volume_id_check(b) ==
    /\ b.bytes_per_sec = 512 /\ b.nfats = 2 /\ b.sig = "AA55"
    /\ is_pow2(b.sec_per_cluster)
    /\ b.max_files = 0 /\ b.fs_nsec = 0 /\ b.zero = 0 /\ b.nsec_in_fs # 0
    /\ b.info_sec_num = 1 /\ b.backup_boot_loc = 6 /\ b.extended_sig = 41
\* Prints, and checks again
fat32_volume_id_print(b) == fat32_volume_id_check(b)
fat32_fsinfo_check(info) == info.sig1 /\ info.sig2 /\ info.sig3

\* The entry of a cluster is its upper 4 bits and the 28 others.
\* -1: panic; the names of LAST_CLUSTER and USED_CLUSTER are the two numbers
\* behind BAD_CLUSTER.
fat32_fat_entry_type(hi, x) ==
    CASE x \in {0, 1, \hFFFFFF7} -> x
      [] x \in 2 .. \hFFFFFEF -> \hFFFFFF9
      [] x \in \hFFFFFF0 .. \hFFFFFF6 -> -1
      [] x \in \hFFFFFF8 .. \hFFFFFFF -> \hFFFFFF8
fat32_fat_entry_type_str(t) == CASE t = 0 -> "FREE" [] t = 1 -> "RESERVED" [] t = \hFFFFFF7 -> "BAD"
                                 [] t = \hFFFFFF8 -> "LAST" [] t = \hFFFFFF9 -> "USED" [] OTHER -> "panic"

---------------------------------------------------------------------------
(* Directory entries *)
HasBits(x, bits) == \A b \in bits : (x \div b) % 2 = 1
lfn_is_last(seqno) == HasBits(seqno, {64})
lfn_is_first(seqno) == (IF HasBits(seqno, {64}) THEN seqno - 64 ELSE seqno) = 1
lfn_is_deleted(seqno) == HasBits(seqno, {128, 64, 32, 4, 1})
fat32_dirent_is_lfn(d) == d.attr = LFN
fat32_is_attr(x, flag) == IF x = LFN THEN x = {flag} ELSE flag \in x
is_attr(x, flag) == IF x = LFN THEN x = {flag} ELSE flag \in x
fat32_dirent_free(d) == IF d.attr = LFN THEN lfn_is_deleted(d.seqno) ELSE d.filename[1] \in {0, Deleted}

\* Rotate right and add the next byte
lfn_checksum(name) == FoldLeft(LAMBDA sum, c : ((sum % 2) * 128 + sum \div 2 + c) % 256, 0, name)

\* Whether the attributes have a name; any others panic.
fat32_dir_attr_str(attr) ==
    attr = LFN \/ (attr \ {"RO", "HIDDEN"}) \in {{"SYSTEM"}, {"LABEL"}, {"DIR"}, {"ARCHIVE"}}

\* Without the spaces at the end of the first 8 (one of them is not a space)
to_8dot3(p) ==
    LET n == Max({i \in 1 .. 8 : p[i] # Space})
    IN  SubSeq(p, 1, n) \o <<Dot>> \o SubSeq(p, 9, 11)
fat32_dirent_name(d) == to_8dot3(d.filename)

\* The name printed, <<>> for none, and whether it panics
fat32_dirent_print_helper(d) ==
    IF fat32_dirent_free(d) \/ d.attr = LFN THEN [name |-> <<>>, ok |-> TRUE]
    ELSE [name |-> to_8dot3(d.filename),
          ok |-> fat32_is_attr(d.attr, "ARCHIVE") \/ fat32_is_attr(d.attr, "DIR") \/ fat32_dir_attr_str(d.attr)]

---------------------------------------------------------------------------
(* Long names: an entry holds 13 characters in three fields. *)
lfn_terminator(x) == x \in {0, 65535}
utf8_append(unicode) ==
    LET z == {i \in DOMAIN unicode : lfn_terminator(unicode[i])}
        n == IF z = {} THEN Len(unicode) ELSE Min(z) - 1
    IN  FlattenSeq([i \in 1 .. n |-> to_utf8(unicode[i])])
\* The last entry comes first.
lfn_get_name(i, cnt) ==
    FlattenSeq([k \in 1 .. cnt |-> LET l == dirs[i + cnt - k] IN
        utf8_append(l.name1_5) \o utf8_append(l.name6_11) \o utf8_append(l.name12_13)])

\* Seeded fault: the checksum is not compared.
lfn_print_unsummed(i, cnt, cksum) ==
    /\ cnt \in 1 .. 2
    /\ \A k \in i .. i + cnt - 1 : ~lfn_is_deleted(dirs[k].seqno)
    /\ lfn_is_last(dirs[i].seqno) /\ lfn_is_first(dirs[i + cnt - 1].seqno)
\* Whether the entries are those of one name, and of the file with that sum
lfn_print(i, cnt, cksum) ==
    /\ cnt \in 1 .. 2
    /\ \A k \in i .. i + cnt - 1 : ~lfn_is_deleted(dirs[k].seqno) /\ dirs[k].cksum = cksum
    /\ lfn_is_last(dirs[i].seqno) /\ lfn_is_first(dirs[i + cnt - 1].seqno)

\* Entries of a long name from i on
Run(i) == Max({c \in 0 .. Len(dirs) - i + 1 : \A k \in i .. i + c - 1 : dirs[k].attr = LFN})
FileAttr(x) == is_attr(x, "DIR") \/ is_attr(x, "ARCHIVE")

\* What fat32_lfn_print shows of entry i, and the entry to go on with
fat32_lfn_print(i) ==
    LET c == Run(i) p == fat32_dirent_print_helper(dirs[i]) IN
    IF c = 0 THEN [name |-> p.name, ok |-> p.ok, next |-> i + 1]
    ELSE IF i + c <= Len(dirs) /\ FileAttr(dirs[i + c].attr)
            /\ lfn_print(i, c, lfn_checksum(dirs[i + c].filename))
         THEN [name |-> lfn_get_name(i, c), ok |-> fat32_dirent_print_helper(dirs[i + c]).ok, next |-> i + c + 1]
         ELSE [name |-> <<>>, ok |-> FALSE, next |-> i]

Lower(d, c) == IF d.lower /\ c \in 65 .. 90 THEN c + 32 ELSE c
\* fat32_dir_filename: the name, and the entry of the file
fat32_dir_filename(i) ==
    LET c == Run(i) d == dirs[i] IN
    IF c > 0
    THEN [name |-> lfn_get_name(i, c), next |-> i + c + 1,
          ok |-> i + c <= Len(dirs) /\ FileAttr(dirs[i + c].attr)]
    ELSE [name |-> LET base == SelectSeq(SubSeq(d.filename, 1, 8), LAMBDA b : b # Space)
                       text == base \o <<Dot>> \o SubSeq(d.filename, 9, 11)
                   IN  [k \in DOMAIN text |-> Lower(d, text[k])],
          next |-> i + 1, ok |-> FileAttr(d.attr) \/ is_attr(d.attr, "LABEL")]

\* The index of the file, 0 for none
fat32_dir_lookup(name) ==
    LET n == {i \in DOMAIN dirs : ~fat32_dirent_free(dirs[i]) /\ ~fat32_dirent_is_lfn(dirs[i])
                                  /\ dirs[i].filename = name}
    IN  IF n = {} THEN 0 ELSE Min(n)
=============================================================================
