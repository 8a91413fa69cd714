-------------------------------- MODULE Crc --------------------------------
(***************************************************************************)
(* CRC-32 as both ends of the boot protocol compute it, a table lookup per   *)
(* byte (libunix/crc.c; libpi/libc/crc.c is the same text, and so is the     *)
(* code in simple-boot.h but for the names).  A 32-bit word is the pair of   *)
(* its 16-bit halves, <<high, low>>.                                         *)
(***************************************************************************)
EXTENDS Integers, SequencesExt, Bitwise

CONSTANTS MaxMsg        \* bound: bytes of a message

VARIABLES lib, msg      \* whose code; the message so far
crvars == <<lib, msg>>

XorWord(a, b) == <<a[1] ^^ b[1], a[2] ^^ b[2]>>
Ones == <<65535, 65535>>
Shift8(a) == <<a[1] \div 256, (a[1] % 256) * 256 + a[2] \div 256>>

crc32_tab ==
    [hi |-> <<
      \h0000, \h7707, \hee0e, \h9909, \h076d, \h706a, \he963, \h9e64, \h0edb, \h79dc, \he0d5, \h97d2,
      \h09b6, \h7eb1, \he7b8, \h90bf, \h1db7, \h6ab0, \hf3b9, \h84be, \h1ada, \h6ddd, \hf4d4, \h83d3,
      \h136c, \h646b, \hfd62, \h8a65, \h1401, \h6306, \hfa0f, \h8d08, \h3b6e, \h4c69, \hd560, \ha267,
      \h3c03, \h4b04, \hd20d, \ha50a, \h35b5, \h42b2, \hdbbb, \hacbc, \h32d8, \h45df, \hdcd6, \habd1,
      \h26d9, \h51de, \hc8d7, \hbfd0, \h21b4, \h56b3, \hcfba, \hb8bd, \h2802, \h5f05, \hc60c, \hb10b,
      \h2f6f, \h5868, \hc161, \hb666, \h76dc, \h01db, \h98d2, \hefd5, \h71b1, \h06b6, \h9fbf, \he8b8,
      \h7807, \h0f00, \h9609, \he10e, \h7f6a, \h086d, \h9164, \he663, \h6b6b, \h1c6c, \h8565, \hf262,
      \h6c06, \h1b01, \h8208, \hf50f, \h65b0, \h12b7, \h8bbe, \hfcb9, \h62dd, \h15da, \h8cd3, \hfbd4,
      \h4db2, \h3ab5, \ha3bc, \hd4bb, \h4adf, \h3dd8, \ha4d1, \hd3d6, \h4369, \h346e, \had67, \hda60,
      \h4404, \h3303, \haa0a, \hdd0d, \h5005, \h2702, \hbe0b, \hc90c, \h5768, \h206f, \hb966, \hce61,
      \h5ede, \h29d9, \hb0d0, \hc7d7, \h59b3, \h2eb4, \hb7bd, \hc0ba, \hedb8, \h9abf, \h03b6, \h74b1,
      \head5, \h9dd2, \h04db, \h73dc, \he363, \h9464, \h0d6d, \h7a6a, \he40e, \h9309, \h0a00, \h7d07,
      \hf00f, \h8708, \h1e01, \h6906, \hf762, \h8065, \h196c, \h6e6b, \hfed4, \h89d3, \h10da, \h67dd,
      \hf9b9, \h8ebe, \h17b7, \h60b0, \hd6d6, \ha1d1, \h38d8, \h4fdf, \hd1bb, \ha6bc, \h3fb5, \h48b2,
      \hd80d, \haf0a, \h3603, \h4104, \hdf60, \ha867, \h316e, \h4669, \hcb61, \hbc66, \h256f, \h5268,
      \hcc0c, \hbb0b, \h2202, \h5505, \hc5ba, \hb2bd, \h2bb4, \h5cb3, \hc2d7, \hb5d0, \h2cd9, \h5bde,
      \h9b64, \hec63, \h756a, \h026d, \h9c09, \heb0e, \h7207, \h0500, \h95bf, \he2b8, \h7bb1, \h0cb6,
      \h92d2, \he5d5, \h7cdc, \h0bdb, \h86d3, \hf1d4, \h68dd, \h1fda, \h81be, \hf6b9, \h6fb0, \h18b7,
      \h8808, \hff0f, \h6606, \h1101, \h8f65, \hf862, \h616b, \h166c, \ha00a, \hd70d, \h4e04, \h3903,
      \ha767, \hd060, \h4969, \h3e6e, \haed1, \hd9d6, \h40df, \h37d8, \ha9bc, \hdebb, \h47b2, \h30b5,
      \hbdbd, \hcaba, \h53b3, \h24b4, \hbad0, \hcdd7, \h54de, \h23d9, \hb366, \hc461, \h5d68, \h2a6f,
      \hb40b, \hc30c, \h5a05, \h2d02>>,
     lo |-> <<
      \h0000, \h3096, \h612c, \h51ba, \hc419, \hf48f, \ha535, \h95a3, \h8832, \hb8a4, \he91e, \hd988,
      \h4c2b, \h7cbd, \h2d07, \h1d91, \h1064, \h20f2, \h7148, \h41de, \hd47d, \he4eb, \hb551, \h85c7,
      \h9856, \ha8c0, \hf97a, \hc9ec, \h5c4f, \h6cd9, \h3d63, \h0df5, \h20c8, \h105e, \h41e4, \h7172,
      \he4d1, \hd447, \h85fd, \hb56b, \ha8fa, \h986c, \hc9d6, \hf940, \h6ce3, \h5c75, \h0dcf, \h3d59,
      \h30ac, \h003a, \h5180, \h6116, \hf4b5, \hc423, \h9599, \ha50f, \hb89e, \h8808, \hd9b2, \he924,
      \h7c87, \h4c11, \h1dab, \h2d3d, \h4190, \h7106, \h20bc, \h102a, \h8589, \hb51f, \he4a5, \hd433,
      \hc9a2, \hf934, \ha88e, \h9818, \h0dbb, \h3d2d, \h6c97, \h5c01, \h51f4, \h6162, \h30d8, \h004e,
      \h95ed, \ha57b, \hf4c1, \hc457, \hd9c6, \he950, \hb8ea, \h887c, \h1ddf, \h2d49, \h7cf3, \h4c65,
      \h6158, \h51ce, \h0074, \h30e2, \ha541, \h95d7, \hc46d, \hf4fb, \he96a, \hd9fc, \h8846, \hb8d0,
      \h2d73, \h1de5, \h4c5f, \h7cc9, \h713c, \h41aa, \h1010, \h2086, \hb525, \h85b3, \hd409, \he49f,
      \hf90e, \hc998, \h9822, \ha8b4, \h3d17, \h0d81, \h5c3b, \h6cad, \h8320, \hb3b6, \he20c, \hd29a,
      \h4739, \h77af, \h2615, \h1683, \h0b12, \h3b84, \h6a3e, \h5aa8, \hcf0b, \hff9d, \hae27, \h9eb1,
      \h9344, \ha3d2, \hf268, \hc2fe, \h575d, \h67cb, \h3671, \h06e7, \h1b76, \h2be0, \h7a5a, \h4acc,
      \hdf6f, \heff9, \hbe43, \h8ed5, \ha3e8, \h937e, \hc2c4, \hf252, \h67f1, \h5767, \h06dd, \h364b,
      \h2bda, \h1b4c, \h4af6, \h7a60, \hefc3, \hdf55, \h8eef, \hbe79, \hb38c, \h831a, \hd2a0, \he236,
      \h7795, \h4703, \h16b9, \h262f, \h3bbe, \h0b28, \h5a92, \h6a04, \hffa7, \hcf31, \h9e8b, \hae1d,
      \hc2b0, \hf226, \ha39c, \h930a, \h06a9, \h363f, \h6785, \h5713, \h4a82, \h7a14, \h2bae, \h1b38,
      \h8e9b, \hbe0d, \hefb7, \hdf21, \hd2d4, \he242, \hb3f8, \h836e, \h16cd, \h265b, \h77e1, \h4777,
      \h5ae6, \h6a70, \h3bca, \h0b5c, \h9eff, \hae69, \hffd3, \hcf45, \he278, \hd2ee, \h8354, \hb3c2,
      \h2661, \h16f7, \h474d, \h77db, \h6a4a, \h5adc, \h0b66, \h3bf0, \hae53, \h9ec5, \hcf7f, \hffe9,
      \hf21c, \hc28a, \h9330, \ha3a6, \h3605, \h0693, \h5729, \h67bf, \h7a2e, \h4ab8, \h1b02, \h2b94,
      \hbe37, \h8ea1, \hdf1b, \hef8d>>]

Entry(i) == <<crc32_tab.hi[i + 1], crc32_tab.lo[i + 1]>>
---------------------------------------------------------------------------
\* Seeded fault: only half of the table is used.
our_crc32_inc_short(buf, crc) ==
    XorWord(Ones, FoldLeft(LAMBDA c, b : XorWord(Entry(((c[2] % 256) ^^ b) % 128), Shift8(c)),
                           XorWord(crc, Ones), buf))
\* crc = crc32_tab[(crc ^ *p++) & 0xFF] ^ (crc >> 8), between two complements
our_crc32_inc(buf, crc) ==
    XorWord(Ones, FoldLeft(LAMBDA c, b : XorWord(Entry((c[2] % 256) ^^ b), Shift8(c)),
                           XorWord(crc, Ones), buf))
our_crc32(buf) == our_crc32_inc(buf, <<0, 0>>)

\* The pi's library
pi_crc32_inc(buf, crc) == our_crc32_inc(buf, crc)
pi_crc32(buf) == pi_crc32_inc(buf, <<0, 0>>)
\* simple-boot.h
crc32_inc(buf, crc) == our_crc32_inc(buf, crc)
crc32(buf) == crc32_inc(buf, <<0, 0>>)

Inc(buf, crc) == CASE lib = "libunix" -> our_crc32_inc(buf, crc)
                   [] lib = "libpi" -> pi_crc32_inc(buf, crc)
                   [] lib = "boot" -> crc32_inc(buf, crc)
Sum(buf) == CASE lib = "libunix" -> our_crc32(buf) [] lib = "libpi" -> pi_crc32(buf) [] lib = "boot" -> crc32(buf)

---------------------------------------------------------------------------
CrInit == lib \in {"libunix", "libpi", "boot"} /\ msg = <<>>
\* One byte tries every entry of the table; longer messages have few bytes.
Grow == /\ Len(msg) < MaxMsg
        /\ \E b \in IF msg = <<>> THEN 0 .. 255 ELSE {1, 255} : msg' = Append(msg, b)
        /\ UNCHANGED lib
CrNext == Grow

---------------------------------------------------------------------------
\* Division by the polynomial of CRC-32, bit by bit
Half(a) == <<a[1] \div 2, (a[1] % 2) * 32768 + a[2] \div 2>>
Divide(c) == IF c[2] % 2 = 1 THEN XorWord(Half(c), <<\hedb8, \h8320>>) ELSE Half(c)
Divide8(c) == FoldLeft(LAMBDA a, k : Divide(a), c, <<1, 2, 3, 4, 5, 6, 7, 8>>)
Remainder(buf) == XorWord(Ones, FoldLeft(LAMBDA c, b : Divide8(<<c[1], c[2] ^^ b>>), Ones, buf))

\* The table holds what it should: the checksum of every message is its
\* remainder by the CRC-32 polynomial, so that the pi and the laptop agree with
\* each other and with any other CRC-32.
CrcIsRemainder == msg # <<>> => Sum(msg) = Remainder(msg)

\* A checksum can be carried on: of a program sent in two pieces it is the
\* checksum of the second with that of the first.
CrcResumes == \A k \in 1 .. Len(msg) :
                Inc(SubSeq(msg, k + 1, Len(msg)), Sum(SubSeq(msg, 1, k))) = Sum(msg)

\* A program that arrives with one byte changed has another checksum.
CrcSeesByte == \A i \in DOMAIN msg, d \in {1, 128, 255} : Sum([msg EXCEPT ![i] = @ ^^ d]) # Sum(msg)

\* The checksum is CRC-32, can be carried on, and shows a changed byte.
CrcRight == CrcIsRemainder /\ CrcResumes /\ CrcSeesByte

=============================================================================
