----------------------------- MODULE FuseHello -----------------------------
(***************************************************************************)
(* The file systems whose files exist only in the program: hello, hello_ll,  *)
(* null, and the name space of the notify, ioctl and poll examples.  A file  *)
(* system is a record of its handlers: what readdir lists, which names        *)
(* getattr or lookup find (and the size they report), which opens succeed     *)
(* and what a read transfers.  A program on the other side lists the          *)
(* directory in pieces, looks names up, opens a file and reads it in pieces.  *)
(***************************************************************************)
EXTENDS Integers, SequencesExt

CONSTANT HLen      \* bound: bytes in a file

VARIABLES hfs,     \* the file system ("": none yet)
          hpc,
          seen,    \* names listed
          hoff,    \* offset of the next request
          found,   \* names looked up and found
          got      \* bytes read

hevars == <<hfs, hpc, seen, hoff, found, got>>

Dir == -1
NoEnt == -2
HStr == [i \in 1 .. HLen |-> i]
HOffs == 0 .. HLen + 1
HSizes == 1 .. HLen + 1
fsel_hex_map == <<"0", "1", "2", "3", "4", "5", "6", "7", "8", "9", "A", "B", "C", "D", "E", "F">>
HPaths == {"/", "hello", "grow", "other", "a", "f"} \cup ToSet(fsel_hex_map)

---------------------------------------------------------------------------
\* What a read of size bytes at off transfers.
reply_buf_limited(off, size) ==
    IF off < HLen THEN SubSeq(HStr, off + 1, off + IF HLen - off < size THEN HLen - off ELSE size)
    ELSE <<>>
hello_read(off, size) ==
    IF off < HLen THEN SubSeq(HStr, off + 1, off + IF off + size > HLen THEN HLen - off ELSE size)
    ELSE <<>>
\* labs/11-fuse: off = len gives a copy of nothing.
hello_read_11(off, size) ==
    IF off > HLen THEN <<>>
    ELSE SubSeq(HStr, off + 1, off + IF size < HLen - off THEN size ELSE HLen - off)
\* invalidate_path.c: the offset cuts the length only.
xmp_read(off, size) ==
    SubSeq(HStr, 1, IF off + size <= HLen THEN size ELSE HLen - off)
\* null.c: size bytes, also across the end of the file
null_read(off, size) == IF off >= HLen THEN <<>> ELSE [i \in 1 .. size |-> off + i]
\* examples/null.c leaves the buffer as it is.
null_read_old(off, size) == IF off >= HLen THEN <<>> ELSE [i \in 1 .. size |-> 0]

Window(Read(_, _)) == [o \in HOffs, s \in HSizes |-> Read(o, s)]
NoRead == [o \in HOffs, s \in HSizes |-> <<>>]

\* One file beside the root.
OneFile(name, size) == [p \in HPaths |-> CASE p = "/" -> Dir [] p = name -> size [] OTHER -> NoEnt]
Dots == <<".", "..">>

\* Low level: the kernel asks with inode numbers; open for reading only.
hello_ll == [low |-> TRUE, list |-> Dots \o <<"hello">>, stat |-> OneFile("hello", HLen),
             open |-> {<<"hello", "r">>}, read |-> Window(reply_buf_limited)]
hello_ll_old == [low |-> TRUE, list |-> Dots \o <<"hello">>, stat |-> OneFile("hello", HLen),
                 open |-> {<<"hello", "r">>}, read |-> Window(reply_buf_limited)]
tfs_inval_inode == [low |-> TRUE, list |-> <<"hello">>, stat |-> OneFile("hello", HLen),
                    open |-> {<<"hello", "r">>}, read |-> Window(reply_buf_limited)]
tfs_store_retrieve == [low |-> TRUE, list |-> <<"hello">>, stat |-> OneFile("hello", HLen),
                       open |-> {<<"hello", "r">>}, read |-> Window(reply_buf_limited)]
\* Neither open nor read.
tfs_inval_entry == [low |-> TRUE, list |-> <<"hello">>, stat |-> OneFile("hello", 0),
                    open |-> {}, read |-> NoRead]

\* High level: by path.
hello == [low |-> FALSE, list |-> Dots \o <<"hello">>, stat |-> OneFile("hello", HLen),
          open |-> {<<"hello", "r">>}, read |-> Window(hello_read)]
hello_old == [low |-> FALSE, list |-> Dots \o <<"hello">>, stat |-> OneFile("hello", HLen),
              open |-> {<<"hello", "r">>}, read |-> Window(hello_read)]
hello_11 == [low |-> FALSE, list |-> Dots \o <<"hello">>, stat |-> OneFile("hello", HLen),
             open |-> {<<"hello", "r">>}, read |-> Window(hello_read_11)]
xmp_oper == [low |-> FALSE, list |-> <<"hello", "grow">>,
             stat |-> [OneFile("hello", HLen) EXCEPT !["grow"] = HLen],
             open |-> HPaths \X {"r", "w"}, read |-> Window(xmp_read)]
\* The mount point itself is the file, and there is no readdir.
null_oper == [low |-> FALSE, list |-> <<>>, stat |-> [OneFile("/", HLen) EXCEPT !["/"] = HLen],
              open |-> {"/"} \X {"r", "w"}, read |-> Window(null_read)]
null_oper_old == [low |-> FALSE, list |-> <<>>, stat |-> [OneFile("/", HLen) EXCEPT !["/"] = HLen],
                  open |-> {"/"} \X {"r", "w"}, read |-> Window(null_read_old)]
\* The file of the memory device; FuseDevice has its reads and writes.
fioc_oper == [low |-> FALSE, list |-> Dots \o <<"hello">>, stat |-> OneFile("hello", 0),
              open |-> {"/", "hello"} \X {"r", "w"}, read |-> NoRead]
fioc_oper_old == [low |-> FALSE, list |-> Dots \o <<"hello">>, stat |-> OneFile("hello", 0),
                  open |-> {"/", "hello"} \X {"r", "w"}, read |-> NoRead]

\* One upper case hexadecimal digit.
fsel_path_index(ch) ==
    IF ch \in ToSet(fsel_hex_map) THEN (CHOOSE i \in 1 .. 16 : fsel_hex_map[i] = ch) - 1 ELSE -1
\* The files of the poll example; FusePoll has their bytes.
fsel_oper == [low |-> FALSE, list |-> [i \in 1 .. 16 |-> fsel_hex_map[i]],
              stat |-> [p \in HPaths |-> IF p = "/" THEN Dir ELSE IF fsel_path_index(p) < 0 THEN NoEnt ELSE 0],
              open |-> {}, read |-> NoRead]
fsel_oper_old == [low |-> FALSE, list |-> [i \in 1 .. 16 |-> fsel_hex_map[i]],
              stat |-> [p \in HPaths |-> IF p = "/" THEN Dir ELSE IF fsel_path_index(p) < 0 THEN NoEnt ELSE 0],
              open |-> {}, read |-> NoRead]

Hellos == [hello_ll |-> hello_ll, hello_ll_old |-> hello_ll_old, tfs_inval_inode |-> tfs_inval_inode,
           tfs_store_retrieve |-> tfs_store_retrieve, tfs_inval_entry |-> tfs_inval_entry,
           hello |-> hello, hello_old |-> hello_old, hello_11 |-> hello_11, xmp_oper |-> xmp_oper,
           null_oper |-> null_oper, null_oper_old |-> null_oper_old, fioc_oper |-> fioc_oper, fioc_oper_old |-> fioc_oper_old,
           fsel_oper |-> fsel_oper, fsel_oper_old |-> fsel_oper_old]
Fs == Hellos[hfs]
\* The kernel reads whole pages; the files of invalidate_path.c fill less than one.
ReadSizes == IF hfs = "xmp_oper" THEN {HLen} ELSE HSizes

---------------------------------------------------------------------------
\* An entry takes two units of the buffer, so that a window may cut one in
\* two.  It carries the offset of the entry behind it.
Entry(name, next) == [part \in 1 .. 2 |-> [name |-> name, part |-> part, next |-> next]]
\* Seeded fault: an entry carries its own offset and not that of the next one.
dirbuf_add_here(b, name) == b \o Entry(name, Len(b))
dirbuf_add(b, name) == b \o Entry(name, Len(b) + 2)
DirBuf == FoldLeft(dirbuf_add, <<>>, Fs.list)

HInit == /\ hfs = "" /\ hpc = "pick" /\ seen = <<>> /\ hoff = 0 /\ found = {} /\ got = <<>>

Pick(f) == /\ hpc = "pick" /\ hfs' = f /\ hpc' = "list"
           /\ UNCHANGED <<seen, hoff, found, got>>

\* hello_ll_readdir and tfs_readdir build the buffer anew and send the window.
\* The kernel keeps the entries that are whole and goes on behind the last.
ListLow(size) ==
    LET w == IF hoff < Len(DirBuf) THEN SubSeq(DirBuf, hoff + 1, hoff + IF Len(DirBuf) - hoff < size
                                                                    THEN Len(DirBuf) - hoff ELSE size)
             ELSE <<>>
        whole == SelectSeq(w, LAMBDA e : e.part = 2) IN
    /\ hpc = "list" /\ Fs.low
    /\ seen' = seen \o [i \in 1 .. Len(whole) |-> whole[i].name]
    /\ hoff' = IF whole = <<>> THEN 0 ELSE Last(whole).next
    /\ hpc' = IF w = <<>> THEN "look" ELSE "list"
    /\ UNCHANGED <<hfs, found, got>>
\* filler with offset 0: libfuse keeps the listing and sends the windows.
ListHigh ==
    /\ hpc = "list" /\ ~Fs.low
    /\ seen' = Fs.list /\ hpc' = "look" /\ UNCHANGED <<hfs, hoff, found, got>>

LookUp ==
    /\ hpc = "look" /\ hpc' = "open"
    /\ found' = {p \in HPaths : Fs.stat[p] # NoEnt}
    /\ UNCHANGED <<hfs, seen, hoff, got>>
Open(p, mode) ==
    /\ hpc = "open" /\ <<p, mode>> \in Fs.open /\ Fs.stat[p] >= 0
    /\ hpc' = "read" /\ hoff' = 0 /\ UNCHANGED <<hfs, seen, found, got>>

\* The kernel passes on what lies below the size it was told.
ReadPiece(size) ==
    LET fsize == HLen
        w == Fs.read[hoff, size]
        n == IF hoff + Len(w) > fsize THEN fsize - hoff ELSE Len(w) IN
    /\ hpc = "read"
    /\ got' = got \o SubSeq(w, 1, n) /\ hoff' = hoff + n
    /\ hpc' = IF n = 0 THEN "done" ELSE "read"
    /\ UNCHANGED <<hfs, seen, found>>

HNext ==
    \/ \E f \in DOMAIN Hellos : Pick(f)
    \/ \E size \in 2 .. 7 : ListLow(size)
    \/ ListHigh
    \/ LookUp
    \/ \E p \in {"/", "hello"}, mode \in {"r", "w"} : Open(p, mode)
    \/ \E size \in ReadSizes : ReadPiece(size)

---------------------------------------------------------------------------
\* A listing fetched in pieces of any size, which cut entries in two, is the
\* listing: nothing is missing, twice, or out of order.
ListingWhole ==
    hpc # "pick" => IsPrefix(seen, Fs.list) /\ (hpc # "list" => seen = Fs.list)

\* The names that lookup or getattr find are the ones readdir lists.
FoundWhatListed ==
    hpc \in {"open", "read", "done"} /\ hfs \notin {"null_oper", "null_oper_old"} => found \ {"/"} = ToSet(seen) \ {".", ".."}

\* A file read in pieces of any size, up to the read that gives nothing, is
\* the whole file.  (examples/null.c hands out what its buffer held before.)
ReadsWhole ==
    hfs # "null_oper_old" =>
        IsPrefix(got, HStr) /\ (hpc = "done" /\ Fs.open # {} /\ Fs.read # NoRead => got = HStr)

\* What the program serves in pieces is the whole listing and the whole file, of
\* the names it lists.
ServesWhole == ListingWhole /\ FoundWhatListed /\ ReadsWhole

=============================================================================
