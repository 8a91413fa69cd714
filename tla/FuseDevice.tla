----------------------------- MODULE FuseDevice ----------------------------
(***************************************************************************)
(* The memory device of cuse.c and cusexmp.c, and the same as one file in    *)
(* ioctl.c and fioc.c: a buffer that is resized with realloc, read and       *)
(* written, by ioctl too.  An ioctl with pointers (cuse) is done in rounds:  *)
(* the server answers "retry" with the memory it wants, and the kernel calls *)
(* again with that memory; other clients' requests come in between.  One     *)
(* thread serves (-s).  realloc gives bytes of any value (Junk).             *)
(***************************************************************************)
EXTENDS Naturals, Sequences, FiniteSetsExt

CONSTANTS MaxSize,    \* bound: bytes in the device
          MaxOps      \* bound: requests that change it

ASSUME DeviceAssumption == MaxSize \in Nat /\ MaxOps \in Nat

VARIABLES
    cusexmp_buf,     \* the bytes; its length is cusexmp_size
    twins,           \* the bytes of cusexmp.c, ioctl.c and fioc.c, given the same requests
    image,           \* what the clients wrote: offset -> byte
    client,          \* client -> ioctl in progress
    reply,           \* the last answer
    ops

devars == <<cusexmp_buf, twins, image, client, reply, ops>>

Clients == {1}     \* requests of others come as reads, writes and sizes
Junk == 3
cusexmp_size == Len(cusexmp_buf)
NoIoctl == [cmd |-> "none"]
NoReply == [op |-> "none"]

DInit ==
    /\ cusexmp_buf = <<>> /\ ops = 0
    /\ twins = [cusexmp |-> <<>>, ioctl |-> <<>>, fioc |-> <<>>]
    /\ image = [o \in 0 .. MaxSize - 1 |-> 0]
    /\ client = [c \in Clients |-> NoIoctl] /\ reply = NoReply

\* Seeded fault: what was added is not cleared.
cusexmp_resize_dirty(n) ==
    [i \in 1 .. n |-> IF i <= cusexmp_size THEN cusexmp_buf[i] ELSE Junk]
\* memcpy and memset outside of the buffer are undefined: TLC stops on them.
\* realloc, then memset of what was added
cusexmp_resize(n) ==
    [i \in 1 .. n |-> IF i <= cusexmp_size THEN cusexmp_buf[i] ELSE 0]
cusexmp_expand(n) == IF n > cusexmp_size THEN cusexmp_resize(n) ELSE cusexmp_buf

\* The bytes a read of size bytes at off transfers.
cusexmp_read(off, size) ==
    LET o == IF off >= cusexmp_size THEN cusexmp_size ELSE off
        n == IF size > cusexmp_size - o THEN cusexmp_size - o ELSE size IN
    SubSeq(cusexmp_buf, o + 1, o + n)

Patch(buf, off, data) ==
    [i \in 1 .. Len(buf) |-> IF i > off /\ i <= off + Len(data) THEN data[i - off] ELSE buf[i]]
cusexmp_write(off, data) == Patch(cusexmp_expand(off + Len(data)), off, data)

\* ioctl.c, on its own buffer b
fioc_resize(b, n) == [i \in 1 .. n |-> IF i <= Len(b) THEN b[i] ELSE 0]
fioc_expand(b, n) == IF n > Len(b) THEN fioc_resize(b, n) ELSE b
fioc_do_read(b, off, size) ==
    IF off >= Len(b) THEN <<>> ELSE SubSeq(b, off + 1, off + IF size > Len(b) - off THEN Len(b) - off ELSE size)
fioc_do_write(b, off, data) == Patch(fioc_expand(b, off + Len(data)), off, data)
\* fioc.c has the same four, for the older library.
old_fioc_resize(b, n) == fioc_resize(b, n)
old_fioc_expand(b, n) == IF n > Len(b) THEN old_fioc_resize(b, n) ELSE b
old_fioc_do_read(b, off, size) == fioc_do_read(b, off, size)
old_fioc_do_write(b, off, data) == Patch(old_fioc_expand(b, off + Len(data)), off, data)
\* cusexmp.c: cuse.c for the older library
old_cusexmp_resize(b, n) == [i \in 1 .. n |-> IF i <= Len(b) THEN b[i] ELSE 0]
old_cusexmp_expand(b, n) == IF n > Len(b) THEN old_cusexmp_resize(b, n) ELSE b
old_cusexmp_read(b, off, size) ==
    LET o == IF off >= Len(b) THEN Len(b) ELSE off
    IN  SubSeq(b, o + 1, o + IF size > Len(b) - o THEN Len(b) - o ELSE size)
old_cusexmp_write(b, off, data) == Patch(old_cusexmp_expand(b, off + Len(data)), off, data)

TwinsRead(off, size) == {old_cusexmp_read(twins.cusexmp, off, size), fioc_do_read(twins.ioctl, off, size),
                         old_fioc_do_read(twins.fioc, off, size)}
TwinsWrite(off, data) ==
    twins' = [cusexmp |-> old_cusexmp_write(twins.cusexmp, off, data),
              ioctl |-> fioc_do_write(twins.ioctl, off, data), fioc |-> old_fioc_do_write(twins.fioc, off, data)]
\* fioc_ioctl's FIOC_SET_SIZE and truncate
TwinsResize(n) ==
    twins' = [cusexmp |-> old_cusexmp_resize(twins.cusexmp, n), ioctl |-> fioc_resize(twins.ioctl, n),
              fioc |-> old_fioc_resize(twins.fioc, n)]

\* What the clients may expect: image follows the writes and the sizes.
Written(off, data) ==
    [o \in DOMAIN image |-> IF o >= off /\ o < off + Len(data) THEN data[o - off + 1] ELSE image[o]]
Cut(n) == [o \in DOMAIN image |-> IF o < n THEN image[o] ELSE 0]

Count == ops < MaxOps /\ ops' = ops + 1
Data == {<<>>, <<1>>, <<2, 1>>}

\* read and write of the device, or of the file
Read(off, size) ==
    /\ reply' = [op |-> "read", off |-> off, size |-> size,
                 data |-> cusexmp_read(off, size), twins |-> TwinsRead(off, size)]
    /\ UNCHANGED <<cusexmp_buf, twins, image, client, ops>>
Write(off, data) ==
    /\ off + Len(data) <= MaxSize /\ Count
    /\ \/ /\ cusexmp_buf' = cusexmp_write(off, data) /\ TwinsWrite(off, data)
          /\ image' = Written(off, data)
          /\ reply' = [op |-> "write", prev |-> cusexmp_size, new |-> Len(cusexmp_buf')]
       \/ /\ off + Len(data) > cusexmp_size              \* -ENOMEM
          /\ reply' = NoReply /\ UNCHANGED <<cusexmp_buf, twins, image>>
    /\ UNCHANGED client

\* truncate of the file; FIOC_SET_SIZE, which ignores that realloc failed
SetSize(n) ==
    /\ Count /\ n # cusexmp_size
    /\ \/ cusexmp_buf' = cusexmp_resize(n) /\ TwinsResize(n) /\ image' = Cut(n)
       \/ n > 0 /\ UNCHANGED <<cusexmp_buf, twins, image>>      \* realloc failed
    /\ reply' = NoReply /\ UNCHANGED client

\* cusexmp_ioctl is entered with what the round before asked for: first
\* nothing, then the argument, then the memory it points to (none if a write
\* is of no bytes).
Ioctl(c, cmd, arg) ==
    /\ client[c] = NoIoctl
    /\ client' = [client EXCEPT ![c] = [cmd |-> cmd, off |-> arg[1], data |-> arg[2], round |-> 1]]
    /\ UNCHANGED <<cusexmp_buf, twins, image, reply, ops>>

Needed(k) == IF k.cmd = "FIOC_WRITE" /\ k.data = <<>> THEN 2 ELSE 3

\* fioc_do_rw while something is still missing
fioc_do_rw_retry(c) ==
    /\ client[c] # NoIoctl /\ client[c].round < Needed(client[c])
    /\ client' = [client EXCEPT ![c].round = @ + 1]
    /\ UNCHANGED <<cusexmp_buf, twins, image, reply, ops>>

\* "we're all set": prev_size is read before, new_size after the write.
fioc_do_rw(c) ==
    LET k == client[c] IN
    /\ k # NoIoctl /\ k.round = Needed(k)
    /\ client' = [client EXCEPT ![c] = NoIoctl]
    /\ IF k.cmd = "FIOC_READ"
       THEN /\ reply' = [op |-> "read", off |-> k.off, size |-> 2,
                         data |-> cusexmp_read(k.off, 2), twins |-> TwinsRead(k.off, 2)]
            /\ UNCHANGED <<cusexmp_buf, twins, image, ops>>
       ELSE /\ Count
            /\ \/ /\ cusexmp_buf' = cusexmp_write(k.off, k.data) /\ TwinsWrite(k.off, k.data)
                  /\ image' = Written(k.off, k.data)
                  /\ reply' = [op |-> "write", prev |-> cusexmp_size, new |-> Len(cusexmp_buf')]
               \/ /\ k.off + Len(k.data) > cusexmp_size  \* -ENOMEM
                  /\ reply' = NoReply /\ UNCHANGED <<cusexmp_buf, twins, image>>

DNext ==
    \/ \E off \in 0 .. MaxSize + 1, size \in 0 .. MaxSize : Read(off, size)
    \/ \E off \in 0 .. MaxSize - 1, data \in Data : Write(off, data)
    \/ \E n \in 0 .. MaxSize : SetSize(n)
    \/ \E c \in Clients :
         \/ \E off \in 0 .. MaxSize - 2, data \in Data : Ioctl(c, "FIOC_WRITE", <<off, data>>)
         \/ \E off \in {0, MaxSize} : Ioctl(c, "FIOC_READ", <<off, <<>>>>)
         \/ fioc_do_rw_retry(c) \/ fioc_do_rw(c)

DSpec == DInit /\ [][DNext]_devars

---------------------------------------------------------------------------
\* The device holds what was written last, and zeros where it grew and nothing
\* was written since: no byte of an earlier life and none of the heap.  The four
\* programs hold the same.
HoldsWritten ==
    /\ \A i \in 1 .. cusexmp_size : cusexmp_buf[i] = image[i - 1]
    /\ \A p \in DOMAIN twins : twins[p] = cusexmp_buf

\* A read transfers the bytes of the device that lie in its window, at the end
\* and behind the end too, and the four programs agree on it.
ReadsWindow ==
    reply.op = "read" =>
        /\ reply.data = SubSeq(cusexmp_buf, reply.off + 1, Min({reply.off + reply.size, cusexmp_size}))
        /\ reply.twins = {reply.data}

\* The sizes a write reports are those right before and right after it,
\* whatever happened between its rounds: the new one is never the smaller.
SizesReported == reply.op = "write" => reply.prev <= reply.new /\ reply.new = cusexmp_size

\* The device behaves as one array of bytes, by read, write, truncate and ioctl.
DeviceRight == HoldsWritten /\ ReadsWindow /\ SizesReported

=============================================================================
