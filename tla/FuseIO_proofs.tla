---------------------------- MODULE FuseIO_proofs ----------------------------
(***************************************************************************)
(* Proofs about what the FUSE examples of lab 12 answer, for every value of *)
(* the bounds: the device and ioctl examples, the poll examples, the        *)
(* notification examples and the listings of a directory.                   *)
(***************************************************************************)
EXTENDS MCFuse, SequenceTheorems, FiniteSetTheorems, WellFoundedInduction, TLAPS

---------------------------------------------------------------------------
(* The devices.                                                             *)

\* An ioctl in progress: what it writes fits the device.
Calls == {k \in [cmd : {"FIOC_READ", "FIOC_WRITE"}, off : Nat, data : Data, round : Nat] :
            k.cmd = "FIOC_WRITE" => k.off + Len(k.data) <= MaxSize}

\* The values each variable may take.
DTypeOK ==
    /\ cusexmp_buf \in Seq(Nat) /\ cusexmp_size <= MaxSize
    /\ image \in [0 .. MaxSize - 1 -> Nat]
    /\ client \in [Clients -> Calls \cup {NoIoctl}]

\* The buffer is the image up to its size, and the image is clear behind it, so
\* that growing the buffer uncovers zeros only.
ImageInv ==
    /\ \A i \in 1 .. cusexmp_size : cusexmp_buf[i] = image[i - 1]
    /\ \A o \in 0 .. MaxSize - 1 : o >= cusexmp_size => image[o] = 0

Same == twins = [cusexmp |-> cusexmp_buf, ioctl |-> cusexmp_buf, fioc |-> cusexmp_buf]

DInv == DTypeOK /\ ImageInv /\ Same /\ ReadsWindow /\ SizesReported

---------------------------------------------------------------------------
\* What resize leaves in the buffer.
LEMMA ResizeFacts ==
    ASSUME NEW b \in Seq(Nat), NEW n \in Nat
    PROVE  LET r == [i \in 1 .. n |-> IF i <= Len(b) THEN b[i] ELSE 0] IN
           /\ r \in Seq(Nat) /\ Len(r) = n
           /\ \A i \in 1 .. n : r[i] = IF i <= Len(b) THEN b[i] ELSE 0
<1> DEFINE r == [i \in 1 .. n |-> IF i <= Len(b) THEN b[i] ELSE 0]
<1>1. \A i \in 1 .. n : (IF i <= Len(b) THEN b[i] ELSE 0) \in Nat
  OBVIOUS
<1>2. r \in [1 .. n -> Nat]
  BY <1>1
<1>3. r \in Seq(Nat)
  BY <1>2, IsASeq
<1> QED BY <1>2, <1>3, LenProperties

\* memcpy into the buffer.
LEMMA PatchFacts ==
    ASSUME NEW b \in Seq(Nat), NEW off \in Nat, NEW x \in Seq(Nat)
    PROVE  /\ Patch(b, off, x) \in Seq(Nat) /\ Len(Patch(b, off, x)) = Len(b)
           /\ \A i \in 1 .. Len(b) :
                Patch(b, off, x)[i] = IF i > off /\ i <= off + Len(x) THEN x[i - off] ELSE b[i]
<1> DEFINE p == Patch(b, off, x)
<1>0. Len(b) \in Nat /\ Len(x) \in Nat
  BY LenProperties
<1>1. \A i \in 1 .. Len(b) : (IF i > off /\ i <= off + Len(x) THEN x[i - off] ELSE b[i]) \in Nat
  BY <1>0
<1>2. p \in [1 .. Len(b) -> Nat]
  BY <1>1 DEF Patch
<1> DEFINE n == Len(b)
<1>5. \A i \in 1 .. Len(b) : p[i] = IF i > off /\ i <= off + Len(x) THEN x[i - off] ELSE b[i]
  BY DEF Patch
<1> HIDE DEF p, n
<1>2a. n \in Nat /\ p \in [1 .. n -> Nat]
  BY <1>0, <1>2 DEF n
<1>3. p \in Seq(Nat)
  BY <1>2a, IsASeq
<1>4. Len(p) = Len(b)
  BY <1>0, <1>2, <1>3, LenProperties
<1> QED BY <1>3, <1>4, <1>5 DEF p

\* Beyond the end there is nothing to transfer.
LEMMA NothingThere == \A b \in Seq(Nat), k \in Nat : SubSeq(b, k + 1, k) = <<>>
<1> SUFFICES ASSUME NEW b \in Seq(Nat), NEW k \in Nat PROVE SubSeq(b, k + 1, k) = <<>>
  OBVIOUS
<1> QED BY SubSeqEmpty

\* cuse.c and ioctl.c compute the window of a read in two ways, with one result.
LEMMA ReadFacts ==
    ASSUME DTypeOK, NEW off \in Nat, NEW size \in Nat
    PROVE  /\ cusexmp_read(off, size) = SubSeq(cusexmp_buf, off + 1, Min({off + size, cusexmp_size}))
           /\ old_cusexmp_read(cusexmp_buf, off, size) = cusexmp_read(off, size)
           /\ fioc_do_read(cusexmp_buf, off, size) = cusexmp_read(off, size)
           /\ old_fioc_do_read(cusexmp_buf, off, size) = cusexmp_read(off, size)
<1> DEFINE b == cusexmp_buf
           L == Len(b)
<1>0. b \in Seq(Nat) /\ L \in Nat
  BY LenProperties DEF DTypeOK
<1>1. Min({off + size, L}) = IF off + size <= L THEN off + size ELSE L
  <2> DEFINE m == IF off + size <= L THEN off + size ELSE L
  <2>1. m \in {off + size, L} /\ \A y \in {off + size, L} : m <= y
    BY <1>0
  <2>2. \A z \in {off + size, L} : (\A y \in {off + size, L} : z <= y) => z = m
    BY <1>0
  <2> QED BY <2>1, <2>2 DEF Min
<1>2. CASE off >= L
  <2>1. SubSeq(b, L + 1, L) = <<>> /\ SubSeq(b, off + 1, L) = <<>>
    BY <1>0, <1>2, SubSeqEmpty
  <2>2. Min({off + size, L}) = L \/ (size = 0 /\ off = L /\ Min({off + size, L}) = off)
    BY <1>0, <1>1, <1>2
  <2>3. SubSeq(b, off + 1, Min({off + size, L})) = <<>>
    BY <2>1, <2>2
  <2>4. (IF size > L - L THEN L - L ELSE size) = 0
    BY <1>0
  <2>5. cusexmp_read(off, size) = SubSeq(b, L + 1, L + 0)
    BY <1>2, <2>4 DEF cusexmp_read, cusexmp_size
  <2>6. L + 0 = L
    BY <1>0
  <2>7. old_cusexmp_read(b, off, size) = SubSeq(b, L + 1, L + 0)
    BY <1>2, <2>4 DEF old_cusexmp_read
  <2>8. fioc_do_read(b, off, size) = <<>>
    BY <1>2 DEF fioc_do_read
  <2> QED BY <2>1, <2>3, <2>5, <2>6, <2>7, <2>8 DEF cusexmp_size, old_fioc_do_read
<1>3. CASE ~(off >= L)
  <2> DEFINE n == IF size > L - off THEN L - off ELSE size
  <2>1. off + n = Min({off + size, L})
    BY <1>0, <1>1, <1>3
  <2>2. cusexmp_read(off, size) = SubSeq(b, off + 1, off + n)
    BY <1>3 DEF cusexmp_read, cusexmp_size
  <2>3. old_cusexmp_read(b, off, size) = SubSeq(b, off + 1, off + n)
    BY <1>3 DEF old_cusexmp_read
  <2>4. fioc_do_read(b, off, size) = SubSeq(b, off + 1, off + n)
    BY <1>3 DEF fioc_do_read
  <2> QED BY <2>1, <2>2, <2>3, <2>4 DEF cusexmp_size, old_fioc_do_read
<1> QED BY <1>2, <1>3

\* The four programs write and resize alike.
LEMMA WriteSame ==
    ASSUME Same, NEW off, NEW data, cusexmp_buf' = cusexmp_write(off, data), TwinsWrite(off, data)
    PROVE  Same'
BY DEF Same, TwinsWrite, cusexmp_write, cusexmp_expand, cusexmp_resize, cusexmp_size,
       old_cusexmp_write, old_cusexmp_expand, old_cusexmp_resize, fioc_do_write, fioc_expand, fioc_resize,
       old_fioc_do_write, old_fioc_expand, old_fioc_resize

\* Resizing twins that are equal leaves them equal.
LEMMA ResizeSame ==
    ASSUME Same, NEW n, cusexmp_buf' = cusexmp_resize(n), TwinsResize(n)
    PROVE  Same'
BY DEF Same, TwinsResize, cusexmp_resize, cusexmp_size, old_cusexmp_resize, fioc_resize, old_fioc_resize

\* A write inside the bound changes buffer and image alike.
LEMMA WriteImage ==
    ASSUME DTypeOK, ImageInv, NEW off \in Nat, NEW data \in Seq(Nat), off + Len(data) <= MaxSize,
           cusexmp_buf' = cusexmp_write(off, data), image' = Written(off, data)
    PROVE  /\ ImageInv' /\ cusexmp_buf' \in Seq(Nat) /\ image' \in [0 .. MaxSize - 1 -> Nat]
           /\ cusexmp_size <= cusexmp_size' /\ cusexmp_size' <= MaxSize
<1> DEFINE b == cusexmp_buf
           n == off + Len(data)
           e == cusexmp_expand(n)
<1>0. /\ b \in Seq(Nat) /\ Len(b) \in Nat /\ Len(b) <= MaxSize /\ Len(data) \in Nat /\ n \in Nat
      /\ MaxSize \in Nat /\ n <= MaxSize /\ image \in [0 .. MaxSize - 1 -> Nat]
  BY LenProperties, DeviceAssumption DEF DTypeOK, cusexmp_size
<1>1. /\ e \in Seq(Nat) /\ Len(e) = IF n > Len(b) THEN n ELSE Len(b)
      /\ \A i \in 1 .. Len(e) : e[i] = IF i <= Len(b) THEN b[i] ELSE 0
  <2>1. CASE n > Len(b)
    BY <1>0, <2>1, ResizeFacts DEF cusexmp_expand, cusexmp_resize, cusexmp_size
  <2>2. CASE ~(n > Len(b))
    BY <1>0, <2>2 DEF cusexmp_expand, cusexmp_size
  <2> QED BY <2>1, <2>2
<1> HIDE DEF e
<1>2. /\ b' \in Seq(Nat) /\ Len(b') = Len(e)
      /\ \A i \in 1 .. Len(e) : b'[i] = IF i > off /\ i <= n THEN data[i - off] ELSE e[i]
  <2>1. b' = Patch(e, off, data)
    BY DEF cusexmp_write, e, n
  <2>2. /\ Patch(e, off, data) \in Seq(Nat) /\ Len(Patch(e, off, data)) = Len(e)
        /\ \A i \in 1 .. Len(e) :
             Patch(e, off, data)[i] = IF i > off /\ i <= off + Len(data) THEN data[i - off] ELSE e[i]
    BY <1>1, PatchFacts
  <2> QED BY <2>1, <2>2
<1>2a. Len(b') \in Nat /\ Len(b) <= Len(b') /\ n <= Len(b') /\ Len(b') <= MaxSize
  <2>1. Len(b') = IF n > Len(b) THEN n ELSE Len(b)
    BY <1>1, <1>2
  <2> QED BY <1>0, <2>1
<1>3. \A o \in 0 .. MaxSize - 1 : image'[o] = IF o >= off /\ o < n THEN data[o - off + 1] ELSE image[o]
  BY <1>0 DEF Written
<1>4. image' \in [0 .. MaxSize - 1 -> Nat]
  <2>1. \A o \in 0 .. MaxSize - 1 : (IF o >= off /\ o < n THEN data[o - off + 1] ELSE image[o]) \in Nat
    <3> TAKE o \in 0 .. MaxSize - 1
    <3>1. CASE o >= off /\ o < n
      <4>1. o - off + 1 \in 1 .. Len(data)
        BY <1>0, <3>1
      <4> QED BY <3>1, <4>1, ElementOfSeq
    <3>2. CASE ~(o >= off /\ o < n)
      BY <1>0, <3>2
    <3> QED BY <3>1, <3>2
  <2> QED BY <1>0, <2>1 DEF Written
<1>5. \A i \in 1 .. Len(b') : b'[i] = image'[i - 1]
  <2> TAKE i \in 1 .. Len(b')
  <2>1. i \in 1 .. Len(e) /\ i - 1 \in 0 .. MaxSize - 1 /\ i \in Nat
    BY <1>0, <1>1, <1>2
  <2>2. CASE i > off /\ i <= n
    <3>1. i - 1 >= off /\ i - 1 < n /\ (i - 1) - off + 1 = i - off
      BY <1>0, <2>1, <2>2
    <3> QED BY <1>2, <1>3, <2>1, <2>2, <3>1
  <2>3. CASE ~(i > off /\ i <= n)
    <3>1. ~(i - 1 >= off /\ i - 1 < n)
      BY <1>0, <2>1, <2>3
    <3>2. b'[i] = (IF i <= Len(b) THEN b[i] ELSE 0) /\ image'[i - 1] = image[i - 1]
      BY <1>1, <1>2, <1>3, <2>1, <2>3, <3>1
    <3>3. i <= Len(b) => b[i] = image[i - 1]
      BY <1>0, <2>1 DEF ImageInv, cusexmp_size
    <3>4. i > Len(b) => image[i - 1] = 0
      BY <1>0, <2>1 DEF ImageInv, cusexmp_size
    <3> QED BY <1>0, <2>1, <3>2, <3>3, <3>4
  <2> QED BY <2>2, <2>3
<1>6. \A o \in 0 .. MaxSize - 1 : o >= Len(b') => image'[o] = 0
  <2> TAKE o \in 0 .. MaxSize - 1
  <2> HAVE o >= Len(b')
  <2>1. Len(b) <= Len(b') /\ n <= Len(b') /\ Len(b') \in Nat
    BY <1>2a
  <2>2. o >= Len(b) /\ ~(o < n)
    BY <1>0, <2>1
  <2>3. image[o] = 0
    BY <2>2 DEF ImageInv, cusexmp_size
  <2> QED BY <1>3, <2>2, <2>3
<1> QED BY <1>2, <1>2a, <1>4, <1>5, <1>6 DEF ImageInv, cusexmp_size

\* So does a change of size.
LEMMA ResizeImage ==
    ASSUME DTypeOK, ImageInv, NEW n \in 0 .. MaxSize, cusexmp_buf' = cusexmp_resize(n), image' = Cut(n)
    PROVE  ImageInv' /\ cusexmp_buf' \in Seq(Nat) /\ cusexmp_size' <= MaxSize /\ image' \in [0 .. MaxSize - 1 -> Nat]
<1> DEFINE b == cusexmp_buf
<1>0. /\ b \in Seq(Nat) /\ Len(b) \in Nat /\ Len(b) <= MaxSize /\ n \in Nat /\ n <= MaxSize
      /\ MaxSize \in Nat /\ image \in [0 .. MaxSize - 1 -> Nat]
  BY LenProperties, DeviceAssumption DEF DTypeOK, cusexmp_size
<1>1. /\ b' \in Seq(Nat) /\ Len(b') = n
      /\ \A i \in 1 .. n : b'[i] = IF i <= Len(b) THEN b[i] ELSE 0
  BY <1>0, ResizeFacts DEF cusexmp_resize, cusexmp_size
<1>2. image' \in [0 .. MaxSize - 1 -> Nat] /\ \A o \in 0 .. MaxSize - 1 : image'[o] = IF o < n THEN image[o] ELSE 0
  BY <1>0 DEF Cut
<1>3. \A i \in 1 .. n : b'[i] = image'[i - 1]
  <2> TAKE i \in 1 .. n
  <2>1. i - 1 \in 0 .. MaxSize - 1 /\ i - 1 < n
    BY <1>0
  <2>2. image'[i - 1] = image[i - 1] /\ b'[i] = IF i <= Len(b) THEN b[i] ELSE 0
    BY <1>1, <1>2, <2>1
  <2>3. i <= Len(b) => b[i] = image[i - 1]
    BY <1>0 DEF ImageInv, cusexmp_size
  <2>4. ~(i <= Len(b)) => image[i - 1] = 0
    BY <1>0, <2>1 DEF ImageInv, cusexmp_size
  <2> QED BY <2>2, <2>3, <2>4
<1>4. \A o \in 0 .. MaxSize - 1 : o >= n => image'[o] = 0
  BY <1>0, <1>2
<1> QED BY <1>0, <1>1, <1>2, <1>3, <1>4 DEF ImageInv, cusexmp_size

---------------------------------------------------------------------------
\* What a client writes is a short sequence of numbers.
LEMMA DataSeq == \A x \in Data : x \in Seq(Nat) /\ Len(x) \in Nat /\ Len(x) <= 2
<1> DEFINE P(x) == x \in Seq(Nat) /\ Len(x) \in Nat /\ Len(x) <= 2
<1>1. P(<<>>)
  OBVIOUS
<1>2. P(<<1>>)
  OBVIOUS
<1>3. P(<<2, 1>>)
  OBVIOUS
<1> HIDE DEF P
<1>4. \A x \in Data : P(x)
  BY <1>1, <1>2, <1>3, Zenon DEF Data
<1> QED BY <1>4 DEF P

\* An empty device is right.
LEMMA DeviceInit == DInit => DInv
<1> SUFFICES ASSUME DInit PROVE DInv
  OBVIOUS
<1>1. DTypeOK
  BY DeviceAssumption DEF DInit, DTypeOK, cusexmp_size
<1>2. ImageInv /\ Same
  BY DEF DInit, ImageInv, Same, cusexmp_size
<1>3. ReadsWindow /\ SizesReported
  BY DEF DInit, NoReply, ReadsWindow, SizesReported
<1> QED BY <1>1, <1>2, <1>3 DEF DInv

\* The answer to a read, by read or by ioctl.
LEMMA ReadAnswer ==
    ASSUME DInv, NEW off \in Nat, NEW size \in Nat, UNCHANGED <<cusexmp_buf, twins, image>>,
           reply' = [op |-> "read", off |-> off, size |-> size,
                     data |-> cusexmp_read(off, size), twins |-> TwinsRead(off, size)],
           client' \in [Clients -> Calls \cup {NoIoctl}]
    PROVE  DInv'
<1>1. DTypeOK' /\ ImageInv' /\ Same'
  BY DEF DInv, DTypeOK, ImageInv, Same, cusexmp_size
<1>2. TwinsRead(off, size) = {cusexmp_read(off, size)}
  BY ReadFacts DEF DInv, Same, TwinsRead
<1>3. ReadsWindow' /\ SizesReported'
  BY <1>2, ReadFacts DEF DInv, ReadsWindow, SizesReported, cusexmp_size
<1> QED BY <1>1, <1>3 DEF DInv

\* A write, by write or by ioctl: all of it, or nothing.
LEMMA WriteAnswer ==
    ASSUME DInv, NEW off \in Nat, NEW data \in Data, off + Len(data) <= MaxSize,
           client' \in [Clients -> Calls \cup {NoIoctl}],
           \/ /\ cusexmp_buf' = cusexmp_write(off, data) /\ TwinsWrite(off, data)
              /\ image' = Written(off, data)
              /\ reply' = [op |-> "write", prev |-> cusexmp_size, new |-> Len(cusexmp_buf')]
           \/ reply' = NoReply /\ UNCHANGED <<cusexmp_buf, twins, image>>
    PROVE  DInv'
<1>1. CASE reply' = NoReply /\ UNCHANGED <<cusexmp_buf, twins, image>>
  BY <1>1 DEF DInv, DTypeOK, ImageInv, Same, NoReply, ReadsWindow, SizesReported, cusexmp_size
<1>2. CASE /\ cusexmp_buf' = cusexmp_write(off, data) /\ TwinsWrite(off, data)
           /\ image' = Written(off, data)
           /\ reply' = [op |-> "write", prev |-> cusexmp_size, new |-> Len(cusexmp_buf')]
  <2>1. /\ ImageInv' /\ cusexmp_buf' \in Seq(Nat) /\ image' \in [0 .. MaxSize - 1 -> Nat]
        /\ cusexmp_size <= cusexmp_size' /\ cusexmp_size' <= MaxSize
    BY <1>2, WriteImage, DataSeq DEF DInv
  <2>2. Same'
    BY <1>2, WriteSame DEF DInv
  <2>3. DTypeOK'
    BY <2>1 DEF DTypeOK
  <2>4. ReadsWindow' /\ SizesReported'
    BY <1>2, <2>1 DEF ReadsWindow, SizesReported, cusexmp_size
  <2> QED BY <2>1, <2>2, <2>3, <2>4 DEF DInv
<1> QED BY <1>1, <1>2

\* Every request, and every round of an ioctl, keeps the device right.
LEMMA DeviceStep == ASSUME DInv, [DNext]_devars PROVE DInv'
<1>1. ASSUME NEW off \in 0 .. MaxSize + 1, NEW size \in 0 .. MaxSize, Read(off, size) PROVE DInv'
  <2>1. off \in Nat /\ size \in Nat
    BY DeviceAssumption
  <2>2. client' \in [Clients -> Calls \cup {NoIoctl}]
    BY <1>1 DEF Read, DInv, DTypeOK
  <2> QED BY <1>1, <2>1, <2>2, ReadAnswer DEF Read
<1>2. ASSUME NEW off \in 0 .. MaxSize - 1, NEW data \in Data, Write(off, data) PROVE DInv'
  <2>1. off \in Nat
    BY DeviceAssumption
  <2>2. client' \in [Clients -> Calls \cup {NoIoctl}] /\ off + Len(data) <= MaxSize
    BY <1>2 DEF Write, DInv, DTypeOK
  <2> QED BY <1>2, <2>1, <2>2, WriteAnswer DEF Write
<1>3. ASSUME NEW n \in 0 .. MaxSize, SetSize(n) PROVE DInv'
  <2>0. client' = client /\ reply' = NoReply
    BY <1>3 DEF SetSize
  <2>1. ReadsWindow' /\ SizesReported'
    BY <2>0 DEF ReadsWindow, SizesReported, NoReply
  <2>2. CASE cusexmp_buf' = cusexmp_resize(n) /\ TwinsResize(n) /\ image' = Cut(n)
    <3>1. ImageInv' /\ cusexmp_buf' \in Seq(Nat) /\ cusexmp_size' <= MaxSize /\ image' \in [0 .. MaxSize - 1 -> Nat]
      BY <2>2, ResizeImage DEF DInv
    <3>2. Same'
      BY <2>2, ResizeSame DEF DInv
    <3>3. DTypeOK'
      BY <2>0, <3>1 DEF DInv, DTypeOK
    <3> QED BY <2>1, <3>1, <3>2, <3>3 DEF DInv
  <2>3. CASE UNCHANGED <<cusexmp_buf, twins, image>>
    BY <2>0, <2>1, <2>3 DEF DInv, DTypeOK, ImageInv, Same, cusexmp_size
  <2> QED BY <1>3, <2>2, <2>3 DEF SetSize
<1>4. ASSUME client' \in [Clients -> Calls \cup {NoIoctl}], UNCHANGED <<cusexmp_buf, twins, image, reply, ops>>
      PROVE  DInv'
  BY <1>4 DEF DInv, DTypeOK, ImageInv, Same, ReadsWindow, SizesReported, cusexmp_size
<1>5. ASSUME NEW c \in Clients, NEW off \in 0 .. MaxSize - 2, NEW data \in Data, Ioctl(c, "FIOC_WRITE", <<off, data>>)
      PROVE  DInv'
  <2>0. Len(data) \in Nat /\ Len(data) <= 2
    BY DataSeq
  <2>1. off \in Nat /\ off + Len(data) <= MaxSize
    BY <2>0, DeviceAssumption
  <2>2. [cmd |-> "FIOC_WRITE", off |-> off, data |-> data, round |-> 1] \in Calls
    BY <2>1 DEF Calls
  <2> QED BY <1>4, <1>5, <2>2 DEF Ioctl, DInv, DTypeOK
<1>6. ASSUME NEW c \in Clients, NEW off \in {0, MaxSize}, Ioctl(c, "FIOC_READ", <<off, <<>>>>) PROVE DInv'
  <2>1. [cmd |-> "FIOC_READ", off |-> off, data |-> <<>>, round |-> 1] \in Calls
    BY DeviceAssumption DEF Calls, Data
  <2> QED BY <1>4, <1>6, <2>1 DEF Ioctl, DInv, DTypeOK
<1>7. ASSUME NEW c \in Clients, fioc_do_rw_retry(c) PROVE DInv'
  <2>1. client[c] \in Calls
    BY <1>7 DEF fioc_do_rw_retry, DInv, DTypeOK
  <2>2. [client[c] EXCEPT !.round = @ + 1] \in Calls
    BY <2>1 DEF Calls
  <2> QED BY <1>4, <1>7, <2>2 DEF fioc_do_rw_retry, DInv, DTypeOK
<1>8. ASSUME NEW c \in Clients, fioc_do_rw(c) PROVE DInv'
  <2> DEFINE k == client[c]
  <2>1. k \in Calls /\ client' \in [Clients -> Calls \cup {NoIoctl}]
    BY <1>8 DEF fioc_do_rw, DInv, DTypeOK
  <2>2. k.off \in Nat /\ k.data \in Data /\ (k.cmd # "FIOC_READ" => k.off + Len(k.data) <= MaxSize)
    BY <2>1 DEF Calls
  <2>3. CASE k.cmd = "FIOC_READ"
    BY <1>8, <2>1, <2>2, <2>3, ReadAnswer DEF fioc_do_rw
  <2>4. CASE k.cmd # "FIOC_READ"
    BY <1>8, <2>1, <2>2, <2>4, WriteAnswer DEF fioc_do_rw
  <2> QED BY <2>3, <2>4
<1>9. CASE UNCHANGED devars
  BY <1>4, <1>9 DEF devars, DInv, DTypeOK
<1> QED BY <1>1, <1>2, <1>3, <1>5, <1>6, <1>7, <1>8, <1>9 DEF DNext

\* For every size of the device and every order of reads, writes, truncations
\* and rounds of ioctls: cuse.c, cusexmp.c, ioctl.c and fioc.c hold what was
\* written last and zeros elsewhere, transfer the bytes of the window, and
\* report the sizes right before and right after a write.
THEOREM DeviceIsRight == DSpec => []DeviceRight
<1>1. DInv /\ [DNext]_devars => DInv'
  BY DeviceStep
<1>2. DInv => DeviceRight
  <2> SUFFICES ASSUME DInv PROVE DeviceRight
    OBVIOUS
  <2>1. \A p \in DOMAIN twins : twins[p] = cusexmp_buf
    BY DEF DInv, Same
  <2> QED BY <2>1 DEF DInv, ImageInv, HoldsWritten, DeviceRight
<1> QED BY <1>1, <1>2, DeviceInit, PTL DEF DSpec

---------------------------------------------------------------------------
(* Poll.                                                                    *)

Selects == [pc : {"open", "poll", "sleep", "read", "exit"}, f : PFiles, ready : SUBSET PFiles]

\* The values each variable may take.
PTypeOK ==
    /\ fsel_poll_notify_mask \subseteq PFiles
    /\ fsel_poll_handle \in [PFiles -> Nat] /\ fsel_cnt \in [PFiles -> 0 .. FSEL_CNT_MAX]
    /\ fsel_fuse \in BOOLEAN /\ awake \in BOOLEAN
    /\ prod \in [idx : PFiles, nr : {1, 2, 4}, rounds : Nat]
    /\ sel \in Selects
    /\ used \in Nat

\* Files with a handle are those of the mask, no handle is in two places of the
\* table, and none is given out twice.
HandleInv ==
    /\ \A f \in PFiles : f \in fsel_poll_notify_mask <=> fsel_poll_handle[f] # 0
    /\ \A f \in PFiles : fsel_poll_handle[f] <= used
    /\ \A f, g \in PFiles : fsel_poll_handle[f] = fsel_poll_handle[g] /\ f # g => fsel_poll_handle[f] = 0
    /\ \A h : h \in handles <=> h # 0 /\ \E f \in PFiles : fsel_poll_handle[f] = h
    /\ fsel_poll_notify_mask # {} => fsel_fuse

\* The files that select has already asked for.
Polled == IF sel.pc = "sleep" THEN PFiles ELSE {f \in PFiles : f < sel.f}

\* While select has seen no file ready and was not woken, each file it has asked
\* for is still empty and will wake it.
WaitInv ==
    /\ sel.pc = "sleep" => sel.ready = {}
    /\ sel.pc = "poll" /\ sel.f = 0 => sel.ready = {}
    /\ sel.pc \in {"read", "sleep"} => sel.f = 0
    /\ sel.pc \in {"poll", "sleep"} /\ sel.ready = {} /\ ~awake =>
         \A f \in Polled : fsel_cnt[f] = 0 /\ f \in fsel_poll_notify_mask

PInv == PTypeOK /\ HandleInv /\ WaitInv

---------------------------------------------------------------------------
\* A round of the producer touches files of the table only.
LEMMA RoundFiles ==
    ASSUME NEW idx \in PFiles, NEW nr \in {1, 2, 4}
    PROVE  Round(idx, nr) \subseteq PFiles
<1> SUFFICES ASSUME NEW i \in 0 .. nr - 1
             PROVE  (idx + i * (FSEL_FILES \div nr)) % FSEL_FILES \in PFiles
  BY DEF Round
<1>1. FSEL_FILES \div nr \in Nat
  BY PollAssumption
<1>2. \A k \in Nat : i * k \in Nat
  OBVIOUS
<1>3. idx + i * (FSEL_FILES \div nr) \in Nat
  BY <1>1, <1>2 DEF PFiles
<1> QED BY <1>3, PollAssumption DEF PFiles

\* nr goes round 1, 2, 4: 8 % 7 is 1.
LEMMA NrCycles == \A nr \in {1, 2, 4} : (nr * 2) % 7 \in {1, 2, 4}
OBVIOUS

\* Before the first poll no file has a handle and the client does not wait.
LEMMA PollInit == PInit => PInv
<1> SUFFICES ASSUME PInit PROVE PInv
  OBVIOUS
<1>1. PTypeOK
  <2>1. 0 \in PFiles /\ 0 \in 0 .. FSEL_CNT_MAX
    BY PollAssumption DEF PFiles
  <2>2. sel \in Selects
    BY <2>1 DEF PInit, Selects
  <2> QED BY <2>1, <2>2 DEF PInit, PTypeOK
<1>2. HandleInv
  BY DEF PInit, HandleInv
<1>3. WaitInv
  BY DEF PInit, WaitInv
<1> QED BY <1>1, <1>2, <1>3 DEF PInv

\* The file select is at, and those next to it.
LEMMA SelAt ==
    ASSUME PInv
    PROVE  /\ sel \in Selects /\ sel.f \in PFiles /\ sel.f \in Nat /\ 0 \in PFiles
           /\ sel.f # FSEL_FILES - 1 => sel.f + 1 \in PFiles
           /\ sel.f > 0 => sel.f - 1 \in PFiles
           /\ sel.f + 1 # 0
<1>1. sel \in Selects
  BY DEF PInv, PTypeOK
<1>2. sel.f \in PFiles
  BY <1>1 DEF Selects
<1>3. FSEL_FILES \in Nat /\ sel.f \in 0 .. FSEL_FILES - 1
  BY <1>2, PollAssumption DEF PFiles
<1>4. /\ sel.f \in Nat /\ 0 \in PFiles
      /\ sel.f # FSEL_FILES - 1 => sel.f + 1 \in PFiles
      /\ sel.f > 0 => sel.f - 1 \in PFiles
      /\ sel.f + 1 # 0
  BY <1>3 DEF PFiles
<1> QED BY <1>1, <1>2, <1>4

\* Opening and closing files leaves polls alone.
LEMMA OpenKeeps ==
    ASSUME PInv, ClientOpen \/ ClientExit \/ Other(0)
    PROVE  PInv'
<1>1. /\ UNCHANGED <<fsel_poll_notify_mask, fsel_poll_handle, fsel_cnt, fsel_fuse, awake, handles, used, prod>>
  BY DEF ClientOpen, ClientExit, Other, Client
<1>2. /\ sel' \in Selects
      /\ sel' = sel \/ sel'.pc \in {"open", "exit"} \/ (sel'.pc = "poll" /\ sel'.f = 0 /\ sel'.ready = {})
  <2>1. CASE ClientOpen
    <3>1. 0 \in PFiles /\ (sel.f # FSEL_FILES - 1 => sel.f + 1 \in PFiles)
      BY SelAt
    <3>2. \/ sel' = [pc |-> "poll", f |-> 0, ready |-> {}]
          \/ sel.f # FSEL_FILES - 1 /\ sel' = [sel EXCEPT !.f = @ + 1]
          \/ sel' = [sel EXCEPT !.pc = "exit"]
      BY <2>1 DEF ClientOpen
    <3>3. sel.pc = "open" /\ sel \in Selects
      BY <2>1 DEF PInv, PTypeOK, ClientOpen
    <3> QED BY <3>1, <3>2, <3>3 DEF Selects
  <2>2. CASE ClientExit
    <3>1. sel.f > 0 => sel.f - 1 \in PFiles
      BY SelAt
    <3> QED BY <2>2, <3>1 DEF PInv, PTypeOK, Selects, ClientExit
  <2>3. CASE Other(0)
    BY <2>3 DEF PInv, PTypeOK, Other
  <2> QED BY <2>1, <2>2, <2>3
<1>3. PTypeOK'
  BY <1>1, <1>2 DEF PInv, PTypeOK
<1>4. HandleInv'
  BY <1>1 DEF PInv, HandleInv
<1>5. WaitInv'
  BY <1>1, <1>2 DEF PInv, WaitInv, Polled, PFiles
<1> QED BY <1>3, <1>4, <1>5 DEF PInv

\* A poll that asks for a wake-up registers the file while it looks at it.
LEMMA PollKeeps ==
    ASSUME PInv, ClientPoll
    PROVE  PInv'
<1> DEFINE ph == IF sel.ready = {} THEN used + 1 ELSE 0
           ready == sel.ready \cup {g \in {sel.f} : fsel_cnt[g] > 0}
<1>0. /\ sel.f \in PFiles /\ sel.ready \subseteq PFiles /\ used \in Nat /\ fsel_cnt \in [PFiles -> Nat]
      /\ ready \subseteq PFiles /\ sel.pc = "poll"
  BY DEF PInv, PTypeOK, Selects, ClientPoll
<1>1. /\ fsel_fuse' = TRUE /\ used' = (IF ph = 0 THEN used ELSE ph) /\ fsel_cnt' = fsel_cnt /\ prod' = prod
      /\ awake' = IF sel.f = 0 THEN FALSE ELSE awake
      /\ sel' = IF sel.f < FSEL_FILES - 1 THEN [sel EXCEPT !.f = @ + 1, !.ready = ready]
                ELSE [pc |-> IF ready = {} THEN "sleep" ELSE "read", f |-> 0, ready |-> ready]
  BY DEF ClientPoll, fsel_poll, Client, Rest3
<1>2. /\ ph = 0 => UNCHANGED <<fsel_poll_notify_mask, fsel_poll_handle, handles>>
      /\ ph # 0 => /\ fsel_poll_notify_mask' = fsel_poll_notify_mask \cup {sel.f}
                   /\ fsel_poll_handle' = [fsel_poll_handle EXCEPT ![sel.f] = ph]
                   /\ handles' = (handles \ {fsel_poll_handle[sel.f]}) \cup {ph}
  BY DEF ClientPoll, fsel_poll
<1>3. ph \in Nat /\ (ph = 0 <=> sel.ready # {}) /\ (ph # 0 => ph = used + 1)
  BY <1>0
<1> HIDE DEF ph
<1>4. sel' \in Selects
  <2>1. 0 \in PFiles /\ (sel.f < FSEL_FILES - 1 => sel.f + 1 \in PFiles)
    BY <1>0, PollAssumption DEF PFiles
  <2> HIDE DEF ready
  <2> QED BY <1>0, <1>1, <2>1 DEF PInv, PTypeOK, Selects
<1>5. PTypeOK'
  <2>1. used' \in Nat /\ awake' \in BOOLEAN
    BY <1>0, <1>1, <1>3 DEF PInv, PTypeOK, Selects
  <2>2. fsel_poll_notify_mask' \subseteq PFiles /\ fsel_poll_handle' \in [PFiles -> Nat]
    BY <1>0, <1>2, <1>3 DEF PInv, PTypeOK, Selects
  <2> QED BY <1>1, <1>4, <2>1, <2>2 DEF PInv, PTypeOK, Selects
<1>6. HandleInv'
  <2>1. CASE ph = 0
    BY <1>1, <1>2, <2>1 DEF PInv, HandleInv
  <2>2. CASE ph # 0
    <3>1. \A f \in PFiles : fsel_poll_handle'[f] = IF f = sel.f THEN ph ELSE fsel_poll_handle[f]
      BY <1>0, <1>2, <2>2 DEF PInv, PTypeOK, Selects
    <3>2. \A f \in PFiles : fsel_poll_handle[f] \in Nat /\ fsel_poll_handle[f] < ph
      BY <1>0, <1>3, <2>2 DEF PInv, PTypeOK, Selects, HandleInv
    <3> QED BY <1>0, <1>1, <1>2, <1>3, <2>2, <3>1, <3>2 DEF PInv, HandleInv
  <2> QED BY <2>1, <2>2
<1>7. WaitInv'
  <2>1. CASE ready # {}
    <3>1. /\ sel'.ready = ready /\ sel'.pc \in {"poll", "read"}
          /\ sel'.pc = "poll" => sel'.f = sel.f + 1
          /\ sel'.pc = "read" => sel'.f = 0
      <4>1. CASE sel.f < FSEL_FILES - 1
        BY <1>0, <1>1, <4>1, SelAt DEF Selects
      <4>2. CASE ~(sel.f < FSEL_FILES - 1)
        BY <1>1, <2>1, <4>2
      <4> QED BY <4>1, <4>2
    <3>2. sel.f + 1 # 0
      BY SelAt
    <3> QED BY <2>1, <3>1, <3>2 DEF WaitInv
  <2>2. CASE ready = {}
    <3>1. sel.ready = {} /\ fsel_cnt[sel.f] = 0 /\ ph # 0
      BY <1>0, <1>3, <2>2
    <3>2. sel.f # 0 => awake' = awake
      BY <1>1
    <3>3. ASSUME ~awake', NEW f \in PFiles, f <= sel.f
          PROVE  fsel_cnt'[f] = 0 /\ f \in fsel_poll_notify_mask'
      <4>1. CASE f = sel.f
        BY <1>1, <1>2, <3>1, <4>1
      <4>2. CASE f < sel.f
        <5>1. ~awake /\ f \in Polled
          BY <1>0, <1>1, <3>2, <3>3, <4>2 DEF Polled, PFiles
        <5> QED BY <1>0, <1>1, <1>2, <3>1, <5>1 DEF PInv, WaitInv
      <4> QED BY <1>0, <3>3, <4>1, <4>2 DEF PFiles
    <3>4. \A f \in Polled' : f \in PFiles /\ f <= sel.f
      <4>1. CASE sel.f < FSEL_FILES - 1
        <5>1. sel'.pc = "poll" /\ sel'.f = sel.f + 1
          BY <1>0, <1>1, <4>1 DEF PInv, PTypeOK, Selects
        <5> QED BY <1>0, <5>1 DEF Polled, PFiles
      <4>2. CASE ~(sel.f < FSEL_FILES - 1)
        <5>1. sel'.pc = "sleep"
          BY <1>1, <2>2, <4>2
        <5> QED BY <1>0, <4>2, <5>1, PollAssumption DEF Polled, PFiles
      <4> QED BY <4>1, <4>2
    <3>5. sel'.pc \in {"poll", "sleep"} /\ sel'.ready = {} /\ (sel'.pc = "sleep" => sel'.f = 0)
      BY <1>0, <1>1, <2>2 DEF PInv, PTypeOK, Selects
    <3> QED BY <3>3, <3>4, <3>5 DEF WaitInv
  <2> QED BY <2>1, <2>2
<1> QED BY <1>5, <1>6, <1>7 DEF PInv

\* A client that was woken starts its polls again.
LEMMA WakeKeeps ==
    ASSUME PInv, ClientWake
    PROVE  PInv'
<1>1. /\ UNCHANGED <<fsel_poll_notify_mask, fsel_poll_handle, fsel_cnt, fsel_fuse, awake, handles, used, prod>>
      /\ awake /\ sel' = [sel EXCEPT !.pc = "poll"] /\ sel.pc = "sleep"
  BY DEF ClientWake, Client, Rest3
<1>2. PTypeOK' /\ HandleInv'
  BY <1>1 DEF PInv, PTypeOK, Selects, HandleInv
<1>3. WaitInv'
  BY <1>1 DEF PInv, PTypeOK, Selects, WaitInv
<1> QED BY <1>2, <1>3 DEF PInv

\* A read takes bytes out of files that select found ready.
LEMMA ReadKeeps ==
    ASSUME PInv, ClientRead
    PROVE  PInv'
<1>1. /\ UNCHANGED <<fsel_poll_notify_mask, fsel_poll_handle, fsel_fuse, awake, handles, used, prod>>
      /\ sel.pc = "read"
  BY DEF ClientRead, Client
<1>2. HandleInv'
  BY <1>1 DEF PInv, HandleInv
<1>3. CASE sel.ready # {}
  <2>1. PICK f \in sel.ready, size \in 1 .. FSEL_CNT_MAX :
          fsel_read(f, size) /\ sel' = [sel EXCEPT !.ready = @ \ {f}]
    BY <1>3 DEF ClientRead
  <2>2. fsel_cnt' \in [PFiles -> 0 .. FSEL_CNT_MAX]
    <3>1. f \in PFiles /\ fsel_cnt[f] \in 0 .. FSEL_CNT_MAX /\ size \in Nat
      BY <2>1, PollAssumption DEF PInv, PTypeOK, Selects
    <3>2. (fsel_cnt[f] - IF fsel_cnt[f] < size THEN fsel_cnt[f] ELSE size) \in 0 .. FSEL_CNT_MAX
      BY <3>1, PollAssumption
    <3> QED BY <2>1, <3>1, <3>2 DEF fsel_read, PInv, PTypeOK
  <2>3. PTypeOK'
    BY <1>1, <2>1, <2>2 DEF PInv, PTypeOK, Selects
  <2>4. WaitInv'
    BY <1>1, <2>1 DEF PInv, PTypeOK, Selects, WaitInv
  <2> QED BY <1>2, <2>3, <2>4 DEF PInv
<1>4. CASE sel.ready = {}
  <2>1. fsel_cnt' = fsel_cnt /\ sel' = [sel EXCEPT !.pc = "poll"]
    BY <1>4 DEF ClientRead
  <2>2. PTypeOK'
    BY <1>1, <2>1 DEF PInv, PTypeOK, Selects
  <2>3. sel'.pc = "poll" /\ sel'.f = 0 /\ sel'.ready = {}
    BY <1>1, <1>4, <2>1 DEF PInv, PTypeOK, Selects, WaitInv
  <2>4. WaitInv'
    BY <2>3 DEF WaitInv, Polled, PFiles
  <2> QED BY <1>2, <2>2, <2>4 DEF PInv
<1> QED BY <1>3, <1>4

\* A round wakes everyone who waits for a file it puts a byte in, and destroys
\* exactly the handles it used.
LEMMA ProducerKeeps ==
    ASSUME PInv, fsel_producer
    PROVE  PInv'
<1> DEFINE rnd == Round(prod.idx, prod.nr)
<1>0. rnd \subseteq PFiles /\ Notified \subseteq PFiles /\ Notified \subseteq fsel_poll_notify_mask
  BY RoundFiles DEF PInv, PTypeOK, Selects, Notified
<1>1. /\ \A f \in PFiles : fsel_cnt'[f] = IF f \in rnd /\ fsel_cnt[f] # FSEL_CNT_MAX THEN fsel_cnt[f] + 1 ELSE fsel_cnt[f]
      /\ fsel_cnt' = [f \in PFiles |-> fsel_cnt'[f]]
  BY DEF fsel_producer, Producer
<1>2. /\ awake' = (awake \/ Notified # {})
      /\ handles' = handles \ {fsel_poll_handle[t] : t \in Notified}
      /\ fsel_poll_notify_mask' = fsel_poll_notify_mask \ Notified
      /\ UNCHANGED <<fsel_fuse, sel, used>>
      /\ fsel_poll_handle' = [t \in PFiles |-> IF t \in Notified THEN 0 ELSE fsel_poll_handle[t]]
  BY DEF fsel_producer, Producer
<1>3. prod' \in [idx : PFiles, nr : {1, 2, 4}, rounds : Nat]
  <2>1. (prod.idx + 1) % FSEL_FILES \in PFiles
    <3>1. prod.idx + 1 \in Nat
      BY DEF PInv, PTypeOK, PFiles
    <3> QED BY <3>1, PollAssumption DEF PFiles
  <2>2. (IF prod.idx + 1 = FSEL_FILES THEN (prod.nr * 2) % 7 ELSE prod.nr) \in {1, 2, 4}
    BY NrCycles DEF PInv, PTypeOK, Selects
  <2> QED BY <2>1, <2>2 DEF fsel_producer, Producer, PInv, PTypeOK
<1>4. fsel_cnt' \in [PFiles -> 0 .. FSEL_CNT_MAX]
  <2>1. \A f \in PFiles : fsel_cnt'[f] \in 0 .. FSEL_CNT_MAX
    BY <1>1, PollAssumption DEF PInv, PTypeOK, Selects
  <2> QED BY <1>1, <2>1
<1>5. PTypeOK'
  BY <1>2, <1>3, <1>4 DEF PInv, PTypeOK, Selects
<1>6. HandleInv'
  BY <1>0, <1>2 DEF PInv, PTypeOK, Selects, HandleInv
<1>7. WaitInv'
  <2>1. ASSUME sel.pc \in {"poll", "sleep"}, sel.ready = {}, ~awake', NEW f \in Polled
        PROVE  fsel_cnt'[f] = 0 /\ f \in fsel_poll_notify_mask'
    <3>1. f \in PFiles /\ fsel_cnt[f] = 0 /\ f \in fsel_poll_notify_mask /\ fsel_fuse
      BY <1>2, <2>1 DEF PInv, WaitInv, HandleInv, Polled
    <3>2. f \notin Notified
      BY <1>2, <2>1
    <3>3. f \notin rnd
      BY <3>1, <3>2, PollAssumption DEF Notified
    <3> QED BY <1>1, <1>2, <3>1, <3>2, <3>3
  <2>2. Polled' = Polled
    BY <1>2 DEF Polled
  <2> QED BY <1>2, <2>1, <2>2 DEF PInv, WaitInv
<1> QED BY <1>5, <1>6, <1>7 DEF PInv

\* The poll invariant holds in every state.
THEOREM PollInvariant == PSpec => []PInv
<1>1. PInv /\ [PNext]_povars => PInv'
  <2> SUFFICES ASSUME PInv, [PNext]_povars PROVE PInv'
    OBVIOUS
  <2>1. CASE UNCHANGED povars
    BY <2>1 DEF povars, PInv, PTypeOK, Selects, HandleInv, WaitInv, Polled
  <2> QED BY <2>1, OpenKeeps, PollKeeps, WakeKeeps, ReadKeeps, ProducerKeeps DEF PNext
<1> QED BY <1>1, PollInit, PTL DEF PSpec

\* For every number of files and every interleaving of fsel_poll, fsel_read and
\* the producer's rounds: select never sleeps beside a byte, and the poll
\* handles alive are those in the table.
THEOREM PollsAreRight == PSpec => []PollRight
<1>1. PInv => PollRight
  <2> SUFFICES ASSUME PInv PROVE PollRight
    OBVIOUS
  <2>1. NoLostWakeup
    BY DEF PInv, WaitInv, NoLostWakeup, Polled
  <2>2. handles = {fsel_poll_handle[f] : f \in PFiles} \ {0}
    BY DEF PInv, HandleInv
  <2> QED BY <2>1, <2>2 DEF PInv, HandleInv, HandlesInTable, PollRight
<1> QED BY <1>1, PollInvariant, PTL

---------------------------------------------------------------------------
(* The notifications: what the kernel keeps of a file is what it holds.     *)

\* The notification examples, each with and without -s.
NotifyInit == \E program \in Notifiers, single \in BOOLEAN : NInit(program, single)
NSpec == NotifyInit /\ [][NNext]_nvars

Ops == {"idle", "lookup", "forget", "read"}

\* Requests in progress.
Requests ==
    {Rest} \cup {r \in [op : {"lookup", "forget", "read"}, at : {"load", "store", "reply"}, f : TheFiles,
                        v : Int, tmp : Int, n : Nat] :
                   /\ r.op = "forget" => r.at = "store"
                   /\ r.op = "read" => r.at = "reply"}

\* The values each variable may take.
NTypeOK ==
    /\ nmode \in [program : Notifiers, single : BOOLEAN]
    /\ content \in [TheFiles -> Int] /\ lookup_cnt \in Int
    /\ upd \in [pc : {"top", "update", "check", "notify", "retrieve", "status", "set", "done",
                      "grow", "time", "grown"}, old : Int]
    /\ work \in [Workers -> Requests]
    /\ kern \in [known : Nat, forget : Nat, mounted : BOOLEAN]
    /\ ncache \in [TheFiles -> Int]
    /\ ask \in [data : Int, cookie : Int]

\* Which program gets where.
Places ==
    /\ upd.pc \in {"retrieve", "status", "set"} => Is("notify_store_retrieve")
    /\ upd.pc \in {"grow", "time", "grown"} => Is("invalidate_path")
    /\ upd.pc \in {"check", "notify"} => ~Is("invalidate_path")

\* How many of the lookups of lookup_cnt a request still holds.
Held(r) == IF r.op = "lookup" /\ r.at = "reply" THEN 1 ELSE IF r.op = "forget" THEN r.n ELSE 0

\* With -s one request runs at a time, and what it loaded of lookup_cnt is so.
OneRequest ==
    nmode.single =>
        /\ work[1] = Rest \/ work[2] = Rest
        /\ \A w \in Workers : work[w].op \in {"lookup", "forget"} /\ work[w].at = "store" => work[w].tmp = lookup_cnt
Counted ==
    nmode.single /\ kern.mounted /\ ~Is("invalidate_path") =>
        lookup_cnt = kern.known + kern.forget + Held(work[1]) + Held(work[2])

\* Pages are cached and read only of an inode that the kernel knows.
PagesKnown ==
    kern.mounted /\ ~Is("notify_inval_entry") =>
        /\ kern.known = 0 => \A f \in TheFiles : ncache[f] = 0
        /\ kern.known = 0 => \A w \in Workers : work[w].op # "read"
        /\ \A f \in TheFiles \ FilesOf : ncache[f] = 0
        /\ \A w \in Workers : work[w].op = "read" => work[w].f \in FilesOf

\* The page of a file, and the answer that is to become it, hold what the file holds.
FreshPage(f) ==
    /\ ncache[f] \in {0, content[f]}
    /\ \A w \in Workers : work[w].op = "read" /\ work[w].f = f => work[w].v = content[f]

\* Where the updater has told the kernel of everything it wrote to a file.
Told(f) ==
    \/ upd.pc = "top" /\ ((nmode.single /\ ~Is("notify_inval_entry")) \/ Is("invalidate_path"))
    \/ upd.pc \in {"retrieve", "status", "set"}
    \/ upd.pc = "grown" /\ f = 1
Fresh == Alive /\ kern.mounted => \A f \in FilesOf : Told(f) => FreshPage(f)

\* What is on its way back from the kernel is what was asked for.
AskRight == ask.data \in {0, ask.cookie}

NInv ==
    /\ NTypeOK /\ Places /\ OneRequest /\ Counted /\ PagesKnown /\ Fresh
    /\ AskRight /\ RetrieveMatches

---------------------------------------------------------------------------
\* A request is the idle one just when its operation says so.
LEMMA RequestFacts ==
    ASSUME NEW r \in Requests
    PROVE  /\ r.op = "idle" <=> r = Rest
           /\ r.op \in {"idle", "lookup", "forget", "read"}
           /\ r.n \in Nat /\ r.tmp \in Int /\ r.v \in Int /\ r.f \in TheFiles
           /\ Held(r) \in Nat
<1>1. CASE r = Rest
  BY <1>1 DEF Rest, TheFiles, Held
<1>2. CASE r # Rest
  <2>1. r \in [op : {"lookup", "forget", "read"}, at : {"load", "store", "reply"}, f : TheFiles,
               v : Int, tmp : Int, n : Nat]
    BY <1>2 DEF Requests
  <2> QED BY <1>2, <2>1 DEF Held
<1> QED BY <1>1, <1>2

\* What each request holds is a number; two workers are all there are.
LEMMA HeldNat ==
    ASSUME NTypeOK
    PROVE  /\ work[1] \in Requests /\ work[2] \in Requests
           /\ Held(work[1]) \in Nat /\ Held(work[2]) \in Nat
           /\ Held(Rest) = 0 /\ Workers = {1, 2}
<1>1. Workers = {1, 2}
  BY DEF Workers
<1>2. work[1] \in Requests /\ work[2] \in Requests
  BY <1>1 DEF NTypeOK
<1> QED BY <1>1, <1>2, RequestFacts DEF Held, Rest

\* The invariant holds at first.
LEMMA NotifyInitInv == NotifyInit => NInv
<1> SUFFICES ASSUME NEW program \in Notifiers, NEW single \in BOOLEAN, NInit(program, single)
             PROVE  NInv
  BY DEF NotifyInit
<1>1. Rest \in Requests /\ Rest.op = "idle" /\ Held(Rest) = 0
  BY DEF Requests, Rest, Held
<1>2. NTypeOK
  <2>1. nmode \in [program : Notifiers, single : BOOLEAN]
    BY DEF NInit
  <2>2. work \in [Workers -> Requests]
    BY <1>1 DEF NInit
  <2>3. /\ content \in [TheFiles -> Int] /\ lookup_cnt \in Int
        /\ ncache \in [TheFiles -> Int] /\ ask \in [data : Int, cookie : Int]
    BY DEF NInit, NoAsk
  <2> QED BY <2>1, <2>2, <2>3 DEF NInit, NTypeOK
<1>3. \A w \in Workers : work[w] = Rest
  BY DEF NInit
<1>4. work[1] = Rest /\ work[2] = Rest
  BY <1>3 DEF Workers
<1>5. OneRequest /\ Counted
  BY <1>1, <1>3, <1>4 DEF NInit, OneRequest, Counted
<1>6. Places /\ PagesKnown /\ Fresh
  BY <1>1, <1>3 DEF NInit, Places, PagesKnown, Fresh, FreshPage, Told, TheFiles, FilesOf
<1>7. AskRight /\ RetrieveMatches
  BY DEF NInit, AskRight, RetrieveMatches, NoAsk
<1> QED BY <1>2, <1>5, <1>6, <1>7 DEF NInv

---------------------------------------------------------------------------
(* The workers.                                                             *)

\* A step of a worker leaves the updater alone.
LEMMA ServedFrame ==
    ASSUME NInv, NotServed, NTypeOK',
           NEW w \in Workers, NEW r \in Requests, Request(w, r)
    PROVE  /\ Places' /\ RetrieveMatches'
           /\ \A p : Is(p)' = Is(p)
           /\ FilesOf' = FilesOf /\ Alive' = Alive
           /\ \A f \in TheFiles : Told(f)' = Told(f)
           /\ work'[w] = r /\ \A x \in Workers \ {w} : work'[x] = work[x]
BY DEF NInv, NTypeOK, NotServed, Places, RetrieveMatches, Is, FilesOf, Alive, Told, Request

\* With -s a request starts only when no other runs.
LEMMA Alone ==
    ASSUME NInv, NEW w \in Workers, nmode.single, CanStart(w) \/ work[w] # Rest
    PROVE  \A x \in Workers \ {w} : work[x] = Rest
BY DEF NInv, OneRequest, Workers, CanStart

\* A lookup starts.
LEMMA LookupStarts ==
    ASSUME NInv, NEW w \in Workers, NEW v \in 1 .. MaxVersion, tfs_lookup(w, v)
    PROVE  NInv'
<1> DEFINE r == [Rest EXCEPT !.op = "lookup", !.at = "load", !.v = v]
<1>1. r \in Requests /\ r.op = "lookup" /\ r.at = "load" /\ Held(r) = 0
  <2>1. Rest \in [op : Ops, at : {"none", "load", "store", "reply"}, f : TheFiles, v : Int, tmp : Int, n : Nat] /\ v \in Int
    BY DEF Rest, TheFiles, Ops
  <2>2. /\ r \in [op : Ops, at : {"none", "load", "store", "reply"}, f : TheFiles, v : Int, tmp : Int, n : Nat]
        /\ r.op = "lookup" /\ r.at = "load"
    BY <2>1 DEF Ops
  <2> HIDE DEF r
  <2> QED BY <2>2 DEF Held, Requests, Ops
<1>2. Request(w, r) /\ UNCHANGED <<lookup_cnt, kern, ncache, ask>> /\ NotServed /\ CanStart(w)
  BY DEF tfs_lookup
<1> HIDE DEF r
<1>3. NTypeOK'
  BY <1>1, <1>2 DEF NInv, NTypeOK, NotServed, Request
<1>4. /\ Places' /\ RetrieveMatches' /\ FilesOf' = FilesOf /\ Alive' = Alive
      /\ \A p : Is(p)' = Is(p)
      /\ \A f \in TheFiles : Told(f)' = Told(f)
      /\ work'[w] = r /\ \A x \in Workers \ {w} : work'[x] = work[x]
  BY <1>1, <1>2, <1>3, ServedFrame
<1>5. work[w] = Rest /\ Held(Rest) = 0
  BY <1>2, HeldNat DEF CanStart, NInv
<1>6. OneRequest'
  BY <1>1, <1>2, <1>4, Alone DEF NInv, OneRequest, Workers, NotServed
<1>7. Counted'
  BY <1>1, <1>2, <1>4, <1>5 DEF NInv, Counted, Workers, NotServed
<1>8. PagesKnown'
  BY <1>1, <1>2, <1>4 DEF NInv, PagesKnown
<1>9. Fresh'
  BY <1>1, <1>2, <1>4 DEF NInv, Fresh, FreshPage, NotServed, FilesOf, TheFiles
<1> QED BY <1>2, <1>3, <1>4, <1>6, <1>7, <1>8, <1>9 DEF NInv, AskRight

\* The count is loaded, and stored one higher.
LEMMA LookupCounts ==
    ASSUME NInv, NEW w \in Workers, lookup_count(w)
    PROVE  NInv'
<1> DEFINE load == [work[w] EXCEPT !.at = "store", !.tmp = lookup_cnt]
           store == [work[w] EXCEPT !.at = "reply"]
<1>0. work[w] \in Requests /\ work[w].op = "lookup" /\ work[w] # Rest
  BY DEF NInv, NTypeOK, lookup_count, In, Rest
<1>1. CASE In(w, "lookup", "load") /\ Request(w, load) /\ UNCHANGED <<lookup_cnt, kern, ncache, ask>> /\ NotServed
  <2>1. load \in Requests /\ load.op = "lookup" /\ load.at = "store" /\ load.tmp = lookup_cnt
    BY <1>0 DEF Requests, NInv, NTypeOK
  <2> HIDE DEF load
  <2>2. NTypeOK'
    BY <1>1, <2>1 DEF NInv, NTypeOK, NotServed, Request
  <2>3. /\ Places' /\ RetrieveMatches' /\ FilesOf' = FilesOf /\ Alive' = Alive
        /\ \A p : Is(p)' = Is(p)
        /\ \A f \in TheFiles : Told(f)' = Told(f)
        /\ work'[w] = load /\ \A x \in Workers \ {w} : work'[x] = work[x]
    BY <1>1, <2>1, <2>2, ServedFrame
  <2>4. Held(work[w]) = 0 /\ Held(load) = 0
    BY <1>1, <2>1 DEF Held, In
  <2>5. OneRequest'
    BY <1>0, <1>1, <2>1, <2>3, Alone DEF NInv, OneRequest, Workers, NotServed
  <2>6. Counted'
    BY <1>1, <2>3, <2>4 DEF NInv, Counted, Workers, NotServed
  <2>7. PagesKnown'
    BY <1>1, <2>1, <2>3 DEF NInv, PagesKnown
  <2>8. Fresh'
    BY <1>1, <2>1, <2>3 DEF NInv, Fresh, FreshPage, NotServed, FilesOf, TheFiles
  <2> QED BY <1>1, <2>2, <2>3, <2>5, <2>6, <2>7, <2>8 DEF NInv, AskRight
<1>2. CASE /\ In(w, "lookup", "store") /\ lookup_cnt' = work[w].tmp + 1 /\ Request(w, store)
           /\ UNCHANGED <<kern, ncache, ask>> /\ NotServed
  <2>1. store \in Requests /\ store.op = "lookup" /\ store.at = "reply"
    BY <1>0 DEF Requests
  <2>0. work[w].tmp \in Int
    BY <1>0, RequestFacts
  <2> HIDE DEF store
  <2>2. NTypeOK'
    BY <1>2, <2>0, <2>1 DEF NInv, NTypeOK, NotServed, Request
  <2>3. /\ Places' /\ RetrieveMatches' /\ FilesOf' = FilesOf /\ Alive' = Alive
        /\ \A p : Is(p)' = Is(p)
        /\ \A f \in TheFiles : Told(f)' = Told(f)
        /\ work'[w] = store /\ \A x \in Workers \ {w} : work'[x] = work[x]
    BY <1>2, <2>1, <2>2, ServedFrame
  <2>4. Held(work[w]) = 0 /\ Held(store) = 1 /\ Held(Rest) = 0
    BY <1>2, <2>1 DEF Held, In, Rest
  <2>9. nmode.single => work[w].tmp = lookup_cnt /\ \A x \in Workers \ {w} : work[x] = Rest
    BY <1>0, <1>2, Alone DEF NInv, OneRequest, In
  <2>5. OneRequest'
    BY <1>2, <2>1, <2>3, <2>9 DEF NInv, OneRequest, Workers, NotServed, Rest
  <2>6. Counted'
    <3>1. SUFFICES ASSUME nmode.single, kern.mounted, ~Is("invalidate_path")
                   PROVE  lookup_cnt' = kern.known + kern.forget + Held(work'[1]) + Held(work'[2])
      BY <1>2, <2>3 DEF Counted, NotServed
    <3>2. lookup_cnt = kern.known + kern.forget + Held(work[1]) + Held(work[2])
      BY <3>1 DEF NInv, Counted
    <3>3. kern.known \in Nat /\ kern.forget \in Nat /\ lookup_cnt \in Int
      BY DEF NInv, NTypeOK
    <3> QED BY <1>2, <2>3, <2>4, <2>9, <3>1, <3>2, <3>3 DEF Workers
  <2>7. PagesKnown'
    BY <1>2, <2>1, <2>3 DEF NInv, PagesKnown
  <2>8. Fresh'
    BY <1>2, <2>1, <2>3 DEF NInv, Fresh, FreshPage, NotServed, FilesOf, TheFiles
  <2> QED BY <1>2, <2>2, <2>3, <2>5, <2>6, <2>7, <2>8 DEF NInv, AskRight
<1> QED BY <1>1, <1>2 DEF lookup_count

\* The reply goes: the kernel counts the lookup from now on.
LEMMA LookupReplies ==
    ASSUME NInv, NEW w \in Workers, lookup_reply(w)
    PROVE  NInv'
<1>0. /\ work[w].op = "lookup" /\ work[w].at = "reply" /\ work[w] # Rest
      /\ Request(w, Rest) /\ NotServed /\ UNCHANGED <<lookup_cnt, ask>>
      /\ kern' = [kern EXCEPT !.known = IF kern.mounted THEN @ + 1 ELSE @]
      /\ ncache' = IF Is("notify_inval_entry") THEN [ncache EXCEPT ![1] = work[w].v] ELSE ncache
  BY DEF lookup_reply, In, Rest
<1>1. Rest \in Requests /\ Rest.op = "idle" /\ Held(Rest) = 0 /\ Held(work[w]) = 1
  BY <1>0 DEF Requests, Rest, Held
<1>2. work[w] \in Requests /\ work[w].v \in Int /\ kern.known \in Nat /\ kern.forget \in Nat /\ lookup_cnt \in Int
  BY RequestFacts DEF NInv, NTypeOK
<1>3. kern' \in [known : Nat, forget : Nat, mounted : BOOLEAN]
      /\ kern'.mounted = kern.mounted /\ kern'.forget = kern.forget
      /\ kern'.known = IF kern.mounted THEN kern.known + 1 ELSE kern.known
  BY <1>0, <1>2 DEF NInv, NTypeOK
<1>4. NTypeOK'
  <2>1. ncache' \in [TheFiles -> Int]
    BY <1>0, <1>2 DEF NInv, NTypeOK, TheFiles
  <2> QED BY <1>0, <1>1, <1>3, <2>1 DEF NInv, NTypeOK, NotServed, Request
<1>5. /\ Places' /\ RetrieveMatches' /\ FilesOf' = FilesOf /\ Alive' = Alive
      /\ \A p : Is(p)' = Is(p)
      /\ \A f \in TheFiles : Told(f)' = Told(f)
      /\ work'[w] = Rest /\ \A x \in Workers \ {w} : work'[x] = work[x]
  BY <1>0, <1>1, <1>4, ServedFrame
<1>6. OneRequest'
  BY <1>0, <1>1, <1>5, Alone DEF NInv, OneRequest, Workers, NotServed
<1>7. Counted'
  <2> SUFFICES ASSUME nmode.single, kern.mounted, ~Is("invalidate_path")
               PROVE  lookup_cnt' = kern'.known + kern'.forget + Held(work'[1]) + Held(work'[2])
    BY <1>0, <1>3, <1>5 DEF Counted, NotServed
  <2>1. lookup_cnt = kern.known + kern.forget + Held(work[1]) + Held(work[2])
    BY DEF NInv, Counted
  <2>2. Held(work[1]) \in Nat /\ Held(work[2]) \in Nat
    BY HeldNat DEF NInv
  <2> QED BY <1>0, <1>1, <1>2, <1>3, <1>5, <2>1, <2>2 DEF Workers
<1>8. PagesKnown'
  BY <1>0, <1>1, <1>2, <1>3, <1>5 DEF NInv, PagesKnown
<1>9. Fresh'
  <2>1. CASE Is("notify_inval_entry")
    BY <1>0, <1>5, <2>1 DEF Fresh, Told, NInv, Places, Is, NotServed
  <2>2. CASE ~Is("notify_inval_entry")
    BY <1>0, <1>1, <1>3, <1>5, <2>2 DEF NInv, Fresh, FreshPage, NotServed, FilesOf, TheFiles
  <2> QED BY <2>1, <2>2
<1> QED BY <1>0, <1>4, <1>5, <1>6, <1>7, <1>8, <1>9 DEF NInv, AskRight

\* A forget takes over what the kernel had still to tell, and subtracts it.
LEMMA ForgetKeeps ==
    ASSUME NInv, NEW w \in Workers, tfs_forget(w)
    PROVE  NInv'
<1> DEFINE r == [Rest EXCEPT !.op = "forget", !.at = "store", !.tmp = lookup_cnt, !.n = kern.forget]
<1>0. kern.known \in Nat /\ kern.forget \in Nat /\ lookup_cnt \in Int /\ work[w] \in Requests
      /\ Held(Rest) = 0 /\ Rest \in Requests /\ Rest.op = "idle"
      /\ Held(work[1]) \in Nat /\ Held(work[2]) \in Nat
  BY HeldNat DEF NInv, NTypeOK, Requests, Rest
<1>1. CASE /\ CanStart(w) /\ Request(w, r) /\ kern' = [kern EXCEPT !.forget = 0]
           /\ UNCHANGED <<lookup_cnt, ncache, ask>> /\ NotServed
  <2>0. Rest \in [op : Ops, at : {"none", "load", "store", "reply"}, f : TheFiles, v : Int, tmp : Int, n : Nat]
    BY DEF Rest, TheFiles, Ops
  <2>1. /\ r \in [op : Ops, at : {"none", "load", "store", "reply"}, f : TheFiles, v : Int, tmp : Int, n : Nat]
        /\ r.op = "forget" /\ r.at = "store" /\ r.tmp = lookup_cnt /\ r.n = kern.forget
    BY <1>0, <2>0 DEF Ops
  <2> HIDE DEF r
  <2>2. r \in Requests /\ r.op = "forget" /\ r.at = "store" /\ r.tmp = lookup_cnt /\ r.n = kern.forget
        /\ Held(r) = kern.forget
    BY <2>1 DEF Requests, Held, Ops
  <2>3. kern' \in [known : Nat, forget : Nat, mounted : BOOLEAN]
        /\ kern'.mounted = kern.mounted /\ kern'.forget = 0 /\ kern'.known = kern.known
    BY <1>0, <1>1 DEF NInv, NTypeOK
  <2>4. NTypeOK'
    BY <1>1, <2>2, <2>3 DEF NInv, NTypeOK, NotServed, Request
  <2>5. /\ Places' /\ RetrieveMatches' /\ FilesOf' = FilesOf /\ Alive' = Alive
        /\ \A p : Is(p)' = Is(p)
        /\ \A f \in TheFiles : Told(f)' = Told(f)
        /\ work'[w] = r /\ \A x \in Workers \ {w} : work'[x] = work[x]
    BY <1>1, <2>2, <2>4, ServedFrame
  <2>6. OneRequest'
    BY <1>1, <2>2, <2>5, Alone DEF NInv, OneRequest, Workers, NotServed
  <2>7. Counted'
    <3> SUFFICES ASSUME nmode.single, kern.mounted, ~Is("invalidate_path")
                 PROVE  lookup_cnt' = kern'.known + kern'.forget + Held(work'[1]) + Held(work'[2])
      BY <1>1, <2>3, <2>5 DEF Counted, NotServed
    <3>1. lookup_cnt = kern.known + kern.forget + Held(work[1]) + Held(work[2]) /\ work[w] = Rest
      BY <1>1 DEF NInv, Counted, CanStart
    <3> QED BY <1>0, <1>1, <2>2, <2>3, <2>5, <3>1 DEF Workers
  <2>8. PagesKnown'
    BY <1>1, <2>2, <2>3, <2>5 DEF NInv, PagesKnown
  <2>9. Fresh'
    BY <1>1, <2>2, <2>3, <2>5 DEF NInv, Fresh, FreshPage, NotServed, FilesOf, TheFiles
  <2> QED BY <1>1, <2>4, <2>5, <2>6, <2>7, <2>8, <2>9 DEF NInv, AskRight
<1>2. CASE /\ In(w, "forget", "store") /\ lookup_cnt' = work[w].tmp - work[w].n /\ Request(w, Rest)
           /\ UNCHANGED <<kern, ncache, ask>> /\ NotServed
  <2>1. work[w].tmp \in Int /\ work[w].n \in Nat /\ Held(work[w]) = work[w].n
        /\ work[w].op = "forget" /\ work[w].at = "store" /\ work[w] # Rest
    BY <1>0, <1>2, RequestFacts DEF Held, In
  <2>2. NTypeOK'
    BY <1>0, <1>2, <2>1 DEF NInv, NTypeOK, NotServed, Request
  <2>3. /\ Places' /\ RetrieveMatches' /\ FilesOf' = FilesOf /\ Alive' = Alive
        /\ \A p : Is(p)' = Is(p)
        /\ \A f \in TheFiles : Told(f)' = Told(f)
        /\ work'[w] = Rest /\ \A x \in Workers \ {w} : work'[x] = work[x]
    BY <1>0, <1>2, <2>2, ServedFrame
  <2>4. nmode.single => work[w].tmp = lookup_cnt /\ \A x \in Workers \ {w} : work[x] = Rest
    BY <2>1, Alone DEF NInv, OneRequest
  <2>5. OneRequest'
    BY <1>0, <1>2, <2>3, <2>4 DEF NInv, OneRequest, Workers, NotServed
  <2>6. Counted'
    <3> SUFFICES ASSUME nmode.single, kern.mounted, ~Is("invalidate_path")
                 PROVE  lookup_cnt' = kern.known + kern.forget + Held(work'[1]) + Held(work'[2])
      BY <1>2, <2>3 DEF Counted, NotServed
    <3>1. lookup_cnt = kern.known + kern.forget + Held(work[1]) + Held(work[2])
      BY DEF NInv, Counted
    <3> QED BY <1>0, <1>2, <2>1, <2>3, <2>4, <3>1 DEF Workers
  <2>7. PagesKnown'
    BY <1>0, <1>2, <2>3 DEF NInv, PagesKnown
  <2>8. Fresh'
    BY <1>0, <1>2, <2>3 DEF NInv, Fresh, FreshPage, NotServed, FilesOf, TheFiles
  <2> QED BY <1>2, <2>2, <2>3, <2>5, <2>6, <2>7, <2>8 DEF NInv, AskRight
<1> QED BY <1>1, <1>2 DEF tfs_forget

\* A read takes what the file holds; the page is cached when its answer is in.
LEMMA ReadPage ==
    ASSUME NInv, NEW w \in Workers, NEW f \in TheFiles, tfs_read(w, f)
    PROVE  NInv'
<1> DEFINE r == [Rest EXCEPT !.op = "read", !.at = "reply", !.f = f, !.v = content[f]]
<1>0. content[f] \in Int /\ work[w] \in Requests /\ Rest \in Requests /\ Rest.op = "idle" /\ Held(Rest) = 0
  BY DEF NInv, NTypeOK, Requests, Rest, Held
<1>1. CASE /\ CanStart(w) /\ ~Is("notify_inval_entry") /\ f \in FilesOf
           /\ kern.known > 0 /\ ncache[f] = 0 /\ ~InFlight("read")
           /\ Request(w, r) /\ UNCHANGED <<lookup_cnt, kern, ncache, ask>> /\ NotServed
  <2>0. Rest \in [op : Ops, at : {"none", "load", "store", "reply"}, f : TheFiles, v : Int, tmp : Int, n : Nat]
    BY DEF Rest, TheFiles, Ops
  <2>1. /\ r \in [op : Ops, at : {"none", "load", "store", "reply"}, f : TheFiles, v : Int, tmp : Int, n : Nat]
        /\ r.op = "read" /\ r.at = "reply" /\ r.f = f /\ r.v = content[f]
    BY <1>0, <2>0 DEF Ops
  <2> HIDE DEF r
  <2>2. r \in Requests /\ Held(r) = 0
    BY <2>1 DEF Requests, Held, Ops
  <2>3. NTypeOK'
    BY <1>1, <2>2 DEF NInv, NTypeOK, NotServed, Request
  <2>4. /\ Places' /\ RetrieveMatches' /\ FilesOf' = FilesOf /\ Alive' = Alive
        /\ \A p : Is(p)' = Is(p)
        /\ \A g \in TheFiles : Told(g)' = Told(g)
        /\ work'[w] = r /\ \A x \in Workers \ {w} : work'[x] = work[x]
    BY <1>1, <2>2, <2>3, ServedFrame
  <2>5. OneRequest'
    BY <1>1, <2>1, <2>4, Alone DEF NInv, OneRequest, Workers, NotServed
  <2>6. Counted'
    BY <1>0, <1>1, <2>2, <2>4 DEF NInv, Counted, Workers, NotServed, CanStart
  <2>7. PagesKnown'
    BY <1>1, <2>1, <2>4 DEF NInv, PagesKnown
  <2>8. Fresh'
    BY <1>1, <2>1, <2>4 DEF NInv, Fresh, FreshPage, NotServed, FilesOf, TheFiles
  <2> QED BY <1>1, <2>3, <2>4, <2>5, <2>6, <2>7, <2>8 DEF NInv, AskRight
<1>2. CASE /\ In(w, "read", "reply") /\ work[w].f = f /\ Request(w, Rest)
           /\ ncache' = [ncache EXCEPT ![f] = IF kern.mounted THEN work[w].v ELSE 0]
           /\ UNCHANGED <<lookup_cnt, kern, ask>> /\ NotServed
  <2>1. work[w].v \in Int /\ Held(work[w]) = 0 /\ work[w].op = "read" /\ work[w] # Rest
    BY <1>0, <1>2, RequestFacts DEF Held, In
  <2>2. NTypeOK' /\ ncache'[f] = (IF kern.mounted THEN work[w].v ELSE 0)
        /\ \A g \in TheFiles \ {f} : ncache'[g] = ncache[g]
    BY <1>0, <1>2, <2>1 DEF NInv, NTypeOK, NotServed, Request
  <2>3. /\ Places' /\ RetrieveMatches' /\ FilesOf' = FilesOf /\ Alive' = Alive
        /\ \A p : Is(p)' = Is(p)
        /\ \A g \in TheFiles : Told(g)' = Told(g)
        /\ work'[w] = Rest /\ \A x \in Workers \ {w} : work'[x] = work[x]
    BY <1>0, <1>2, <2>2, ServedFrame
  <2>4. OneRequest'
    BY <1>0, <1>2, <2>1, <2>3, Alone DEF NInv, OneRequest, Workers, NotServed
  <2>5. Counted'
    BY <1>0, <1>2, <2>1, <2>3 DEF NInv, Counted, Workers, NotServed
  <2>6. PagesKnown'
    BY <1>0, <1>2, <2>1, <2>2, <2>3 DEF NInv, PagesKnown
  <2>7. Fresh'
    BY <1>0, <1>2, <2>1, <2>2, <2>3 DEF NInv, Fresh, FreshPage, NotServed, FilesOf, TheFiles
  <2> QED BY <1>2, <2>2, <2>3, <2>4, <2>5, <2>6, <2>7 DEF NInv, AskRight
<1> QED BY <1>1, <1>2 DEF tfs_read

\* What the kernel sends back is what it was asked for.
LEMMA RetrieveAnswered ==
    ASSUME NInv, NEW w \in Workers, tfs_retrieve_reply(w)
    PROVE  NInv'
<1>1. /\ UNCHANGED <<nmode, content, lookup_cnt, upd, work, kern, ncache>> /\ ask' = NoAsk
      /\ nend' = IF ask.data = 0 THEN "empty" ELSE IF ask.data # ask.cookie THEN "mismatch" ELSE nend
      /\ Alive
  BY DEF tfs_retrieve_reply, CanStart
<1>2. NTypeOK' /\ Places' /\ OneRequest' /\ Counted' /\ PagesKnown' /\ AskRight'
  BY <1>1 DEF NInv, NTypeOK, Places, OneRequest, Counted, PagesKnown, FilesOf, Is, NoAsk, AskRight
<1>3. RetrieveMatches'
  BY <1>1 DEF NInv, AskRight, RetrieveMatches
<1>4. Fresh'
  BY <1>1 DEF NInv, Fresh, FreshPage, Told, FilesOf, Is
<1> QED BY <1>2, <1>3, <1>4 DEF NInv

---------------------------------------------------------------------------
(* The updater.                                                             *)

\* Writing new contents takes back what the kernel was told.
LEMMA UpdateKeeps ==
    ASSUME NInv, update_fs
    PROVE  NInv'
<1>0. UNCHANGED <<nmode, lookup_cnt, work, kern, ask, ncache, nend>> /\ content[1] \in Int /\ upd.old \in Int
      /\ Torn \in Int
  BY NotifyAssumption DEF update_fs, Only, NInv, NTypeOK, TheFiles, Torn
<1>1. OneRequest' /\ Counted' /\ PagesKnown' /\ AskRight' /\ RetrieveMatches'
  BY <1>0 DEF NInv, OneRequest, Counted, PagesKnown, FilesOf, Is, AskRight, RetrieveMatches
<1>2. CASE At("top") /\ upd' = [pc |-> "update", old |-> content[1]] /\ content' = [content EXCEPT ![1] = Torn]
  <2>1. NTypeOK' /\ Places' /\ Fresh'
    BY <1>0, <1>2 DEF NInv, NTypeOK, Places, Fresh, Told, Is, TheFiles
  <2> QED BY <1>1, <2>1 DEF NInv
<1>3. CASE /\ At("update") /\ content' = [content EXCEPT ![1] = upd.old + 1]
           /\ Goto(IF Is("invalidate_path") THEN "grow" ELSE "check")
  <2>1. NTypeOK' /\ Places' /\ Fresh'
    BY <1>0, <1>3 DEF NInv, NTypeOK, Places, Fresh, Told, Is, TheFiles, Goto
  <2> QED BY <1>1, <2>1 DEF NInv
<1>4. CASE At("grow") /\ content' = [content EXCEPT ![2] = upd.old + 1] /\ Goto("time")
  <2>1. NTypeOK' /\ Places' /\ Fresh'
    BY <1>0, <1>4 DEF NInv, NTypeOK, Places, Fresh, Told, Is, TheFiles, Goto, At
  <2> QED BY <1>1, <2>1 DEF NInv
<1> QED BY <1>2, <1>3, <1>4 DEF update_fs

\* With no lookup counted the kernel has no page of the file.
LEMMA CheckKeeps ==
    ASSUME NInv, loop_check
    PROVE  NInv'
<1>0. UNCHANGED <<nmode, lookup_cnt, work, kern, ask, ncache, nend, content>> /\ upd.pc = "check"
      /\ upd' = [upd EXCEPT !.pc = IF lookup_cnt # 0 THEN "notify" ELSE "top"]
  BY DEF loop_check, Only, At, Goto
<1>1. OneRequest' /\ Counted' /\ PagesKnown' /\ AskRight' /\ RetrieveMatches'
  BY <1>0 DEF NInv, OneRequest, Counted, PagesKnown, FilesOf, Is, AskRight, RetrieveMatches
<1>2. NTypeOK' /\ Places'
  BY <1>0 DEF NInv, NTypeOK, Places, Is
<1>3. Fresh'
  <2> SUFFICES ASSUME kern.mounted, NEW f \in FilesOf, Told(f)'
               PROVE  FreshPage(f)
    BY <1>0 DEF Fresh, FreshPage, FilesOf, Is
  <2>1. lookup_cnt = 0 /\ nmode.single /\ ~Is("notify_inval_entry") /\ ~Is("invalidate_path")
    BY <1>0 DEF Told, NInv, NTypeOK, Places, Is
  <2>2. lookup_cnt = kern.known + kern.forget + Held(work[1]) + Held(work[2])
    BY <2>1 DEF NInv, Counted
  <2>3. kern.known = 0
    <3>1. kern.known \in Nat /\ kern.forget \in Nat /\ Held(work[1]) \in Nat /\ Held(work[2]) \in Nat
      BY HeldNat DEF NInv, NTypeOK
    <3>2. \A a, b, c, e \in Nat : 0 = a + b + c + e => a = 0
      OBVIOUS
    <3>3. 0 = kern.known + kern.forget + Held(work[1]) + Held(work[2])
      BY <2>1, <2>2
    <3> QED BY <3>1, <3>2, <3>3
  <2> QED BY <2>1, <2>3 DEF NInv, PagesKnown, FreshPage, FilesOf, TheFiles
<1> QED BY <1>1, <1>2, <1>3 DEF NInv

\* What a notification can return.
LEMMA ResultFacts ==
    ASSUME NInv
    PROVE  /\ Result \in {"ok", "ENOENT", "ENODEV"}
           /\ Result = "ENODEV" <=> ~kern.mounted
           /\ Result = "ok" => kern.known # 0
           /\ Result = "ENOENT" /\ ~Is("notify_inval_entry") => kern.known = 0
BY DEF Result

\* A notification changes neither the requests nor what is counted; it drops
\* pages or replaces one.
LEMMA NotifiedFrame ==
    ASSUME NInv, UNCHANGED <<nmode, lookup_cnt, work, kern, content>>,
           ncache' \in [TheFiles -> Int],
           ncache' = ncache \/ (kern.known # 0 /\ \A f \in TheFiles \ FilesOf : ncache'[f] = ncache[f])
    PROVE  OneRequest' /\ Counted' /\ PagesKnown'
<1>1. OneRequest' /\ Counted'
  BY DEF NInv, OneRequest, Counted, Is
<1>2. PagesKnown'
  BY DEF NInv, PagesKnown, FilesOf, Is, TheFiles
<1> QED BY <1>1, <1>2

\* An invalidation that is answered leaves no page of the file.
LEMMA NotifyKeeps ==
    ASSUME NInv, loop_notify
    PROVE  NInv'
<1>0. /\ UNCHANGED <<nmode, lookup_cnt, work, kern, ask, content>> /\ upd.pc = "notify" /\ Alive
      /\ ~Is("notify_store_retrieve") /\ (Quiet \/ ~kern.mounted)
      /\ upd' = [upd EXCEPT !.pc = IF Result = "ok" THEN "top" ELSE upd.pc]
      /\ nend' = IF Result = "ok" THEN nend ELSE Result
      /\ ncache' = IF Result = "ok" THEN [ncache EXCEPT ![1] = 0] ELSE ncache
  BY DEF loop_notify, Only, At, Goto, After0
<1>1. ncache' \in [TheFiles -> Int] /\ (Result = "ok" => ncache'[1] = 0)
      /\ (ncache' = ncache \/ (kern.known # 0 /\ \A f \in TheFiles \ FilesOf : ncache'[f] = ncache[f]))
  BY <1>0, ResultFacts DEF NInv, NTypeOK, TheFiles, FilesOf
<1>2. OneRequest' /\ Counted' /\ PagesKnown' /\ AskRight'
  BY <1>0, <1>1, NotifiedFrame DEF NInv, AskRight
<1>3. NTypeOK' /\ Places' /\ RetrieveMatches'
  BY <1>0, <1>1, ResultFacts DEF NInv, NTypeOK, Places, RetrieveMatches, Is
<1>4. Fresh'
  <2>1. CASE Result = "ok"
    <3>1. kern.mounted /\ Quiet /\ FilesOf = {1}
      BY <1>0, <2>1, ResultFacts DEF FilesOf, NInv, Places
    <3>2. ~Is("notify_inval_entry") => \A w \in Workers : work[w].op # "read"
      BY <3>1 DEF Quiet, InFlight
    <3>3. upd'.pc = "top" /\ FilesOf' = {1}
      BY <1>0, <2>1, <3>1 DEF NInv, NTypeOK, FilesOf, Is
    <3> QED BY <1>0, <1>1, <2>1, <3>2, <3>3 DEF Fresh, FreshPage, Told, Is
  <2>2. CASE Result # "ok"
    BY <1>0, <2>2, ResultFacts DEF Fresh, Alive
  <2> QED BY <2>1, <2>2
<1> QED BY <1>2, <1>3, <1>4 DEF NInv

\* invalidate_path.c: an unknown path has no page to be dropped.
LEMMA InvalidateKeeps ==
    ASSUME NInv, NEW f \in TheFiles, NEW pc \in {"time", "grown"}, NEW next \in {"grown", "top"},
           pc = "time" => f = 1 /\ next = "grown", pc = "grown" => f = 2 /\ next = "top",
           invalidate(pc, f, next)
    PROVE  NInv'
<1> DEFINE res == IF Result = "ENOENT" THEN "ok" ELSE Result
<1>0. /\ UNCHANGED <<nmode, lookup_cnt, work, kern, ask, content>> /\ upd.pc = pc /\ Alive
      /\ Quiet \/ ~kern.mounted
      /\ upd' = [upd EXCEPT !.pc = IF res = "ok" THEN next ELSE upd.pc]
      /\ nend' = IF res = "ok" THEN nend ELSE res
      /\ ncache' = IF Result = "ok" THEN [ncache EXCEPT ![f] = 0] ELSE ncache
  BY DEF invalidate, Only, At, Goto, After0
<1>a. Is("invalidate_path") /\ FilesOf = TheFiles /\ ~Is("notify_inval_entry")
  BY <1>0 DEF NInv, Places, FilesOf, Is
<1>b. res \in {"ok", "ENODEV"} /\ (res = "ok" <=> kern.mounted)
  BY ResultFacts
<1>1. ncache' \in [TheFiles -> Int] /\ (Result = "ok" => ncache'[f] = 0)
      /\ (\A g \in TheFiles \ {f} : ncache'[g] = ncache[g])
      /\ (ncache' = ncache \/ (kern.known # 0 /\ \A g \in TheFiles \ FilesOf : ncache'[g] = ncache[g]))
  BY <1>0, <1>a, ResultFacts DEF NInv, NTypeOK
<1> HIDE DEF res
<1>2. OneRequest' /\ Counted' /\ PagesKnown' /\ AskRight'
  BY <1>0, <1>1, NotifiedFrame DEF NInv, AskRight
<1>3. NTypeOK' /\ Places' /\ RetrieveMatches'
  BY <1>0, <1>1, <1>a, <1>b DEF NInv, NTypeOK, Places, RetrieveMatches, Is
<1>4. Fresh'
  <2>1. CASE res = "ok"
    <3>1. kern.mounted /\ Quiet
      BY <1>0, <1>b, <2>1
    <3>2. \A w \in Workers : work[w].op # "read"
      BY <1>a, <3>1 DEF Quiet, InFlight
    <3>3. ncache'[f] = 0
      BY <1>0, <1>1, <1>a, <3>1, ResultFacts DEF NInv, PagesKnown
    <3>4. upd'.pc = next
      BY <1>0, <2>1 DEF NInv, NTypeOK
    <3>5. pc = "grown" => ncache[1] \in {0, content[1]}
      BY <1>0, <1>a, <3>1 DEF NInv, Fresh, FreshPage, Told, TheFiles
    <3>6. \A g \in TheFiles : Told(g)' => ncache'[g] \in {0, content[g]}
      BY <1>1, <3>3, <3>4, <3>5 DEF Told, TheFiles
    <3> QED BY <1>0, <1>a, <3>2, <3>6 DEF Fresh, FreshPage, FilesOf, Is, TheFiles
  <2>2. CASE res # "ok"
    BY <1>0, <1>b, <2>2 DEF Fresh, Alive
  <2> QED BY <2>1, <2>2
<1> QED BY <1>2, <1>3, <1>4 DEF NInv

\* A store leaves the new contents in the kernel.
LEMMA StoreKeeps ==
    ASSUME NInv, loop_store
    PROVE  NInv'
<1>0. /\ UNCHANGED <<nmode, lookup_cnt, work, kern, ask, content>> /\ upd.pc = "notify" /\ Alive
      /\ Is("notify_store_retrieve") /\ (Quiet \/ ~kern.mounted)
      /\ ncache' = IF Result = "ok" THEN [ncache EXCEPT ![1] = content[1]] ELSE ncache
  BY DEF loop_store, Only, At
<1>a. FilesOf = {1} /\ ~Is("notify_inval_entry") /\ content[1] \in Int
  BY <1>0 DEF FilesOf, Is, NInv, NTypeOK, TheFiles
<1>b. CASE Result = "ENODEV"
  <2>1. upd' = [upd EXCEPT !.pc = "done"] /\ nend' = nend /\ ncache' = ncache /\ ~kern.mounted
    BY <1>0, <1>b, ResultFacts DEF loop_store, Goto
  <2>2. OneRequest' /\ Counted' /\ PagesKnown' /\ AskRight'
    BY <1>0, <2>1, NotifiedFrame DEF NInv, NTypeOK, AskRight
  <2>3. NTypeOK' /\ Places' /\ RetrieveMatches' /\ Fresh'
    BY <1>0, <2>1 DEF NInv, NTypeOK, Places, RetrieveMatches, Is, Fresh
  <2> QED BY <2>2, <2>3 DEF NInv
<1>c. CASE Result = "ENOENT"
  <2>1. upd' = [upd EXCEPT !.pc = upd.pc] /\ nend' = "ENOENT" /\ ncache' = ncache
    BY <1>0, <1>c DEF loop_store, Goto, After0
  <2>2. OneRequest' /\ Counted' /\ PagesKnown' /\ AskRight'
    BY <1>0, <2>1, NotifiedFrame DEF NInv, NTypeOK, AskRight
  <2>3. NTypeOK' /\ Places' /\ RetrieveMatches' /\ Fresh'
    BY <1>0, <2>1 DEF NInv, NTypeOK, Places, RetrieveMatches, Is, Fresh, Alive
  <2> QED BY <2>2, <2>3 DEF NInv
<1>d. CASE Result = "ok"
  <2>1. upd' = [upd EXCEPT !.pc = "retrieve"] /\ nend' = nend /\ ncache' = [ncache EXCEPT ![1] = content[1]]
    BY <1>0, <1>d DEF loop_store, Goto, After0
  <2>2. kern.known # 0 /\ kern.mounted /\ ncache' \in [TheFiles -> Int] /\ ncache'[1] = content[1]
        /\ \A f \in TheFiles \ {1} : ncache'[f] = ncache[f]
    BY <1>a, <1>d, <2>1, ResultFacts DEF NInv, NTypeOK, TheFiles
  <2>3. OneRequest' /\ Counted' /\ PagesKnown' /\ AskRight'
    BY <1>0, <1>a, <2>2, NotifiedFrame DEF NInv, AskRight
  <2>4. NTypeOK' /\ Places' /\ RetrieveMatches'
    BY <1>0, <2>1, <2>2 DEF NInv, NTypeOK, Places, RetrieveMatches, Is
  <2>5. Fresh'
    <3>1. \A w \in Workers : work[w].op # "read"
      BY <1>0, <1>a, <2>2 DEF Quiet, InFlight
    <3>2. FilesOf' = {1}
      BY <1>0, <1>a DEF FilesOf, Is
    <3> QED BY <1>0, <2>2, <3>1, <3>2 DEF Fresh, FreshPage
  <2> QED BY <2>3, <2>4, <2>5 DEF NInv
<1> QED BY <1>b, <1>c, <1>d, ResultFacts

\* A retrieve takes along what the kernel has now: what was stored, or nothing.
LEMMA RetrieveKeeps ==
    ASSUME NInv, loop_retrieve
    PROVE  NInv'
<1>0. /\ UNCHANGED <<nmode, content, lookup_cnt, work, kern, ncache>> /\ upd.pc = "retrieve" /\ Alive
      /\ ask' = IF Result = "ok" THEN [data |-> ncache[1], cookie |-> content[1]] ELSE ask
  BY DEF loop_retrieve, At
<1>a. Is("notify_store_retrieve") /\ FilesOf = {1} /\ content[1] \in Int /\ ncache[1] \in Int
  BY <1>0 DEF FilesOf, Is, NInv, NTypeOK, TheFiles, Places
<1>1. OneRequest' /\ Counted' /\ PagesKnown'
  BY <1>0, NotifiedFrame DEF NInv, NTypeOK
<1>2. AskRight' /\ ask' \in [data : Int, cookie : Int]
  <2>1. Result = "ok" => ncache[1] \in {0, content[1]}
    BY <1>0, <1>a, ResultFacts DEF NInv, Fresh, FreshPage, Told
  <2> QED BY <1>0, <1>a, <2>1 DEF NInv, NTypeOK, AskRight
<1>3. /\ Result = "ENODEV" => upd' = [upd EXCEPT !.pc = "done"] /\ nend' = nend /\ ~kern.mounted
      /\ Result = "ok" => upd' = [upd EXCEPT !.pc = "status"] /\ nend' = nend
      /\ Result = "ENOENT" => upd' = [upd EXCEPT !.pc = upd.pc] /\ nend' = "ENOENT"
  BY ResultFacts DEF loop_retrieve, Goto, After0
<1>4. upd' \in [pc : {"status", "retrieve", "done"}, old : Int] /\ RetrieveMatches'
  BY <1>0, <1>3, ResultFacts DEF NInv, NTypeOK, RetrieveMatches
<1>5. NTypeOK' /\ Places'
  BY <1>0, <1>2, <1>4, <1>a DEF NInv, NTypeOK, Places, Is
<1>6. Fresh'
  <2>1. FilesOf' = {1} /\ kern' = kern
    BY <1>0, <1>a DEF FilesOf, Is
  <2>2. CASE Result = "ok"
    <3>1. FreshPage(1)
      BY <1>0, <1>a, <2>2, ResultFacts DEF NInv, Fresh, Told
    <3> QED BY <1>0, <2>1, <3>1 DEF Fresh, FreshPage
  <2>3. CASE Result = "ENODEV"
    BY <1>3, <2>1, <2>3 DEF Fresh
  <2>4. CASE Result = "ENOENT"
    BY <1>3, <2>4 DEF Fresh, Alive
  <2> QED BY <2>2, <2>3, <2>4, ResultFacts
<1> QED BY <1>1, <1>2, <1>4, <1>5, <1>6 DEF NInv

\* Looking at retrieve_status changes nothing else.
LEMMA StatusKeeps ==
    ASSUME NInv, loop_status
    PROVE  NInv'
<1>0. /\ UNCHANGED <<nmode, lookup_cnt, work, kern, ask, content, ncache, nend>>
      /\ upd.pc \in {"status", "set"} /\ Alive
      /\ upd' = [upd EXCEPT !.pc = "top"] \/ (upd.pc = "status" /\ upd' = [upd EXCEPT !.pc = "set"])
  BY DEF loop_status, Only, At, Goto
<1>a. Is("notify_store_retrieve") /\ ~Is("invalidate_path")
  BY <1>0 DEF NInv, Places, Is
<1>1. OneRequest' /\ Counted' /\ PagesKnown' /\ AskRight' /\ RetrieveMatches'
  BY <1>0 DEF NInv, OneRequest, Counted, PagesKnown, FilesOf, Is, AskRight, RetrieveMatches
<1>2. NTypeOK' /\ Places'
  BY <1>0, <1>a DEF NInv, NTypeOK, Places, Is
<1>3. Fresh'
  BY <1>0 DEF NInv, Fresh, FreshPage, Told, FilesOf, Is
<1> QED BY <1>1, <1>2, <1>3 DEF NInv

---------------------------------------------------------------------------
(* The kernel.                                                              *)

\* A step of the kernel leaves the updater and the requests alone.
LEMMA KernelFrame ==
    ASSUME NInv, NotServed, UNCHANGED <<lookup_cnt, work>>
    PROVE  /\ Places' /\ RetrieveMatches' /\ OneRequest'
           /\ FilesOf' = FilesOf /\ Alive' = Alive /\ \A p : Is(p)' = Is(p)
           /\ \A f \in TheFiles : Told(f)' = Told(f)
BY DEF NInv, NotServed, Places, RetrieveMatches, Is, FilesOf, Alive, Told, OneRequest

\* libfuse comes to know the paths of invalidate_path.c.
LEMMA KnowsKeeps ==
    ASSUME NInv, KernelKnows
    PROVE  NInv'
<1>0. /\ kern' = [kern EXCEPT !.known = 1] /\ UNCHANGED <<lookup_cnt, work, ncache, ask>> /\ NotServed
      /\ Is("invalidate_path") /\ kern.mounted /\ kern.known = 0
  BY DEF KernelKnows
<1>1. /\ Places' /\ RetrieveMatches' /\ OneRequest'
      /\ FilesOf' = FilesOf /\ Alive' = Alive /\ \A p : Is(p)' = Is(p)
      /\ \A f \in TheFiles : Told(f)' = Told(f)
  BY <1>0, KernelFrame
<1>2. kern' \in [known : Nat, forget : Nat, mounted : BOOLEAN] /\ kern'.mounted /\ kern'.known = 1
  BY <1>0 DEF NInv, NTypeOK
<1>3. NTypeOK' /\ Counted' /\ AskRight'
  BY <1>0, <1>1, <1>2 DEF NInv, NTypeOK, NotServed, Counted, AskRight
<1>4. PagesKnown'
  BY <1>0, <1>1, <1>2, RequestFacts DEF NInv, PagesKnown, NTypeOK
<1>5. Fresh'
  BY <1>0, <1>1, <1>2 DEF NInv, Fresh, FreshPage, NotServed, FilesOf, TheFiles
<1> QED BY <1>1, <1>3, <1>4, <1>5 DEF NInv

\* The inode goes with its pages; the forget has still to be sent.
LEMMA ForgottenKeeps ==
    ASSUME NInv, KernelForget
    PROVE  NInv'
<1>0. /\ kern' = [kern EXCEPT !.known = 0, !.forget = IF Is("invalidate_path") THEN 0 ELSE kern.known]
      /\ ncache' = [f \in TheFiles |-> 0] /\ UNCHANGED <<lookup_cnt, work, ask>> /\ NotServed
      /\ kern.known > 0 /\ kern.forget = 0 /\ ~InFlight("read")
  BY DEF KernelForget
<1>1. /\ Places' /\ RetrieveMatches' /\ OneRequest'
      /\ FilesOf' = FilesOf /\ Alive' = Alive /\ \A p : Is(p)' = Is(p)
      /\ \A f \in TheFiles : Told(f)' = Told(f)
  BY <1>0, KernelFrame
<1>2. /\ kern' \in [known : Nat, forget : Nat, mounted : BOOLEAN] /\ kern'.mounted = kern.mounted
      /\ kern'.known = 0 /\ kern'.forget = IF Is("invalidate_path") THEN 0 ELSE kern.known
  BY <1>0 DEF NInv, NTypeOK
<1>3. \A w \in Workers : work'[w].op # "read"
  BY <1>0 DEF InFlight
<1>4. NTypeOK' /\ AskRight' /\ PagesKnown' /\ Fresh'
  BY <1>0, <1>2, <1>3 DEF NInv, NTypeOK, NotServed, AskRight, PagesKnown, FilesOf, TheFiles, Fresh, FreshPage
<1>5. Counted'
  <2> SUFFICES ASSUME nmode.single, kern.mounted, ~Is("invalidate_path")
               PROVE  lookup_cnt' = kern'.known + kern'.forget + Held(work'[1]) + Held(work'[2])
    BY <1>0, <1>1, <1>2 DEF Counted, NotServed
  <2>1. lookup_cnt = kern.known + kern.forget + Held(work[1]) + Held(work[2])
    BY DEF NInv, Counted
  <2>2. kern.known \in Nat /\ Held(work[1]) \in Nat /\ Held(work[2]) \in Nat
    BY HeldNat DEF NInv, NTypeOK
  <2> QED BY <1>0, <1>2, <2>1, <2>2
<1> QED BY <1>1, <1>4, <1>5 DEF NInv

\* Less in the cache is no staler.
LEMMA EvictKeeps ==
    ASSUME NInv, NEW f \in TheFiles, KernelEvict(f)
    PROVE  NInv'
<1>0. ncache' = [ncache EXCEPT ![f] = 0] /\ UNCHANGED <<lookup_cnt, work, kern, ask>> /\ NotServed
  BY DEF KernelEvict
<1>1. /\ Places' /\ RetrieveMatches' /\ OneRequest'
      /\ FilesOf' = FilesOf /\ Alive' = Alive /\ \A p : Is(p)' = Is(p)
      /\ \A g \in TheFiles : Told(g)' = Told(g)
  BY <1>0, KernelFrame
<1>2. ncache' \in [TheFiles -> Int] /\ \A g \in TheFiles : ncache'[g] \in {0, ncache[g]}
  BY <1>0 DEF NInv, NTypeOK
<1>3. NTypeOK' /\ Counted' /\ AskRight'
  BY <1>0, <1>1, <1>2 DEF NInv, NTypeOK, NotServed, Counted, AskRight
<1>4. PagesKnown' /\ Fresh'
  BY <1>0, <1>1, <1>2 DEF NInv, PagesKnown, Fresh, FreshPage, NotServed, FilesOf, TheFiles
<1> QED BY <1>1, <1>3, <1>4 DEF NInv

\* Nothing is cached of a file system that is not mounted.
LEMMA UnmountKeeps ==
    ASSUME NInv, Unmount
    PROVE  NInv'
<1>0. /\ kern' = [known |-> 0, forget |-> 0, mounted |-> FALSE] /\ ncache' = [f \in TheFiles |-> 0]
      /\ ask' = NoAsk /\ UNCHANGED <<lookup_cnt, work>> /\ NotServed
  BY DEF Unmount
<1>1. Places' /\ RetrieveMatches' /\ OneRequest'
  BY <1>0, KernelFrame
<1>2. NTypeOK' /\ AskRight'
  BY <1>0 DEF NInv, NTypeOK, NotServed, AskRight, NoAsk
<1>3. Counted' /\ PagesKnown' /\ Fresh'
  BY <1>0 DEF Counted, PagesKnown, Fresh
<1> QED BY <1>1, <1>2, <1>3 DEF NInv

\* The process ends.
LEMMA EndKeeps ==
    ASSUME NInv, MainEnds \/ UNCHANGED nvars
    PROVE  NInv'
<1>0. /\ UNCHANGED <<nmode, content, lookup_cnt, upd, work, kern, ncache, ask>>
      /\ nend' = nend \/ nend' \in {"status", "exit"}
  BY DEF MainEnds, nvars
<1>1. NTypeOK' /\ Places' /\ OneRequest' /\ Counted' /\ PagesKnown' /\ AskRight' /\ RetrieveMatches'
  BY <1>0 DEF NInv, NTypeOK, Places, OneRequest, Counted, PagesKnown, FilesOf, Is, AskRight, RetrieveMatches
<1>2. Fresh'
  BY <1>0 DEF NInv, Fresh, FreshPage, Told, FilesOf, Is, Alive
<1> QED BY <1>1, <1>2 DEF NInv

---------------------------------------------------------------------------
\* The invariant of the notification examples holds in every state.
THEOREM NotifyInvariant == NSpec => []NInv
<1>1. NInv /\ [NNext]_nvars => NInv'
  <2> SUFFICES ASSUME NInv, [NNext]_nvars PROVE NInv'
    OBVIOUS
  <2>1. ASSUME NEW w \in Workers, \E v \in 1 .. MaxVersion : tfs_lookup(w, v) PROVE NInv'
    BY <2>1, LookupStarts
  <2>2. ASSUME NEW w \in Workers, \E f \in TheFiles : tfs_read(w, f) PROVE NInv'
    BY <2>2, ReadPage
  <2>3. ASSUME NEW w \in Workers,
               lookup_count(w) \/ lookup_reply(w) \/ tfs_forget(w) \/ tfs_retrieve_reply(w)
        PROVE  NInv'
    BY <2>3, LookupCounts, LookupReplies, ForgetKeeps, RetrieveAnswered
  <2>4. CASE invalidate("time", 1, "grown") \/ invalidate("grown", 2, "top")
    BY <2>4, InvalidateKeeps DEF TheFiles
  <2>5. CASE update_fs_loop
    BY <2>4, <2>5, UpdateKeeps, CheckKeeps, NotifyKeeps, StoreKeeps, RetrieveKeeps, StatusKeeps
       DEF update_fs_loop
  <2>6. CASE \E f \in TheFiles : KernelEvict(f)
    BY <2>6, EvictKeeps
  <2>7. CASE KernelKnows \/ KernelForget \/ Unmount \/ MainEnds \/ UNCHANGED nvars
    BY <2>7, KnowsKeeps, ForgottenKeeps, UnmountKeeps, EndKeeps
  <2> QED BY <2>1, <2>2, <2>3, <2>5, <2>6, <2>7 DEF NNext
<1> QED BY <1>1, NotifyInitInv, PTL DEF NSpec

\* One request at a time: what the two workers hold is what CountExact adds up.
LEMMA HeldAdds ==
    ASSUME NTypeOK, work[1] = Rest \/ work[2] = Rest
    PROVE  Held(work[1]) + Held(work[2]) =
             Cardinality({w \in Workers : work[w].op = "lookup" /\ work[w].at = "reply"})
             + (IF InFlight("forget") THEN work[CHOOSE w \in Workers : work[w].op = "forget"].n ELSE 0)
<1> DEFINE S == {w \in Workers : work[w].op = "lookup" /\ work[w].at = "reply"}
           c == CHOOSE w \in Workers : work[w].op = "forget"
           sum == Cardinality(S) + (IF InFlight("forget") THEN work[c].n ELSE 0)
<1>0. SUFFICES Held(work[1]) + Held(work[2]) = sum
  OBVIOUS
<1>1. PICK w \in Workers : \A x \in Workers \ {w} : work[x] = Rest
  BY DEF Workers
<1>2. /\ Held(Rest) = 0 /\ Rest.op = "idle" /\ Held(work[w]) \in Nat
      /\ Held(work[1]) + Held(work[2]) = Held(work[w])
  <2>1. Held(Rest) = 0 /\ Rest.op = "idle" /\ Workers = {1, 2}
    BY HeldNat DEF Rest
  <2>2. Held(work[1]) \in Nat /\ Held(work[2]) \in Nat
    BY HeldNat
  <2> QED BY <1>1, <2>1, <2>2
<1>3. CASE work[w].op = "lookup" /\ work[w].at = "reply"
  <2>1. S = {w}
    BY <1>1, <1>2, <1>3
  <2>2. Cardinality(S) = 1
    BY <2>1, FS_Singleton
  <2>3. ~InFlight("forget") /\ Held(work[w]) = 1
    BY <1>1, <1>2, <1>3 DEF InFlight, Held
  <2> QED BY <1>2, <2>2, <2>3
<1>4. CASE ~(work[w].op = "lookup" /\ work[w].at = "reply")
  <2>1. S = {}
    BY <1>1, <1>2, <1>4
  <2>2. Cardinality(S) = 0
    BY <2>1, FS_EmptySet
  <2>3. CASE work[w].op = "forget"
    <3>1. InFlight("forget") /\ c = w
      BY <1>1, <1>2, <2>3 DEF InFlight
    <3>2. Held(work[w]) = work[w].n
      BY <2>3 DEF Held
    <3> HIDE DEF S, c
    <3>3. (IF InFlight("forget") THEN work[c].n ELSE 0) = work[w].n
      BY <3>1
    <3> QED BY <1>2, <2>2, <3>2, <3>3
  <2>4. CASE work[w].op # "forget"
    <3>1. ~InFlight("forget") /\ Held(work[w]) = 0
      BY <1>1, <1>2, <1>4, <2>4 DEF InFlight, Held
    <3> QED BY <1>2, <2>2, <3>1
  <2> QED BY <2>3, <2>4
<1> QED BY <1>3, <1>4

\* For every number of updates and of lookups, and every interleaving of the
\* updater of a notification example with its worker threads and the kernel:
\* while the updater sleeps the kernel has no stale page, with -s lookup_cnt is
\* what the kernel counts, and tfs_retrieve_reply finds what was stored.
THEOREM NotificationsAreRight == NSpec => []CacheRight
<1>1. NInv => CacheRight
  <2> SUFFICES ASSUME NInv PROVE CacheRight
    OBVIOUS
  <2>1. CountExact
    <3> SUFFICES ASSUME nmode.single, kern.mounted, ~Is("invalidate_path")
                 PROVE  lookup_cnt = kern.known + kern.forget
                          + Cardinality({w \in Workers : work[w].op = "lookup" /\ work[w].at = "reply"})
                          + (IF InFlight("forget") THEN work[CHOOSE w \in Workers : work[w].op = "forget"].n ELSE 0)
      BY DEF CountExact
    <3> DEFINE a == kern.known + kern.forget
               h == Held(work[1])
               k == Held(work[2])
               n == Cardinality({w \in Workers : work[w].op = "lookup" /\ work[w].at = "reply"})
               m == IF InFlight("forget") THEN work[CHOOSE w \in Workers : work[w].op = "forget"].n ELSE 0
    <3>1. lookup_cnt = a + h + k
      BY DEF NInv, Counted
    <3>2. h + k = n + m
      <4>1. NTypeOK /\ (work[1] = Rest \/ work[2] = Rest)
        BY DEF NInv, OneRequest
      <4> HIDE DEF h, k, n, m
      <4> QED BY <4>1, HeldAdds DEF h, k, n, m
    <3>3. a \in Nat /\ h \in Nat /\ k \in Nat
      BY HeldNat DEF NInv, NTypeOK
    <3>4. n \in Nat
      <4>1. IsFiniteSet({w \in Workers : work[w].op = "lookup" /\ work[w].at = "reply"})
        BY FS_Interval, FS_Subset DEF Workers
      <4> QED BY <4>1, FS_CardinalityType
    <3>5. m \in Nat
      <4>1. \A w \in Workers : work[w].n \in Nat
        BY RequestFacts DEF NInv, NTypeOK
      <4> QED BY <4>1 DEF InFlight
    <3> HIDE DEF a, h, k, n, m
    <3>6. lookup_cnt = a + n + m
      BY <3>1, <3>2, <3>3, <3>4, <3>5
    <3> QED BY <3>6 DEF a, n, m
  <2>2. CacheFresh
    <3> SUFFICES ASSUME Alive, kern.mounted, upd.pc \in {"top", "status", "set"},
                        (nmode.single /\ ~Is("notify_inval_entry")) \/ Is("invalidate_path"),
                        NEW f \in TheFiles
                 PROVE  ncache[f] \in {0, content[f]}
      BY DEF CacheFresh
    <3>1. CASE f \in FilesOf
      BY <3>1 DEF NInv, Fresh, FreshPage, Told
    <3>2. CASE f \notin FilesOf
      <4>1. ~Is("notify_inval_entry")
        BY DEF Is
      <4> QED BY <3>2, <4>1 DEF NInv, PagesKnown
    <3> QED BY <3>1, <3>2
  <2> QED BY <2>1, <2>2 DEF NInv, CacheRight
<1> QED BY <1>1, NotifyInvariant, PTL

---------------------------------------------------------------------------
(* The listings: a directory read in pieces while it changes.              *)

\* The values each variable may take.
RTypeOK ==
    /\ present \subseteq Entries /\ stable \subseteq present
    /\ dp \in [pos : Nat, ahead : SUBSET Entries]
    /\ d \in [entry : Nat, offset : Nat]
    /\ rd \in [pc : {"idle", "seek", "next", "look", "fill"}, rem : Nat, plus : BOOLEAN, off : Nat,
               got : Seq(Nat), cur : Nat]
    /\ klist \in [pos : Nat, seen : Seq(Nat), end : BOOLEAN]
    /\ counts \in [changes : Nat, errs : Nat]

\* The entries of a sequence.
Listed(e, s) == \E i \in DOMAIN s : s[i] = e
Rising(s) == \A i, j \in DOMAIN s : i < j => s[i] < s[j]

\* What the kernel lists covers everything stable up to its offset.
SeenInv ==
    /\ Rising(klist.seen)
    /\ \A i \in DOMAIN klist.seen : klist.seen[i] <= klist.pos
    /\ \A e \in stable : e <= klist.pos => Listed(e, klist.seen)

\* The last entry in the buffer of a request, or where the request began.
Cur == IF rd.got = <<>> THEN klist.pos ELSE rd.got[Len(rd.got)]

\* So does the buffer, from there on.
GotInv ==
    /\ rd.pc = "seek" => rd.off = klist.pos
    /\ rd.pc \in {"idle", "seek"} => rd.got = <<>>
    /\ rd.pc # "idle" /\ rd.rem = 0 => rd.got # <<>>
    /\ Rising(rd.got)
    /\ \A i \in DOMAIN rd.got : rd.got[i] > klist.pos /\ rd.got[i] <= Cur
    /\ \A e \in stable : e > klist.pos /\ e <= Cur => Listed(e, rd.got)

\* The end was told when nothing was left, and no request follows.
EndInv == klist.end => rd.pc = "idle" /\ \A e \in stable : Listed(e, klist.seen)

\* The next request or the one in progress goes on where the stream is.
Live == rd.pc \in {"idle", "seek"} => d.offset = klist.pos

\* What was read ahead leaves out nothing stable.
AheadWhole ==
    (\E a \in dp.ahead : a > dp.pos) => \A e \in stable : e > dp.pos => e \in dp.ahead

\* passthrough_ll.c and passthrough_fh.c: the stream is one entry ahead of
\* d->offset, the one in d->entry, or not at all.
LoStream ==
    /\ dp.pos = IF d.entry # 0 THEN d.entry ELSE d.offset
    /\ d.entry # 0 => d.entry > d.offset
    /\ rd.pc \in {"look", "fill"} => d.entry # 0
    /\ rd.pc \in {"next", "look", "fill"} => d.offset = Cur
    /\ d.offset >= klist.pos
    /\ Live => AheadWhole /\ \A e \in stable : e > d.offset => e >= dp.pos

\* passthrough_hp.cc: d->offset is the place of the stream, and further than what
\* was answered when an entry did not fit.
SfsStream ==
    /\ dp.pos = d.offset
    /\ rd.pc = "next" => d.offset = Cur
    /\ rd.pc \in {"look", "fill"} =>
         rd.cur = d.offset /\ d.offset > Cur /\ \A e \in stable : e > Cur => e >= d.offset
    /\ d.offset >= klist.pos
    /\ Live => AheadWhole

\* An entry that was read ahead and has gone may cost one answer; it is not there
\* when the stream is read anew.
SfsErrors ==
    /\ counts.errs <= counts.changes
    /\ rd.pc = "look" => rd.cur \in dp.ahead
    /\ Live /\ ~(dp.ahead \subseteq present) => counts.errs < counts.changes

ReaddirInv ==
    /\ RTypeOK /\ SeenInv /\ GotInv /\ EndInv
    /\ part \in {"readdir_ll", "readdir_fh"} => LoStream
    /\ part = "readdir_hp" => SfsStream /\ SfsErrors
    /\ part = "readdir_fh" => counts.errs = 0

---------------------------------------------------------------------------
\* Where the elements of a sequence are.
LEMMA SeqFacts ==
    ASSUME NEW s \in Seq(Nat)
    PROVE  /\ Len(s) \in Nat /\ DOMAIN s = 1 .. Len(s) /\ \A i \in DOMAIN s : s[i] \in Nat
           /\ s # <<>> => Len(s) > 0 /\ Len(s) \in DOMAIN s
           /\ s = <<>> => Len(s) = 0
BY LenProperties, EmptySeq

\* What an entry more does to a rising sequence.
LEMMA AppendFacts ==
    ASSUME NEW s \in Seq(Nat), Rising(s), NEW e \in Nat, \A i \in DOMAIN s : s[i] < e
    PROVE  /\ Append(s, e) \in Seq(Nat) /\ Append(s, e) # <<>>
           /\ Len(Append(s, e)) \in DOMAIN Append(s, e) /\ Append(s, e)[Len(Append(s, e))] = e
           /\ Rising(Append(s, e))
           /\ \A i \in DOMAIN Append(s, e) : Append(s, e)[i] = e \/ \E j \in DOMAIN s : Append(s, e)[i] = s[j]
           /\ \A x : Listed(x, s) \/ x = e => Listed(x, Append(s, e))
<1> DEFINE t == Append(s, e)
<1>1. /\ t \in Seq(Nat) /\ Len(t) = Len(s) + 1 /\ t[Len(s) + 1] = e
      /\ \A i \in 1 .. Len(s) : t[i] = s[i]
  BY AppendProperties
<1>2. Len(s) \in Nat /\ DOMAIN s = 1 .. Len(s) /\ DOMAIN t = 1 .. Len(s) + 1
  BY <1>1, SeqFacts
<1> HIDE DEF t
<1>3. t # <<>>
  BY <1>1, <1>2, EmptySeq
<1>4. Len(t) \in DOMAIN t /\ t[Len(t)] = e
  BY <1>1, <1>2
<1>5. \A i \in DOMAIN t : (i \in DOMAIN s /\ t[i] = s[i]) \/ (i = Len(s) + 1 /\ t[i] = e)
  <2> SUFFICES ASSUME NEW i \in 1 .. Len(s) + 1
               PROVE  (i \in 1 .. Len(s) /\ t[i] = s[i]) \/ (i = Len(s) + 1 /\ t[i] = e)
    BY <1>2
  <2>1. i \in 1 .. Len(s) \/ i = Len(s) + 1
    BY <1>2
  <2> QED BY <1>1, <2>1
<1>6. Rising(t)
  <2> SUFFICES ASSUME NEW i \in DOMAIN t, NEW j \in DOMAIN t, i < j PROVE t[i] < t[j]
    BY DEF Rising
  <2>1. i \in DOMAIN s /\ t[i] = s[i]
    BY <1>2, <1>5
  <2> QED BY <1>5, <2>1 DEF Rising
<1>7. \A x : Listed(x, s) \/ x = e => Listed(x, t)
  BY <1>1, <1>2 DEF Listed
<1> QED BY <1>1, <1>3, <1>4, <1>5, <1>6, <1>7 DEF t

\* One rising sequence behind another.
LEMMA ConcatFacts ==
    ASSUME NEW s \in Seq(Nat), NEW t \in Seq(Nat), Rising(s), Rising(t), NEW b \in Nat,
           \A i \in DOMAIN s : s[i] <= b, \A i \in DOMAIN t : t[i] > b
    PROVE  /\ s \o t \in Seq(Nat) /\ Rising(s \o t)
           /\ \A i \in DOMAIN (s \o t) : (\E j \in DOMAIN s : (s \o t)[i] = s[j]) \/ (\E j \in DOMAIN t : (s \o t)[i] = t[j])
           /\ \A x : Listed(x, s) \/ Listed(x, t) => Listed(x, s \o t)
<1> DEFINE u == s \o t
           n == Len(s)
           m == Len(t)
<1>1. /\ u \in Seq(Nat) /\ Len(u) = n + m
      /\ \A i \in 1 .. Len(u) : u[i] = IF i <= n THEN s[i] ELSE t[i - n]
  BY ConcatProperties
<1>2. /\ n \in Nat /\ m \in Nat /\ DOMAIN s = 1 .. n /\ DOMAIN t = 1 .. m
      /\ \A i \in DOMAIN s : s[i] \in Nat
      /\ \A i \in DOMAIN t : t[i] \in Nat
  BY SeqFacts
<1>3. DOMAIN u = 1 .. n + m
  BY <1>1, SeqFacts
<1> HIDE DEF u, n, m
<1>4. \A i \in DOMAIN u : (i \in DOMAIN s /\ u[i] = s[i]) \/ (i > n /\ i - n \in DOMAIN t /\ u[i] = t[i - n])
  <2> SUFFICES ASSUME NEW i \in 1 .. n + m
               PROVE  (i \in 1 .. n /\ u[i] = s[i]) \/ (i > n /\ i - n \in 1 .. m /\ u[i] = t[i - n])
    BY <1>2, <1>3
  <2>1. u[i] = IF i <= n THEN s[i] ELSE t[i - n]
    BY <1>1
  <2>2. (i <= n /\ i \in 1 .. n) \/ (~(i <= n) /\ i > n /\ i - n \in 1 .. m)
    BY <1>2
  <2> QED BY <2>1, <2>2
<1>5. \A i \in DOMAIN s : i \in DOMAIN u /\ u[i] = s[i]
  BY <1>1, <1>2, <1>3
<1>6. \A i \in DOMAIN t : i + n \in DOMAIN u /\ u[i + n] = t[i]
  <2> SUFFICES ASSUME NEW i \in DOMAIN t PROVE i + n \in DOMAIN u /\ u[i + n] = t[i]
    OBVIOUS
  <2>1. i \in 1 .. m
    BY <1>2
  <2> DEFINE k == i + n
  <2>3. k \in 1 .. n + m /\ ~(k <= n) /\ k - n = i
    BY <1>2, <2>1
  <2> HIDE DEF k
  <2>4. u[k] = t[k - n]
    <3>1. Len(u) = n + m
      BY <1>1
    <3>2. k \in 1 .. Len(u)
      BY <2>3, <3>1
    <3> QED BY <1>1, <2>3, <3>2
  <2>5. k \in DOMAIN u /\ u[k] = t[i]
    BY <1>1, <1>3, <2>3, <2>4
  <2> QED BY <2>5 DEF k
<1>7. Rising(u)
  <2> SUFFICES ASSUME NEW i \in DOMAIN u, NEW j \in DOMAIN u, i < j PROVE u[i] < u[j]
    BY DEF Rising
  <2>0. i \in Nat /\ j \in Nat
    BY <1>2, <1>3
  <2>1. CASE j \in DOMAIN s /\ u[j] = s[j]
    <3>1. i \in DOMAIN s
      BY <1>2, <1>4, <2>0, <2>1
    <3> QED BY <1>5, <2>1, <3>1 DEF Rising
  <2>2. CASE j > n /\ j - n \in DOMAIN t /\ u[j] = t[j - n]
    <3>1. CASE i \in DOMAIN s /\ u[i] = s[i]
      BY <1>2, <2>2, <3>1
    <3>2. CASE i > n /\ i - n \in DOMAIN t /\ u[i] = t[i - n]
      <4>1. i - n < j - n
        BY <1>2, <2>0
      <4> QED BY <2>2, <3>2, <4>1 DEF Rising
    <3> QED BY <1>4, <3>1, <3>2
  <2> QED BY <1>4, <2>1, <2>2
<1>8. \A x : Listed(x, s) \/ Listed(x, t) => Listed(x, u)
  BY <1>5, <1>6 DEF Listed
<1>9. \A i \in DOMAIN u : (\E j \in DOMAIN s : u[i] = s[j]) \/ (\E j \in DOMAIN t : u[i] = t[j])
  BY <1>4
<1> QED BY <1>1, <1>7, <1>8, <1>9 DEF u

\* A set of numbers that is not empty has a least one, and Min is it.
LEMMA LeastEntry ==
    ASSUME NEW S \in SUBSET Nat, S # {}
    PROVE  Min(S) \in S /\ \A y \in S : Min(S) <= y
<1> DEFINE R == OpToRel(<, Nat)
<1>1. IsWellFoundedOn(R, Nat)
  BY NatLessThanWellFounded
<1>2. \A x, y \in Nat : <<x, y>> \in R <=> x < y
  BY DEF OpToRel
<1> HIDE DEF R
<1>3. PICK x \in S : \A y \in S : ~(<<y, x>> \in R)
  BY <1>1, WFMin
<1>4. ASSUME NEW y \in S PROVE x <= y
  <2>1. x \in Nat /\ y \in Nat /\ ~(y < x)
    BY <1>2, <1>3
  <2> QED BY <2>1
<1> QED BY <1>3, <1>4 DEF Min

---------------------------------------------------------------------------
(* What every listing does.                                                 *)

\* The part of the invariant that all three listings share.
Common == RTypeOK /\ SeenInv /\ GotInv /\ EndInv

\* The types of the variables that most steps use.
LEMMA RTypes ==
    ASSUME RTypeOK
    PROVE  /\ Entries \subseteq Nat /\ stable \subseteq Entries /\ present \subseteq Entries
           /\ dp.pos \in Nat /\ dp.ahead \subseteq Entries /\ d.entry \in Nat /\ d.offset \in Nat
           /\ rd.got \in Seq(Nat) /\ rd.rem \in Nat /\ rd.off \in Nat /\ rd.cur \in Nat
           /\ klist.pos \in Nat /\ klist.seen \in Seq(Nat)
           /\ counts.changes \in Nat /\ counts.errs \in Nat
BY ReaddirAssumption DEF RTypeOK, Entries

\* Where a request has got to.
LEMMA CurFacts ==
    ASSUME Common
    PROVE  /\ Cur \in Nat /\ Cur >= klist.pos
           /\ rd.got = <<>> => Cur = klist.pos
           /\ rd.got # <<>> => Cur > klist.pos /\ Cur = rd.got[Len(rd.got)]
<1>1. rd.got \in Seq(Nat) /\ klist.pos \in Nat
  BY RTypes DEF Common
<1>2. CASE rd.got = <<>>
  BY <1>1, <1>2 DEF Cur
<1>3. CASE rd.got # <<>>
  <2>1. Len(rd.got) \in DOMAIN rd.got /\ rd.got[Len(rd.got)] \in Nat
    BY <1>1, <1>3, SeqFacts
  <2>2. Cur = rd.got[Len(rd.got)]
    BY <1>3 DEF Cur
  <2>3. Cur > klist.pos
    BY <2>1, <2>2 DEF Common, GotInv
  <2> QED BY <1>1, <1>3, <2>1, <2>2, <2>3
<1> QED BY <1>2, <1>3

\* readdir passes over nothing stable, and what it has left of its buffer misses
\* nothing stable either.
LEMMA ReaddirFacts ==
    ASSUME RTypeOK, AheadWhole, Ahead # {}
    PROVE  /\ readdir \in [pos : Nat, ahead : SUBSET Entries]
           /\ readdir.pos \in Ahead /\ readdir.ahead = Ahead /\ readdir.pos > dp.pos
           /\ Ahead \subseteq dp.ahead \/ Ahead \subseteq present
           /\ \A e \in stable : e > dp.pos => e >= readdir.pos
           /\ \A e \in stable : e > readdir.pos => e \in Ahead
<1>1. Entries \subseteq Nat /\ stable \subseteq present /\ present \subseteq Entries /\ dp.pos \in Nat /\ dp.ahead \subseteq Entries
  BY RTypes DEF RTypeOK
<1>2. /\ Ahead \subseteq Entries /\ \A e \in Ahead : e > dp.pos
      /\ Ahead \subseteq dp.ahead \/ Ahead \subseteq present
      /\ \A e \in stable : e > dp.pos => e \in Ahead
  BY <1>1 DEF Ahead, AheadWhole
<1>3. Min(Ahead) \in Ahead /\ \A y \in Ahead : Min(Ahead) <= y
  BY <1>1, <1>2, LeastEntry
<1>4. readdir.pos = Min(Ahead) /\ readdir.ahead = Ahead /\ readdir \in [pos : Nat, ahead : SUBSET Entries]
  BY <1>1, <1>2, <1>3 DEF readdir
<1> QED BY <1>1, <1>2, <1>3, <1>4

\* At the end of the stream nothing stable lies further on.
LEMMA StreamEnds ==
    ASSUME RTypeOK, Ahead = {}
    PROVE  \A e \in stable : e <= dp.pos
<1>1. Entries \subseteq Nat /\ stable \subseteq present /\ present \subseteq Entries /\ dp.pos \in Nat
  BY RTypes DEF RTypeOK
<1>2. {e \in present : e > dp.pos} = {}
  BY DEF Ahead
<1> QED BY <1>1, <1>2

\* An answer moves the kernel to where the buffer ends; it tells the end only when
\* nothing stable is left.
LEMMA AnsweredKeeps ==
    ASSUME Common, rd.pc # "idle", NEW err \in BOOLEAN, Answered(err), UNCHANGED <<present, stable>>,
           (~err /\ rd.got = <<>>) => \A e \in stable : e <= Cur
    PROVE  /\ rd' = NoReq /\ klist' \in [pos : Nat, seen : Seq(Nat), end : BOOLEAN]
           /\ counts' \in [changes : Nat, errs : Nat] /\ counts'.changes = counts.changes
           /\ counts'.errs = IF err /\ rd.got = <<>> THEN counts.errs + 1 ELSE counts.errs
           /\ klist'.pos = Cur /\ rd' \in [pc : {"idle"}, rem : Nat, plus : BOOLEAN, off : Nat, got : Seq(Nat), cur : Nat]
           /\ SeenInv' /\ GotInv' /\ EndInv'
<1>1. /\ rd.got \in Seq(Nat) /\ klist \in [pos : Nat, seen : Seq(Nat), end : BOOLEAN]
      /\ counts \in [changes : Nat, errs : Nat] /\ Cur \in Nat /\ stable \subseteq Nat /\ ~klist.end
  BY RTypes, CurFacts DEF Common, RTypeOK, EndInv
<1>2. /\ rd' = NoReq /\ counts' = [counts EXCEPT !.errs = IF err /\ rd.got = <<>> THEN @ + 1 ELSE @]
      /\ rd' \in [pc : {"idle"}, rem : Nat, plus : BOOLEAN, off : Nat, got : Seq(Nat), cur : Nat]
      /\ rd'.got = <<>> /\ rd'.pc = "idle"
  BY EmptySeq DEF Answered, NoReq
<1>3. /\ counts' \in [changes : Nat, errs : Nat] /\ counts'.changes = counts.changes
      /\ counts'.errs = IF err /\ rd.got = <<>> THEN counts.errs + 1 ELSE counts.errs
  <2> DEFINE n == IF err /\ rd.got = <<>> THEN counts.errs + 1 ELSE counts.errs
  <2>1. n \in Nat
    BY <1>1
  <2>2. counts' = [counts EXCEPT !.errs = n]
    BY <1>2
  <2> HIDE DEF n
  <2>3. counts' \in [changes : Nat, errs : Nat] /\ counts'.changes = counts.changes /\ counts'.errs = n
    BY <1>1, <2>1, <2>2
  <2> QED BY <2>3 DEF n
<1>4. GotInv'
  <2>1. <<>> \in Seq(Nat) /\ DOMAIN <<>> = {}
    <3>1. <<>> \in Seq(Nat) /\ Len(<<>>) = 0
      BY EmptySeq
    <3> QED BY <3>1, SeqFacts
  <2>2. DOMAIN rd'.got = {}
    BY <1>2, <2>1
  <2>3. Cur' = klist'.pos
    BY <1>2 DEF Cur
  <2>4. Rising(rd.got)'
    BY <2>2 DEF Rising
  <2>5. \A e \in stable' : ~(e > klist'.pos /\ e <= klist'.pos)
    <3>1. klist'.pos \in Nat
      BY <1>1, CurFacts DEF Answered, RTypeOK
    <3> QED BY <1>1, <3>1
  <2> QED BY <1>2, <2>2, <2>3, <2>4, <2>5 DEF GotInv
<1>5. CASE rd.got = <<>>
  <2>1. klist' = [klist EXCEPT !.end = ~err] /\ Cur = klist.pos
    BY <1>5, CurFacts DEF Answered
  <2>2. klist' \in [pos : Nat, seen : Seq(Nat), end : BOOLEAN] /\ klist'.pos = Cur /\ klist'.seen = klist.seen
        /\ klist'.end = ~err
    BY <1>1, <2>1
  <2>3. SeenInv'
    BY <2>1, <2>2 DEF Common, SeenInv
  <2>4. EndInv'
    BY <1>2, <1>5, <2>1, <2>2 DEF Common, SeenInv, EndInv
  <2> QED BY <1>2, <1>3, <1>4, <2>2, <2>3, <2>4
<1>6. CASE rd.got # <<>>
  <2> DEFINE all == klist.seen \o rd.got
  <2>1. klist' = [klist EXCEPT !.pos = Cur, !.seen = @ \o rd.got]
    BY <1>6, CurFacts DEF Answered
  <2>2. /\ all \in Seq(Nat) /\ Rising(all)
        /\ \A i \in DOMAIN all : (\E j \in DOMAIN klist.seen : all[i] = klist.seen[j]) \/ (\E j \in DOMAIN rd.got : all[i] = rd.got[j])
        /\ \A x : Listed(x, klist.seen) \/ Listed(x, rd.got) => Listed(x, all)
    BY <1>1, ConcatFacts DEF Common, SeenInv, GotInv
  <2> HIDE DEF all
  <2>3. klist' \in [pos : Nat, seen : Seq(Nat), end : BOOLEAN] /\ klist'.pos = Cur /\ klist'.seen = all
        /\ ~klist'.end
    BY <1>1, <2>1, <2>2 DEF all
  <2>4. \A i \in DOMAIN all : all[i] <= Cur
    <3> SUFFICES ASSUME NEW i \in DOMAIN all PROVE all[i] <= Cur
      OBVIOUS
    <3>1. ASSUME NEW j \in DOMAIN klist.seen, all[i] = klist.seen[j] PROVE all[i] <= Cur
      <4>1. klist.seen[j] \in Nat /\ klist.seen[j] <= klist.pos /\ klist.pos \in Nat
        BY <1>1, SeqFacts DEF Common, SeenInv
      <4> QED BY <1>1, <3>1, <4>1, CurFacts
    <3>2. ASSUME NEW j \in DOMAIN rd.got, all[i] = rd.got[j] PROVE all[i] <= Cur
      BY <3>2 DEF Common, GotInv
    <3> QED BY <2>2, <3>1, <3>2
  <2>5. \A e \in stable : e <= Cur => Listed(e, all)
    <3> SUFFICES ASSUME NEW e \in stable, e <= Cur PROVE Listed(e, all)
      OBVIOUS
    <3>1. e <= klist.pos \/ e > klist.pos
      BY <1>1
    <3>2. Listed(e, klist.seen) \/ Listed(e, rd.got)
      BY <3>1 DEF Common, SeenInv, GotInv
    <3> QED BY <2>2, <3>2
  <2>6. SeenInv' /\ EndInv'
    BY <2>2, <2>3, <2>4, <2>5 DEF SeenInv, EndInv
  <2> QED BY <1>2, <1>3, <1>4, <2>3, <2>6
<1> QED BY <1>5, <1>6

\* An entry that fits is the next one stable.
LEMMA FilledKeeps ==
    ASSUME Common, rd.pc = "fill", NEW e \in Nat, e > Cur, rd.rem # 0,
           \A x \in stable : x > Cur => x >= e,
           Filled(e), UNCHANGED <<present, stable, klist>>
    PROVE  /\ rd' \in [pc : {"next"}, rem : Nat, plus : BOOLEAN, off : Nat, got : Seq(Nat), cur : Nat]
           /\ Cur' = e /\ SeenInv' /\ GotInv' /\ EndInv'
<1> DEFINE g == Append(rd.got, e)
<1>1. /\ rd.got \in Seq(Nat) /\ Cur \in Nat /\ klist.pos \in Nat /\ Cur >= klist.pos /\ stable \subseteq Nat
      /\ rd.rem \in Nat /\ ~klist.end
  BY RTypes, CurFacts DEF Common, EndInv
<1>2. \A i \in DOMAIN rd.got : rd.got[i] \in Nat /\ rd.got[i] <= Cur /\ rd.got[i] > klist.pos
  BY <1>1, SeqFacts DEF Common, GotInv
<1>3. \A i \in DOMAIN rd.got : rd.got[i] < e
  BY <1>1, <1>2
<1>4. /\ g \in Seq(Nat) /\ g # <<>> /\ Len(g) \in DOMAIN g /\ g[Len(g)] = e /\ Rising(g)
      /\ \A i \in DOMAIN g : g[i] = e \/ \E j \in DOMAIN rd.got : g[i] = rd.got[j]
      /\ \A x : Listed(x, rd.got) \/ x = e => Listed(x, g)
  BY <1>1, <1>3, AppendFacts DEF Common, GotInv
<1> HIDE DEF g
<1>5. /\ rd' \in [pc : {"next"}, rem : Nat, plus : BOOLEAN, off : Nat, got : Seq(Nat), cur : Nat]
      /\ rd'.got = g /\ rd'.pc = "next"
  <2>1. rd' = [rd EXCEPT !.pc = "next", !.rem = @ - 1, !.got = g, !.cur = 0]
    BY DEF Filled, g
  <2>2. rd.rem - 1 \in Nat
    BY <1>1
  <2> QED BY <1>4, <2>1, <2>2 DEF Common, RTypeOK
<1>6. Cur' = e
  BY <1>4, <1>5 DEF Cur
<1>7. \A i \in DOMAIN g : g[i] > klist.pos /\ g[i] <= e
  BY <1>1, <1>2, <1>3, <1>4
<1>8. \A x \in stable : (x > klist.pos /\ x <= e) => Listed(x, g)
  <2> SUFFICES ASSUME NEW x \in stable, x > klist.pos, x <= e PROVE Listed(x, g)
    OBVIOUS
  <2>1. x <= Cur \/ x = e
    BY <1>1
  <2> QED BY <1>4, <2>1 DEF Common, GotInv
<1>9. SeenInv' /\ EndInv'
  BY <1>1 DEF Common, SeenInv, EndInv
<1>10. GotInv'
  BY <1>4, <1>5, <1>6, <1>7, <1>8 DEF GotInv
<1> QED BY <1>5, <1>6, <1>9, <1>10

\* A step that fills nothing in leaves the kernel's list and the buffer alone.
LEMMA StepKeeps ==
    ASSUME Common, rd.pc # "idle", UNCHANGED <<present, stable, klist>>,
           rd'.pc \in {"next", "look", "fill"}, rd'.got = rd.got, rd'.rem = rd.rem
    PROVE  SeenInv' /\ GotInv' /\ EndInv' /\ Cur' = Cur
<1>1. Cur' = Cur
  BY DEF Cur
<1> QED BY <1>1 DEF Common, SeenInv, GotInv, EndInv

---------------------------------------------------------------------------
(* passthrough_ll.c and passthrough_fh.c                                    *)

\* The stream depends only on these.
LEMMA LoIdle ==
    ASSUME Common, LoStream, rd.pc # "idle", rd.pc # "seek",
           NEW err \in BOOLEAN, Answered(err), UNCHANGED <<present, stable, dp, d>>,
           (~err /\ rd.got = <<>>) => \A e \in stable : e <= Cur
    PROVE  Common' /\ LoStream' /\ counts'.errs = IF err /\ rd.got = <<>> THEN counts.errs + 1 ELSE counts.errs
<1>1. /\ klist' \in [pos : Nat, seen : Seq(Nat), end : BOOLEAN] /\ rd'.pc = "idle"
      /\ counts' \in [changes : Nat, errs : Nat] /\ klist'.pos = Cur
      /\ rd' \in [pc : {"idle"}, rem : Nat, plus : BOOLEAN, off : Nat, got : Seq(Nat), cur : Nat]
      /\ counts'.errs = IF err /\ rd.got = <<>> THEN counts.errs + 1 ELSE counts.errs
      /\ SeenInv' /\ GotInv' /\ EndInv'
  BY AnsweredKeeps DEF NoReq
<1>2. RTypeOK'
  BY <1>1 DEF Common, RTypeOK
<1>3. rd.pc \in {"next", "look", "fill"} /\ d.offset = Cur /\ d.offset \in Nat
  BY RTypes DEF Common, RTypeOK, LoStream
<1>4. LoStream'
  BY <1>1, <1>3 DEF LoStream, Live, AheadWhole
<1> QED BY <1>1, <1>2, <1>4 DEF Common

\* A request that does not begin where the stream is seeks, and starts afresh.
LEMMA LoSeek ==
    ASSUME Common, LoStream, lo_readdir_seek
    PROVE  Common' /\ LoStream' /\ counts' = counts
<1>1. /\ rd.pc = "seek" /\ rd' = [rd EXCEPT !.pc = "next"] /\ UNCHANGED <<present, klist, stable, counts>>
      /\ rd.off # d.offset => dp' = seekdir(rd.off) /\ d' = [entry |-> 0, offset |-> rd.off]
      /\ rd.off = d.offset => UNCHANGED <<dp, d>>
  BY DEF lo_readdir_seek, Step
<1>2. rd.off = klist.pos /\ rd.got = <<>> /\ Cur = klist.pos
  BY <1>1, CurFacts DEF Common, GotInv
<1>3. /\ rd'.pc = "next" /\ rd'.got = rd.got /\ rd'.rem = rd.rem
      /\ rd' \in [pc : {"next"}, rem : Nat, plus : BOOLEAN, off : Nat, got : Seq(Nat), cur : Nat]
  BY <1>1 DEF Common, RTypeOK
<1>4. SeenInv' /\ GotInv' /\ EndInv' /\ Cur' = Cur
  BY <1>1, <1>3, StepKeeps
<1>5. CASE rd.off # d.offset
  <2>1. dp' = [pos |-> rd.off, ahead |-> {}] /\ d' = [entry |-> 0, offset |-> rd.off] /\ rd.off \in Nat
    BY <1>1, <1>5, RTypes DEF seekdir, Common
  <2>2. RTypeOK'
    BY <1>1, <1>3, <2>1 DEF Common, RTypeOK
  <2>3. LoStream'
    <3>1. \A e \in stable' : e > d'.offset => e >= dp'.pos
      BY <1>1, <2>1, RTypes DEF Common
    <3> QED BY <1>1, <1>2, <1>3, <1>4, <2>1, <3>1 DEF LoStream, AheadWhole
  <2> QED BY <1>1, <1>4, <2>2, <2>3 DEF Common
<1>6. CASE rd.off = d.offset
  <2>1. RTypeOK'
    BY <1>1, <1>3, <1>6 DEF Common, RTypeOK
  <2>2. LoStream'
    BY <1>1, <1>2, <1>3, <1>4, <1>6 DEF LoStream, AheadWhole, Live
  <2> QED BY <1>1, <1>4, <2>1, <2>2 DEF Common
<1> QED BY <1>5, <1>6

\* A step inside a request that leaves the stream alone.
LEMMA LoStep ==
    ASSUME Common, LoStream, rd.pc \in {"next", "look", "fill"}, NEW p \in {"look", "fill"}, Step(p),
           d.entry # 0, UNCHANGED <<present, klist, stable, counts, dp, d>>
    PROVE  Common' /\ LoStream' /\ counts' = counts
<1>1. /\ rd'.pc = p /\ rd'.got = rd.got /\ rd'.rem = rd.rem
      /\ rd' \in [pc : {"look", "fill"}, rem : Nat, plus : BOOLEAN, off : Nat, got : Seq(Nat), cur : Nat]
  BY DEF Common, RTypeOK, Step
<1>2. SeenInv' /\ GotInv' /\ EndInv' /\ Cur' = Cur
  BY <1>1, StepKeeps
<1>3. RTypeOK'
  BY <1>1 DEF Common, RTypeOK
<1>4. LoStream'
  BY <1>1, <1>2 DEF LoStream, AheadWhole, Live
<1> QED BY <1>2, <1>3, <1>4 DEF Common

\* readdir is called only with no entry left over.
LEMMA LoNext ==
    ASSUME Common, LoStream, lo_readdir_next
    PROVE  Common' /\ LoStream' /\ counts'.errs = counts.errs
<1> DEFINE p == IF rd.plus THEN "look" ELSE "fill"
<1>0. rd.pc = "next" /\ UNCHANGED <<present, stable>> /\ p \in {"look", "fill"} /\ d.offset = Cur /\ AheadWhole
  BY DEF lo_readdir_next, LoStream, Live
<1>1. CASE d.entry # 0 /\ Step(p) /\ UNCHANGED <<dp, d, klist, counts>>
  BY <1>0, <1>1, LoStep
<1>2. CASE d.entry = 0 /\ Ahead # {} /\ dp' = readdir /\ d' = [d EXCEPT !.entry = readdir.pos] /\ Step(p)
           /\ UNCHANGED <<klist, counts>>
  <2>1. /\ readdir \in [pos : Nat, ahead : SUBSET Entries]
        /\ readdir.ahead = Ahead /\ readdir.pos > dp.pos
        /\ \A e \in stable : e > dp.pos => e >= readdir.pos
        /\ \A e \in stable : e > readdir.pos => e \in Ahead
    BY <1>0, <1>2, ReaddirFacts DEF Common
  <2>2. dp.pos = d.offset /\ d.offset \in Nat
    BY <1>2, RTypes DEF LoStream, Common
  <2>3. /\ dp'.pos = readdir.pos /\ dp'.ahead = Ahead /\ d' \in [entry : Nat, offset : Nat]
        /\ d'.entry = readdir.pos /\ d'.offset = d.offset
    BY <1>2, <2>1 DEF Common, RTypeOK
  <2>4. /\ rd'.pc = p /\ rd'.got = rd.got /\ rd'.rem = rd.rem
        /\ rd' \in [pc : {"look", "fill"}, rem : Nat, plus : BOOLEAN, off : Nat, got : Seq(Nat), cur : Nat]
    BY <1>0, <1>2 DEF Common, RTypeOK, Step
  <2> HIDE DEF p
  <2>5. SeenInv' /\ GotInv' /\ EndInv' /\ Cur' = Cur
    BY <1>0, <1>2, <2>4, StepKeeps
  <2>6. RTypeOK'
    BY <1>0, <1>2, <2>1, <2>3, <2>4 DEF Common, RTypeOK
  <2>7. AheadWhole'
    BY <1>0, <2>1, <2>3 DEF AheadWhole
  <2>8. d'.offset >= klist'.pos
    BY <1>2, <2>3 DEF LoStream
  <2>9. \A e \in stable' : e > d'.offset => e >= dp'.pos
    BY <1>0, <2>1, <2>2, <2>3
  <2>10. d'.entry # 0 /\ d'.entry > d'.offset
    BY <2>1, <2>2, <2>3
  <2>11. LoStream'
    BY <1>0, <2>3, <2>4, <2>5, <2>7, <2>8, <2>9, <2>10 DEF LoStream
  <2> QED BY <1>2, <2>5, <2>6, <2>11 DEF Common
<1>3. CASE d.entry = 0 /\ Ahead = {} /\ Answered(FALSE) /\ UNCHANGED <<dp, d>>
  <2>1. \A e \in stable : e <= Cur
    BY <1>0, <1>3, StreamEnds DEF Common, LoStream
  <2> QED BY <1>0, <1>3, <2>1, LoIdle
<1> QED BY <1>1, <1>2, <1>3 DEF lo_readdir_next

\* An entry that is gone ends the buffer; it stays in d->entry.
LEMMA LoLook ==
    ASSUME Common, LoStream, lo_readdir_look
    PROVE  Common' /\ LoStream'
<1>1. rd.pc = "look" /\ d.entry # 0 /\ UNCHANGED <<present, dp, d, stable>>
  BY DEF lo_readdir_look, LoStream
<1>2. CASE Step("fill") /\ UNCHANGED <<klist, counts>>
  BY <1>1, <1>2, LoStep
<1>3. CASE Answered(TRUE)
  BY <1>1, <1>3, LoIdle
<1> QED BY <1>2, <1>3 DEF lo_readdir_look

\* passthrough_fh.c reports it all the same.
LEMMA XmpLook ==
    ASSUME Common, LoStream, xmp_readdir_look
    PROVE  Common' /\ LoStream' /\ counts' = counts
<1>1. rd.pc = "look" /\ d.entry # 0 /\ UNCHANGED <<present, dp, d, stable, klist, counts>> /\ Step("fill")
  BY DEF xmp_readdir_look, LoStream
<1> QED BY <1>1, LoStep

\* An entry that does not fit stays for the next answer.
LEMMA LoFill ==
    ASSUME Common, LoStream, lo_readdir_fill
    PROVE  Common' /\ LoStream' /\ counts'.errs = counts.errs
<1>0. /\ rd.pc = "fill" /\ UNCHANGED <<present, dp, stable>> /\ d.entry # 0 /\ dp.pos = d.entry
      /\ d.offset = Cur /\ d.entry > Cur /\ d.entry \in Nat /\ AheadWhole
      /\ \A e \in stable : e > Cur => e >= d.entry
  BY RTypes DEF lo_readdir_fill, LoStream, Live, Common
<1>1. CASE rd.rem = 0 /\ Answered(FALSE) /\ UNCHANGED d
  <2>1. rd.got # <<>>
    BY <1>0, <1>1 DEF Common, GotInv
  <2> QED BY <1>0, <1>1, <2>1, LoIdle
<1>2. CASE rd.rem # 0 /\ Filled(d.entry) /\ d' = [entry |-> 0, offset |-> d.entry] /\ UNCHANGED <<klist, counts>>
  <2>1. /\ rd' \in [pc : {"next"}, rem : Nat, plus : BOOLEAN, off : Nat, got : Seq(Nat), cur : Nat]
        /\ Cur' = d.entry /\ SeenInv' /\ GotInv' /\ EndInv'
    BY <1>0, <1>2, FilledKeeps
  <2>2. RTypeOK'
    BY <1>0, <1>2, <2>1 DEF Common, RTypeOK
  <2>3. d'.entry = 0 /\ d'.offset = d.entry /\ rd'.pc = "next"
    BY <1>2, <2>1
  <2>4. d'.offset >= klist'.pos
    BY <1>0, <1>2, <2>3, RTypes, CurFacts DEF Common
  <2>5. AheadWhole' /\ \A e \in stable' : e > d'.offset => e >= dp'.pos
    BY <1>0, <2>3, RTypes DEF AheadWhole, Common
  <2>6. LoStream'
    BY <1>0, <2>1, <2>3, <2>4, <2>5 DEF LoStream
  <2> QED BY <1>2, <2>1, <2>2, <2>6 DEF Common
<1> QED BY <1>1, <1>2 DEF lo_readdir_fill

---------------------------------------------------------------------------
(* passthrough_hp.cc                                                        *)

\* An answer that leaves the stream further on than the kernel makes the next
\* request seek.
LEMMA SfsIdle ==
    ASSUME Common, SfsStream, SfsErrors, rd.pc \in {"next", "look", "fill"},
           NEW err \in BOOLEAN, Answered(err), UNCHANGED <<present, stable, dp, d>>,
           (~err /\ rd.got = <<>>) => \A e \in stable : e <= Cur,
           err => counts.errs < counts.changes /\ rd.pc = "look"
    PROVE  Common' /\ SfsStream' /\ SfsErrors'
<1>1. /\ klist' \in [pos : Nat, seen : Seq(Nat), end : BOOLEAN] /\ rd'.pc = "idle"
      /\ counts' \in [changes : Nat, errs : Nat] /\ klist'.pos = Cur /\ counts'.changes = counts.changes
      /\ rd' \in [pc : {"idle"}, rem : Nat, plus : BOOLEAN, off : Nat, got : Seq(Nat), cur : Nat]
      /\ counts'.errs = IF err /\ rd.got = <<>> THEN counts.errs + 1 ELSE counts.errs
      /\ SeenInv' /\ GotInv' /\ EndInv'
  BY AnsweredKeeps DEF NoReq
<1>2. RTypeOK'
  BY <1>1 DEF Common, RTypeOK
<1>3. d.offset \in Nat /\ Cur \in Nat /\ d.offset >= Cur /\ (rd.pc # "next" => d.offset > Cur)
      /\ counts.errs \in Nat /\ counts.changes \in Nat
  BY RTypes, CurFacts DEF Common, SfsStream
<1>4. SfsStream'
  BY <1>1, <1>3 DEF SfsStream, Live, AheadWhole
<1>5. counts'.errs <= counts'.changes
  BY <1>1, <1>3 DEF SfsErrors
<1>6. ASSUME Live', ~(dp.ahead \subseteq present) PROVE counts'.errs < counts'.changes
  <2>1. d.offset = Cur
    BY <1>1, <1>6 DEF Live
  <2>2. rd.pc = "next" /\ ~err
    BY <1>3, <2>1
  <2>3. counts.errs < counts.changes
    BY <1>6, <2>2 DEF SfsErrors, Live
  <2> QED BY <1>1, <2>2, <2>3
<1>7. SfsErrors'
  BY <1>1, <1>5, <1>6 DEF SfsErrors
<1> QED BY <1>1, <1>2, <1>4, <1>7 DEF Common

\* A request that does not begin where the stream is seeks, and starts afresh.
LEMMA SfsSeek ==
    ASSUME Common, SfsStream, SfsErrors, do_readdir_seek
    PROVE  Common' /\ SfsStream' /\ SfsErrors'
<1>1. /\ rd.pc = "seek" /\ rd' = [rd EXCEPT !.pc = "next"] /\ UNCHANGED <<present, klist, stable, counts>>
      /\ rd.off # d.offset => dp' = seekdir(rd.off) /\ d' = [d EXCEPT !.offset = rd.off]
      /\ rd.off = d.offset => UNCHANGED <<dp, d>>
  BY DEF do_readdir_seek, Step
<1>2. rd.off = klist.pos /\ rd.got = <<>> /\ Cur = klist.pos
  BY <1>1, CurFacts DEF Common, GotInv
<1>3. /\ rd'.pc = "next" /\ rd'.got = rd.got /\ rd'.rem = rd.rem
      /\ rd' \in [pc : {"next"}, rem : Nat, plus : BOOLEAN, off : Nat, got : Seq(Nat), cur : Nat]
  BY <1>1 DEF Common, RTypeOK
<1>4. SeenInv' /\ GotInv' /\ EndInv' /\ Cur' = Cur
  BY <1>1, <1>3, StepKeeps
<1>5. CASE rd.off # d.offset
  <2>1. dp' = [pos |-> rd.off, ahead |-> {}] /\ d' \in [entry : Nat, offset : Nat] /\ d'.offset = rd.off /\ rd.off \in Nat
    BY <1>1, <1>5, RTypes DEF seekdir, Common, RTypeOK
  <2>2. RTypeOK'
    BY <1>1, <1>3, <2>1 DEF Common, RTypeOK
  <2>3. SfsStream' /\ SfsErrors'
    BY <1>1, <1>2, <1>3, <1>4, <2>1 DEF SfsStream, SfsErrors, AheadWhole
  <2> QED BY <1>1, <1>4, <2>2, <2>3 DEF Common
<1>6. CASE rd.off = d.offset
  <2>1. RTypeOK'
    BY <1>1, <1>3, <1>6 DEF Common, RTypeOK
  <2>2. SfsStream' /\ SfsErrors'
    BY <1>1, <1>2, <1>3, <1>4, <1>6 DEF SfsStream, SfsErrors, AheadWhole, Live
  <2> QED BY <1>1, <1>4, <2>1, <2>2 DEF Common
<1> QED BY <1>5, <1>6

\* What was read ahead is taken, or the directory is read anew.
LEMMA SfsNext ==
    ASSUME Common, SfsStream, SfsErrors, do_readdir_next
    PROVE  Common' /\ SfsStream' /\ SfsErrors'
<1>0. rd.pc = "next" /\ UNCHANGED <<present, stable>> /\ d.offset = Cur /\ dp.pos = Cur /\ AheadWhole /\ Live /\ Cur \in Nat
  BY CurFacts DEF do_readdir_next, SfsStream, Live
<1>1. CASE Ahead # {}
  <2>0. /\ dp' = readdir /\ d' = [d EXCEPT !.offset = readdir.pos] /\ UNCHANGED <<klist, counts>>
        /\ rd' = [rd EXCEPT !.pc = IF rd.plus THEN "look" ELSE "fill", !.cur = readdir.pos]
    BY <1>1 DEF do_readdir_next
  <2>1. /\ readdir \in [pos : Nat, ahead : SUBSET Entries]
        /\ readdir.pos \in Ahead /\ readdir.ahead = Ahead /\ readdir.pos > dp.pos
        /\ Ahead \subseteq dp.ahead \/ Ahead \subseteq present
        /\ \A e \in stable : e > dp.pos => e >= readdir.pos
        /\ \A e \in stable : e > readdir.pos => e \in Ahead
    BY <1>0, <1>1, ReaddirFacts DEF Common
  <2>2. /\ dp'.pos = readdir.pos /\ dp'.ahead = Ahead /\ d' \in [entry : Nat, offset : Nat]
        /\ d'.offset = readdir.pos
    BY <2>0, <2>1 DEF Common, RTypeOK
  <2>3. /\ rd'.pc \in {"look", "fill"} /\ rd'.got = rd.got /\ rd'.rem = rd.rem /\ rd'.cur = readdir.pos
        /\ rd' \in [pc : {"look", "fill"}, rem : Nat, plus : BOOLEAN, off : Nat, got : Seq(Nat), cur : Nat]
    BY <2>0, <2>1 DEF Common, RTypeOK
  <2>4. SeenInv' /\ GotInv' /\ EndInv' /\ Cur' = Cur
    BY <1>0, <2>0, <2>3, StepKeeps
  <2>5. RTypeOK'
    BY <1>0, <2>0, <2>1, <2>2, <2>3 DEF Common, RTypeOK
  <2>6. AheadWhole'
    BY <1>0, <2>1, <2>2 DEF AheadWhole
  <2>7. d'.offset >= klist'.pos
    BY <1>0, <2>0, <2>1, <2>2, CurFacts, RTypes DEF Common
  <2>8. SfsStream'
    BY <1>0, <2>1, <2>2, <2>3, <2>4, <2>6, <2>7 DEF SfsStream
  <2>9. SfsErrors'
    BY <1>0, <2>0, <2>1, <2>2, <2>3 DEF SfsErrors
  <2> QED BY <2>4, <2>5, <2>8, <2>9 DEF Common
<1>2. CASE Ahead = {}
  <2>1. Answered(FALSE) /\ UNCHANGED <<dp, d>>
    BY <1>2 DEF do_readdir_next
  <2>2. \A e \in stable : e <= Cur
    BY <1>0, <1>2, StreamEnds DEF Common
  <2> QED BY <1>0, <2>1, <2>2, SfsIdle
<1> QED BY <1>1, <1>2

\* An entry that is gone ends the buffer.
LEMMA SfsLook ==
    ASSUME Common, SfsStream, SfsErrors, do_readdir_look
    PROVE  Common' /\ SfsStream' /\ SfsErrors'
<1>0. rd.pc = "look" /\ UNCHANGED <<present, dp, d, stable>>
  BY DEF do_readdir_look
<1>1. CASE rd.cur \in present
  <2>0. rd' = [rd EXCEPT !.pc = "fill"] /\ UNCHANGED <<klist, counts>>
    BY <1>1 DEF do_readdir_look, Step
  <2>1. /\ rd'.pc = "fill" /\ rd'.got = rd.got /\ rd'.rem = rd.rem /\ rd'.cur = rd.cur
        /\ rd' \in [pc : {"fill"}, rem : Nat, plus : BOOLEAN, off : Nat, got : Seq(Nat), cur : Nat]
    BY <2>0 DEF Common, RTypeOK
  <2>2. SeenInv' /\ GotInv' /\ EndInv' /\ Cur' = Cur
    BY <1>0, <2>0, <2>1, StepKeeps
  <2>3. RTypeOK'
    BY <1>0, <2>0, <2>1 DEF Common, RTypeOK
  <2>4. SfsStream' /\ SfsErrors'
    BY <1>0, <2>0, <2>1, <2>2 DEF SfsStream, SfsErrors, AheadWhole, Live
  <2> QED BY <2>2, <2>3, <2>4 DEF Common
<1>2. CASE rd.cur \notin present
  <2>1. Answered(TRUE)
    BY <1>2 DEF do_readdir_look
  <2>2. counts.errs < counts.changes
    BY <1>0, <1>2 DEF SfsErrors, Live
  <2> QED BY <1>0, <2>1, <2>2, SfsIdle
<1> QED BY <1>1, <1>2

\* An entry that does not fit is read again.
LEMMA SfsFill ==
    ASSUME Common, SfsStream, SfsErrors, do_readdir_fill
    PROVE  Common' /\ SfsStream' /\ SfsErrors'
<1>0. /\ rd.pc = "fill" /\ UNCHANGED <<present, dp, d, stable>> /\ rd.cur = d.offset /\ d.offset > Cur
      /\ \A e \in stable : e > Cur => e >= d.offset
      /\ d.offset \in Nat /\ dp.pos = d.offset /\ AheadWhole
  BY RTypes DEF do_readdir_fill, SfsStream, Common, Live
<1>1. CASE rd.rem = 0
  <2>1. Answered(FALSE) /\ rd.got # <<>>
    BY <1>0, <1>1 DEF do_readdir_fill, Common, GotInv
  <2> QED BY <1>0, <2>1, SfsIdle
<1>2. CASE rd.rem # 0
  <2>0. Filled(d.offset) /\ UNCHANGED <<klist, counts>>
    BY <1>0, <1>2 DEF do_readdir_fill
  <2>1. /\ rd' \in [pc : {"next"}, rem : Nat, plus : BOOLEAN, off : Nat, got : Seq(Nat), cur : Nat]
        /\ Cur' = d.offset /\ SeenInv' /\ GotInv' /\ EndInv'
    BY <1>0, <1>2, <2>0, FilledKeeps
  <2>2. RTypeOK' /\ rd'.pc = "next"
    BY <1>0, <2>0, <2>1 DEF Common, RTypeOK
  <2>3. d'.offset >= klist'.pos /\ AheadWhole'
    BY <1>0, <2>0 DEF SfsStream, AheadWhole
  <2>4. SfsStream'
    BY <1>0, <2>1, <2>2, <2>3 DEF SfsStream
  <2>5. SfsErrors'
    BY <1>0, <2>0, <2>2 DEF SfsErrors, Live
  <2> QED BY <2>1, <2>2, <2>4, <2>5 DEF Common
<1> QED BY <1>1, <1>2

---------------------------------------------------------------------------
(* The kernel and the directory.                                            *)

\* A request starts at the kernel's offset.
LEMMA KernelReads ==
    ASSUME Common, NEW k \in 1 .. 2, NEW plus \in BOOLEAN, KernelRead(k, plus)
    PROVE  /\ Common' /\ (LoStream => LoStream') /\ counts' = counts
           /\ SfsStream /\ SfsErrors => SfsStream' /\ SfsErrors'
<1>1. /\ rd.pc = "idle" /\ ~klist.end /\ UNCHANGED <<present, dp, d, klist, stable, counts>>
      /\ rd' = [NoReq EXCEPT !.pc = "seek", !.rem = k, !.plus = plus, !.off = klist.pos]
  BY DEF KernelRead
<1>2. rd.got = <<>> /\ klist.pos \in Nat
  BY <1>1, RTypes DEF Common, GotInv
<1>3. /\ rd'.pc = "seek" /\ rd'.rem = k /\ rd'.off = klist.pos /\ rd'.got = <<>> /\ rd'.cur = 0
      /\ rd' = [pc |-> "seek", rem |-> k, plus |-> plus, off |-> klist.pos, got |-> <<>>, cur |-> 0]
  BY <1>1 DEF NoReq
<1>4. rd' \in [pc : {"seek"}, rem : Nat, plus : BOOLEAN, off : Nat, got : Seq(Nat), cur : Nat]
  BY <1>2, <1>3, EmptySeq
<1>5. RTypeOK'
  BY <1>1, <1>4 DEF Common, RTypeOK
<1>6. SeenInv' /\ EndInv'
  BY <1>1 DEF Common, SeenInv, EndInv
<1>7. GotInv'
  <2>1. Rising(rd'.got) /\ Cur' = klist'.pos
    BY <1>1, <1>2, <1>3 DEF Cur, Common, GotInv
  <2>2. \A i \in DOMAIN rd'.got : FALSE
    <3>1. DOMAIN <<>> = {}
      BY EmptySeq, SeqFacts
    <3> QED BY <1>3, <3>1
  <2>3. \A e \in stable' : ~(e > klist'.pos /\ e <= klist'.pos)
    BY <1>1, <1>2, RTypes DEF Common
  <2> QED BY <1>1, <1>3, <2>1, <2>2, <2>3 DEF GotInv
<1>8. /\ LoStream => LoStream'
      /\ SfsStream /\ SfsErrors => SfsStream' /\ SfsErrors'
  BY <1>1, <1>3 DEF LoStream, SfsStream, SfsErrors, Live, AheadWhole
<1> QED BY <1>1, <1>5, <1>6, <1>7, <1>8 DEF Common

\* After a seek backwards the stream is somewhere else.
LEMMA KernelSeeks ==
    ASSUME Common, NEW i \in 0 .. Len(klist.seen), KernelSeek(i)
    PROVE  /\ Common' /\ (LoStream => LoStream') /\ counts' = counts
           /\ SfsStream /\ SfsErrors => SfsStream' /\ SfsErrors'
<1> DEFINE o == IF i = 0 THEN 0 ELSE klist.seen[i]
           s == SubSeq(klist.seen, 1, i)
<1>1. /\ rd.pc = "idle" /\ o < klist.pos /\ UNCHANGED <<present, dp, d, rd, counts>>
      /\ klist' = [pos |-> o, seen |-> s, end |-> FALSE]
      /\ stable' = {e \in present : e > o} \cup {e \in stable : e <= o}
  BY DEF KernelSeek
<1>2. /\ klist.seen \in Seq(Nat) /\ klist.pos \in Nat /\ stable \subseteq present /\ present \subseteq Nat
      /\ Len(klist.seen) \in Nat /\ DOMAIN klist.seen = 1 .. Len(klist.seen)
      /\ \A j \in DOMAIN klist.seen : klist.seen[j] \in Nat
      /\ Rising(klist.seen)
  BY RTypes, SeqFacts DEF Common, RTypeOK, SeenInv
<1>3. o \in Nat
  BY <1>2
<1>4. /\ s \in Seq(Nat) /\ DOMAIN s = 1 .. i /\ \A j \in 1 .. i : s[j] = klist.seen[j]
  <2>1. /\ s \in Seq(Nat) /\ Len(s) = i /\ \A j \in 1 .. i : s[j] = klist.seen[1 + j - 1]
    BY <1>2, SubSeqProperties
  <2>2. \A j \in 1 .. i : 1 + j - 1 = j
    OBVIOUS
  <2>3. DOMAIN s = 1 .. i
    BY <2>1, SeqFacts
  <2> QED BY <2>1, <2>2, <2>3
<1>5. \A j \in 1 .. i : s[j] <= o
  <2> SUFFICES ASSUME NEW j \in 1 .. i PROVE s[j] <= o
    OBVIOUS
  <2>1. j \in DOMAIN klist.seen /\ i \in DOMAIN klist.seen /\ o = klist.seen[i] /\ (j < i \/ j = i)
    BY <1>2
  <2>2. klist.seen[j] <= klist.seen[i]
    <3>1. klist.seen[j] \in Nat /\ klist.seen[i] \in Nat
      BY <1>2, <2>1
    <3>2. j < i => klist.seen[j] < klist.seen[i]
      BY <1>2, <2>1 DEF Rising
    <3> QED BY <2>1, <3>1, <3>2
  <2> QED BY <1>4, <2>1, <2>2
<1>6. \A e \in stable : e <= o => Listed(e, s)
  <2> SUFFICES ASSUME NEW e \in stable, e <= o PROVE Listed(e, s)
    OBVIOUS
  <2>1. e \in Nat /\ e > 0 /\ e <= klist.pos /\ i \in DOMAIN klist.seen /\ o = klist.seen[i]
    <3>1. e \in Nat /\ e > 0
      BY RTypes DEF Common, Entries
    <3> QED BY <1>1, <1>2, <1>3, <3>1
  <2>2. PICK j \in DOMAIN klist.seen : klist.seen[j] = e
    BY <2>1 DEF Common, SeenInv, Listed
  <2>3. ~(i < j)
    <3>1. ASSUME i < j PROVE FALSE
      <4>1. klist.seen[i] < klist.seen[j]
        BY <1>2, <2>1, <2>2, <3>1 DEF Rising
      <4> QED BY <1>3, <2>1, <2>2, <4>1
    <3> QED BY <3>1
  <2>4. j \in 1 .. i
    BY <1>2, <2>3
  <2> QED BY <1>4, <2>2, <2>4 DEF Listed
<1> HIDE DEF o, s
<1>7. klist'.pos = o /\ klist'.seen = s /\ klist'.end = FALSE /\ klist' \in [pos : Nat, seen : Seq(Nat), end : BOOLEAN]
  BY <1>1, <1>3, <1>4
<1>8. \A e \in stable' : e \in present /\ (e <= o => e \in stable)
  <2> SUFFICES ASSUME NEW e \in stable' PROVE e \in present /\ (e <= o => e \in stable)
    OBVIOUS
  <2>1. (e \in present /\ e > o) \/ (e \in stable /\ e <= o)
    BY <1>1
  <2>2. e \in present /\ e \in Nat
    BY <1>2, <2>1
  <2>3. ~(e > o /\ e <= o)
    BY <1>3, <2>2
  <2> QED BY <2>1, <2>2, <2>3
<1>9. RTypeOK'
  BY <1>1, <1>7, <1>8 DEF Common, RTypeOK
<1>10. SeenInv'
  <2>1. Rising(s)
    <3> SUFFICES ASSUME NEW a \in DOMAIN s, NEW b \in DOMAIN s, a < b PROVE s[a] < s[b]
      BY DEF Rising
    <3>1. a \in 1 .. i /\ b \in 1 .. i
      BY <1>4
    <3>2. a \in DOMAIN klist.seen /\ b \in DOMAIN klist.seen
      BY <1>2, <3>1
    <3>3. klist.seen[a] < klist.seen[b]
      BY <1>2, <3>2 DEF Rising
    <3>4. s[a] = klist.seen[a] /\ s[b] = klist.seen[b]
      BY <1>4, <3>1
    <3> QED BY <3>3, <3>4
  <2> QED BY <1>4, <1>5, <1>6, <1>7, <1>8, <2>1 DEF SeenInv
<1>11. EndInv'
  BY <1>7 DEF EndInv
<1>12. GotInv'
  <2>1. rd.got = <<>> /\ rd' = rd /\ Cur' = o
    BY <1>1, <1>7 DEF Common, GotInv, Cur
  <2>2. \A j \in DOMAIN rd.got : FALSE
    <3>1. DOMAIN <<>> = {}
      BY EmptySeq, SeqFacts
    <3> QED BY <2>1, <3>1
  <2>3. \A e \in stable' : ~(e > klist'.pos /\ e <= o)
    <3> SUFFICES ASSUME NEW e \in stable' PROVE ~(e > o /\ e <= o)
      BY <1>7
    <3>1. e \in Nat
      BY <1>2, <1>8
    <3> QED BY <1>3, <3>1
  <2> QED BY <1>1, <2>1, <2>2, <2>3 DEF Common, GotInv
<1>13. d.offset \in Nat
  BY RTypes DEF Common
<1>14. d.offset >= klist.pos => ~Live' /\ d.offset >= klist'.pos
  BY <1>1, <1>2, <1>3, <1>7, <1>13 DEF Live
<1>15. LoStream => LoStream'
  BY <1>1, <1>14 DEF LoStream
<1>16. SfsStream /\ SfsErrors => SfsStream' /\ SfsErrors'
  BY <1>1, <1>14 DEF SfsStream, SfsErrors
<1> QED BY <1>1, <1>9, <1>10, <1>11, <1>12, <1>15, <1>16 DEF Common

\* An entry that goes or comes is no longer one that was there all the time.
LEMMA SourceChanges ==
    ASSUME Common, NEW x \in Entries, SourceChange(x)
    PROVE  /\ Common' /\ (LoStream => LoStream') /\ counts'.errs = counts.errs
           /\ SfsStream /\ SfsErrors => SfsStream' /\ SfsErrors'
<1>1. /\ counts' = [counts EXCEPT !.changes = @ + 1] /\ stable' = stable \ {x}
      /\ present' = IF x \in present THEN present \ {x} ELSE present \cup {x}
      /\ UNCHANGED <<dp, d, rd, klist>>
  BY DEF SourceChange
<1>2. /\ counts' \in [changes : Nat, errs : Nat] /\ counts'.errs = counts.errs /\ counts'.changes = counts.changes + 1
      /\ counts.errs \in Nat /\ counts.changes \in Nat
  <2>1. counts \in [changes : Nat, errs : Nat] /\ counts.errs \in Nat /\ counts.changes \in Nat
    BY DEF Common, RTypeOK
  <2>2. PICK n \in Nat : n = counts.changes + 1
    BY <2>1
  <2>3. counts' = [counts EXCEPT !.changes = n]
    BY <1>1, <2>2
  <2> QED BY <2>1, <2>2, <2>3
<1>3. RTypeOK'
  BY <1>1, <1>2 DEF Common, RTypeOK
<1>4. SeenInv' /\ GotInv' /\ EndInv'
  BY <1>1 DEF Common, SeenInv, GotInv, EndInv, Cur
<1>5. LoStream => LoStream'
  BY <1>1 DEF LoStream, Live, AheadWhole, Cur
<1>6. SfsStream => SfsStream'
  BY <1>1 DEF SfsStream, Live, AheadWhole, Cur
<1>7. SfsErrors => SfsErrors'
  BY <1>1, <1>2 DEF SfsErrors
<1> QED BY <1>2, <1>3, <1>4, <1>5, <1>6, <1>7 DEF Common

---------------------------------------------------------------------------
\* An empty list rises.
LEMMA NothingRises == <<>> \in Seq(Nat) /\ Rising(<<>>) /\ DOMAIN <<>> = {}
<1>1. DOMAIN <<>> = {} /\ <<>> \in Seq(Nat)
  BY EmptySeq, SeqFacts
<1> QED BY <1>1 DEF Rising

\* The invariant holds before the first request.
LEMMA ReaddirInit == Init => ReaddirInv
<1> SUFFICES ASSUME Init PROVE ReaddirInv
  OBVIOUS
<1>1. /\ present = Entries /\ stable = Entries /\ dp = [pos |-> 0, ahead |-> {}]
      /\ d = [entry |-> 0, offset |-> 0] /\ rd = NoReq
      /\ klist = [pos |-> 0, seen |-> <<>>, end |-> FALSE] /\ counts = [changes |-> 0, errs |-> 0]
  BY DEF Init, RInit
<1>2. rd.pc = "idle" /\ rd.got = <<>> /\ rd.rem = 0
      /\ rd \in [pc : {"idle"}, rem : Nat, plus : BOOLEAN, off : Nat, got : Seq(Nat), cur : Nat]
  BY <1>1, NothingRises DEF NoReq
<1>3. RTypeOK
  BY <1>1, <1>2, NothingRises DEF RTypeOK
<1>4. \A e \in Entries : e > 0 /\ ~(e <= 0)
  BY DEF Entries
<1>5. Cur = 0
  BY <1>1, <1>2 DEF Cur
<1>6. SeenInv /\ GotInv /\ EndInv
  BY <1>1, <1>2, <1>4, <1>5, NothingRises DEF SeenInv, GotInv, EndInv
<1>7. AheadWhole
  BY <1>1 DEF AheadWhole
<1>8. LoStream
  <2>1. dp.pos = 0 /\ d.entry = 0 /\ d.offset = 0 /\ klist.pos = 0 /\ \A e \in stable : e >= 0
    BY <1>1, <1>2 DEF Entries
  <2> QED BY <1>2, <1>7, <2>1 DEF LoStream
<1>9. SfsStream /\ SfsErrors /\ counts.errs = 0
  BY <1>1, <1>2, <1>7 DEF SfsStream, SfsErrors
<1> QED BY <1>3, <1>6, <1>8, <1>9 DEF ReaddirInv

\* The invariant is one of the directory's variables.
LEMMA ReaddirStutters ==
    ASSUME ReaddirInv, UNCHANGED <<rvars, part>>
    PROVE  ReaddirInv'
BY DEF ReaddirInv, rvars, RTypeOK, SeenInv, GotInv, EndInv, LoStream, SfsStream, SfsErrors, Live, AheadWhole, Cur

\* The invariant of the directory listings holds in every state.
THEOREM ReaddirInvariant == Spec => []ReaddirInv
<1>1. ReaddirInv /\ [Next]_<<fvars, rvars, nvars, devars, povars, mvars, hevars, part>> => ReaddirInv'
  <2> SUFFICES ASSUME ReaddirInv, [Next]_<<fvars, rvars, nvars, devars, povars, mvars, hevars, part>>
               PROVE  ReaddirInv'
    OBVIOUS
  <2>0. Common
    BY DEF ReaddirInv, Common
  <2>1. CASE part = "readdir_ll" /\ LoReaddir /\ part' = part
    <3>1. Common' /\ LoStream'
      BY <2>0, <2>1, LoSeek, LoNext, LoLook, LoFill DEF ReaddirInv, LoReaddir
    <3> QED BY <2>1, <3>1 DEF ReaddirInv, Common
  <2>2. CASE part = "readdir_fh" /\ XmpReaddir /\ part' = part
    <3>1. Common' /\ LoStream' /\ counts'.errs = counts.errs
      BY <2>0, <2>2, LoSeek, LoNext, XmpLook, LoFill
         DEF ReaddirInv, XmpReaddir, xmp_readdir_seek, xmp_readdir_next, xmp_readdir_fill
    <3> QED BY <2>2, <3>1 DEF ReaddirInv, Common
  <2>3. CASE part = "readdir_hp" /\ SfsReaddir /\ part' = part
    <3>1. Common' /\ SfsStream' /\ SfsErrors'
      BY <2>0, <2>3, SfsSeek, SfsNext, SfsLook, SfsFill DEF ReaddirInv, SfsReaddir
    <3> QED BY <2>3, <3>1 DEF ReaddirInv, Common
  <2>4. CASE Environment /\ part' = part
    <3>1. /\ Common' /\ (LoStream => LoStream') /\ counts'.errs = counts.errs
          /\ SfsStream /\ SfsErrors => SfsStream' /\ SfsErrors'
      BY <2>0, <2>4, KernelReads, KernelSeeks, SourceChanges DEF Environment
    <3> QED BY <2>4, <3>1 DEF ReaddirInv, Common
  <2>5. CASE UNCHANGED <<rvars, part>>
    BY <2>5, ReaddirStutters
  <2> QED BY <2>1, <2>2, <2>3, <2>4, <2>5
          DEF Next, FilesNext, ReaddirNext, NotifyNext, DeviceNext, PollNext, MainNext, HelloNext
<1> QED BY <1>1, ReaddirInit, PTL DEF Spec

\* For every directory, every way to cut its listing into requests and every
\* change to it meanwhile: lo_do_readdir, do_readdir and xmp_readdir leave out
\* nothing that was there all the time, list nothing twice, tell the end only
\* when all is listed, and the last two fail only for entries that have gone.
THEOREM ListingsAreExact == Spec => []ListingExact
<1>1. ReaddirInv => ListingExact
  <2> SUFFICES ASSUME ReaddirInv PROVE ListingExact
    OBVIOUS
  <2>1. NothingSkipped /\ NothingTwice /\ EndIsEnd
    BY DEF ReaddirInv, SeenInv, EndInv, NothingSkipped, NothingTwice, EndIsEnd, Rising, Listed
  <2>2. ListingGoesOn
    <3>1. counts.errs \in Nat /\ counts.changes \in Nat
      BY RTypes DEF ReaddirInv
    <3> QED BY <3>1 DEF ReaddirInv, SfsErrors, ListingGoesOn, ErrorsPass
  <2> QED BY <2>1, <2>2 DEF ListingExact
<1> QED BY <1>1, ReaddirInvariant, PTL

=============================================================================
