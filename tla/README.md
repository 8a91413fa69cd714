# Verification of the cs140e-20win code base

The repository holds the code of an operating-systems course on the Raspberry
Pi: a small library for the pi (`libpi`), one for the laptop (`libunix`), a
simulated pi (`libpi-fake`), and the labs that use them. Much of the labs is
left to the student (`unimplemented()`). This project models the parts whose
logic is written out in the repository, checks the models with TLC on small
instances and proves the central facts about twelve of them with TLAPS for every
value of their constants. Lab 12 comes with a set of FUSE file systems that are
complete programs; they are the largest body of concurrent code in the
repository and are modelled too.

## 1. Inventory

| Component | State | Operations | Works with |
|---|---|---|---|
| circular queue, `libpi/libc/circular.h` | buffer, head, tail | push, push_n, pop, pop_nonblock, pop_n_noblk, peek, peek_n | shared by an interrupt handler and the code it interrupts; under the ESP lexer |
| ESP8266 lexer, `labs/10-esp8266/libesp/esp-lex*.{c,h}` | a circular queue, saved tails | getc, peek, read-in, take, restore and drop a checkpoint | fed by `esp_read`; used by the matcher |
| ESP8266 matcher, `esp-parse.c` | none of its own | match, match_line, match_tok, match_uint | checkpoints of the lexer |
| ESP8266 command engine, `esp-run.c`, `esp-commands.c` | active_p, out-of-order handler, open connections | issue a command, wait for echo and answer, reset, wifi, TCP, send, receive | the device over a serial line; `1-ping-pong/client.c` and `server.c` |
| fake-pi virtual machine, `labs/11-fuse/2-fake-pi` | pi memory, what each program waits for | ping, put32, get32, remote printing, reboot | two programs joined by a serial line; afterwards the boot loader |
| linked queue and thread blocks, `labs/6-threads/2-threads.new` | head, tail, count, links; run and free queue, tid, nalloced | Q_pop, Q_push, Q_append, Q_insert_after, th_alloc, th_free, end of rpi_fork | kmalloc, the scheduler |
| random numbers, `libpi-fake/pi-random.c` | state arrays, two pointers, saved positions | random_r, srandom_r, initstate_r, setstate_r | a program with several arrays |
| boot loader and `my-install`, `labs/2-bootloader`, `libunix/pi-echo.c`, `crc.c` | protocol position, clock, exit-string position | drain, wait_for_data, get_op, echo, checksum | laptop and pi |
| serial replay, `labs/5-replay/code` | log, message array, place to corrupt | log a byte, read, parse, print, corrupt | a recorded boot |
| FUSE low level pass-through, `passthrough_ll.c`, `passthrough_hp.cc` | node objects with descriptor and lookup count, mutexes, directory streams | lookup, forget, create, readdirplus, open, flush, release, ... | worker threads of libfuse, the kernel's counts |
| FUSE high level pass-through, `passthrough.c`, `passthrough_fh.c`, `fusexmp*.c`, `bbfs.c`, `hello.c` | descriptors in `fi->fh`, blocks of open directories | every handler | worker threads, the process's descriptor table |
| FUSE notify, device, poll and synthetic examples | contents, lookup_cnt, buffer, poll handles | lookups, updates, notifications, ioctl, poll | the kernel's cache, an updater or producer thread |
| FAT32 reader, `labs/13-fat32/1-code` | sectors, directory entries | check of MBR, volume id and FSINFO, list, look up | SD card driver (external) |
| pi C library | small buffers | printk, checksum | everything on the pi |
| timers, interrupts, gpio, uart, kmalloc, context switch, virtual memory, `pi-fs` | registers, tables | mostly unimplemented | - |

What is hard about this code:

* *Interleaving*: the ring has no lock and its two sides run at any time; laptop
  and pi, and host and ESP device, are concurrent programs joined by a byte
  stream.
* *Stale state*: a lexer checkpoint is a ring position whose bytes may be
  reused; a `va_list` is used again after a failed match; the position in a
  random-number array lives in pointers that are overwritten.
* *Timeouts and lost bytes*: pings are repeated while an answer is on its way; a
  booting pi loses what it is sent; the laptop stops reading when the line is
  quiet.
* *Unasked messages*: the ESP sends lines of an earlier session, busy lines and
  connection reports between a command and its answer.
* *Partial failure*: a FUSE handler makes several system calls, allocates and
  opens in an order of its own, and each of them may fail; the mains of the
  examples undo their set-up through a chain of labels.
* *Shared counts*: a node's lookup count is kept by the program and by the
  kernel, and replies and forgets cross; an object is freed on it.
* *Edges*: one slot of the ring must stay unused; only one of two pointers is
  tested for wrapping; counts are computed with unsigned subtraction.
* *Liveness*: waits with no timeout on the ESP, a ping that is repeated.

What makes each component correct: the ring delivers each byte once and in
order, without overwriting an unread byte; a rewind gives the same bytes again;
the command engine ends a command only with that command's answer and never
waits for a line that will not come; a fake-pi program sees the pi's memory as
its own and all of the pi's output; linked queues are sequences, blocks are not
lost or shared; each random-number array is a generator of its own; a trace
parses into the messages that were sent; the echo stops when the exit line was
printed and not before; a FUSE file system closes each descriptor once, frees a node
exactly when the kernel has forgotten it, lists each entry once, and leaves no
stale page in the kernel; a card's files are listed by their own names. `hazards`
in `PROJECT.json` lists the lines where these can go wrong and the properties
that would show it.

## 2. Modules

| Module | Models | Remarks |
|---|---|---|
| `CircularQ` | `circular.h` | one step per access to a field the other side may touch |
| `AbsFifo` | - | what the ring promises: a FIFO of bounded capacity |
| `Serial_proofs` | - | theorems about `CircularQ` and `Boot` |
| `EspLex` | `esp-lex.c`, `esp-lex-circ.*` | bytes are their places in the input |
| `LexSimple` | `esp-lex-simple.*` | the lexer that keeps all input; the specification of `EspLex` |
| `EspLex_proofs` | - | theorems about `EspLex` |
| `FakePi` | `fake-pi.c`, `pi-vmm.c`, `pi-message.h`, `can_read_timeout`, `wait_for_data` | both programs and the line |
| `FakePi_proofs` | - | theorems about `FakePi` |
| `EspCmd` | `esp-run.c`, `esp-commands.c`, `client.c`, `server.c` | lines, with the device as environment |
| `EspCmd_proofs` | - | theorems about `EspCmd` |
| `RpiThread` | `Q.h`, `rpi-thread.c` | two queues that share blocks |
| `AbsQueues` | - | the two queues as sequences |
| `RpiThread_proofs` | - | theorems about `RpiThread` |
| `PiRandom` | `pi-random.c` | several arrays, words modulo a power of two |
| `AbsRandom` | - | independent generators, each a recurrence |
| `PiRandom_proofs` | - | theorems about `PiRandom` |
| `FuseNodes` | - | kernel, source directory and descriptor table around the next two |
| `PassthroughLL`, `PassthroughHP` | nodes of `passthrough_ll.c` and `passthrough_hp.cc` | a step is a critical section or a system call |
| `MCFuseNodes` | - | picks the variant |
| `FuseNodes_proofs` | - | theorems about both variants |
| `FuseCalls` | - | system calls a handler is made of |
| `XmpFh`, `OldXmp`, `HighCalls`, `LowCalls` | handlers of `passthrough_fh.c`; of `fusexmp.c` and `fusexmp_fh.c`; of `passthrough.c` and `bbfs.c`; and of the low level variants where they do not touch nodes | a handler is a sequence of calls |
| `FuseFiles` | - | worker threads that run them interleaved |
| `FuseReaddir` | three ways to list a directory in pieces | kernel buffer, seeks, entries that change |
| `FuseNotify` | `notify_inval_inode.c`, `notify_inval_entry.c`, `notify_store_retrieve.c`, `invalidate_path.c` | updater, worker threads, kernel cache |
| `FuseDevice` | `cuse.c`, `cusexmp.c`, `ioctl.c`, `fioc.c` | ioctl in rounds |
| `FusePoll` | `poll.c`, `fsel.c`, `poll_client.c`, `fselclient.c` | producer, client in select |
| `FuseIO_proofs` | - | theorems about `FuseDevice`, `FusePoll`, `FuseNotify` and `FuseReaddir` |
| `FuseMain` | mains of the examples | every step may fail |
| `FuseHello` | `hello*.c`, `null.c` and the name spaces of the others | listings and reads in pieces |
| `MCFuse` | - | one of the programs at a time |
| `BootWords` | `simple-boot.h` | words of the boot protocol |
| `Replay` | `interpose.c`, `log-util.c`, `pretty-print.c`, `replay.c`, `trace.c` | both senders, log, parser, printer, corruption |
| `Boot` | `bootloader.c`, `simple-boot.c`, `send-recv.c` | the search for the pi |
| `PiEcho` | `pi-echo.c`, `my-install.c` | output in chunks |
| `EspMatch`, `EspRun` | `esp-parse.c` of labs 9 and 10, and the commands that use it | character by character |
| `Crc` | `crc.c` | the table as in the source |
| `Fat32`, `FatDriver` | `unicode-utf8.c`, helpers and drivers of lab 13 | one directory entry per step |
| `Printk` | `va-printk.c` | one item of the format per step |
| `MCLabs` | - | one of the nine programs at a time |

Operators whose name ends in a suffix such as `_nowrap` are seeded faults: a
variant of the definition they are named after with a plausible mistake in it.
No specification uses them. Each property is listed in `PROJECT.json` with a
seeded fault that it detects.

### CircularQ

Variables `c_buf`, `head`, `tail` are the fields of `cq_t`. The pushing and the
popping side each have a program counter (`ppc`, `cpc`) and their locals. A call
is split where it reads or writes a shared field: `cq_push` is `CallPush` (reads
head), `PushCheck`, `PushStore`, `PushPublish`; a pop is `PopCheck`, `PopLoad`,
`PopAdvance`; `cq_peek_n` pops for real, then `PeekNRestore` sets the tail back
and `PeekNAssert` is its closing assert. `Concurrent` says whether the sides are
two threads or one. `cq_nelem` is computed in words of `WORD` values, as
`unsigned` arithmetic is; CQ_N must divide WORD (8192 divides 2^32).
`cq_pop` panics on a ring it finds empty, as lines 80-81 do. (The older
`labs/6-threads/2-threads.new/circular.c:56-65` is another queue, which waits there; it
is not modelled.)

### EspLex and LexSimple

`Call` is `lex_getc` or `lex_peek`; when the ring is empty it goes through
`Readin` (one `esp_read` and push, with the asserts of `lex_readin`) and
`ReadinMore` (the loop's condition), then `Take`. `lex_get_ckpt`,
`lex_restore_ckpt` and `lex_drop_ckpt` are what the match routines do with
checkpoints, which nest. `Arrive` is the device. `MaxSpec` bounds what is
consumed under a checkpoint and `MaxBurst` what one read-in picks up; both are
properties of the input, not of the code.

### FakePi

`upc` and `ppc` are the places the two programs are in; `utx` and `ptx` hold
what a program still has to write of a message, so that messages interleave
byte by byte. Opcodes, characters and words are numbers, as on the wire: a
reader that lost step takes one for the other. The GPIO opcodes are
unimplemented in `pi-vmm.c` and not sent. `MaxWord` bounds the words (40 in the run). `patient` is fixed at the start of a
behaviour: when TRUE, a timeout fires only when the pi has nothing more to say
and nothing to do; when FALSE it fires whenever the line is empty.

### EspCmd

A library routine is the sequence of steps it makes (`do_at_cmd` is "puts",
"ack", "resp"), and `prog` is what the host still has to do. Each step consumes
one line of `toHost` as the loop in the code does; the drain before the reset (`EatLine`) takes a
line, or the beginning of one and leaves the rest as noise, with others arriving in between, until
it finds none. Lines carry, as history, the
number of the command they answer. The device is external: it echoes a
command, then answers with the lines the code expects, and may interject stale
lines before the first command, busy lines while it answers, connection reports
once the program is active, and ERROR for commands in `Refuse`. A `quiet` device
sends none of these except stale lines. `args` and `ch` record what happens to
the `va_list` of `cmd_responsev` and to the channel number.

### RpiThread and AbsQueues

`head`, `tail`, `cnt` and `next` are the fields of `Q_t` and of the blocks;
`s` is the sequence each queue should represent. `held` are the blocks a client
has taken. The thread switch is unimplemented in the repository, so `TakeNext`
and `Schedule` stand for any scheduler that uses the queue's interface; it is
assumed to hand in only blocks that it holds.

### PiRandom and AbsRandom

`arr` and `hdr` are the words of each array and the word before them; `fptr` and
`rptr` are offsets into array `pin`, which may differ from `state`: a generator
of type 0 leaves the pointers of the array before it in place. The loops of
`pi_srandom_r` are steps. Words are kept modulo `WORD`, a power of two, with
which addition and multiplication agree on the low-order bits. `Careful`
restricts `pi_initstate_r` to be called when the current array's saved position
is up to date. The refinement reads off each array the last words it produced.

### FuseNodes, PassthroughLL, PassthroughHP

`node`, `known`, `fds` and `lock` are the state of the process, `klook` and `hdl` that of
the kernel, `dir` the source directory. A request of a worker
thread is `th[t]`, with the place it is in; a step is a system call or a critical
section. `forget_one` of hp is three steps, so that others run where it has released a mutex or waits for
one: `forget_one` counts down and at 0 keeps `Inode.m` ("drop"); `forget_one_unlock`
takes `fs.mutex` and releases `Inode.m` ("erase"); `forget_one_erase` erases the object and
releases `fs.mutex`, for which `do_lookup_map` and a second forget wait meanwhile (`MapFree`).
A lookup that waits for `Inode.m` (`do_lookup_count`) may run before the first of these, between the
second and the third, or after the third. `lost` are descriptors that an error path of the code forgets; `uaf`
becomes TRUE when a handler touches a freed object, or is given one by the kernel
(`get_inode_gone`). `raced` is a history variable: hp's `do_lookup` took up
an object with count 0, or `forget_one` counted to 0 an object that a lookup waits for. It
marks the beginning of the race, not its damage, so that the properties can say what holds up
to it and that nothing goes wrong without it. Only the bound `LookAfterRace` reads it: `fuse_nodes`
starts no further lookup after the race, when of its properties only `OnlyByRace` and `SomeoneRuns` still say something
(the two violated runs and the proofs make no such restriction). The memory of an object that is erased while it is counted, locked
or waited for is not handed out again ("gone"), which is a bound. The kernel keeps its
directory lock: it does not look a name up while it removes it.

### FuseCalls, its tables, and FuseFiles

A handler is a sequence of calls such as `Alloc`, `OpenAs("new")`, `On("fh")`,
`CloseOf("new")`. After a call fails, only the calls that release something are
made, which is how every handler of these files is written; where one departs from it (a call after
a failed close, a missing free) its sequence says so. `FuseFiles` runs two requests at a
time on one descriptor table, in which the lowest free number is used again. A close
closes, whoever else has the number. `HAVE_COPY_FILE_RANGE` names the file systems that are built with
the handler under that `#ifdef`.

### FuseReaddir, FuseNotify, FuseDevice, FusePoll, FuseMain, FuseHello

Each is a program with its clients. `FuseReaddir` separates the kernel's offset,
the DIR stream with its buffer, and the entry kept back (`d.entry`). `FuseNotify`
counts contents by version and keeps `lookup_cnt` as the code does, by an
unprotected load and store. `FuseDevice` gives the same requests to four programs. `FusePoll` keeps
the poll handles and the sleeping client. `FuseMain` is the sequence of steps of
each main with the label each failing step jumps to. `FuseHello` lists a directory
and reads a file in pieces of any size.

### Replay, Boot, PiEcho, EspMatch and EspRun

Words have `W` bytes, which arrive one by one. The two boot loaders of `Replay`
follow the protocol in the comment of `log-util.c`, since they are the exercise
of lab 2. `Boot` keeps a clock modulo `TimerMod`. A matcher of `EspMatch` started at
a place gives the place where it leaves the stream and how far it looked; one that
looks beyond what has arrived waits in `lex_readin`.

### Crc, Fat32, Printk

Algorithms over bytes, checked against a definition of their own: division by
the polynomial bit by bit; the files a card was written with; the digits of a
number. 32-bit words of `Crc` are pairs of 16-bit halves. `Fat32` keeps of an
entry the fields the code looks at.

## 3. Runs

| Run | Configuration | Result | Distinct states |
|---|---|---|---|
| `cq_lockfree` | ring of 3, two threads, push against pop, pop_nonblock, pop_n_noblk, peek; 6 bytes | holds | 29 016 |
| `cq_onethread` | ring of 4, one thread, every operation, batches to 3; 5 bytes | holds | 272 074 |
| `lex_safe` | ring of 6, reads of 2, bursts of 3, 2 bytes under a checkpoint, 2 checkpoints, 8 bytes | holds | 9 372 |
| `lex_rollback` | the same lexer with bursts too large for the ring | violated | - |
| `fakepi` | 2 addresses, 3 values, 3 calls, patient and impatient timeouts | holds | 240 455 |
| `esp` | client and server, quiet and noisy device, 3 unasked lines, 2 rounds | holds | 17 188 |
| `fuse_nodes` | ll and hp, 2 threads, 2 names, 2 files with hard links, 2 nodes, 3 descriptors, 1 failing call | holds | 1 669 665 |
| `fuse_uaf` | hp alone | violated | - |
| `fuse_erase` | hp alone | violated | - |
| `fuse` | eighteen programs; 2 threads, 4 entries, 2 versions, 3 bytes, 8 poll handles | holds | 665 523 |
| `fuse_copy` | the same with `passthrough.c` built with `HAVE_COPY_FILE_RANGE` | violated | - |
| `labs` | nine programs; words of 2 bytes, 3 files, messages of 2 bytes, ints of 6 bits, 3 thread blocks and 5 tids, 2 random-number arrays with 3 seedings and 4 other calls | holds | 1 240 041 |

Where a run's property is a conjunction, its parts are named below.

* `cq_lockfree`: the bytes popped are the bytes pushed, in order (`InOrder`); the
  ring holds exactly the unread ones (`RingHoldsUnread`); a batch pop that saw enough bytes never finds the
  ring empty (`PopSideSafe`); the ring refines `AbsFifo` with CQ_N-1 places
  (`ImplementsFifo`). Six bytes go round a ring of three twice, so every pair of head and tail occurs
  full, empty and wrapped, and the unsigned subtraction goes below zero.
* `cq_onethread`: `OneThreadSafe` is the same safety properties with `cq_peek_n`
  and `cq_push_n`, which are safe only when one thread makes all calls; that a
  peek returns the oldest byte (`PeekSeesFront`); and the exact case in which
  `cq_push_n` panics (`PushNStopsOneShort`).
* `lex_safe`: when the ring has room for the input under a checkpoint and one
  burst, a rewind is exact, nothing panics, and the lexer refines the one that
  keeps everything. Eight bytes wrap the ring of six under nested checkpoints.
* `fakepi`: with any timeouts, `get32` returns the program's last `put32` and
  output appears in order. With patient timeouts, neither side panics
  (`NoPanics`), the program exits (`Finishes`), and by then all writes are done and
  all output is printed (`ExitComplete`; both in `ExitsClean`). The
  addresses and values include opcode numbers (3 is PI_PRINT_CHAR, 14 PI_PUT32).
* `esp`: a command is ended only by its own answer and commands do not overlap
  (`AnswersMatch`, `OneAtATime` in `AnswersInStep`); set-up survives stale and busy
  lines, and with a quiet device the channel number is stored (`SetupNeverPanics`,
  `ChannelStored` in `SetupWorks`); the host never hangs; with a quiet device the
  program completes. After set-up an
  unasked report makes the code panic by design ("AFAIK: should never receive
  unexpected messages"), which is why `SetupNeverPanics` stops there.
* `fuse_nodes`: every open descriptor has one owner, but for those that known
  error paths forget (`OneOwner`); a lookup count is what the kernel holds plus
  what replies and forgets under way will change (`RefsExact`); a node the kernel
  may name is alive and its descriptor denotes its file, lookups and creates
  answer with the right node, and hp has one node per file (`KnownNodesLive`,
  `RightNode`, `HandleOfNode`, `HPOneNodePerFile` in `NodesRight`); the mutexes
  never stop every thread (`SomeoneRuns`). Two threads, two names and two files
  are enough for a lookup to race with a forget, an unlink, a rename and a second
  lookup of the same file, and for a descriptor and an inode number to be used
  again. For hp the properties are claimed until a lookup takes up an object that a forget is
  removing (`raced`); `NodesRight` also says that ll has no such race (`OnlyHPRaces`) and that no
  object is used after it was freed unless it has begun (`OnlyByRace`). What follows from the
  race is what `fuse_uaf` and `fuse_erase` show.
* `fuse`: descriptors and blocks have one owner, no handler closes what it has closed, a request that
  fails leaves nothing behind (but for hp's opendir, see below) and calls reach the file they are meant for, in seven file
  systems (`FdOwners`, `ClosesHeld`, `HeapOwners`, `NoLeak`, `UsesOwnFile` in `FilesOwned`), of
  which `passthrough.c` is built without `copy_file_range`;
  listings in pieces are complete (`NothingSkipped`, `NothingTwice`, `EndIsEnd`,
  `ListingGoesOn` in `ListingExact`); the kernel holds no stale page
  (`CacheFresh`, `CountExact`, `RetrieveMatches` in `CacheRight`); the device is an
  array of bytes (`HoldsWritten`, `ReadsWindow`, `SizesReported` in `DeviceRight`);
  no wake-up and no handle is lost (`NoLostWakeup`, `HandlesInTable` in
  `PollRight`); a failing main takes down what it set up (`UndoesWhatItDid`,
  `LeavesNothing` in `MainsUndo`); listings and files are served whole
  (`ListingWhole`, `FoundWhatListed`, `ReadsWhole` in `ServesWhole`). The kernel's buffer
  has room for one or two entries, which cuts a listing of four everywhere.
* `labs`: a trace is what was sent, parses into it, prints, and is corrupted where
  it matters (`LogFaithful`, `ParsesExchange`, `PrintsNamed`, `CorruptsBefore`,
  `OneByteDiffers` in `TraceFaithful`); waits last 300 ms when the clock wraps
  and the drain ends in step (`WaitsInterval`, `DrainsInStep` in `BootInStep`); the
  echo stops only when the exit line was printed, and then always (`DoneOnlyIfPrinted`,
  `LineAlwaysSeen` in `EchoStops`); lines and numbers are read whole and no matcher
  waits for nothing (`SeesWholeLines`, `NeverWaitsForNothing`, `NumberWhole` in
  `LinesWhole`); the table computes CRC-32 (`CrcIsRemainder`, `CrcResumes`,
  `CrcSeesByte` in `CrcRight`; a first byte of every value, and of two values
  after it); a card is read as it was written (`ListsEveryFile`,
  `NamesTheRightFile`, `LookupFinds`, `PartitionPrints`, `ClusterKinds`,
  `Utf8BothWays` in `CardRead`); printk truncates and prints numbers right
  (`TruncatesOnly`, `NumbersReadBack` in `PrintkRight`).
  Of the thread queues, links, count and tail agree with the sequence (`WellLinked`),
  each block is in one place (`OnePlace`), none is lost (`NoLeak`), live threads
  differ in tid (`TidsUnique`; the four are `BlocksWellKept`), and the queues
  refine sequences (`ImplementsQueues`). Three blocks give a first, a middle and a last element.
  Of the random numbers, the pointers stay their separation apart inside the current array
  (`PointersApart`), an array taken up again goes on where it was left
  (`ResumesWhereLeft`; both in `PositionsKept`), seeding computes
  16807 * x % 2147483647 (`SeedsByTheBook`; here 7 * x % 61, with a seed above the modulus), and
  the arrays refine independent generators (`ImplementsGenerators`). The degrees are shortened to
  3 and 4; the run also evaluates the assumptions on the real tables. Two arrays that are seeded
  once each leave a third seeding for one that was used before, and four calls take
  both arrays through a draw and back.

Deadlock checking is off where a behaviour ends: a client with no calls left,
bounded requests, and the programs of `fuse` and `labs`, which exit. There
`SomeoneRuns` and `NeverWaitsForNothing` say what a deadlock would be.

### Where the code departs from what it says

Four runs state what a comment, an assertion or a document says and show a counterexample.

1. A checkpoint of the lexer does not protect its bytes from a later read-in
   (`lex_rollback`); the condition under which it does not matter is the
   assumption of the theorems below.
2. In `passthrough_hp.cc` a lookup uses an object after it released the mutex
   that protects it; a forget in between erases the object (`fuse_uaf`).
3. `forget_one` of `passthrough_hp.cc` releases the object's mutex (line 555) before it erases
   the object (556); a lookup that waits for that mutex counts itself in between, and answers the kernel with a
   node that is gone: the next request is for what `get_inode` calls an unknown inode
   (`fuse_erase`).
4. `copy_file_range` of `passthrough.c` closes the descriptors in both `fi->fh` (lines
   480-481), which stay the kernel's until release (`fuse_copy`).

Others are stated by a passing property as the condition under which the code is right:

5. `cq_nspace` counts the slot that must stay unused, so `cq_push_n` of one
   byte too many is accepted and panics half way (`PushNStopsOneShort`). With the
   lexer's ring of 1024 and its 1024-byte reads this is a full read into an
   empty ring.
6. A second ping, sent because the first echo was late, makes the pi panic:
   `NoPanics` holds only for patient timeouts.
7. `pi_initstate_r` does not save the current array although its comment says
   it does: `ResumesWhereLeft` needs `Careful`.
8. A busy line before `<n>,CONNECT` uses up the `va_list` that `cmd_responsev` passes again, so that
   the channel number goes astray (the ping-pong programs are built for the laptop, where a
   `va_list` is an array and a callee's `va_arg` moves the caller's): `ChannelStored` is
   claimed for a quiet device only.

Seen while modelling, by component:

* Ring and ESP: `cq_push_n`'s `assert(!cq_empty)` (line 138) and `cq_peek_n`'s
  `assert(sz == cq_nelem)` (line 124) do not hold when the other side runs in
  between, although line 41 calls the ring lock free; `cq_pop` panics where its
  comment says it waits; a stale `AT+RST` echo would be taken by `cmd_ack` for the
  echo of the new one; `handle_ooo_server` panics before it looks at the message
  (`esp-commands.c:73`). The matchers panic on a line of which the format is a
  prefix ("AT" against "AT+RST"); lab 9's drain before a reset leaves buffered
  bytes behind.
* Boot and echo: after a partial word the drain never gets back in step;
  `get_byte` panics at its timeout; DDONE!!! and "DONE!!!\r\n" are not
  recognised; `buf[n] = 0` of `pi_echo` is one past the end after a full read, and
  `read_timeout` keeps the result of `read` in an unsigned variable. The laptop's
  last drain relies on the boot loader completing a word it started.
* Replay: the counter that starts again at `log-util.c:382` overwrites the bad
  data, which is why the printer never meets it; a log that ends in a word is
  read with `op` uninitialised; bytes of one side inside a word of the other are a
  parse error; `n-4` (`replay.c:56`) wraps for shorter logs, and BOOT_SUCCESS in
  the last four lines is not found.
* Pass-through: ll may have two nodes for a file and loses the descriptor of a
  create whose lookup fails; hp loses those of refused files, of lookups that run
  out of memory and of an opendir whose fdopendir fails;
  ll's readdirplus fails for good on an entry
  that was removed while it was kept back; `bbfs.c` does not rewind its stream.
* Notify: the asserts on a notification fail with ENOENT once the kernel forgot
  the inode; `lookup_cnt` is not protected without `-s`; `notify_inval_entry.c`
  compares the name before it counts the lookup; `retrieve_status` is tested and
  set by two threads; the updater is never stopped, and when it cannot be
  started the mount stays.
* Devices: FIOC_SET_SIZE ignores that `realloc` failed; offset plus size of a
  write may wrap; `fsel_open_mask` is not protected without `-s`; `xmp_read` of
  `invalidate_path.c` ignores the offset; `examples/null.c` returns a buffer it did
  not fill.
* FAT32: `fat32_dir_filename` does not compare the checksum, and shows a stale
  long name; it removes spaces inside a name; `lfn_print` wants fewer than three
  entries where `fat32_dir_filename` has no limit; `is_pow2(0)` holds;
  `lfn_is_deleted` tests bits instead of the value; 512 bytes are too few for 255
  characters of three bytes; the end of the UTF-8 table is not a null pointer;
  surrogate pairs become two sequences of three bytes.
* printk: returns the bytes written with the NUL, not the length snprintf would
  return; with n = 0 it writes one byte; a format that ends in '%' panics. The CRC
  table is in three files, and a fourth time in `simple-boot.h`.

### Fairness

* `fakepi`: weak fairness of each program: two processors that run. That the
  program finally calls `clean_reboot` follows from the bound on its calls, as
  `main` calls it when `notmain` returns. No fairness for timeouts is assumed
  beyond that of the program that waits for them.
* `esp`: weak fairness of the host, of the device for answering a command it was
  sent, and of the peer, which connects and sends when it is waited for. Unasked
  lines are never forced.
* The other runs check safety only and assume no fairness.

## 4. Proofs

The modules whose names end in `_proofs` hold for every value of the constants
allowed by the named assumptions in the modules. Each has the same shape: lemmas
about the operators, an inductive invariant (checked by TLC on the run's
configuration before it was proved, but for `Boot`'s, whose quantifier over sets of places TLC
cannot enumerate), one step per action that it is kept, and the
properties it implies.

| Module | Theorems | Properties of the runs |
|---|---|---|
| `Serial_proofs` | `RingInvariant`, `RingInOrder`, `RingContents`, `PeekAndPopN`, `RingImplementsFifo`, `RingOneThread`, `BootStaysInStep` | `InOrder`, `RingHoldsUnread`, `PopSideSafe`, `ImplementsFifo`, `OneThreadSafe`, `BootInStep` |
| `EspLex_proofs` | `LexRollback`, `LexNoPanic`, `LexRefines` | `RollbackExact`, `LexNeverPanics`, `ImplementsSimple` |
| `FakePi_proofs` | `GetsReturnLastPut`, `OutputComesInOrder`, `RunsExitClean` | `GetReturnsLastPut`, `OutputInOrder`, `ExitsClean` |
| `RpiThread_proofs` | `ThreadBlocks`, `QueuesAreSequences` | `BlocksWellKept`, `ImplementsQueues` |
| `PiRandom_proofs` | `PositionsAreKept`, `SeedsAreByTheBook`, `ArraysAreGenerators` | `PositionsKept`, `SeedsByTheBook`, `ImplementsGenerators` |
| `FuseNodes_proofs` | `DescriptorsHaveOneOwner`, `CountsAreExact`, `NodesAreRight`, `NoDeadlockOnMutexes` | `OneOwner`, `RefsExact`, `NodesRight`, `SomeoneRuns` |
| `EspCmd_proofs` | `EspInvariant`, `AnswersStayInStep`, `SetupGetsThrough` | `AnswersInStep`, `SetupWorks` |
| `FuseIO_proofs` | `DeviceIsRight`, `PollInvariant`, `PollsAreRight`, `NotifyInvariant`, `NotificationsAreRight`, `ReaddirInvariant`, `ListingsAreExact` | `DeviceRight`, `PollRight`, `CacheRight`, `ListingExact` |

**Ring.** Under `SafeUse` (two threads do not use `cq_peek_n`; one thread may use
everything) `RingInvariant` shows `IInv`, the conjunction of the type
invariant, `InOrder`, `RingHoldsUnread`, `PeekSeesFront` and what each side may
rely on at each place: a pusher that has passed the full check has room until
it publishes, because the other side only makes room (`PushInv`); a popper past
its check has a byte, because the other side only adds (`PopInv`); `cq_peek_n`
has moved the tail by as many bytes as it has read (`PeekInv`). The properties
alone are not inductive: they say nothing between a check and the access it
guards. The arithmetic lemmas reduce `%` to the case distinction `Slot`, and
`DistanceInWord` shows that the unsigned difference is the distance when CQ_N
divides the word size. From `IInv` follow `RingInOrder`, `RingContents`,
`PeekAndPopN` and, step by step, `RingImplementsFifo`. For one thread
`BatchInv` adds what a batch has left to push, from which `RingOneThread` shows that
`cq_push_n` panics exactly when it is one byte too long.

**Boot protocol.** `BootStaysInStep` is about `BootSpec`, the part of `MCLabs` that is `Boot`, for
any size of a word, any interval, longest string and number of messages. What TLC cannot see on a line of
three messages is that the laptop stays in step forever. `Framed` says it without recursion: there is
a set of places on the line that contains the next one and the end, and at each of them but
the end stands a whole message that leads to another. A message put on the line adds one place, a byte
read shifts them all. `WholeInv` says where in the current message the reader is; if the
line started within a word, `SplitInv` says that every word it reads is the end of one
GET_PROG_INFO and the beginning of the next, which is neither of the words it knows
(`SplitOp`), until something is printed. The assumption `BootAssumption` asks that the interval and the
time between two looks at the timer together do not exceed a turn of the timer (300 ms and a few
instructions, against 71 minutes); then the difference modulo the word is the time that passed
(`WrapFacts`).

**Lexer.** Under `SafeBurst`, MaxSpec + MaxBurst < CQ_N, the theorem `Inductive` shows the
invariant `StreamInv /\ CkptInv /\ ReachInv`. It is stated relative to the
oldest checkpoint (or the cursor when there is none): from there the ring holds
the input byte by byte up to head, every checkpoint lies at its byte, checkpoints
are ordered, and the distance to the oldest one is at most MaxSpec, so that a
read-in of at most MaxBurst bytes ends before it. From it follow `LexRollback`,
`LexNoPanic` and `LexRefines`. Its assumption is exactly what `lex_rollback`
drops.

**Fake pi.** The invariant describes the two byte streams as wholes: what
the laptop's side has sent and the pi not read (`Up`, on the line or still to be
written), and the other direction (`Down`). `Phases` is the
list of what both streams may hold together with both program places, from silence
over the handshake and single commands to the reboot; each phase has a lemma that
says which phases a step leads to. That opcodes, characters and words are numbers
costs nothing here: a stream is parsed in one way only. With impatient timeouts one
more phase, `Doomed`, has a ping too many on its way, and the only step out of it is
the pi's panic, before any memory or output is lost. The proof asks nothing of the
words and texts but that they are numbers, so an opcode may occur as data.

**Thread blocks.** `WellLinked` and `OnePlace` are inductive with the type
invariant, since a `Q_*` call rewrites the links of one queue and the blocks in
it are nobody else's. `TidsUnique` needs `TidsBelow`: the counter is above every
live tid. The refinement follows from the lemmas on `With` and `Without`, which
say what inserting into and removing from a sequence leaves at each place.

**Random numbers.** The pointers are not kept in a form that says where an array is:
`InUseInv` ties the rear pointer of the current array to the number of words it
produced, and `SavedInv` the header of every other. A seeding in progress has an
invariant of its own (`LoopInv`). `Careful` says that the caller uses
`pi_initstate_r` only on a saved position; `PositionsAreKept` and
`ArraysAreGenerators` need it, `SeedsAreByTheBook` does not: the
division trick never overflows for any multiplier and modulus for which the quotient
exceeds the remainder (`ArithAssumption`, as 127773 > 2836).

**Commands and answers.** The two programs are fixed sequences of dozens of lines sent and awaited,
with a loop at the end; an invariant that listed their places would be as long.
Instead both are shown to be paths in one automaton (`Path`, `Edge`), whose states are a stage of
the program, the command being answered and the line waited for. The invariant `EspInv` says that
what is left of the program is a path from some state of it (`Here`), and for that state what is on
the line (`Hold`): nothing but noise while no command is out (`Idle`), the command itself before
the device has taken it (`Issued`), and then the lines of its answer from the awaited one on, in
order, some on the line among noise and the rest still in the device (`Answering`). It is not
enough that the awaited line will come; noise must not be taken for it. That is
`ToldApart`: the lines left from an earlier session do not include an echo
of AT+RST, and no report made unasked reads like a line of a send's answer. The first is a
real condition on the device: `esp_hard_reset` throws away what has already arrived, but a line that comes
after is compared with the echo. `SetupGetsThrough` also assumes `Willing`, that the device refuses
nothing during set-up: `cmd_response` panics on ERROR by design. The run's constants satisfy both.
`Flags` says at each stage whether the host is active and, for a quiet device, whether the channel
has been stored.

**Nodes of the pass-through file systems.** The theorems hold for both variants and any
number of threads, names, files, objects, descriptors and failures. None of the four
properties is inductive. The invariant adds, for every place in a handler, what the
thread may rely on (`ReqRight`): that `newfd` still denotes the file openat found, that
a node it is going to answer with is that file's, that a node under a `link` is one the
kernel knows, that an object being removed is live with count 0, that at "drop" its mutex is the thread's, and
that an object a lookup of hp waits for is live and the right one. `Refs` states the counts as an equation over all threads (what the kernel
holds, plus `InFlight`, plus `Returned`; 0 for a node off the list), and `Owed` reads off it
that a node something is due to is live. Most of the proof that a node is not
freed under a handler is this: the step that frees one shows that nothing is due to it.
Sums over threads are cardinalities of sets of pairs, so that `DueStep` can say that a
step of one thread changes them by that thread's part. `Once` names for each open
descriptor the single variable that holds it, over five kinds of variables, and the
lemmas `OnceOpen`, `OnceClose` and `OnceMove` say what opening, closing and handing over do
to it; one of the places is `lost`, for the error paths that forget a descriptor. `Locks`
says that only a thread at "drop" keeps the mutex of a node from one step to the next,
and a thread at "erase" waits for nothing, which is what makes waiting harmless.
`Freeing` says that one thread removes a node and no waiting lookup meets it. That part is what the
race destroys, and `raced` becomes TRUE in exactly the steps that would: `do_lookup_map` for an
object with count 0, `forget_one` for one that is waited for. So `IInv` is kept by every step that
leaves `raced` FALSE (`NextOK`), and the invariant of every behaviour is `Safe`: ll never races, nothing freed is used
unless the race has begun, and until then `IInv` holds. The theorems claim accordingly: for ll
everything always, for hp everything up to the race. `NoDeadlockOnMutexes` is claimed up to the race too;
TLC checks `SomeoneRuns` beyond it, up to the first use of a freed object.

**Devices and poll.** `DeviceIsRight` needs `ImageInv`: behind its size the device
is clear, so a later growth shows zeros and not old bytes. `PollsAreRight` rests on
`HandleInv` (the mask, the table and the handles alive agree, no handle twice)
and `WaitInv`: while `select` has seen no ready file and has not been woken, each
file it asked about is still empty and has a handle in the table. Without the part
about a poll in progress it is not inductive: the producer may run
between two `fsel_poll` calls of the same `select`.

**Notifications.** `CacheRight` says nothing of an update that is not announced yet, and
nothing of a read whose answer has not reached the kernel's cache; `NInv` must. `Told`
names the places of the updater at which it has announced every version it wrote, for each of
the four programs and for each file of `invalidate_path.c` on its own; there a cached page and
every answer under way hold the current content (`Fresh`). `CountExact` is kept because a
request under way counts too: `lookup_cnt` is what the kernel knows, plus what its forgets
carry, plus what a lookup has counted and not answered (`Counted`), and with `-s` a value that a
handler loaded is the current one (`OneRequest`). Without `-s` the last two are not claimed, as the
code does not protect the counter. `PagesKnown` is what lets the updater skip a
notification when the count is 0: of an inode it does not know the kernel caches nothing.
`RetrieveMatches` needs `AskRight`, that data on its way back belongs to its cookie.

**Listings.** Three positions have to agree: the kernel's offset, `d->offset` and the
stream's own place in a directory that glibc has partly read ahead. `SeenInv` and `GotInv` say that
the kernel's list, and the buffer of the request under way, hold every entry that stayed in the
directory up to the last one in them, in order. `LoStream` says for ll and fh that the
stream stands at the entry kept in `d->entry`, or else at `d->offset`; `SfsStream` for hp that
it stands at `d->offset`, further on than the buffer only while an entry is being added. Both
matter only as long as the next request goes on where the last one ended (`Live`); any other
begins with a seek. `AheadWhole` says that what glibc read ahead lacks no entry that stayed.
`ErrorsPass` needs a potential: an entry read ahead that has gone since leaves `errs` below
`changes` (`SfsErrors`), so that the answer it will cost is paid for.

**Model-checked only.** Liveness (`Finishes`, `NeverHangs`,
`Completes`): the prover does not handle fairness. `FuseCalls` and `FuseFiles`; `FuseMain` and `FuseHello`, whose programs are fixed, so that TLC
has seen every behaviour of the former and all but longer files of the latter; and the other modules of the run `labs`, most of which are algorithms over
given inputs, recursive in the length of a message or a file. `Crc` uses bitwise
operators, with which nothing can be proved.

## 5. Not modelled

Code that is unimplemented in the repository (the transfer steps of the boot
loader, thread switch, kmalloc, gpio, uart, software uart, FAT32 file
operations, page-table operations, pi-fs callbacks, forwarding in the replay
lab) has no behaviour to model. `libpi/cs140e-objs` are binaries. Assembly,
register layouts, tty set-up and option parsing are left out, as are vendored
headers (`cxxopts.hpp`, `platform.h`, `fuse.h`) and command line front ends without
state (`ioctl_client.c`, `cuse_client.c`, `printcap.c`). In the FUSE modules libfuse,
the kernel and the source file system are the environment; the data of reads and
writes of the pass-through file systems, extended attributes and locks are calls
that succeed or fail. The FAT32 reader is given its sectors.

## 6. Plan

Done: all modules above and the proofs of section 4.

Next:

1. Proofs: `FuseCalls` (`FilesOwned`) and the small machines of the run `labs`.
2. Liveness of `FusePoll` (a client that waits is woken) and of `FuseNotify` (an
   update is seen).
3. The shift register of `rpi-rand.c`, `hash.c` and the string routines.
