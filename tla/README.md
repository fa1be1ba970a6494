# A TLA+ verification of the xv6-riscv kernel

This directory holds TLA+ models of the kernel under `src/kernel`, of the shell and of
the user allocator under `src/user`; the TLC configurations that check them on small
instances; and proofs that TLAPS checks for instances of every size. `PROJECT.json`
lists the components, the runs, the mutants that each property detects, the source
lines behind each definition, the hazards and the theorems.

Contents: [the system](#the-system), [the modules](#the-modules),
[what the runs check](#what-the-runs-check), [bounds](#bounds),
[fairness](#fairness), [what is proved](#what-is-proved),
[what is only model-checked](#what-is-only-model-checked),
[disagreements and observations](#disagreements-and-observations),
[what is not modelled](#what-is-not-modelled), [how to run](#how-to-run).

## The system

xv6 is a small Unix kernel for a RISC-V machine with several CPUs. Every CPU runs
`scheduler()`; processes enter the kernel by system calls and by interrupts, and
the kernel is preemptible wherever no spin lock is held.

| part | state | operations | shares it with |
| --- | --- | --- | --- |
| processes (`proc.c`) | `proc[]`: state, chan, killed, parent, one lock each; `wait_lock` | `scheduler sched yield sleep wakeup fork exit reparent wait kill` | everything that sleeps |
| log (`log.c`) | on-disk header and log blocks; `log.lh`, `outstanding`, `committing` | `begin_op log_write end_op commit`, recovery at boot | buffer cache, file-system calls |
| buffer cache (`bio.c`, `sleeplock.c`) | `NBUF` buffers with refcnt, valid, sleep lock, LRU list | `bget bread bwrite brelse bpin bunpin` | log, disk driver |
| disk driver (`virtio_disk.c`) | descriptors, avail and used rings with 16-bit indices | `virtio_disk_rw virtio_disk_intr alloc3_desc free_chain` | buffer cache, the device |
| inodes, directories, names (`fs.c`, `sysfile.c`) | inodes on disk; `itable` with ref, valid, sleep lock | `iget iput ilock ialloc namex dirlookup dirlink`, the calls on names | log, buffer cache |
| file contents (`fs.c`, `file.c`) | bitmap, block lists, file sizes, `f->off` | `balloc bfree bmap itrunc readi writei filewrite` | log, buffer cache |
| file table (`file.c`, `sysfile.c`) | `ftable` with reference counts, descriptors | `filealloc filedup fileclose fdalloc`, `pipe dup open close` | pipes, inodes, processes |
| pipes (`pipe.c`) | ring of `PIPESIZE` bytes, two free-running counters, two open flags | `pipewrite piperead pipeclose` | file table, processes |
| console input (`console.c`) | ring with indices r, w, e | `consoleintr consoleread` | UART, processes |
| UART output (`uart.c`) | ring with indices, the device's FIFO | `uartputc uartstart uartintr uartputc_sync` | console, printf |
| memory (`kalloc.c`, `vm.c`, `exec.c`) | free list, page tables | `kalloc kfree uvmcopy uvmalloc uvmdealloc freeproc exec`; `copyin copyout copyinstr` | processes |
| shell (`user/sh.c`, `user/init.c`) | a tree per command line | `parsecmd runcmd main` | file table, pipes, processes |
| user allocator (`user/umalloc.c`) | circular free list | `malloc free morecore` | `sbrk` |
| spin locks, traps, PLIC, boot, printf, mkfs, other user programs | | | |

What makes it hard to test is listed in `PROJECT.json` under `hazards`, each at
the line where it bites. The main groups:

- a crash between any two disk writes of a commit or of a recovery;
- a process that tests a condition, then sleeps, while the event comes between;
- a lock that one process takes and another context releases (`sched`/`scheduler`);
- a lock dropped before an object is finished with (`bget`, `iput`, `fork`, `brelse`);
- objects recycled while somebody still refers to them (buffers, inodes, pipe
  pages, descriptors, process slots);
- counters that wrap (`nread`, `nwrite`, `cons.e`, the ring indices);
- a device that works in parallel with the code that reads its rings;
- resources that run out half-way through a call: pages, blocks, log space, files,
  descriptors, process slots.

## The modules

Each module describes its granularity in its header. In general a section under
one spin lock that takes no other lock is one step, because nobody else can see
the state inside it; where a second lock, a sleep, a device or a `kill()` can
come between, the code is cut into steps there. Operators keep the names of the C
functions; the step of a function that stands for its second or later part is named
after the function and the part (`unlink_ip`, `start_write`). An operator whose
name extends that of the definition right after it (`submit_shared` before
`submit`) is a mutant of that definition: the same code with a plausible mistake.
No specification uses it.

| module | models | state | abstract specification |
| --- | --- | --- | --- |
| `Log` | `log.c`; the caller's side from `fs.c` | home blocks, log blocks and header on disk; cached contents, pins, `log.lh`, `outstanding`, `committing` | `AtomicDisk` |
| `Proc` | `proc.c`, the timer's and `usertrap`'s part in it | `proc[]`, the locks with the CPU that holds them, `c->proc`, a pc for each kernel stack | |
| `BufCache` | `bio.c`, `sleeplock.c` | buffers, LRU list as a sequence, disk | `BlockStore` |
| `VirtioDisk` | `virtio_disk.c`; the device is external | descriptors, rings, `info[]`, the device's position and requests in flight | |
| `Pipe` | `pipe.c` with fork, close and kill around it | `struct pipe`, who has which end open | `ByteQueue` |
| `Console` | `console.c`, input | `cons`, the readers | `LineInput` |
| `Uart` | `uart.c`, output; the 16550 is external | transmit ring, lock, FIFO, interrupt | `ByteQueue` |
| `Inode` | `fs.c` and `sysfile.c`: table, directories, names | inodes on disk, `itable`, locks, locals of each call | |
| `FileData` | `fs.c` and `file.c`: blocks and contents of files | bitmap, block lists in memory and on disk, blocks, the open transaction | contents in the order of the writes |
| `Memory` | `kalloc.c`, `vm.c`, `exec.c`, the memory part of `proc.c` | free list, which page each pointer holds, what each table maps, where each call is | |
| `UserCopy` | `copyin`, `copyout`, `copyinstr`, `fetchaddr`, `pgaccess` | (functions) | a definition byte by byte |
| `FileTable` | `file.c`, descriptors in `sysfile.c`, the ends of pipes | `ftable`, `ofile`, pipes, references to inodes | |
| `ShParse` | the parser of `sh.c` | (functions) | a second grammar for the language |
| `Shell` | `runcmd`, `main` of `sh.c`, `init.c`, over `FileTable` | scripts of system calls, process tree | where each command has to read and write |
| `Umalloc` | `umalloc.c` | (functions over a heap) | |
| `LogProofs` | proofs about `Log` | | |
| `ProcProofs` | proofs about `Proc` | | |
| `PipeProofs` | proofs about `Pipe` | | |
| `BufCacheProofs` | proofs about `BufCache` | | |
| `VirtioDiskProofs` | proofs about `VirtioDisk` | | |
| `MemoryProofs`, `MemorySteps`, `MemoryInvariance` | proofs about `Memory` | | |
| `MC...` | instances for TLC: symmetry, views, sets of requests | | |

How the modules fit together: each takes from its neighbours only what these
promise. `Log` uses a cache reduced to content, pin and lock, which is
what `BlockStore` offers and `BufCache` implements; `BufCache` uses a disk whose
`virtio_disk_rw` returns after the transfer, which is `TransferDone` of
`VirtioDisk`; `Inode` and `FileData` take every system call for atomic with respect to
crashes, which is `AtomicDisk`. `Shell` is a composition: it extends `FileTable` and
`ShParse`, runs the trees that the parser returns, and takes from `Pipe` that a read
blocks until there is a byte or no writer. `sleep()`/`wakeup()` without lost wakeups,
which all modules but `Proc` use, is the subject of `Proc`.

### Log

`begin_op`, `log_write` and `end_op` are one step each, under `log.lock`. A commit
is a sequence of steps with one disk write each (`write_log` and `install_trans`
per block, `write_head`, `erase`), and `Crash` may come between any two: it empties
the cache and `log.lh` and starts `read_head`, `install_recovering`, `clear_log`,
which may crash again. `recycle` drops an unlocked, unpinned block from the cache
at any moment, as any `bget` may. `bread`, `modify`, `brelse` are the file-system
call in between; it logs at most `OPBLOCKS` different blocks. `copyin_fails` is
`writei()`'s error path (`fs.c:522-525`): the copy into a file's block fails half-way,
and the block is released changed and not logged. `torn` is the set of such blocks;
`AtomicDisk` calls them `loose`: the file system sees the change, it goes when the buffer
is recycled or the machine crashes, and it is committed if a later call logs the block.

### Proc

Each CPU is in `scheduler()` or runs a process; `proc[c]` stays set until the
scheduler has the stack back, as `c->proc` does. `p->lock` and `wait_lock` record
the CPU that holds them. `sched` and `scheduler` are separate steps, so that a
state between "no longer RUNNING" and "off its stack" exists. `wait` walks the
table one slot at a time, with the lock of the slot. `fork` fails, or sets the
child up in the steps that its three lock sections give.

### BufCache

`bget` is one step under `bcache.lock` for a hit and one for a recycled buffer;
`acquiresleep` comes later and may sleep. `bread` of an invalid buffer and `bwrite`
transfer in a step of their own. `brelse` unlocks first, then drops the reference and
reorders the list. The log's pins are `bpin` and `bunpin`.

### VirtioDisk

A descriptor has its owner, the NEXT flag and its successor; `alloc3_desc` takes the
lowest three, or returns what it got and wakes others. The device fetches,
completes in any order, with or without an error, and interrupts after it has
completed, or only later. The handler acknowledges first and then reads `used->idx`,
which the device may advance at any time; it panics at a status other than 0 (`panic`).
`kill()` wakes a sleeper before its time, and the loops around `sleep()` put it back.

### Pipe, Console, Uart

In `Pipe` and `Console` the ring indices are `uint` and wrap at a small multiple of
the ring's size; a `kill()` may come at any step; a process in `BadBuf` may find that
a byte cannot be copied from or to its buffer. In `Pipe`, `untold` records that a killed
writer has left bytes without a `wakeup()`, and `eof` that a read has returned 0 because
there was nothing and no writer (a failed `copyout()` returns 0 too). In `Uart` the indices are `uint64` and
only grow, up to the bound `MAXC`. `Uart` has `uartputc_sync`, which polls and writes without the lock.

### Inode

`din` is the disk as the buffer cache shows it; `tab` and `lk` are `itable`. Each
process runs one call at a time; `ret` says where `iput()` returns to. `iput` is cut
at the places where it releases `itable.lock` (`iput_free`, `iput_valid`,
`iput_dec`), because `ialloc()` and `iget()` come in there. Calls hold the lock of a
directory across steps where the code does. `LocksFree` and `NoLink` are the places
where `ilock()` and `unlink()` panic. A call that follows the `..` of a removed directory
is led `astray`: it goes on to the `ilock()` of what it found there, which may panic, and
no further.

### FileData

A call holds the inode's lock from `ilock` to `iunlock`; each step in between allocates
or frees one block and what hangs on it, so that two files compete for the last blocks
of the disk. A write goes through `filewrite`'s pieces, each a transaction of its own
with `begin_op`'s admission; `wrote` and `lh` are the blocks that the call and the open
transaction have logged. A write may end early because the disk is full or because the
user's buffer ends; then it may have changed bytes of a block that it does not log, which
`recycle` can undo by reading the block from its `home` again.

### Memory and UserCopy

Every pointer that owns a page is a place, and `at` says which page it holds: a
trapframe, an argument of `exec`, a page that `kalloc` has returned and no table holds
yet, a page-table page, a user page. One `kalloc` is one step, so that processes compete
for the last page and each `kalloc` can fail; the frees of an error path are one step,
because they cannot fail. Sizes are in bytes. `panicked` is set where the code would
call `panic()`. `UserCopy` has the copies between kernel and user memory, and
`pgaccess()`, as functions of a page table.

### FileTable, ShParse, Shell, Umalloc

`FileTable` cuts every call at the places where `ftable.lock` or a pipe's lock is
released; in particular `fileclose` copies the `struct file`, drops the slot and closes
later. In `Shell` a process is the list of system calls that it still has to make;
`runcmd` and `main` are written as the lists that they stand for, so that the code
between two calls is part of the step. Besides `cat` and `echo` there is a program
`hoard` that uses up its descriptors. `ShParse` works on lexemes and keeps the
pointers of the C code as positions in the line, up to `nulterminate`. `Umalloc` runs
all short sequences of calls.

## What the runs check

| run | specification | properties | states |
| --- | --- | --- | --- |
| `Log` | two processes, two blocks, two contents, failing copies, crashes, fair | `Orderly Coherent NoPanic CrashAtomic LogDrains` | 87 thousand |
| `Proc` | two CPUs, three slots, one of them killable, fair | `SwitchesSafe LiveParent NoMissedExit OrphansReaped` | 79 thousand |
| `Pipe` | two processes, two-byte ring, counters modulo four | `PageLife BlocksRightly Fifo` | 2.8 million |
| `BufCache` | two processes, two buffers, three blocks, one pin | `BuffersKept StoreSpec` | 208 thousand |
| `VirtioDisk` | three processes, six descriptors, indices modulo twelve, a device that may fail | `RingsAccounted TransferDone NoLostCompletion` | 80 thousand |
| `Uart` | two writers, one echoing CPU, two-character ring and FIFO, fair | `NoOverrun OutputFifo Drains` | 9 thousand |
| `Console` | two readers, three-character ring, indices modulo six, fair | `NeverStuck InputInOrder LineWakesReader` | 367 thousand |
| `Inode` | two processes, three inodes, a directory in a directory, a file with two names, a way up | `TableSound IputWontBlock OpenStaysAllocated LinksCounted` | 865 thousand |
| `Inode_leak` | two processes and files only; violated | `FreedWhenUnused` | |
| `Memory` | two processes, 18 pages, two-byte pages, tables with two entries | `Ownership ImageMatchesSize NoPanic CopyAgrees` | 168 thousand |
| `Shell` | six command lines, six process slots, five files, five descriptors, fair | `FileRefs RightFiles InOrder ParseAgrees HeapSound PromptReturns` | 77 thousand |
| `FileData` | two processes, two files through three `struct file`s, six blocks | `BlocksOwned LogFits FilesHoldWrites` | 582 thousand |

What they show, in short:

- Log. What a reboot finds changes only at a commit, all at once, with no call in
  progress (`CrashAtomic`, the refinement of `AtomicDisk`); once the last
  `end_op` has returned everything is durable but what a failed copy left, and pins are
  exactly the blocks waiting to be installed (`Coherent`); commits overlap nothing, and nobody sleeps in
  `begin_op` without somebody who will wake them (`Orderly`); a committed transaction
  is installed in the end, through any number of crashes (`LogDrains`).
- Processes. No two CPUs on one kernel stack, no freed slot with a CPU on its stack,
  no panic of `sched()` (`SwitchesSafe`); every process has a live parent; no parent
  asleep over a zombie child; orphans are reaped.
- Buffer cache. A cell per block with one user at a time, through recycling
  (`StoreSpec`, the refinement of `BlockStore`); exact reference counts, and no sleeper
  for a free lock (`BuffersKept`).
- Disk. Requests, descriptors and completions are neither lost nor used twice, and
  `virtio_disk_rw` returns after its transfer, which was done without error: the handler
  panics for no other request than one that the device failed.
- Pipe, console, UART. They implement queues (`ByteQueue`, `LineInput`); ends of file,
  full rings and wrapping indices included. On a pipe nobody sleeps over work but a
  reader over bytes that a killed writer left (`BlocksRightly`).
- Inodes. Reference counts are exact, one entry per inode (`TableSound`), nothing open
  is freed, and `ilock()` and `unlink()` do not panic except in a call that has followed
  the `..` of a removed directory (`OpenStaysAllocated`; the run does reach that panic),
  `iput()` never sleeps with `itable.lock` held, no file that has a name is removed
  (`LinksCounted`).
- Files. The bitmap marks exactly the blocks that files have; a call stays within its
  share of the log; a file holds what was written to it, in the order of the locks, where
  a byte that a failed write has changed may be the old one again.
- Memory. A page has one owner; an image has the pages of its size, also after a call
  that failed half-way; `fork`, `exec`, `exit`, `wait` and `sbrk` reach none of the panics
  of `vm.c` about what a page table holds; the copies move exactly the bytes they should.
  The panic of `walk()` is another matter: `pgaccess()` and `pgpte()` pass it any address
  (`sysproc.c:83`, `150`), and `CopyAgrees` says that `pgaccess()` panics exactly for
  ranges that leave the address space.
- Shell. Commands run with the files that the line names and no others, in the order
  it says; references in the file table are exact when struct files, descriptors, processes
  or pages for pipes run out; the prompt comes back. In the first state every line of up to four lexemes is parsed and compared
  with the grammar, and every sequence of six calls of the allocator is made.

The type invariant of a module is a conjunct of the first invariant in its
configuration.

Deadlock is checked in `Log`, `VirtioDisk`, `Console`, `Inode` and `Memory`. It is off
where the modelled part may stop: a pipe whose ends are closed, a cache whose buffers
are all in use (the code panics), a UART after the `MAXC` characters of a behaviour,
a machine without runnable processes, a shell that has read its lines, processes that
have made their `CALLS` of `FileData`.

## Bounds

- Log: two processes are enough for a call that overlaps another one's commit and
  for two callers that share a block. Two blocks do not fill a log of six; that calls
  of up to 8 blocks have room in the code's log is proved (`LogNeverPanics`), and that a
  call of `filewrite` writes no more than that is `LogFits` in `FileData`.
- Proc: initproc, a parent and a child; two CPUs. Three slots make a child that is
  orphaned, and `fork()` that finds no slot.
- Pipe, Console: a ring of two bytes or three characters and an index range of twice that
  wrap both several times. With three characters there is one to erase behind a finished
  line that is partly read. The code's sizes also divide 2^32, which the assumption on `WRAPS` says.
- BufCache: three blocks for two buffers force recycling; with a pinned buffer it
  must pick the other. `MaxHeld` is 1: nested `bread`s were too many states; the proof
  is for any `MaxHeld`.
- VirtioDisk: six descriptors are two requests, the third process waits.
- Uart: `MAXC` = 5 characters are two and a half laps of the ring.
- Inode: three inodes (root, a directory or file, another one) so that a freed inode
  is allocated again while it is referenced, also through the `..` of a removed
  directory. The table has as many entries as there are inodes: `iget()`'s panic, of a
  table that is full, is out of reach in the run and not excluded by any property.
- FileData: six blocks of two bytes, two direct and three indirect, so that the disk
  fills before a file does and a file can need its indirect block; every block has a
  bitmap block of its own (`BPB` = 1), which makes a piece of a write log all of the ten
  blocks it may (seven where one bitmap block has all the bits). Writes of 3 and 7 bytes start and end inside blocks. `CALLS` limits the
  calls of a process.
- Memory: 18 pages are enough for one large image and a second small one, so that each
  `kalloc` of `fork`, `exec` and `sbrk` fails in some behaviour. `FAN` = 2 gives tables
  of three levels that grow with the image. `UPAGES` bounds an image. The programs have a
  segment that ends inside a page, segments out of order, and an empty one.
- Shell: the lines have pipes, a list, a block, redirections, a background job, a
  missing command, a syntax error, and a pipe of two programs that use up their
  descriptors and then call `pipe()`, `dup()` and `open()`. Six processes are too few for
  two lines at once, five struct files too few for two pipes and a file. `kalloc()` of a
  pipe's page may fail whenever. `MAXOLD` bounds processes of earlier lines. `MAXARGS` = 2
  makes lines of three lexemes have too many arguments. In `Umalloc` the sizes stay far
  from where `nu * sizeof(Header)` no longer fits the `int` of `sbrk()`.

`VirtioDisk`, `Inode` and `Memory` use a `VIEW` that leaves out dead state: ring entries
that have been read, locals of calls that have returned, table entries without
references, and which of the free pages a place has got. No guard, no property and no
live value depends on what it hides.

## Fairness

- `Log`: a call that has a buffer releases it and ends (`SF`, since the log's and
  the buffer's locks are taken in competition), a woken `begin_op` runs (`WF`),
  recovery goes on (`WF`), and crashes stop at some time: without that no disk makes
  progress. Nothing makes a process start a call.
- `Proc`: `scheduler()` scans the whole table, so a RUNNABLE process is run; the
  timer ends a time slice; a killed process enters the kernel by the timer at the
  latest and exits; `user/init.c` calls `wait()` for ever. For spin locks the
  strong fairness is an assumption: `acquire()` is a test-and-set loop that is fair
  only with probability one.
- `Shell`: some process that can go on does. Nobody has to type another line, but a `cat`
  that reads the console gets its control-D: `fileread_ends` is a step of a device's
  reader that is taken in the end. Only the shell's loop repeats, so the scripts of a
  line end.
- `Console`: strong fairness for the kernel steps of a reader. Nothing is assumed of
  the keyboard or of the readers' programs.
- `Uart`: the device sends, a pending interrupt is taken, a process in the kernel
  goes on. `Drains` has the condition that `uartputc_sync()` stops at some time: a
  CPU that always prints first keeps the FIFO busy, and `uartstart()` gives up then.

## What is proved

Theorems hold for every value of the constants that the named assumption of the module
allows: any finite set of processes, any number of CPUs, slots, buffers, pages, any set
of blocks, contents and programs.

| module | theorem | statement |
| --- | --- | --- |
| `LogProofs` | `Invariance` | `Spec => []IInv` |
| | `LogIsOrderly` | `Spec => []Orderly` |
| | `LogIsCoherent` | `Spec => []Coherent` |
| | `LogNeverPanics` | `Spec => []NoPanic`, if `OPBLOCKS < MAXOPBLOCKS` and `LOGSIZE - MAXOPBLOCKS + OPBLOCKS <= NLOG - 2` |
| | `LogImplementsAtomicDisk` | `Spec => CrashAtomic` |
| `ProcProofs` | `SwitchesAreSafe` | `Spec => []SwitchesSafe` |
| | `ParentsLive` | `Spec => []LiveParent` |
| | `NoExitMissed` | `Spec => []NoMissedExit` |
| `PipeProofs` | `PageLives` | `Spec => []PageLife` |
| | `BlockingIsRight` | `Spec => []BlocksRightly` |
| | `PipeIsFifo` | `Spec => Fifo` |
| `BufCacheProofs` | `BuffersAreKept` | `Spec => []BuffersKept` |
| | `CacheIsStore` | `Spec => StoreSpec` |
| `VirtioDiskProofs` | `RingsAreAccounted` | `Spec => []RingsAccounted` |
| | `TransfersAreDone` | `Spec => []TransferDone` |
| | `NoCompletionIsLost` | `Spec => []NoLostCompletion` |
| | `StatusIsTold` | `Spec => []StatusTells`: a request that the handler has not seen has the status that its transfer deserves |
| `MemoryInvariance` | `PagesHaveOneOwner` | `Spec => []Ownership` |
| | `ImagesMatchSizes` | `Spec => []ImageMatchesSize` |
| | `VmNeverPanics` | `Spec => []NoPanic` |

But for `NoLostCompletion`, none of these properties is inductive by itself. Each proof has an inductive invariant,
a lemma for each action with a step for each part of the invariant that the action can
disturb, and frame lemmas for the parts that it leaves alone.

**Log.** `IInv` has seven parts. `TypeOK` and `HeadInv`: both headers list different
blocks and fit. `RecoverInv`: while recovery runs nothing else does, and the entries
below `tail` are home. `CommitInv`: `outstanding` counts the calls in progress, at most
one process commits and then no call is in progress, and the log is empty between
transactions. `CacheInv`: buffer locks exclude each other, a block that is neither
logged, torn nor being changed is the same in the cache and at home, and no logged
block is torn. `PinInv`: exactly the
logged blocks that are not yet installed are pinned, hence cached. `LogInv`: how far a
commit has come, what `dlog` and the home blocks hold then.

The last two carry the refinement. What a reboot would find is `dlog` for the blocks
in the on-disk header and the home block for the others. Writing the log changes
neither while the header is empty; writing the header turns the whole into what the
cache shows, but for loose blocks, because `LogInv` says that `dlog` agrees with it and
`CacheInv` says that the unlogged blocks agree; installing copies `dlog` over home blocks that the
header hides; erasing the header shows home blocks that by then are the same. Without
`PinInv` a logged block could leave the cache and the view would fall back to the disk.

`LogNeverPanics` rests on `Room`: the blocks in the log and those that the calls in
progress may still log fit together. `Reserved` holds a pair for each block that a call
may still log, so that it can be counted: `begin_op` admits a call when all pairs fit
even if no call has logged anything yet, and `log_write` takes one away for each entry it
adds. A call that rewrites a block which is in the log already adds no entry, but
`log_write` tests for room all the same; hence the hypothesis that a call writes fewer
blocks than are reserved for it. The code has `LOGSIZE` = `log.size` = 30 and
`MAXOPBLOCKS` = 10, and the second hypothesis then allows calls of up to 8 blocks; a
write of `filewrite` logs at most 7 on a disk with one bitmap block.

**Proc.** `LockInv` ties the locks to the places in the code: whoever is on a CPU is
RUNNING or holds `p->lock` on its way out, a lock that is held is held by a process on
that CPU at a place that has it, a process on no CPU is at its switch (`Running`,
`Resting`, `Held`), and the child that `fork` is making belongs to one parent
(`Forks`). `WaitInv` adds the family: parents are alive until `reparent` has passed,
an exited child of a sleeper is one that `reparent` has just handed to initproc
and whose wakeup is still to come (`NoneMissed`), a process about to be a zombie has
a parent that is awake (`ParentAwake`), and the scan of `wait` has passed no zombie.

**Pipe.** `PipeInv`: the lock excludes; an end is open while a descriptor or a
`pipeclose` on its way stands for it; who sleeps has found the ring full or empty, and
it stays so except for the holder of the lock, who will wake them or, killed, leaves the
bytes `untold`; end of file is final;
the distance of the counters is at most `PIPESIZE`. The refinement of `ByteQueue` needs
the arithmetic of the wrapping counters: the lemmas on `Mod` and `Count` show that
the distance modulo `UINT` and the places modulo `PIPESIZE` follow a queue, because
`PIPESIZE` divides `UINT`.

**BufCache.** `BufInv`: one buffer per block, the lock of a buffer says who holds it,
`refcnt` is the number of processes that refer to the buffer plus the pin (a cardinality,
so bget and brelse change it by one), and a valid buffer is what the disk has unless it
is changed or pinned. The abstract cell of a block is the buffer's data if a valid buffer
has the block and the disk's otherwise.

**VirtioDisk.** `DiskInv`: a request that was submitted is three different descriptors,
linked in order, that carry its buffer, and every other descriptor is free (`Chained`);
`b->disk` says who sleeps (`Waiting`); the requests of the sleepers are exactly those in
the avail ring that the device has not taken, those in flight, and those in the used ring
that the handler has not seen, each at one of these places once (`Tracked`); what is in
the used ring has been transferred, or has failed, as its status says (`Done`). A
`kill()` moves a sleeper and touches nothing else (`Nudged`), so that the parts about
descriptors and rings follow by a frame lemma. No entry of a ring is
overwritten because its entries are heads of different chains and a chain has descriptors
that are no heads, so that there is always room (`RoomInRing`), and because the number
of descriptors divides the range of the 16-bit indices, so that places and counts follow
the indices when they wrap (`PlacesDiffer`, `PushEntry`, `PopEntry`).
`NoLostCompletion` is inductive by itself.

**Memory.** `MemInv` has, besides types and `NoPanic`: `Owned`, a page is free or one
place holds it; `Calls`, in which call a process may be at each place in the code,
and that two `fork`s do not work on the same child; `Bounds`, how far the loops over pages
of `uvmalloc` and `uvmcopy` have come and that all sizes fit; `Kept`, what a process has
besides the table that it builds: its image is complete in every call but `sbrk`; and
`Built`, how much of the table that it builds is there: the fixed pages, then exactly the
user pages below `a[p]`. The error paths free by size and by table, so a page is lost or
freed twice exactly when the table and the sizes disagree; that `Built` holds at each
`kalloc` is what makes them right. `MemoryProofs` has the arithmetic of page indices and
`PGROUNDUP`, the places, and `Owned`; `MemorySteps` the steps of building a table, of
`exec` and of the failures; `MemoryInvariance` the remaining calls, the effect on
other processes, and the theorems.

The inductive invariants were checked with TLC on the instances of the runs before they
were proved.

## What is only model-checked

- Liveness: `LogDrains`, `OrphansReaped`, `Drains`, `LineWakesReader`, `PromptReturns`.
  The prover does not handle fairness and `ENABLED`.
- `CopyAgrees`, `ParseAgrees`, `HeapSound`: what recursive functions compute for every
  input needs an induction over data, which is out of reach here; they are checked for
  all inputs up to a size. `RightFiles` and `InOrder` depend on the recursive parser.
- `Uart`, `Console`, `Inode`, `FileTable` and `FileData` have no proofs yet; `FileRefs`, `TableSound` and `BlocksOwned` count references in sets and would take
  an argument like that of `BufCacheProofs`.

## Disagreements and observations

One run shows that the code does not do what a comment says:

- `Inode_leak`. "iput() frees if the reference and link counts have fallen to zero"
  (`fs.c:127-128`). `iput()` frees the inode on disk and only later, under
  `itable.lock` again, drops its reference (`fs.c:348-360`). In between `ialloc()` can
  hand out the inode and another process take and drop references to the same table
  entry and unlink the new file: its own `iput()` sees `ref == 2` and does not free,
  and the first one decrements without looking at `nlink` again.

Things met while modelling that no run asserts:

- `begin_op` reserves against `LOGSIZE` while `log_write` refuses at `log.size - 1`, and
  tests before it looks whether the block is in the log already: the reservation is safe
  because calls stay below `MAXOPBLOCKS` (see `LogNeverPanics`).
- `wait()` tests `killed()` under `wait_lock` and goes to sleep under `p->lock`
  (`proc.c:426-432`): a kill in between sets `killed` while the victim is RUNNING, and the
  victim then sleeps until a child exits.
- `writei()` that fails in `either_copyin` half-way leaves a buffer that is changed
  and not logged (`fs.c:522`). `Log` and `FileData` model it, and their properties except
  exactly these blocks.
- `kill(0)` finds a free slot, whose pid is 0, and sets its `killed` (`proc.c:604`).
- `fs.c:143-144` says that `iput()` clears `valid` when ref falls to zero; the code
  does so only when it frees the inode. `iget()` clears it on reuse.
- `create()` in a directory that is already removed makes a file that no path reaches, so
  that `LinksCounted` is a lower bound. The `..` of a removed directory may name a freed
  inode, on which `ilock()` panics, or one that `ialloc()` has just handed out and whose
  `nlink` is still 0: a call that opens it that way and drops it frees it under
  `create()`. `Inode` follows such a call to its `ilock()`.
- A writer that is killed after it has put bytes into a pipe returns without waking the
  readers (`pipe.c:83-86`); they find the bytes when they next run. `piperead()` takes a
  byte out before `copyout()` can fail, and returns 0, as at the end of the file, when the
  first one fails (`pipe.c:124-129`).
- `pgaccess()` and `pgpte()` do not test the address that they pass to `walk()`, and
  `1ULL << i` of `pgaccess()` sets the bit of page i modulo 64 (`sysproc.c:147-158`).
  That it clears the accessed bits before `copyout()` of the mask can fail loses them.
- Sleep locks let newcomers pass sleepers. A failing `alloc3_desc()` wakes the other
  waiters, which may wake it in turn. `wait()` takes the zombie in the lowest slot, so
  that children that keep exiting there delay another for ever (`OrphansReaped` says
  that nothing else does).

## What is not modelled

- `push_off`/`pop_off`: spin locks are steps or holders in the models.
- Ticks and `sys_sleep`; the dispatch of system calls.
- `filestat` and `mknod`; what a call does with an inode that it found through the `..` of
  a removed directory; `pgpte`; `pgaccess` of 2^19 pages or more, where `i * PGSIZE`
  overflows an `int`.
- The bytes of ELF files and of arguments on the stack; the kernel's own page table.
- `cd` in the shell, file arguments of `cat`; a `malloc` that has failed ends a
  sequence of `Umalloc`.
- Boot, PLIC, assembly, `printf` and string functions: straight-line code or register
  access without shared state of its own.
- `mkfs`, except that its disk is where `Log` starts; user programs other than `init`,
  `sh`, `cat` and `echo`.

## How to run

In this directory, for a run of `PROJECT.json` and for a module with proofs:

    tlc -workers 2 -config Log.cfg MCLog
    tlapm LogProofs.tla
