-------------------------------- MODULE Pipe --------------------------------
(***************************************************************************)
(* A pipe (kernel/pipe.c) and the processes that hold its two ends, from   *)
(* the return of pipe() to the free of its page.                           *)
(*                                                                         *)
(* The counters nread and nwrite are C's uint: they wrap at UINT.  All of  *)
(* pipe.c runs under pi->lock, so the steps are the iterations of its      *)
(* loops; only kill() comes in between, as it does not take pi->lock.      *)
(* Going to sleep, which takes p->lock, is a step of its own after the     *)
(* check of p->killed.                                                     *)
(***************************************************************************)
EXTENDS Integers, Sequences, FiniteSets

CONSTANTS
  Procs,      \* processes that may come to hold the pipe
  First,      \* the one that calls pipe()
  PIPESIZE,
  WRAPS,      \* 2^32 / PIPESIZE: the ring's size divides the counters' range
  MAXN,       \* bound on the size of one read or write
  Bytes,
  NoByte,
  Killable,   \* processes that somebody kills
  BadBuf      \* processes whose buffers may end in an unmapped page

ASSUME PipeAssumption ==
  /\ First \in Procs
  /\ PIPESIZE \in Nat \ {0}
  /\ WRAPS \in Nat /\ WRAPS >= 2
  /\ MAXN \in Nat
  /\ NoByte \notin Bytes

UINT == WRAPS * PIPESIZE

VARIABLES
  data, nread, nwrite, readopen, writeopen, lock,   \* struct pipe
  allocated,     \* its page has not been freed
  born,          \* processes that exist
  rfd, wfd,      \* the processes with a descriptor for each end
  killed,
  pc, n, i,      \* of the call in progress
  ubuf,          \* last byte copied to each process's buffer
  eof,           \* a read of the process has returned 0 for more than 0 bytes
  untold         \* a writer went after putting bytes in, without a wakeup()

pipe == <<data, nread, nwrite, readopen, writeopen, allocated>>
files == <<born, rfd, wfd>>
seen == <<ubuf, eof, untold>>
vars == <<pipe, lock, files, killed, pc, n, i, seen>>

\* "rchan" and "wchan": SLEEPING on &pi->nread, &pi->nwrite.
InRead == {"read", "while", "rsleep", "rchan", "copy"}
InWrite == {"write", "loop", "wsleep", "wchan"}
InClose == {"close_r", "close_w"}

Count == (nwrite - nread) % UINT
Empty == nread = nwrite
Full_off_by_one == nwrite = (nread + PIPESIZE + 1) % UINT
Full == nwrite = (nread + PIPESIZE) % UINT

Goto(p, l) == pc' = [pc EXCEPT ![p] = l]
\* wakeup(ch), after which process p goes to l.
WakeAndGoto(ch, p, l) ==
  pc' = [q \in Procs |-> IF q = p THEN l
                         ELSE IF pc[q] = ch THEN (IF ch = "rchan" THEN "read" ELSE "write")
                         ELSE pc[q]]
Return(p) == n' = [n EXCEPT ![p] = 0] /\ i' = [i EXCEPT ![p] = 0]

----------------------------------------------------------------------------
(* pipewrite() and piperead() take pi->lock, at the call and after sleep() *)

write(p, k) ==
  /\ p \in wfd /\ pc[p] = "user" /\ ~killed[p]
  /\ n' = [n EXCEPT ![p] = k]
  /\ Goto(p, "write")
  /\ UNCHANGED <<pipe, lock, files, killed, i, seen>>

read(p, k) ==
  /\ p \in rfd /\ pc[p] = "user" /\ ~killed[p]
  /\ n' = [n EXCEPT ![p] = k]
  /\ Goto(p, "read")
  /\ UNCHANGED <<pipe, lock, files, killed, i, seen>>

acquire(p) ==
  /\ pc[p] \in {"write", "read"} /\ lock = {}
  /\ lock' = {p}
  /\ Goto(p, IF pc[p] = "write" THEN "loop" ELSE "while")
  /\ UNCHANGED <<pipe, files, killed, n, i, seen>>

----------------------------------------------------------------------------
(* pipewrite() *)

Looping(p) == pc[p] = "loop" /\ i[p] < n[p]
MayWrite(p) == Looping(p) /\ readopen /\ ~killed[p]

write_fails(p) ==
  /\ Looping(p) /\ (~readopen \/ killed[p])
  /\ untold' = (untold \/ i[p] > 0)
  /\ lock' = {} /\ Goto(p, "user") /\ Return(p)
  /\ UNCHANGED <<pipe, files, killed, ubuf, eof>>

write_full(p) ==
  /\ MayWrite(p) /\ Full
  /\ WakeAndGoto("rchan", p, "wsleep") /\ untold' = FALSE
  /\ UNCHANGED <<pipe, lock, files, killed, n, i, ubuf, eof>>

write_byte(p, b) ==
  /\ MayWrite(p) /\ ~Full
  /\ data' = [data EXCEPT ![nwrite % PIPESIZE] = b]
  /\ nwrite' = (nwrite + 1) % UINT
  /\ i' = [i EXCEPT ![p] = @ + 1]
  /\ UNCHANGED <<nread, readopen, writeopen, allocated, lock, files, killed, pc, n, seen>>

\* All bytes written, or copyin() failed.
write_done(p) ==
  /\ pc[p] = "loop"
  /\ i[p] = n[p] \/ (MayWrite(p) /\ ~Full /\ p \in BadBuf)
  /\ WakeAndGoto("rchan", p, "user") /\ untold' = FALSE
  /\ lock' = {} /\ Return(p)
  /\ UNCHANGED <<pipe, files, killed, ubuf, eof>>

----------------------------------------------------------------------------
(* piperead() *)

read_killed(p) ==
  /\ pc[p] = "while" /\ Empty /\ writeopen /\ killed[p]
  /\ lock' = {} /\ Goto(p, "user") /\ Return(p)
  /\ UNCHANGED <<pipe, files, killed, seen>>

read_wait(p) ==
  /\ pc[p] = "while" /\ Empty /\ writeopen /\ ~killed[p]
  /\ Goto(p, "rsleep")
  /\ UNCHANGED <<pipe, lock, files, killed, n, i, seen>>

read_start(p) ==
  /\ pc[p] = "while" /\ ~(Empty /\ writeopen)
  /\ Goto(p, "copy")
  /\ UNCHANGED <<pipe, lock, files, killed, n, i, seen>>

\* One byte out of the pipe.
read_byte(p) ==
  /\ pc[p] = "copy" /\ i[p] < n[p] /\ ~Empty
  /\ nread' = (nread + 1) % UINT
  /\ ubuf' = [ubuf EXCEPT ![p] = data[nread % PIPESIZE]]
  /\ i' = [i EXCEPT ![p] = @ + 1]
  /\ UNCHANGED <<data, nwrite, readopen, writeopen, allocated, lock, files, killed, pc, n,
                 eof, untold>>

\* The loop ends when copyout() fails, with the byte already taken; if it was the
\* first, piperead() returns 0.
read_fault(p) ==
  /\ pc[p] = "copy" /\ i[p] < n[p] /\ ~Empty /\ p \in BadBuf
  /\ nread' = (nread + 1) % UINT
  /\ eof' = [eof EXCEPT ![p] = @ \/ i[p] = 0]
  /\ WakeAndGoto("wchan", p, "user")
  /\ lock' = {} /\ Return(p)
  /\ UNCHANGED <<data, nwrite, readopen, writeopen, allocated, files, killed, ubuf, untold>>

read_done_quiet(p) ==
  /\ pc[p] = "copy" /\ (i[p] = n[p] \/ Empty)
  /\ eof' = [eof EXCEPT ![p] = @ \/ (i[p] = 0 /\ n[p] > 0)]
  /\ Goto(p, "user")
  /\ lock' = {} /\ Return(p)
  /\ UNCHANGED <<pipe, files, killed, ubuf, untold>>
read_done(p) ==
  /\ pc[p] = "copy" /\ (i[p] = n[p] \/ Empty)
  /\ eof' = [eof EXCEPT ![p] = @ \/ (i[p] = 0 /\ n[p] > 0)]
  /\ WakeAndGoto("wchan", p, "user")
  /\ lock' = {} /\ Return(p)
  /\ UNCHANGED <<pipe, files, killed, ubuf, untold>>

\* sleep(&pi->nread, &pi->lock), sleep(&pi->nwrite, &pi->lock)
sleep(p) ==
  /\ pc[p] \in {"rsleep", "wsleep"}
  /\ lock' = {}
  /\ Goto(p, IF pc[p] = "rsleep" THEN "rchan" ELSE "wchan")
  /\ UNCHANGED <<pipe, files, killed, n, i, seen>>

----------------------------------------------------------------------------
(* Descriptors: fork() with its filedup()s, and fileclose() *)

fork(p, q) ==
  /\ p \in born /\ pc[p] = "user" /\ ~killed[p] /\ q \notin born
  /\ born' = born \cup {q}
  /\ rfd' = IF p \in rfd THEN rfd \cup {q} ELSE rfd
  /\ wfd' = IF p \in wfd THEN wfd \cup {q} ELSE wfd
  /\ UNCHANGED <<pipe, lock, killed, pc, n, i, seen>>

\* fileclose() drops the reference under ftable.lock; the one that drops the
\* last goes on to pipeclose().
close(p) ==
  /\ pc[p] = "user"
  /\ \/ /\ p \in rfd /\ rfd' = rfd \ {p} /\ UNCHANGED wfd
        /\ Goto(p, IF rfd' = {} THEN "close_r" ELSE "user")
     \/ /\ p \in wfd /\ wfd' = wfd \ {p} /\ UNCHANGED rfd
        /\ Goto(p, IF wfd' = {} THEN "close_w" ELSE "user")
  /\ UNCHANGED <<pipe, lock, born, killed, n, i, seen>>

pipeclose_leaks(p) ==
  /\ lock = {}
  /\ \/ /\ pc[p] = "close_r" /\ readopen' = FALSE /\ UNCHANGED writeopen
        /\ WakeAndGoto("wchan", p, "user") /\ UNCHANGED untold
     \/ /\ pc[p] = "close_w" /\ writeopen' = FALSE /\ UNCHANGED readopen
        /\ WakeAndGoto("rchan", p, "user") /\ untold' = FALSE
  /\ allocated' = (allocated /\ (readopen \/ writeopen))
  /\ UNCHANGED <<data, nread, nwrite, lock, files, killed, n, i, ubuf, eof>>
pipeclose(p) ==
  /\ lock = {}
  /\ \/ /\ pc[p] = "close_r" /\ readopen' = FALSE /\ UNCHANGED writeopen
        /\ WakeAndGoto("wchan", p, "user") /\ UNCHANGED untold
     \/ /\ pc[p] = "close_w" /\ writeopen' = FALSE /\ UNCHANGED readopen
        /\ WakeAndGoto("rchan", p, "user") /\ untold' = FALSE
  /\ allocated' = (allocated /\ (readopen' \/ writeopen'))
  /\ UNCHANGED <<data, nread, nwrite, lock, files, killed, n, i, ubuf, eof>>

kill(p) ==
  /\ ~killed[p] /\ p \in born
  /\ killed' = [killed EXCEPT ![p] = TRUE]
  /\ Goto(p, CASE pc[p] = "rchan" -> "read" [] pc[p] = "wchan" -> "write"
               [] OTHER -> pc[p])
  /\ UNCHANGED <<pipe, lock, files, n, i, seen>>

----------------------------------------------------------------------------
\* pipealloc() and sys_pipe().
Init ==
  /\ data = [x \in 0..(PIPESIZE - 1) |-> NoByte]
  /\ nread = 0 /\ nwrite = 0 /\ readopen = TRUE /\ writeopen = TRUE
  /\ lock = {} /\ allocated = TRUE
  /\ born = {First} /\ rfd = {First} /\ wfd = {First}
  /\ killed = [p \in Procs |-> FALSE]
  /\ pc = [p \in Procs |-> "user"]
  /\ n = [p \in Procs |-> 0] /\ i = [p \in Procs |-> 0]
  /\ ubuf = [p \in Procs |-> NoByte] /\ eof = [p \in Procs |-> FALSE] /\ untold = FALSE

\* What a process does once it is inside the kernel.
Kernel(p) ==
  \/ acquire(p) \/ sleep(p) \/ pipeclose(p)
  \/ write_fails(p) \/ write_full(p) \/ write_done(p)
  \/ \E b \in Bytes : write_byte(p, b)
  \/ read_killed(p) \/ read_wait(p) \/ read_start(p)
  \/ read_byte(p) \/ read_fault(p) \/ read_done(p)

Next ==
  \E p \in Procs :
    \/ Kernel(p) \/ close(p)
    \/ \E k \in 0..MAXN : write(p, k) \/ read(p, k)
    \/ \E q \in Procs : fork(p, q)
    \/ p \in Killable /\ kill(p)

Spec == Init /\ [][Next]_vars

----------------------------------------------------------------------------
(* Properties *)

TypeOK ==
  /\ data \in [0..(PIPESIZE - 1) -> Bytes \cup {NoByte}]
  /\ nread \in 0..(UINT - 1) /\ nwrite \in 0..(UINT - 1)
  /\ readopen \in BOOLEAN /\ writeopen \in BOOLEAN /\ allocated \in BOOLEAN
  /\ lock \in SUBSET Procs /\ born \in SUBSET Procs
  /\ rfd \in SUBSET born /\ wfd \in SUBSET born
  /\ killed \in [Procs -> BOOLEAN]
  /\ pc \in [Procs -> {"user"} \cup InRead \cup InWrite \cup InClose]
  /\ n \in [Procs -> 0..MAXN] /\ i \in [Procs -> 0..MAXN]
  /\ ubuf \in [Procs -> Bytes \cup {NoByte}] /\ eof \in [Procs -> BOOLEAN]
  /\ untold \in BOOLEAN

\* The bytes in the ring, oldest first.
Contents == [k \in 1..Count |-> data[((nread + k - 1) % UINT) % PIPESIZE]]

Queue == INSTANCE ByteQueue WITH Capacity <- PIPESIZE, queue <- Contents, got <- ubuf

\* Through every wrap of the ring and of the counters, with several readers
\* and writers, bytes leave the pipe in the order in which they entered it, none
\* is lost or overwritten and none is delivered twice.
Fifo == Queue!Spec

\* The page is freed when both ends are closed, by the last pipeclose() and not
\* before: nobody is inside pipe.c on a freed page, and none is leaked.  (The
\* state is well-typed besides.)
PageLife ==
  /\ TypeOK
  /\ (\E p \in Procs : pc[p] # "user") => allocated
  /\ rfd \cup wfd = {} /\ (\A p \in Procs : pc[p] \notin InClose) => ~allocated

\* Nobody sleeps over something to do.  A writer asleep has a full pipe with a
\* reader at its other end; a reader asleep has an empty pipe with a writer, but
\* for one case: pipewrite() returns -1 for a killed process without waking the
\* readers for what it has already put in (pipe.c:83-86), and they sleep on until
\* the next write or the last close.
NoMissedWakeup ==
  lock = {} =>
    \A p \in Procs :
      /\ pc[p] = "wchan" => Full /\ readopen
      /\ pc[p] = "rchan" => writeopen /\ (Empty \/ untold)

\* End of file is final: when a read into mapped memory has returned 0 there is no
\* byte left, no descriptor that could write one, and there never will be.  (Where
\* copyout() fails on its first byte, piperead() returns the same 0, whatever is
\* left in the pipe: pipe.c:124-129.)
EofIsFinal ==
  \A p \in Procs \ BadBuf : eof[p] => Empty /\ ~writeopen /\ wfd = {}

\* A read or a write blocks only while it has to, and a read ends a stream only
\* when it has ended (pipewrite and piperead in pipe.c).
BlocksRightly == NoMissedWakeup /\ EofIsFinal
=============================================================================
