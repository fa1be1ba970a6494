-------------------------------- MODULE Log --------------------------------
(***************************************************************************)
(* The redo log of the file system (kernel/log.c): begin_op, log_write,    *)
(* end_op, the commit it runs, a crash at any point, and the recovery that *)
(* forkret() starts through fsinit() and initlog().                        *)
(*                                                                         *)
(* Granularity.  A section under log.lock is one step; so is one iteration *)
(* of write_log or install_trans, which holds exactly one disk write (a    *)
(* block write is atomic with respect to a crash).  The buffer cache is    *)
(* reduced to what the log relies on: a cached block, its sleep-lock       *)
(* holder and the reference that bpin takes; an unreferenced block may be  *)
(* recycled at any moment.  A process holds one buffer at a time.          *)
(***************************************************************************)
EXTENDS Integers, Sequences, FiniteSets

CONSTANTS
  Procs,        \* processes that make file-system calls
  Blocks,       \* home blocks of the file system
  FileBlocks,   \* those with file contents, copied in from user memory
  Data,         \* block contents
  Zero,         \* the contents mkfs writes
  Empty,        \* marks a block that is not in the cache
  NoBlock,      \* marks a process that holds no buffer
  MAXOPBLOCKS,  \* what begin_op reserves for one call
  LOGSIZE,      \* capacity of struct logheader
  NLOG,         \* log.size, blocks of the on-disk log, header included
  OPBLOCKS      \* distinct blocks one system call really writes

ASSUME LogAssumption ==
  /\ IsFiniteSet(Procs) /\ FileBlocks \subseteq Blocks
  /\ Zero \in Data /\ Empty \notin Data /\ NoBlock \notin Blocks
  /\ MAXOPBLOCKS \in Nat \ {0} /\ NLOG \in Nat /\ OPBLOCKS \in Nat
  /\ LOGSIZE \in Nat /\ MAXOPBLOCKS <= LOGSIZE

VARIABLES
  disk,         \* home blocks on disk
  dlog,         \* data blocks of the on-disk log
  dhead,        \* header block of the on-disk log: the block numbers in it
  cache,        \* b->data of the cached blocks
  pin,          \* references taken by bpin
  lh,           \* log.lh, the in-memory header
  outstanding,  \* log.outstanding
  committing,   \* log.committing
  pc, held,     \* where each process is, and the buffer it has locked
  wrote,        \* the blocks that the process's current call has logged
  torn,         \* history: blocks outside the log that a failed copy has changed
  tail,         \* loop index of write_log and install_trans
  mode          \* "run", the steps of recovery, or "panic"

vars == <<disk, dlog, dhead, cache, pin, lh, outstanding, committing,
          pc, held, wrote, torn, tail, mode>>

diskvars == <<disk, dlog, dhead>>

InOp == {"op", "buf", "dirty"}
InCommit == {"commit", "write_log", "write_head", "install", "erase", "done"}
InBuf == {"buf", "dirty", "rd"}
PCs == {"out", "begin", "sleep", "rd"} \cup InOp \cup InCommit

Logged == {lh[i] : i \in 1..Len(lh)}

\* b->data after bread(b): the cached contents, or else the disk's.
View(b) == IF cache[b] = Empty THEN disk[b] ELSE cache[b]

\* acquiresleep(&b->lock) can succeed.
Unlocked(b) == \A q \in Procs : held[q] # b

Goto(p, l) == pc' = [pc EXCEPT ![p] = l]

----------------------------------------------------------------------------
(* bio.c, as far as the log depends on it *)

bread(p, b) ==
  /\ mode = "run" /\ pc[p] \in {"out", "op"} /\ Unlocked(b)
  /\ cache' = [cache EXCEPT ![b] = View(b)]
  /\ held' = [held EXCEPT ![p] = b]
  /\ Goto(p, IF pc[p] = "op" THEN "buf" ELSE "rd")
  /\ UNCHANGED <<diskvars, pin, lh, outstanding, committing, wrote, torn, tail, mode>>

brelse(p) ==
  /\ mode = "run" /\ pc[p] \in {"buf", "rd"}
  /\ held' = [held EXCEPT ![p] = NoBlock]
  /\ Goto(p, IF pc[p] = "buf" THEN "op" ELSE "out")
  /\ UNCHANGED <<diskvars, cache, pin, lh, outstanding, committing, wrote,
                 torn, tail, mode>>

bpin(b) == [pin EXCEPT ![b] = @ + 1]
bunpin_missing(b) == pin
bunpin(b) == [pin EXCEPT ![b] = @ - 1]

\* bget recycles the buffer of a block that nobody references; a torn block is
\* as on the disk again.
recycle_pinned(b) ==
  /\ mode # "panic" /\ cache[b] # Empty /\ Unlocked(b)
  /\ cache' = [cache EXCEPT ![b] = Empty]
  /\ torn' = torn \ {b}
  /\ UNCHANGED <<diskvars, pin, lh, outstanding, committing, pc, held, wrote,
                 tail, mode>>
recycle(b) ==
  /\ mode # "panic" /\ cache[b] # Empty /\ pin[b] = 0 /\ Unlocked(b)
  /\ cache' = [cache EXCEPT ![b] = Empty]
  /\ torn' = torn \ {b}
  /\ UNCHANGED <<diskvars, pin, lh, outstanding, committing, pc, held, wrote,
                 tail, mode>>

----------------------------------------------------------------------------
(* System calls *)

wakeup_none(f) == f
\* wakeup(&log): every sleeper goes back to the top of begin_op's loop.
wakeup(f) == [q \in Procs |-> IF f[q] = "sleep" THEN "begin" ELSE f[q]]

MustWait_LogOnly == Len(lh) + (outstanding + 1) * MAXOPBLOCKS > LOGSIZE
MustWait == committing \/ Len(lh) + (outstanding + 1) * MAXOPBLOCKS > LOGSIZE

begin_op(p) ==
  /\ mode = "run" /\ pc[p] \in {"out", "begin"}
  /\ \/ /\ MustWait
        /\ Goto(p, "sleep")
        /\ UNCHANGED <<outstanding, wrote>>
     \/ /\ ~MustWait
        /\ outstanding' = outstanding + 1
        /\ wrote' = [wrote EXCEPT ![p] = {}]
        /\ Goto(p, "op")
  /\ UNCHANGED <<diskvars, cache, pin, lh, committing, held, torn, tail, mode>>

\* The caller changes b->data while it holds the buffer's lock, all of it, and
\* goes on to log_write().
modify(p, v) ==
  /\ mode = "run" /\ pc[p] = "buf"
  /\ Cardinality(wrote[p] \cup {held[p]}) <= OPBLOCKS
  /\ cache' = [cache EXCEPT ![held[p]] = v]
  /\ torn' = torn \ {held[p]}
  /\ Goto(p, "dirty")
  /\ UNCHANGED <<diskvars, pin, lh, outstanding, committing, held, wrote,
                 tail, mode>>

\* writei()'s copy from user memory fails half-way: the buffer has changed and
\* goes to brelse() without log_write().  Unless a call has logged the block
\* before, nothing keeps the buffer in the cache.
copyin_fails(p, v) ==
  /\ mode = "run" /\ pc[p] = "buf" /\ held[p] \in FileBlocks
  /\ cache' = [cache EXCEPT ![held[p]] = v]
  /\ torn' = torn \cup ({held[p]} \ Logged)
  /\ held' = [held EXCEPT ![p] = NoBlock]
  /\ Goto(p, "op")
  /\ UNCHANGED <<diskvars, pin, lh, outstanding, committing, wrote, tail, mode>>

TooBig == Len(lh) >= LOGSIZE \/ Len(lh) >= NLOG - 1

log_write(p) ==
  /\ mode = "run" /\ pc[p] = "dirty"
  /\ \/ /\ TooBig \/ outstanding < 1
        /\ mode' = "panic"
        /\ UNCHANGED <<pin, lh, wrote, pc>>
     \/ /\ ~TooBig /\ outstanding >= 1
        /\ IF held[p] \in Logged
           THEN UNCHANGED <<lh, pin>>                     \* log absorption
           ELSE lh' = Append(lh, held[p]) /\ pin' = bpin(held[p])
        /\ wrote' = [wrote EXCEPT ![p] = @ \cup {held[p]}]
        /\ Goto(p, "buf")
        /\ UNCHANGED mode
  /\ UNCHANGED <<diskvars, cache, outstanding, committing, held, torn, tail>>

end_op_early(p) ==
  /\ mode = "run" /\ pc[p] = "op"
  /\ outstanding' = outstanding - 1
  /\ \/ committing /\ mode' = "panic" /\ UNCHANGED <<committing, pc>>
     \/ /\ ~committing
        /\ committing' = TRUE /\ Goto(p, "commit") /\ UNCHANGED mode
  /\ UNCHANGED <<diskvars, cache, pin, lh, held, wrote, torn, tail>>
end_op(p) ==
  /\ mode = "run" /\ pc[p] = "op"
  /\ outstanding' = outstanding - 1
  /\ \/ committing /\ mode' = "panic" /\ UNCHANGED <<committing, pc>>
     \/ /\ ~committing /\ outstanding' = 0
        /\ committing' = TRUE /\ Goto(p, "commit") /\ UNCHANGED mode
     \/ /\ ~committing /\ outstanding' # 0
        /\ pc' = wakeup([pc EXCEPT ![p] = "out"])
        /\ UNCHANGED <<committing, mode>>
  /\ UNCHANGED <<diskvars, cache, pin, lh, held, wrote, torn, tail>>

----------------------------------------------------------------------------
(* commit(), run by the process whose end_op found outstanding = 0 *)

commit(p) ==
  /\ mode = "run" /\ pc[p] = "commit"
  /\ tail' = 0
  /\ Goto(p, IF lh = <<>> THEN "done" ELSE "write_log")
  /\ UNCHANGED <<diskvars, cache, pin, lh, outstanding, committing, held,
                 wrote, torn, mode>>

\* One iteration; the last one goes on to the next phase.
write_log(p) ==
  /\ mode = "run" /\ pc[p] = "write_log"
  /\ LET b == lh[tail + 1] IN
       /\ Unlocked(b)
       /\ dlog' = [dlog EXCEPT ![tail + 1] = View(b)]
       /\ cache' = [cache EXCEPT ![b] = View(b)]
  /\ tail' = IF tail + 1 < Len(lh) THEN tail + 1 ELSE 0
  /\ Goto(p, IF tail + 1 < Len(lh) THEN "write_log" ELSE "write_head")
  /\ UNCHANGED <<disk, dhead, pin, lh, outstanding, committing, held, wrote,
                 torn, mode>>

write_head(p) ==
  /\ mode = "run" /\ pc[p] = "write_head"
  /\ dhead' = lh
  /\ Goto(p, "install")
  /\ UNCHANGED <<disk, dlog, cache, pin, lh, outstanding, committing, held,
                 wrote, torn, tail, mode>>

\* The copy of log block i to its home, through the home block's buffer.
CopyHome(i) ==
  /\ Unlocked(lh[i])
  /\ cache' = [cache EXCEPT ![lh[i]] = dlog[i]]
  /\ disk' = [disk EXCEPT ![lh[i]] = dlog[i]]

install_trans(p) ==
  /\ mode = "run" /\ pc[p] = "install"
  /\ CopyHome(tail + 1)
  /\ pin' = bunpin(lh[tail + 1])
  /\ tail' = IF tail + 1 < Len(lh) THEN tail + 1 ELSE 0
  /\ Goto(p, IF tail + 1 < Len(lh) THEN "install" ELSE "erase")
  /\ UNCHANGED <<dlog, dhead, lh, outstanding, committing, held, wrote, torn, mode>>

\* log.lh.n = 0; write_head()
erase_forgets_disk(p) ==
  /\ mode = "run" /\ pc[p] = "erase"
  /\ lh' = <<>>
  /\ Goto(p, "done")
  /\ UNCHANGED <<diskvars, cache, pin, outstanding, committing, held, wrote,
                 torn, tail, mode>>
erase(p) ==
  /\ mode = "run" /\ pc[p] = "erase"
  /\ lh' = <<>> /\ dhead' = <<>>
  /\ Goto(p, "done")
  /\ UNCHANGED <<disk, dlog, cache, pin, outstanding, committing, held, wrote,
                 torn, tail, mode>>

\* The rest of end_op after commit() has returned.
commit_done(p) ==
  /\ mode = "run" /\ pc[p] = "done"
  /\ committing' = FALSE
  /\ pc' = wakeup([pc EXCEPT ![p] = "out"])
  /\ UNCHANGED <<diskvars, cache, pin, lh, outstanding, held, wrote, torn, tail, mode>>

----------------------------------------------------------------------------
(* Crash, and recover_from_log() at the next boot *)

Crash ==
  /\ cache' = [b \in Blocks |-> Empty] /\ pin' = [b \in Blocks |-> 0]
  /\ lh' = <<>> /\ outstanding' = 0 /\ committing' = FALSE
  /\ pc' = [p \in Procs |-> "out"] /\ held' = [p \in Procs |-> NoBlock]
  /\ wrote' = [p \in Procs |-> {}] /\ torn' = {}
  /\ tail' = 0 /\ mode' = "read_head"
  /\ UNCHANGED diskvars

read_head ==
  /\ mode = "read_head"
  /\ lh' = dhead
  /\ mode' = IF dhead = <<>> THEN "clear" ELSE "recover"
  /\ UNCHANGED <<diskvars, cache, pin, outstanding, committing, pc, held,
                 wrote, torn, tail>>

install_recovering ==
  /\ mode = "recover"
  /\ CopyHome(tail + 1)
  /\ tail' = IF tail + 1 < Len(lh) THEN tail + 1 ELSE 0
  /\ mode' = IF tail + 1 < Len(lh) THEN "recover" ELSE "clear"
  /\ UNCHANGED <<dlog, dhead, pin, lh, outstanding, committing, pc, held, wrote, torn>>

clear_log ==
  /\ mode = "clear"
  /\ lh' = <<>> /\ dhead' = <<>>
  /\ mode' = "run"
  /\ UNCHANGED <<disk, dlog, cache, pin, outstanding, committing, pc, held,
                 wrote, torn, tail>>

----------------------------------------------------------------------------
\* mkfs leaves an empty log; the first boot recovers from it like any other.
Init ==
  /\ disk = [b \in Blocks |-> Zero]
  /\ dlog = [i \in 1..LOGSIZE |-> Zero]
  /\ dhead = <<>>
  /\ cache = [b \in Blocks |-> Empty] /\ pin = [b \in Blocks |-> 0]
  /\ lh = <<>> /\ outstanding = 0 /\ committing = FALSE
  /\ pc = [p \in Procs |-> "out"] /\ held = [p \in Procs |-> NoBlock]
  /\ wrote = [p \in Procs |-> {}] /\ torn = {}
  /\ tail = 0 /\ mode = "read_head"

CommitStep(p) ==
  \/ commit(p) \/ write_log(p) \/ write_head(p) \/ install_trans(p)
  \/ erase(p) \/ commit_done(p)

Recover == read_head \/ install_recovering \/ clear_log

Proc(p) ==
  \/ begin_op(p) \/ log_write(p) \/ end_op(p) \/ brelse(p)
  \/ \E b \in Blocks : bread(p, b)
  \/ \E v \in Data : modify(p, v) \/ copyin_fails(p, v)
  \/ CommitStep(p)

Next ==
  \/ \E p \in Procs : Proc(p)
  \/ \E b \in Blocks : recycle(b)
  \/ Recover
  \/ Crash

Spec == Init /\ [][Next]_vars

\* Every call finishes, a buffer is not kept from the committer for ever, and
\* the machine stops crashing.
Fairness ==
  /\ \A p \in Procs :
       /\ WF_vars(pc[p] = "begin" /\ begin_op(p))
       /\ WF_vars(log_write(p))
       /\ SF_vars(brelse(p)) /\ SF_vars(end_op(p)) /\ SF_vars(CommitStep(p))
  /\ WF_vars(Recover)
  /\ <>[][~Crash]_vars

FairSpec == Spec /\ Fairness

----------------------------------------------------------------------------
(* Properties *)

TypeOK ==
  /\ disk \in [Blocks -> Data]
  /\ dlog \in [1..LOGSIZE -> Data]
  /\ dhead \in Seq(Blocks)
  /\ cache \in [Blocks -> Data \cup {Empty}]
  /\ pin \in [Blocks -> Nat]
  /\ lh \in Seq(Blocks)
  /\ outstanding \in Int
  /\ committing \in BOOLEAN
  /\ pc \in [Procs -> PCs]
  /\ held \in [Procs -> Blocks \cup {NoBlock}]
  /\ wrote \in [Procs -> SUBSET Blocks] /\ torn \in SUBSET FileBlocks
  /\ tail \in Nat
  /\ mode \in {"read_head", "recover", "clear", "run", "panic"}

Active == {p \in Procs : pc[p] \in InOp}

\* What recovery would leave in the home blocks if the machine crashed now.
Recovered ==
  [b \in Blocks |->
     IF \E i \in 1..Len(dhead) : dhead[i] = b
     THEN dlog[CHOOSE i \in 1..Len(dhead) : dhead[i] = b]
     ELSE disk[b]]

\* What the file system sees; during recovery, what it will see.
Current ==
  IF mode \in {"run", "panic"} THEN [b \in Blocks |-> View(b)] ELSE Recovered

\* The blocks of the open transaction, from their change on.
Pending ==
  IF mode \in {"run", "panic"} /\ dhead = <<>>
  THEN Logged \cup {held[p] : p \in {q \in Procs : pc[q] = "dirty"}}
  ELSE {}

AD == INSTANCE AtomicDisk WITH
        committed <- Recovered, current <- Current, active <- Active,
        logged <- Pending, loose <- torn

\* The log makes groups of system calls atomic with respect to crashes: what
\* recovery finds changes only at a commit, which no call overlaps and which
\* publishes every block the calls wrote; installing, recovering and crashing
\* again during recovery change nothing, and recycling a buffer changes nothing
\* but the blocks of files into which a copy has failed since they were last
\* logged, which go back to what was committed
\* (commit, install_trans, recover_from_log, and fs.c:522-525).
CrashAtomic == AD!ASpec

\* No call that keeps within OPBLOCKS reaches a panic of log_write or end_op:
\* the space begin_op reserves suffices for every mix of calls.
NoPanic == mode # "panic"

\* commit() runs with no call in progress and no second committer, so nobody
\* changes the blocks it copies (log.c:13-16).
CommitAlone ==
  mode = "run" =>
    /\ committing => outstanding = 0 /\ Active = {}
    /\ \A p, q \in Procs : pc[p] \in InCommit /\ pc[q] \in InCommit => p = q

\* install_trans has copied entry i of the header home.
Installed(i) ==
  \/ \E p \in Procs : pc[p] = "erase"
  \/ \E p \in Procs : pc[p] = "install" /\ i <= tail

\* A buffer is pinned exactly while its block waits to be installed: a lost
\* unpin would take the buffer out of the cache for ever, an extra one would
\* let it be recycled before the commit.
PinsMatchLog ==
  mode = "run" =>
    \A b \in Blocks :
      pin[b] = IF \E i \in 1..Len(lh) : lh[i] = b /\ ~Installed(i) THEN 1 ELSE 0

\* When the last end_op has returned nothing is volatile any more: every block
\* the file system sees, unless it is torn, is what a reboot would find.
QuiescentDurable ==
  mode = "run" /\ outstanding = 0 /\ ~committing =>
    /\ lh = <<>>
    /\ \A b \in Blocks \ torn : View(b) = Recovered[b]

\* Whoever sleeps in begin_op is owed a wakeup: a call is in progress or a
\* commit is running, and both end by waking the sleepers.
SleeperHasWaker ==
  mode = "run" /\ (\E p \in Procs : pc[p] = "sleep") =>
    Active # {} \/ \E p \in Procs : pc[p] \in InCommit

\* A committed transaction is installed and its header erased in the end, by
\* the committer or, after any number of crashes, by recovery.
LogDrains == dhead # <<>> ~> dhead = <<>>

\* Outside the log an unlocked cached block equals its home block on disk
\* ("cached copies of disk block contents", bio.c:3-4), unless a copy into it
\* has failed since it was last logged or read; no block of the log is torn.
CacheCoherent ==
  mode = "run" =>
    /\ \A b \in Blocks \ (Logged \cup torn) : Unlocked(b) => View(b) = disk[b]
    /\ Logged \cap torn = {}

\* Calls and commits keep out of each other's way and wake each other: the state
\* is well-typed, a commit runs alone, and whoever sleeps in begin_op is owed a
\* wakeup (begin_op, end_op, commit).
Orderly == TypeOK /\ CommitAlone /\ SleeperHasWaker

\* Cache, log and disk agree: buffers are pinned exactly while they wait to be
\* installed, unlocked blocks outside the log are as on the disk, and when no
\* call is in progress a reboot would find what the file system sees, but for
\* the blocks that a failing either_copyin() has left changed and unlogged
\* (log_write, install_trans, end_op, and fs.c:522-525).
Coherent == PinsMatchLog /\ CacheCoherent /\ QuiescentDurable
=============================================================================
