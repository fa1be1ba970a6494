------------------------------ MODULE BufCache ------------------------------
(***************************************************************************)
(* The buffer cache (kernel/bio.c) with the sleep locks of its buffers     *)
(* (kernel/sleeplock.c).                                                   *)
(*                                                                         *)
(* A section under bcache.lock, or under the spin lock inside a sleep      *)
(* lock, is one step.  Between finding a buffer in bget() and locking it,  *)
(* between unlocking it in brelse() and dropping the reference, and while  *)
(* the disk works, other processes run.                                    *)
(*                                                                         *)
(* The callers' side is the contract of bio.c: a changed buffer is written *)
(* or given to the log before brelse(); a process that holds a buffer and  *)
(* reads another goes up a fixed order (log, data, bitmap in fs.c and      *)
(* log.c).                                                                 *)
(***************************************************************************)
EXTENDS Integers, Sequences, FiniteSets

CONSTANTS
  NBUF,
  Blocks,     \* block numbers; nested bread()s go up
  Procs,
  Values,
  Nobody,
  MaxHeld,    \* buffers that one process uses at a time
  LogBlocks   \* blocks that the log may pin at a time

ASSUME BufAssumption ==
  /\ NBUF \in Nat \ {0}
  /\ Blocks \subseteq Nat \ {0}
  /\ IsFiniteSet(Procs) /\ Nobody \notin Procs
  /\ MaxHeld \in Nat /\ LogBlocks \in Nat

Bufs == 1..NBUF
NoBlock == 0

VARIABLES
  blockno, valid, refcnt, data,   \* struct buf; NoBlock: of no device yet
  locked,                         \* b->lock: its holder, or Nobody
  lru,                            \* bcache.head's list, most recent first
  disk,
  pinned,                         \* buffers that the log has pinned
  pc, cur,                        \* where a process is, and with which buffer
  held,                           \* buffers that it has got from bread()
  dirty                           \* locked buffers changed since

bufs == <<blockno, valid, refcnt, data, lru>>
vars == <<bufs, locked, disk, pinned, pc, cur, held, dirty>>

Goto(p, l) == pc' = [pc EXCEPT ![p] = l]

----------------------------------------------------------------------------
(* bread(): bget(), acquiresleep(), and the read *)

Cached(k) == {b \in Bufs : blockno[b] = k}
Unused == {j \in 1..NBUF : refcnt[lru[j]] = 0}
\* The least recently used buffer without references.
Victims == {lru[j] : j \in {j \in Unused : \A h \in Unused : h <= j}}

bget_hit(p, k) ==
  /\ pc[p] = "run" /\ Cardinality(held[p]) < MaxHeld
  /\ \A b \in held[p] : blockno[b] < k
  /\ \E b \in Cached(k) :
       /\ cur' = [cur EXCEPT ![p] = b]
       /\ refcnt' = [refcnt EXCEPT ![b] = @ + 1]
  /\ Goto(p, "acquiresleep")
  /\ UNCHANGED <<blockno, valid, data, lru, locked, disk, pinned, held, dirty>>

bget_recycle_valid(p, k) ==
  /\ pc[p] = "run" /\ Cardinality(held[p]) < MaxHeld
  /\ \A b \in held[p] : blockno[b] < k
  /\ Cached(k) = {}
  /\ \E b \in Victims :
       /\ cur' = [cur EXCEPT ![p] = b]
       /\ blockno' = [blockno EXCEPT ![b] = k]
       /\ refcnt' = [refcnt EXCEPT ![b] = 1]
  /\ Goto(p, "acquiresleep")
  /\ UNCHANGED <<valid, data, lru, locked, disk, pinned, held, dirty>>
bget_recycle(p, k) ==
  /\ pc[p] = "run" /\ Cardinality(held[p]) < MaxHeld
  /\ \A b \in held[p] : blockno[b] < k
  /\ Cached(k) = {}
  /\ \E b \in Victims :
       /\ cur' = [cur EXCEPT ![p] = b]
       /\ blockno' = [blockno EXCEPT ![b] = k]
       /\ valid' = [valid EXCEPT ![b] = FALSE]
       /\ refcnt' = [refcnt EXCEPT ![b] = 1]
  /\ Goto(p, "acquiresleep")
  /\ UNCHANGED <<data, lru, locked, disk, pinned, held, dirty>>

\* panic("bget: no buffers")
bget_panic(p, k) ==
  /\ pc[p] = "run" /\ Cardinality(held[p]) < MaxHeld
  /\ \A b \in held[p] : blockno[b] < k
  /\ Cached(k) = {} /\ Unused = {}
  /\ Goto(p, "panic")
  /\ UNCHANGED <<bufs, locked, disk, pinned, cur, held, dirty>>

\* acquiresleep()'s loop, at the call and after a wakeup: its body, and its end.
acquiresleep_wait(p) ==
  /\ pc[p] = "acquiresleep" /\ locked[cur[p]] # Nobody
  /\ Goto(p, "sleeping")
  /\ UNCHANGED <<bufs, locked, disk, pinned, cur, held, dirty>>

acquiresleep(p) ==
  /\ pc[p] = "acquiresleep" /\ locked[cur[p]] = Nobody
  /\ locked' = [locked EXCEPT ![cur[p]] = p]
  /\ held' = [held EXCEPT ![p] = @ \cup {cur[p]}]
  /\ Goto(p, IF valid[cur[p]] THEN "run" ELSE "reading")
  /\ UNCHANGED <<bufs, disk, pinned, cur, dirty>>

\* virtio_disk_rw(b, 0) has returned.
read_done(p) ==
  /\ pc[p] = "reading"
  /\ data' = [data EXCEPT ![cur[p]] = disk[blockno[cur[p]]]]
  /\ valid' = [valid EXCEPT ![cur[p]] = TRUE]
  /\ Goto(p, "run")
  /\ UNCHANGED <<blockno, refcnt, lru, locked, disk, pinned, cur, held, dirty>>

----------------------------------------------------------------------------
(* Use of a locked buffer *)

modify(p, b, v) ==
  /\ pc[p] = "run" /\ b \in held[p]
  /\ data' = [data EXCEPT ![b] = v]
  /\ dirty' = dirty \cup {b}
  /\ UNCHANGED <<blockno, valid, refcnt, lru, locked, disk, pinned, pc, cur, held>>

\* log_write() pins a block that is not in the log yet.
bpin_none(p, b) ==
  /\ pc[p] = "run" /\ b \in held[p] /\ b \in dirty
  /\ b \in pinned \/ Cardinality(pinned) < LogBlocks
  /\ pinned' = pinned \cup {b}
  /\ dirty' = dirty \ {b}
  /\ UNCHANGED <<bufs, locked, disk, pc, cur, held>>
bpin(p, b) ==
  /\ pc[p] = "run" /\ b \in held[p] /\ b \in dirty
  /\ b \in pinned \/ Cardinality(pinned) < LogBlocks
  /\ refcnt' = IF b \in pinned THEN refcnt ELSE [refcnt EXCEPT ![b] = @ + 1]
  /\ pinned' = pinned \cup {b}
  /\ dirty' = dirty \ {b}
  /\ UNCHANGED <<blockno, valid, data, lru, locked, disk, pc, cur, held>>

bwrite(p, b) ==
  /\ pc[p] = "run" /\ b \in held[p]
  /\ cur' = [cur EXCEPT ![p] = b]
  /\ Goto(p, "writing")
  /\ UNCHANGED <<bufs, locked, disk, pinned, held, dirty>>

\* virtio_disk_rw(b, 1) has returned.  It is install_trans() that writes a
\* pinned block to its home, and it unpins it next.
write_done(p) ==
  /\ pc[p] = "writing"
  /\ disk' = [disk EXCEPT ![blockno[cur[p]]] = data[cur[p]]]
  /\ dirty' = dirty \ {cur[p]}
  /\ Goto(p, IF cur[p] \in pinned THEN "bunpin" ELSE "run")
  /\ UNCHANGED <<bufs, locked, pinned, cur, held>>

bunpin(p) ==
  /\ pc[p] = "bunpin"
  /\ refcnt' = [refcnt EXCEPT ![cur[p]] = @ - 1]
  /\ pinned' = pinned \ {cur[p]}
  /\ Goto(p, "run")
  /\ UNCHANGED <<blockno, valid, data, lru, locked, disk, cur, held, dirty>>

----------------------------------------------------------------------------
(* brelse(): releasesleep(), then the reference and the list *)

\* wakeup(lk) in releasesleep().
Woken(b) == [q \in Procs |-> IF pc[q] = "sleeping" /\ cur[q] = b
                             THEN "acquiresleep" ELSE pc[q]]

releasesleep(p, b) ==
  /\ pc[p] = "run" /\ b \in held[p] \ dirty
  /\ locked' = [locked EXCEPT ![b] = Nobody]
  /\ held' = [held EXCEPT ![p] = @ \ {b}]
  /\ cur' = [cur EXCEPT ![p] = b]
  /\ pc' = [Woken(b) EXCEPT ![p] = "brelse"]
  /\ UNCHANGED <<bufs, disk, pinned, dirty>>

\* The list with b at its head: the buffers that were before it move back by one.
ToFront(b) ==
  LET at == CHOOSE j \in 1..NBUF : lru[j] = b
  IN  [j \in 1..NBUF |-> IF j = 1 THEN b ELSE IF j <= at THEN lru[j - 1] ELSE lru[j]]

brelse(p) ==
  /\ pc[p] = "brelse"
  /\ refcnt' = [refcnt EXCEPT ![cur[p]] = @ - 1]
  /\ lru' = IF refcnt'[cur[p]] = 0 THEN ToFront(cur[p]) ELSE lru
  /\ Goto(p, "run")
  /\ UNCHANGED <<blockno, valid, data, locked, disk, pinned, cur, held, dirty>>

----------------------------------------------------------------------------
\* binit() puts every buffer at the front in turn.
Init ==
  /\ blockno = [b \in Bufs |-> NoBlock] /\ valid = [b \in Bufs |-> FALSE]
  /\ refcnt = [b \in Bufs |-> 0]
  /\ disk \in [Blocks -> Values]
  /\ data \in [Bufs -> Values] /\ \A b, d \in Bufs : data[b] = data[d]
  /\ lru = [j \in 1..NBUF |-> NBUF + 1 - j]
  /\ locked = [b \in Bufs |-> Nobody] /\ pinned = {}
  /\ pc = [p \in Procs |-> "run"] /\ cur = [p \in Procs |-> 1]
  /\ held = [p \in Procs |-> {}] /\ dirty = {}

\* What a process does once it is inside bio.c.
Step(p) ==
  \/ acquiresleep_wait(p) \/ acquiresleep(p) \/ read_done(p)
  \/ write_done(p) \/ bunpin(p) \/ brelse(p)

\* What it asks of bio.c.
Call(p) ==
  \/ \E k \in Blocks : bget_hit(p, k) \/ bget_recycle(p, k) \/ bget_panic(p, k)
  \/ \E b \in Bufs : bpin(p, b) \/ bwrite(p, b) \/ releasesleep(p, b)
  \/ \E b \in Bufs, v \in Values : modify(p, b, v)

Next == \E p \in Procs : Step(p) \/ Call(p)

Spec == Init /\ [][Next]_vars

----------------------------------------------------------------------------
(* Properties *)

TypeOK ==
  /\ blockno \in [Bufs -> Blocks \cup {NoBlock}] /\ valid \in [Bufs -> BOOLEAN]
  /\ refcnt \in [Bufs -> Nat] /\ data \in [Bufs -> Values]
  /\ locked \in [Bufs -> Procs \cup {Nobody}]
  /\ lru \in [1..NBUF -> Bufs]
  /\ disk \in [Blocks -> Values] /\ pinned \in SUBSET Bufs
  /\ pc \in [Procs -> {"run", "acquiresleep", "sleeping", "reading", "writing",
                       "bunpin", "brelse", "panic"}]
  /\ cur \in [Procs -> Bufs] /\ held \in [Procs -> SUBSET Bufs] /\ dirty \in SUBSET Bufs

\* The buffers a process refers to: the ones it has locked, and the one that it
\* is about to lock or has just unlocked.
Refers(p) == held[p] \cup (IF pc[p] \in {"acquiresleep", "sleeping", "brelse"}
                           THEN {cur[p]} ELSE {})

\* No buffer drops off the list.
Listed == \A b \in Bufs : \E j \in 1..NBUF : lru[j] = b

\* refcnt counts the processes that refer to the buffer and the log's pin: a
\* buffer that somebody is about to lock, or that waits for its commit, cannot be
\* recycled, and one that nobody refers to can.  (The state is well-typed besides.)
RefCounts ==
  /\ TypeOK /\ Listed
  /\ \A b \in Bufs :
       refcnt[b] = Cardinality({p \in Procs : b \in Refers(p)})
                   + (IF b \in pinned THEN 1 ELSE 0)

\* Reading a block gives the process exclusive use of its latest contents,
\* through hits, misses, recycling and disk transfers.
Contents == [k \in Blocks |->
               IF \E b \in Cached(k) : valid[b]
               THEN data[CHOOSE b \in Cached(k) : valid[b]] ELSE disk[k]]
Holder == [k \in Blocks |->
             IF \E b \in Cached(k) : locked[b] # Nobody
             THEN locked[CHOOSE b \in Cached(k) : locked[b] # Nobody] ELSE Nobody]
Store == INSTANCE BlockStore WITH cell <- Contents, holder <- Holder
StoreSpec == Store!Spec

\* Nobody sleeps over a free lock: releasesleep() wakes everybody under the
\* spin lock that acquiresleep() holds from its test to its sleep.
SleepersBlocked == \A p \in Procs : pc[p] = "sleeping" => locked[cur[p]] # Nobody

\* Every buffer is kept for those who use or await it, and for no one else
\* (bget, brelse, bpin in bio.c, acquiresleep, releasesleep in sleeplock.c).
BuffersKept == RefCounts /\ SleepersBlocked
=============================================================================
