----------------------------- MODULE LogProofs -----------------------------
(***************************************************************************)
(* Proofs about Log for every set of processes, every set of blocks and    *)
(* every log size: an inductive invariant IInv, and what follows from it:  *)
(* the safety properties of Log, that Log implements AtomicDisk, and that  *)
(* the log never overflows.                                                *)
(***************************************************************************)
EXTENDS Log, FiniteSetTheorems, TLAPS

\* Leaves that name no prover are for Zenon.
USE ZenonT(60)

NoDup(s) == \A i, j \in 1..Len(s) : s[i] = s[j] => i = j

\* Both headers list distinct blocks, no more than the log has room for.
HeadInv ==
  /\ NoDup(lh) /\ Len(lh) <= LOGSIZE
  /\ NoDup(dhead) /\ Len(dhead) <= LOGSIZE

\* Recovery works alone, on an otherwise untouched machine, and has copied
\* home the entries below tail.
RecoverInv ==
  mode \in {"read_head", "recover", "clear"} =>
    /\ pc = [p \in Procs |-> "out"]
    /\ held = [p \in Procs |-> NoBlock]
    /\ pin = [b \in Blocks |-> 0]
    /\ outstanding = 0 /\ committing = FALSE /\ torn = {}
    /\ \A b \in Blocks : View(b) = disk[b]
    /\ mode = "read_head" => tail = 0
    /\ mode \in {"recover", "clear"} => lh = dhead
    /\ mode = "recover" => tail < Len(lh)
    /\ mode = "recover" => \A i \in 1..Len(lh) : i <= tail => disk[lh[i]] = dlog[i]
    /\ mode = "clear" => \A i \in 1..Len(lh) : disk[lh[i]] = dlog[i]

\* outstanding counts the calls in progress; at most one process commits, and
\* then no call is in progress; between transactions the log is empty.
CommitInv ==
  mode = "run" =>
    /\ outstanding = Cardinality(Active)
    /\ committing <=> \E p \in Procs : pc[p] \in InCommit
    /\ committing => Active = {}
    /\ \A p, q \in Procs : pc[p] \in InCommit /\ pc[q] \in InCommit => p = q
    /\ \A p \in Procs : pc[p] \in {"write_log", "install"} => tail < Len(lh)
    /\ \A p \in Procs : pc[p] = "done" => lh = <<>>
    /\ ~committing /\ Active = {} => lh = <<>>

\* The buffer locks, and what a locked or an unlogged buffer holds: what its
\* home block does, unless it is torn.
CacheInv ==
  mode = "run" =>
    /\ \A p \in Procs : pc[p] \in InBuf <=> held[p] # NoBlock
    /\ \A p, q \in Procs : held[p] = held[q] /\ held[p] # NoBlock => p = q
    /\ \A p \in Procs : pc[p] = "dirty" => cache[held[p]] # Empty /\ held[p] \notin torn
    /\ \A b \in torn : b \notin Logged
    /\ \A b \in Blocks \ (Logged \cup torn) :
         (\A p \in Procs : pc[p] = "dirty" => held[p] # b) =>
           View(b) = disk[b]

\* Exactly the logged and not yet installed blocks are pinned, hence cached.
PinInv ==
  mode = "run" =>
    /\ \A b \in Blocks \ Logged : pin[b] = 0
    /\ \A i \in 1..Len(lh) : pin[lh[i]] = IF Installed(i) THEN 0 ELSE 1
    /\ \A i \in 1..Len(lh) : ~Installed(i) => cache[lh[i]] # Empty

\* How far the commit has come: what is in the log and at home.
LogInv ==
  mode = "run" =>
    /\ \A p \in Procs : pc[p] \in {"install", "erase"} => dhead = lh
    /\ (\A p \in Procs : pc[p] \notin {"install", "erase"}) => dhead = <<>>
    /\ \A p \in Procs : pc[p] = "write_log" =>
         \A i \in 1..Len(lh) : i <= tail => dlog[i] = View(lh[i])
    /\ \A p \in Procs : pc[p] = "write_head" =>
         /\ tail = 0 /\ lh # <<>>
         /\ \A i \in 1..Len(lh) : dlog[i] = View(lh[i])
    /\ \A p \in Procs : pc[p] \in {"install", "erase"} =>
         \A i \in 1..Len(lh) :
           /\ View(lh[i]) = dlog[i]
           /\ Installed(i) => disk[lh[i]] = dlog[i]

IInv ==
  TypeOK /\ HeadInv /\ RecoverInv /\ CommitInv /\ CacheInv /\ PinInv /\ LogInv

USE DEF IInv

\* What log_write's append to the header leaves and adds.
LEMMA AppendFacts ==
  ASSUME NEW s \in Seq(Blocks), NEW b \in Blocks
  PROVE  /\ Append(s, b) \in Seq(Blocks)
         /\ Len(Append(s, b)) = Len(s) + 1
         /\ \A i \in 1..Len(s) : Append(s, b)[i] = s[i]
         /\ Append(s, b)[Len(s) + 1] = b
BY SMTT(30)

----------------------------------------------------------------------------
(* What leaves each part of the invariant alone *)

\* A step that moves no process into or out of a call or a phase of the
\* commit keeps CommitInv.
LEMMA CommitFrame ==
  ASSUME CommitInv, mode' = mode, UNCHANGED <<outstanding, committing, lh, tail>>,
         \A q \in Procs : pc'[q] \in InOp <=> pc[q] \in InOp,
         \A q \in Procs, l \in InCommit : pc'[q] = l <=> pc[q] = l
  PROVE  CommitInv'
<1>1. Active' = Active
  BY DEF Active
<1>2. \A q \in Procs : pc'[q] \in InCommit <=> pc[q] \in InCommit
  OBVIOUS
<1>. QED
  BY <1>1, <1>2 DEF CommitInv, InCommit

\* A step that leaves buffers, their locks and their holders alone keeps
\* CacheInv.
LEMMA CacheFrame ==
  ASSUME CacheInv, mode' = mode, UNCHANGED <<held, cache, disk, lh, torn>>,
         \A q \in Procs, l \in InBuf : pc'[q] = l <=> pc[q] = l
  PROVE  CacheInv'
<1>1. \A q \in Procs : pc'[q] \in InBuf <=> pc[q] \in InBuf
  OBVIOUS
<1>2. Logged' = Logged /\ \A b \in Blocks : View(b)' = View(b)
  BY DEF Logged, View
<1>. QED
  BY <1>1, <1>2 DEF CacheInv, InBuf

\* Installed depends on the committer's phase and on tail only.
LEMMA InstalledFrame ==
  ASSUME UNCHANGED tail,
         \A q \in Procs, l \in InCommit : pc'[q] = l <=> pc[q] = l
  PROVE  \A i \in 1..Len(lh) : Installed(i)' <=> Installed(i)
BY DEF Installed, InCommit

\* A step that leaves pins, buffers and the header alone keeps PinInv.
LEMMA PinFrame ==
  ASSUME PinInv, TypeOK, mode' = mode, UNCHANGED <<pin, lh, tail>>,
         \A b \in Blocks : cache[b] # Empty => cache'[b] # Empty,
         \A q \in Procs, l \in InCommit : pc'[q] = l <=> pc[q] = l
  PROVE  PinInv'
<1>1. Logged' = Logged
  BY DEF Logged
<1>2. \A i \in 1..Len(lh) : lh[i] \in Blocks
  BY SMTT(30) DEF TypeOK
<1>. QED
  BY <1>1, <1>2, InstalledFrame DEF PinInv

\* A step that leaves the disk, the buffers and the header alone keeps LogInv.
LEMMA LogFrame ==
  ASSUME LogInv, TypeOK, mode' = mode,
         UNCHANGED <<disk, dlog, dhead, lh, tail>>,
         \A b \in Blocks : View(b)' = View(b),
         \A q \in Procs, l \in InCommit : pc'[q] = l <=> pc[q] = l
  PROVE  LogInv'
<1>1. \A i \in 1..Len(lh) : lh[i] \in Blocks /\ View(lh[i])' = View(lh[i])
  BY SMTT(30) DEF TypeOK
<1>2. \A q \in Procs : pc'[q] \in {"install", "erase"} <=> pc[q] \in {"install", "erase"}
  BY DEF InCommit
<1>. QED
  BY <1>1, <1>2, InstalledFrame DEF LogInv, InCommit

----------------------------------------------------------------------------
(* One lemma per action *)

\* begin_op: the call is counted, or the process sleeps.
LEMMA BeginOpStep ==
  ASSUME IInv, TypeOK', NEW p \in Procs, begin_op(p)
  PROVE  IInv'
<1>1. UNCHANGED <<torn, disk, dlog, dhead, cache, pin, lh, committing, held, tail, mode>>
  BY DEF begin_op, diskvars
<1>2. mode = "run" /\ pc[p] \in {"out", "begin"} /\ pc \in [Procs -> PCs]
  BY DEF begin_op, TypeOK
<1>3. \/ pc' = [pc EXCEPT ![p] = "sleep"] /\ UNCHANGED outstanding
      \/ ~committing /\ pc' = [pc EXCEPT ![p] = "op"] /\ outstanding' = outstanding + 1
  BY DEF begin_op, MustWait, Goto
<1>4. \A q \in Procs, l \in InCommit \cup InBuf : pc'[q] = l <=> pc[q] = l
  BY <1>2, <1>3 DEF InCommit, InBuf
<1>5. HeadInv' /\ RecoverInv'
  BY <1>1, <1>2 DEF HeadInv, NoDup, RecoverInv
<1>6. CommitInv'
  <2>1. CASE pc' = [pc EXCEPT ![p] = "sleep"] /\ UNCHANGED outstanding
    BY <1>1, <1>2, <1>4, <2>1, CommitFrame DEF InOp
  <2>2. CASE ~committing /\ pc' = [pc EXCEPT ![p] = "op"] /\ outstanding' = outstanding + 1
    <3>1. Active' = Active \cup {p} /\ p \notin Active
      BY <1>2, <2>2 DEF Active, InOp
    <3>2. Cardinality(Active') = Cardinality(Active) + 1
      BY <3>1, FS_AddElement, FS_Subset, LogAssumption DEF LogAssumption, Active
    <3>. QED
      BY <1>1, <1>2, <2>2, <3>1, <3>2 DEF CommitInv, InCommit
  <2>. QED
    BY <1>3, <2>1, <2>2
<1>7. CacheInv' /\ PinInv' /\ LogInv'
  BY <1>1, <1>4, CacheFrame, PinFrame, LogFrame DEF View
<1>. QED
  BY <1>5, <1>6, <1>7

\* bread: caching a block that nobody has locked shows the same contents.
LEMMA BreadStep ==
  ASSUME IInv, TypeOK', NEW p \in Procs, NEW b \in Blocks, bread(p, b)
  PROVE  IInv'
<1>1. UNCHANGED <<torn, disk, dlog, dhead, pin, lh, outstanding, committing, tail, mode>>
  BY DEF bread, diskvars
<1>2. /\ mode = "run" /\ pc[p] \in {"out", "op"} /\ pc \in [Procs -> PCs]
      /\ held \in [Procs -> Blocks \cup {NoBlock}]
      /\ cache \in [Blocks -> Data \cup {Empty}]
      /\ disk \in [Blocks -> Data] /\ Empty \notin Data /\ NoBlock \notin Blocks
  BY LogAssumption DEF bread, TypeOK, LogAssumption
<1>3. /\ pc' = [pc EXCEPT ![p] = IF pc[p] = "op" THEN "buf" ELSE "rd"]
      /\ held' = [held EXCEPT ![p] = b]
      /\ cache' = [cache EXCEPT ![b] = View(b)]
      /\ \A q \in Procs : held[q] # b
  BY DEF bread, Goto, Unlocked
<1>4. /\ \A q \in Procs, l \in InCommit : pc'[q] = l <=> pc[q] = l
      /\ \A q \in Procs : pc'[q] \in InOp <=> pc[q] \in InOp
      /\ \A q \in Procs : pc'[q] = "dirty" <=> pc[q] = "dirty"
  BY <1>2, <1>3 DEF InCommit, InOp
<1>5. \A x \in Blocks : View(x)' = View(x) /\ (cache[x] # Empty => cache'[x] # Empty)
  BY <1>1, <1>2, <1>3 DEF View
<1>6. HeadInv' /\ RecoverInv'
  BY <1>1, <1>2 DEF HeadInv, NoDup, RecoverInv
<1>7. CommitInv' /\ PinInv' /\ LogInv'
  BY <1>1, <1>4, <1>5, CommitFrame, PinFrame, LogFrame
<1>8. CacheInv'
  <2>1. Logged' = Logged
    BY <1>1 DEF Logged
  <2>2. \A q \in Procs : pc'[q] \in InBuf <=> held'[q] # NoBlock
    BY <1>2, <1>3 DEF CacheInv, InBuf
  <2>3. \A q, r \in Procs : held'[q] = held'[r] /\ held'[q] # NoBlock => q = r
    BY <1>2, <1>3 DEF CacheInv
  <2>4. \A q \in Procs : pc'[q] = "dirty" => held'[q] = held[q] /\ cache'[held'[q]] # Empty
    BY SMTT(30), <1>2, <1>3, <1>4, <1>5 DEF CacheInv, InBuf
  <2>5. ASSUME NEW x \in Blocks \ (Logged \cup torn),
               \A q \in Procs : pc'[q] = "dirty" => held'[q] # x
        PROVE  View(x)' = disk'[x]
    <3>1. \A q \in Procs : pc[q] = "dirty" => held[q] # x
      BY <2>4, <2>5, <1>4
    <3>. QED
      BY <1>1, <1>2, <1>5, <3>1 DEF CacheInv
  <2>6. \A q \in Procs : pc'[q] = "dirty" => held'[q] \notin torn
    BY <1>2, <1>4, <2>4 DEF CacheInv
  <2>7. \A x \in torn : x \notin Logged
    BY <1>2 DEF CacheInv
  <2>. QED
    BY <1>1, <2>1, <2>2, <2>3, <2>4, <2>5, <2>6, <2>7 DEF CacheInv
<1>. QED
  BY <1>6, <1>7, <1>8

\* brelse: only clean or logged buffers are released.
LEMMA BrelseStep ==
  ASSUME IInv, TypeOK', NEW p \in Procs, brelse(p)
  PROVE  IInv'
<1>1. UNCHANGED <<torn, disk, dlog, dhead, cache, pin, lh, outstanding, committing, tail, mode>>
  BY DEF brelse, diskvars
<1>2. /\ mode = "run" /\ pc[p] \in {"buf", "rd"} /\ pc \in [Procs -> PCs]
      /\ held \in [Procs -> Blocks \cup {NoBlock}]
  BY DEF brelse, TypeOK
<1>3. /\ pc' = [pc EXCEPT ![p] = IF pc[p] = "buf" THEN "op" ELSE "out"]
      /\ held' = [held EXCEPT ![p] = NoBlock]
  BY DEF brelse, Goto
<1>4. /\ \A q \in Procs, l \in InCommit : pc'[q] = l <=> pc[q] = l
      /\ \A q \in Procs : pc'[q] \in InOp <=> pc[q] \in InOp
      /\ \A q \in Procs : pc'[q] = "dirty" <=> pc[q] = "dirty"
  BY <1>2, <1>3 DEF InCommit, InOp
<1>5. HeadInv' /\ RecoverInv'
  BY <1>1, <1>2 DEF HeadInv, NoDup, RecoverInv
<1>6. CommitInv' /\ PinInv' /\ LogInv'
  BY <1>1, <1>4, CommitFrame, PinFrame, LogFrame DEF View
<1>7. CacheInv'
  <2>1. Logged' = Logged /\ \A x \in Blocks : View(x)' = View(x)
    BY <1>1 DEF Logged, View
  <2>2. \A q \in Procs : pc'[q] \in InBuf <=> held'[q] # NoBlock
    BY <1>2, <1>3 DEF CacheInv, InBuf
  <2>3. \A q, r \in Procs : held'[q] = held'[r] /\ held'[q] # NoBlock => q = r
    BY <1>2, <1>3 DEF CacheInv
  <2>4. \A q \in Procs : pc'[q] = "dirty" => pc[q] = "dirty" /\ held'[q] = held[q]
    BY <1>2, <1>3
  <2>. QED
    BY SMTT(30), <1>1, <1>2, <1>4, <2>1, <2>2, <2>3, <2>4 DEF CacheInv
<1>. QED
  BY <1>5, <1>6, <1>7

\* bget's recycling: the buffer it takes is neither pinned nor locked, so its
\* contents are on the disk, or torn.
LEMMA RecycleStep ==
  ASSUME IInv, TypeOK', NEW b \in Blocks, recycle(b)
  PROVE  IInv'
<1>1. /\ UNCHANGED <<disk, dlog, dhead, pin, lh, outstanding, committing, pc,
                      held, tail, mode>>
      /\ mode # "panic" /\ pin[b] = 0 /\ Unlocked(b)
      /\ cache' = [cache EXCEPT ![b] = Empty] /\ torn' = torn \ {b}
  BY DEF recycle, diskvars
<1>2. /\ mode \in {"read_head", "recover", "clear", "run"}
      /\ cache \in [Blocks -> Data \cup {Empty}] /\ pc \in [Procs -> PCs]
      /\ \A i \in 1..Len(lh) : lh[i] \in Blocks
      /\ held \in [Procs -> Blocks \cup {NoBlock}] /\ NoBlock \notin Blocks
  BY SMTT(30), <1>1, LogAssumption DEF TypeOK, LogAssumption
<1>3. b \notin torn => View(b) = disk[b]
  <2>1. CASE mode = "run"
    <3>1. CASE b \in Logged
      <4>1. PICK i \in 1..Len(lh) : lh[i] = b
        BY <3>1 DEF Logged
      <4>2. Installed(i)
        BY SMTT(30), <1>1, <2>1, <4>1 DEF PinInv
      <4>3. PICK q \in Procs : pc[q] \in {"install", "erase"}
        BY <4>2 DEF Installed
      <4>. QED
        BY <2>1, <4>1, <4>2, <4>3 DEF LogInv
    <3>2. CASE b \notin Logged
      BY <1>1, <2>1, <3>2 DEF CacheInv, Unlocked
    <3>. QED
      BY <3>1, <3>2
  <2>2. CASE mode # "run"
    BY <1>2, <2>2 DEF RecoverInv
  <2>. QED
    BY <2>1, <2>2
<1>4. /\ \A x \in Blocks : x \notin torn \/ x # b => View(x)' = View(x)
      /\ View(b)' = disk[b] /\ disk' = disk
  BY <1>1, <1>2, <1>3 DEF View
<1>10. mode = "run" => \A i \in 1..Len(lh) : lh[i] \notin torn
  BY DEF CacheInv, Logged
<1>5. HeadInv'
  BY SMTT(30), <1>1 DEF HeadInv, NoDup
<1>6. RecoverInv'
  BY <1>1, <1>4 DEF RecoverInv
<1>7. CommitInv' /\ LogInv'
  <2>1. CommitInv'
    BY <1>1, CommitFrame
  <2>2. CASE mode = "run"
    <3>1. \A i \in 1..Len(lh) : View(lh[i])' = View(lh[i])
      BY <1>1, <1>2, <1>4, <1>10, <2>2
    <3>2. \A i \in 1..Len(lh) : Installed(i)' <=> Installed(i)
      BY <1>1 DEF Installed
    <3>. QED
      BY <1>1, <2>1, <3>1, <3>2 DEF LogInv
  <2>3. CASE mode # "run"
    BY <1>1, <2>1, <2>3 DEF LogInv
  <2>. QED
    BY <2>2, <2>3
<1>8. CacheInv'
  <2>1. \A q \in Procs : mode = "run" /\ pc[q] = "dirty" => cache'[held[q]] # Empty
    BY <1>1, <1>2 DEF CacheInv, Unlocked, InBuf
  <2>2. Logged' = Logged
    BY <1>1 DEF Logged
  <2>3. ASSUME NEW x \in Blocks \ (Logged \cup torn'), mode = "run",
               \A q \in Procs : pc[q] = "dirty" => held[q] # x
        PROVE  View(x)' = disk[x]
    <3>1. CASE x = b
      BY <1>4, <3>1
    <3>2. CASE x # b
      BY <1>1, <1>4, <2>3, <3>2 DEF CacheInv
    <3>. QED
      BY <3>1, <3>2
  <2>. QED
    BY <1>1, <1>4, <2>1, <2>2, <2>3 DEF CacheInv
<1>9. PinInv'
  <2>1. Logged' = Logged /\ \A i \in 1..Len(lh) : Installed(i)' <=> Installed(i)
    BY <1>1 DEF Logged, Installed
  <2>2. \A i \in 1..Len(lh) : mode = "run" /\ ~Installed(i) => cache'[lh[i]] # Empty
    BY SMTT(30), <1>1, <1>2 DEF PinInv
  <2>. QED
    BY <1>1, <2>1, <2>2 DEF PinInv
<1>. QED
  BY <1>5, <1>6, <1>7, <1>8, <1>9

\* While a call is in progress nobody commits.
LEMMA NoCommitter ==
  ASSUME CommitInv, mode = "run", NEW p \in Procs, pc[p] \in InOp
  PROVE  ~committing /\ \A q \in Procs : pc[q] \notin InCommit
BY DEF CommitInv, Active

\* The caller's change of b->data, under the buffer's lock.
LEMMA ModifyStep ==
  ASSUME IInv, TypeOK', NEW p \in Procs, NEW v \in Data, modify(p, v)
  PROVE  IInv'
<1>1. /\ UNCHANGED <<disk, dlog, dhead, pin, lh, outstanding, committing, held, tail, mode>>
      /\ mode = "run" /\ pc[p] = "buf"
      /\ pc' = [pc EXCEPT ![p] = "dirty"]
      /\ cache' = [cache EXCEPT ![held[p]] = v] /\ torn' = torn \ {held[p]}
  BY DEF modify, diskvars, Goto
<1>2. /\ pc \in [Procs -> PCs] /\ held \in [Procs -> Blocks \cup {NoBlock}]
      /\ cache \in [Blocks -> Data \cup {Empty}]
      /\ Empty \notin Data /\ NoBlock \notin Blocks
  BY LogAssumption DEF TypeOK, LogAssumption
<1>3. held[p] \in Blocks /\ \A q \in Procs : q # p => held[q] # held[p]
  BY <1>1, <1>2 DEF CacheInv, InBuf
<1>4. /\ \A q \in Procs, l \in InCommit : pc'[q] = l <=> pc[q] = l
      /\ \A q \in Procs : pc'[q] \in InOp <=> pc[q] \in InOp
  BY <1>1, <1>2 DEF InCommit, InOp
<1>5. \A q \in Procs : pc[q] \notin InCommit
  BY <1>1, NoCommitter DEF InOp
<1>6. HeadInv' /\ RecoverInv'
  BY <1>1 DEF HeadInv, NoDup, RecoverInv
<1>7. CommitInv'
  BY <1>1, <1>4, CommitFrame
<1>8. PinInv'
  <2>1. \A x \in Blocks : cache[x] # Empty => cache'[x] # Empty
    BY <1>1, <1>2, <1>3
  <2>. QED
    BY <1>1, <1>4, <2>1, PinFrame
<1>9. LogInv'
  BY <1>1, <1>4, <1>5 DEF LogInv, InCommit
<1>10. CacheInv'
  <2>1. \A x \in Blocks : x # held[p] => View(x)' = View(x)
    BY <1>1, <1>2 DEF View
  <2>2. \A q \in Procs : pc'[q] \in InBuf <=> pc[q] \in InBuf
    BY <1>1, <1>2 DEF InBuf
  <2>3. \A q \in Procs : pc'[q] = "dirty" => cache'[held[q]] # Empty
    BY SMTT(30), <1>1, <1>2, <1>3 DEF CacheInv
  <2>4. Logged' = Logged
    BY <1>1 DEF Logged
  <2>5. ASSUME NEW x \in Blocks \ (Logged \cup torn'),
               \A q \in Procs : pc'[q] = "dirty" => held[q] # x
        PROVE  View(x)' = disk[x]
    <3>1. pc'[p] = "dirty" /\ \A q \in Procs : pc[q] = "dirty" => pc'[q] = "dirty"
      BY <1>1, <1>2
    <3>2. x # held[p] /\ x \notin torn
      BY <1>1, <2>5, <3>1
    <3>. QED
      BY <1>1, <2>1, <2>5, <3>1, <3>2 DEF CacheInv
  <2>6. /\ \A q \in Procs : pc'[q] = "dirty" => held[q] \notin torn'
        /\ \A x \in torn' : x \notin Logged
    BY <1>1, <1>2 DEF CacheInv
  <2>. QED
    BY <1>1, <2>2, <2>3, <2>4, <2>5, <2>6 DEF CacheInv
<1>. QED
  BY <1>6, <1>7, <1>8, <1>9, <1>10

\* writei()'s failing copy: the block is torn unless it is in the log.
LEMMA CopyinFailsStep ==
  ASSUME IInv, TypeOK', NEW p \in Procs, NEW v \in Data, copyin_fails(p, v)
  PROVE  IInv'
<1>1. /\ UNCHANGED <<disk, dlog, dhead, pin, lh, outstanding, committing, tail, mode>>
      /\ mode = "run" /\ pc[p] = "buf"
      /\ pc' = [pc EXCEPT ![p] = "op"] /\ held' = [held EXCEPT ![p] = NoBlock]
      /\ cache' = [cache EXCEPT ![held[p]] = v]
      /\ torn' = torn \cup ({held[p]} \ Logged)
  BY DEF copyin_fails, diskvars, Goto
<1>2. /\ pc \in [Procs -> PCs] /\ held \in [Procs -> Blocks \cup {NoBlock}]
      /\ cache \in [Blocks -> Data \cup {Empty}]
      /\ Empty \notin Data /\ NoBlock \notin Blocks
  BY LogAssumption DEF TypeOK, LogAssumption
<1>3. held[p] \in Blocks /\ \A q \in Procs : q # p => held[q] # held[p]
  BY <1>1, <1>2 DEF CacheInv, InBuf
<1>4. /\ \A q \in Procs, l \in InCommit : pc'[q] = l <=> pc[q] = l
      /\ \A q \in Procs : pc'[q] \in InOp <=> pc[q] \in InOp
      /\ \A q \in Procs : pc'[q] = "dirty" => q # p /\ pc[q] = "dirty" /\ held'[q] = held[q]
  BY <1>1, <1>2 DEF InCommit, InOp
<1>5. \A q \in Procs : pc[q] \notin InCommit
  BY <1>1, NoCommitter DEF InOp
<1>6. HeadInv' /\ RecoverInv'
  BY <1>1 DEF HeadInv, NoDup, RecoverInv
<1>7. CommitInv'
  BY <1>1, <1>4, CommitFrame
<1>8. PinInv'
  <2>1. \A x \in Blocks : cache[x] # Empty => cache'[x] # Empty
    BY <1>1, <1>2, <1>3
  <2>. QED
    BY <1>1, <1>4, <2>1, PinFrame
<1>9. LogInv'
  BY <1>1, <1>4, <1>5 DEF LogInv, InCommit
<1>10. CacheInv'
  <2>1. \A x \in Blocks : x # held[p] => View(x)' = View(x)
    BY <1>1, <1>2 DEF View
  <2>2. /\ \A q \in Procs : pc'[q] \in InBuf <=> held'[q] # NoBlock
        /\ \A q, r \in Procs : held'[q] = held'[r] /\ held'[q] # NoBlock => q = r
    BY <1>1, <1>2 DEF CacheInv, InBuf
  <2>3. ASSUME NEW q \in Procs, pc'[q] = "dirty"
        PROVE  cache'[held'[q]] # Empty /\ held'[q] \notin torn'
    <3>1. /\ q # p /\ held'[q] = held[q] /\ held[q] # held[p]
          /\ cache[held[q]] # Empty /\ held[q] \notin torn
      BY <1>1, <1>3, <1>4, <2>3 DEF CacheInv
    <3>2. pc[q] = "dirty"
      BY <1>4, <2>3
    <3>3. held[q] # NoBlock
      BY <1>1, <3>2 DEF CacheInv, InBuf
    <3>4. held[q] \in Blocks
      BY <1>2, <3>3
    <3>. QED
      BY <1>1, <1>2, <3>1, <3>4
  <2>4. Logged' = Logged /\ \A x \in torn' : x \notin Logged
    BY <1>1 DEF Logged, CacheInv
  <2>5. ASSUME NEW x \in Blocks \ (Logged \cup torn'),
               \A q \in Procs : pc'[q] = "dirty" => held'[q] # x
        PROVE  View(x)' = disk[x]
    <3>1. x # held[p] /\ x \notin torn
      BY <1>1, <2>5
    <3>2. \A q \in Procs : pc[q] = "dirty" => held[q] # x
      BY <1>1, <1>2, <2>5
    <3>. QED
      BY <1>1, <2>1, <2>5, <3>1, <3>2 DEF CacheInv
  <2>. QED
    BY <1>1, <2>2, <2>3, <2>4, <2>5 DEF CacheInv
<1>. QED
  BY <1>6, <1>7, <1>8, <1>9, <1>10

\* log_write: a block is appended and pinned, or absorbed.
LEMMA LogWriteStep ==
  ASSUME IInv, TypeOK', NEW p \in Procs, log_write(p)
  PROVE  IInv'
<1>1. /\ UNCHANGED <<torn, disk, dlog, dhead, cache, outstanding, committing, held, tail>>
      /\ mode = "run" /\ pc[p] = "dirty"
  BY DEF log_write, diskvars
<1>2. CASE mode' = "panic"
  <2>1. UNCHANGED <<lh, dhead>>
    BY <1>1, <1>2 DEF log_write
  <2>2. HeadInv'
    BY <2>1 DEF HeadInv, NoDup
  <2>3. RecoverInv' /\ CommitInv' /\ CacheInv' /\ PinInv' /\ LogInv'
    BY <1>2 DEF RecoverInv, CommitInv, CacheInv, PinInv, LogInv
  <2>. QED
    BY <2>2, <2>3
<1>3. CASE mode' # "panic"
  <2>1. /\ mode' = "run" /\ Len(lh) < LOGSIZE
        /\ pc' = [pc EXCEPT ![p] = "buf"]
        /\ IF held[p] \in Logged
           THEN UNCHANGED <<lh, pin>>
           ELSE lh' = Append(lh, held[p]) /\ pin' = [pin EXCEPT ![held[p]] = @ + 1]
    BY SMTT(30), <1>1, <1>3, LogAssumption DEF log_write, TooBig, Goto, bpin, TypeOK, LogAssumption
  <2>2. /\ pc \in [Procs -> PCs] /\ held \in [Procs -> Blocks \cup {NoBlock}]
        /\ pin \in [Blocks -> Nat] /\ lh \in Seq(Blocks)
        /\ NoBlock \notin Blocks /\ LOGSIZE \in Nat
    BY LogAssumption DEF TypeOK, LogAssumption
  <2>3. held[p] \in Blocks /\ cache[held[p]] # Empty
    BY <1>1, <2>2 DEF CacheInv, InBuf
  <2>4. /\ \A q \in Procs, l \in InCommit : pc'[q] = l <=> pc[q] = l
        /\ \A q \in Procs : pc'[q] \in InOp <=> pc[q] \in InOp
        /\ \A q \in Procs : pc'[q] \in InBuf <=> pc[q] \in InBuf
        /\ \A q \in Procs : pc'[q] = "dirty" <=> pc[q] = "dirty" /\ q # p
    BY <1>1, <2>1, <2>2 DEF InCommit, InOp, InBuf
  <2>5. ~committing /\ \A q \in Procs : pc[q] \notin InCommit /\ pc'[q] \notin InCommit
    BY <1>1, <2>4, NoCommitter DEF InOp
  <2>6. \A i \in Nat : ~Installed(i) /\ ~Installed(i)'
    BY <2>5 DEF Installed, InCommit
  <2>7. /\ lh' \in Seq(Blocks) /\ Len(lh') <= LOGSIZE /\ NoDup(lh')
        /\ Logged' = Logged \cup {held[p]}
        /\ \A i \in 1..Len(lh') : pin'[lh'[i]] = 1
        /\ \A i \in 1..Len(lh') : cache[lh'[i]] # Empty
        /\ \A b \in Blocks \ Logged' : pin'[b] = 0
    <3>1. CASE held[p] \in Logged
      <4>1. lh' = lh /\ pin' = pin /\ Logged' = Logged
        BY <2>1, <3>1 DEF Logged
      <4>2. \A i \in 1..Len(lh) : pin[lh[i]] = 1 /\ cache[lh[i]] # Empty
        BY SMTT(30), <1>1, <2>6 DEF PinInv
      <4>3. \A b \in Blocks \ Logged : pin[b] = 0
        BY <1>1 DEF PinInv
      <4>. QED
        BY <2>2, <3>1, <4>1, <4>2, <4>3 DEF HeadInv
    <3>2. CASE held[p] \notin Logged
      <4>0. lh' = Append(lh, held[p])
        BY <2>1, <3>2
      <4>1. /\ Len(lh') = Len(lh) + 1 /\ lh'[Len(lh) + 1] = held[p]
            /\ \A i \in 1..Len(lh) : lh'[i] = lh[i]
            /\ lh' \in Seq(Blocks)
        BY <2>2, <2>3, <4>0, AppendFacts
      <4>2. \A i \in 1..Len(lh) : lh[i] # held[p] /\ lh[i] \in Blocks
        BY SMTT(30), <2>2, <3>2 DEF Logged
      <4>3. 1..Len(lh') = (1..Len(lh)) \cup {Len(lh) + 1} /\ Len(lh) \in Nat
        BY SMTT(30), <2>2, <4>1
      <4>4. Logged' = Logged \cup {held[p]}
        BY <4>1, <4>3 DEF Logged
      <4>5. NoDup(lh')
        BY <4>1, <4>2, <4>3 DEF HeadInv, NoDup
      <4>6. pin' = [pin EXCEPT ![held[p]] = @ + 1] /\ pin[held[p]] = 0
        BY <1>1, <2>1, <2>3, <3>2 DEF PinInv
      <4>7. \A i \in 1..Len(lh') : pin'[lh'[i]] = 1 /\ cache[lh'[i]] # Empty
        <5>1. \A i \in 1..Len(lh) : pin[lh[i]] = 1 /\ cache[lh[i]] # Empty
          BY SMTT(30), <1>1, <2>6 DEF PinInv
        <5>2. \A b \in Blocks : b # held[p] => pin'[b] = pin[b]
          BY <2>2, <4>6
        <5>3. ASSUME NEW i \in 1..Len(lh)
              PROVE  pin'[lh'[i]] = 1 /\ cache[lh'[i]] # Empty
          <6>1. lh'[i] = lh[i] /\ lh[i] # held[p] /\ lh[i] \in Blocks
            BY <4>1, <4>2
          <6>. QED
            BY <5>1, <5>2, <6>1
        <5>4. pin'[held[p]] = 1
          BY SMTT(30), <2>2, <2>3, <4>6
        <5>. QED
          BY <2>3, <4>1, <4>3, <5>3, <5>4
      <4>8. \A b \in Blocks \ Logged' : pin'[b] = 0
        BY <1>1, <2>2, <4>4, <4>6 DEF PinInv
      <4>9. Len(lh') <= LOGSIZE
        BY SMTT(30), <2>1, <2>2, <4>1
      <4>. QED
        BY <4>1, <4>4, <4>5, <4>7, <4>8, <4>9
    <3>. QED
      BY <3>1, <3>2
  <2>8. HeadInv' /\ RecoverInv'
    BY <1>1, <2>1, <2>7 DEF HeadInv, NoDup, RecoverInv
  <2>9. CommitInv'
    <3>1. Active' = Active /\ p \in Active
      BY <1>1, <2>4 DEF Active, InOp
    <3>. QED
      BY <1>1, <2>1, <2>5, <3>1 DEF CommitInv, InCommit
  <2>10. CacheInv'
    <3>1. \A x \in Blocks : View(x)' = View(x)
      BY <1>1 DEF View
    <3>2. ASSUME NEW x \in Blocks \ (Logged' \cup torn),
                 \A q \in Procs : pc'[q] = "dirty" => held[q] # x
          PROVE  View(x) = disk[x]
      <4>1. x \in Blocks \ (Logged \cup torn) /\ x # held[p]
        BY <2>7, <3>2
      <4>2. \A q \in Procs : pc[q] = "dirty" => held[q] # x
        BY <2>4, <3>2, <4>1
      <4>. QED
        BY <1>1, <4>1, <4>2 DEF CacheInv
    <3>3. held[p] \notin torn /\ \A x \in torn : x \notin Logged'
      BY <1>1, <2>7 DEF CacheInv
    <3>. QED
      BY <1>1, <2>1, <2>4, <3>1, <3>2, <3>3 DEF CacheInv
  <2>11. PinInv'
    <3>1. \A i \in 1..Len(lh') : ~Installed(i)'
      BY SMTT(30), <2>6
    <3>. QED
      BY <1>1, <2>1, <2>7, <3>1 DEF PinInv
  <2>12. LogInv'
    BY <1>1, <2>1, <2>5 DEF LogInv, InCommit
  <2>. QED
    BY <2>8, <2>9, <2>10, <2>11, <2>12
<1>. QED
  BY <1>2, <1>3

\* end_op: the last call becomes the committer.
LEMMA EndOpStep ==
  ASSUME IInv, TypeOK', NEW p \in Procs, end_op(p)
  PROVE  IInv'
<1>1. /\ UNCHANGED <<torn, disk, dlog, dhead, cache, pin, lh, held, tail>>
      /\ mode = "run" /\ pc[p] = "op" /\ outstanding' = outstanding - 1
      /\ pc \in [Procs -> PCs] /\ outstanding \in Int
  BY DEF end_op, diskvars, TypeOK
<1>2. ~committing /\ \A q \in Procs : pc[q] \notin InCommit
  BY <1>1, NoCommitter DEF InOp
<1>3. /\ UNCHANGED mode
      /\ \/ /\ outstanding' = 0 /\ committing' = TRUE
            /\ pc' = [pc EXCEPT ![p] = "commit"]
         \/ /\ outstanding' # 0 /\ UNCHANGED committing
            /\ pc' = wakeup([pc EXCEPT ![p] = "out"])
  BY <1>2 DEF end_op, Goto
<1>4. /\ pc' \in [Procs -> PCs]
      /\ pc'[p] \in {"out", "commit"} /\ (pc'[p] = "commit" <=> outstanding' = 0)
      /\ \A q \in Procs \ {p} : pc'[q] = pc[q] \/ (pc[q] = "sleep" /\ pc'[q] = "begin")
  BY <1>1, <1>3 DEF wakeup, TypeOK
<1>5. Active' = Active \ {p} /\ p \in Active
  BY <1>1, <1>4 DEF Active, InOp
<1>6. IsFiniteSet(Active) /\ IsFiniteSet(Active')
  BY FS_Subset, LogAssumption DEF LogAssumption, Active
<1>7. outstanding' = Cardinality(Active')
  BY <1>1, <1>5, <1>6, FS_RemoveElement DEF CommitInv
<1>8. outstanding' = 0 <=> Active' = {}
  BY <1>6, <1>7, FS_EmptySet
<1>9. HeadInv' /\ RecoverInv'
  BY <1>1, <1>3 DEF HeadInv, NoDup, RecoverInv
<1>10. CommitInv'
  <2>1. \A q \in Procs : pc'[q] \in InCommit <=> q = p /\ outstanding' = 0
    BY <1>2, <1>4 DEF InCommit
  <2>2. committing' <=> outstanding' = 0
    BY SMTT(30), <1>2, <1>3
  <2>3. \A q \in Procs : pc'[q] \notin {"write_log", "install", "done"}
    BY <1>2, <1>4 DEF InCommit
  <2>. QED
    BY <1>3, <1>7, <1>8, <2>1, <2>2, <2>3 DEF CommitInv
<1>11. CacheInv'
  <2>1. \A q \in Procs, l \in InBuf : pc'[q] = l <=> pc[q] = l
    BY <1>1, <1>4 DEF InBuf
  <2>. QED
    BY <1>1, <1>3, <2>1, CacheFrame
<1>12. PinInv' /\ LogInv'
  <2>1. \A q \in Procs : pc'[q] \notin {"write_log", "write_head", "install", "erase"}
                      /\ pc[q] \notin {"write_log", "write_head", "install", "erase"}
    BY <1>2, <1>4 DEF InCommit
  <2>2. \A i \in 1..Len(lh) : ~Installed(i) /\ ~Installed(i)'
    BY <2>1 DEF Installed
  <2>3. Logged' = Logged
    BY <1>1 DEF Logged
  <2>. QED
    BY <1>1, <1>3, <2>1, <2>2, <2>3 DEF PinInv, LogInv
<1>. QED
  BY <1>9, <1>10, <1>11, <1>12

\* The committer is alone: no other committer, no call in progress.
LEMMA SoleCommitter ==
  ASSUME CommitInv, mode = "run", NEW p \in Procs, pc[p] \in InCommit
  PROVE  /\ committing /\ Active = {}
         /\ \A q \in Procs : q # p => pc[q] \notin InCommit
         /\ \A q \in Procs : pc[q] \notin InOp
<1>1. committing /\ Active = {}
  BY DEF CommitInv
<1>. QED
  BY <1>1 DEF CommitInv, Active

\* commit: with nothing logged there is nothing to do.
LEMMA CommitStartStep ==
  ASSUME IInv, TypeOK', NEW p \in Procs, commit(p)
  PROVE  IInv'
<1>1. /\ UNCHANGED <<torn, disk, dlog, dhead, cache, pin, lh, outstanding, committing, held, mode>>
      /\ mode = "run" /\ pc[p] = "commit" /\ tail' = 0
      /\ pc' = [pc EXCEPT ![p] = IF lh = <<>> THEN "done" ELSE "write_log"]
      /\ pc \in [Procs -> PCs] /\ lh \in Seq(Blocks)
  BY DEF commit, diskvars, Goto, TypeOK
<1>2. /\ \A q \in Procs : q # p => pc[q] \notin InCommit
      /\ committing /\ Active = {} /\ \A q \in Procs : pc[q] \notin InOp
  BY <1>1, SoleCommitter DEF InCommit
<1>3. /\ \A q \in Procs : q # p => pc'[q] = pc[q]
      /\ pc'[p] \in {"done", "write_log"} /\ (pc'[p] = "done" <=> lh = <<>>)
  BY <1>1
<1>4. HeadInv' /\ RecoverInv'
  BY <1>1 DEF HeadInv, NoDup, RecoverInv
<1>5. CommitInv'
  <2>1. Active' = Active
    BY <1>1, <1>3 DEF Active, InOp
  <2>2. \A q \in Procs : pc'[q] \in InCommit <=> q = p
    BY <1>2, <1>3 DEF InCommit
  <2>3. \A q \in Procs : pc'[q] \in {"write_log", "install"} => tail' < Len(lh)
    BY SMTT(30), <1>1, <1>2, <1>3 DEF InCommit
  <2>4. \A q \in Procs : pc'[q] = "done" => lh = <<>>
    BY <1>2, <1>3 DEF InCommit
  <2>. QED
    BY <1>1, <1>2, <2>1, <2>2, <2>3, <2>4 DEF CommitInv
<1>6. CacheInv'
  <2>1. \A q \in Procs, l \in InBuf : pc'[q] = l <=> pc[q] = l
    BY <1>1, <1>3 DEF InBuf
  <2>. QED
    BY <1>1, <2>1, CacheFrame
<1>7. PinInv' /\ LogInv'
  <2>1. \A q \in Procs : /\ pc[q] \notin {"write_head", "install", "erase"}
                        /\ pc'[q] \notin {"write_head", "install", "erase"}
    BY <1>1, <1>2, <1>3 DEF InCommit
  <2>2. \A i \in 1..Len(lh) : ~Installed(i) /\ ~Installed(i)'
    BY <2>1 DEF Installed
  <2>3. Logged' = Logged
    BY <1>1 DEF Logged
  <2>4. \A i \in 1..Len(lh) : ~(i <= tail')
    BY SMTT(30), <1>1
  <2>. QED
    BY <1>1, <2>1, <2>2, <2>3, <2>4 DEF PinInv, LogInv
<1>. QED
  BY <1>4, <1>5, <1>6, <1>7

\* write_log: one more log block holds what its buffer holds.
LEMMA WriteLogStep ==
  ASSUME IInv, TypeOK', NEW p \in Procs, write_log(p)
  PROVE  IInv'
<1> DEFINE b == lh[tail + 1]
<1>1. /\ UNCHANGED <<torn, disk, dhead, pin, lh, outstanding, committing, held, mode>>
      /\ mode = "run" /\ pc[p] = "write_log"
      /\ pc' = [pc EXCEPT ![p] = IF tail + 1 < Len(lh) THEN "write_log" ELSE "write_head"]
      /\ tail' = IF tail + 1 < Len(lh) THEN tail + 1 ELSE 0
      /\ dlog' = [dlog EXCEPT ![tail + 1] = View(b)]
      /\ cache' = [cache EXCEPT ![b] = View(b)]
  BY DEF write_log, Goto
<1>13. mode = "run"
  BY <1>1
<1>2. /\ pc \in [Procs -> PCs] /\ lh \in Seq(Blocks) /\ tail \in Nat /\ LOGSIZE \in Nat
      /\ dlog \in [1..LOGSIZE -> Data] /\ cache \in [Blocks -> Data \cup {Empty}]
      /\ disk \in [Blocks -> Data] /\ Empty \notin Data
  BY LogAssumption DEF TypeOK, LogAssumption
<1>3. /\ \A q \in Procs : q # p => pc[q] \notin InCommit
      /\ committing /\ Active = {} /\ \A q \in Procs : pc[q] \notin InOp
  BY <1>1, SoleCommitter DEF InCommit
<1>4. tail < Len(lh) /\ Len(lh) <= LOGSIZE /\ Len(lh) \in Nat /\ lh # <<>>
  BY SMTT(30), <1>1, <1>2 DEF CommitInv, HeadInv
<1>5. b \in Blocks /\ \A i \in 1..Len(lh) : lh[i] \in Blocks
  BY SMTT(30), <1>2, <1>4
<1>6. \A x \in Blocks : View(x)' = View(x) /\ (cache[x] # Empty => cache'[x] # Empty)
  BY <1>1, <1>2, <1>5 DEF View
<1>7. /\ \A q \in Procs : q # p => pc'[q] = pc[q]
      /\ pc'[p] \in {"write_log", "write_head"}
      /\ pc'[p] = "write_log" <=> tail + 1 < Len(lh)
  BY <1>1, <1>2
<1>8. HeadInv' /\ RecoverInv'
  BY <1>1 DEF HeadInv, NoDup, RecoverInv
<1>9. CommitInv'
  <2>1. Active' = Active
    BY <1>1, <1>7 DEF Active, InOp
  <2>2. \A q \in Procs : pc'[q] \in InCommit <=> q = p
    BY <1>3, <1>7 DEF InCommit
  <2>3. \A q \in Procs : pc'[q] \in {"write_log", "install"} => tail' < Len(lh)
    BY <1>1, <1>3, <1>7 DEF InCommit
  <2>4. \A q \in Procs : pc'[q] # "done"
    BY <1>3, <1>7 DEF InCommit
  <2>. QED
    BY <1>1, <1>3, <2>1, <2>2, <2>3, <2>4 DEF CommitInv
<1>10. CacheInv'
  <2>1. /\ \A q \in Procs : pc'[q] \in InBuf <=> pc[q] \in InBuf
        /\ \A q \in Procs : pc'[q] # "dirty" /\ pc[q] # "dirty"
    BY <1>1, <1>3, <1>7 DEF InBuf, InOp
  <2>2. Logged' = Logged
    BY <1>1 DEF Logged
  <2>. QED
    BY <1>1, <1>6, <2>1, <2>2 DEF CacheInv
<1>11. PinInv' /\ LogInv'
  <2>1. \A q \in Procs : /\ pc[q] \notin {"install", "erase"}
                        /\ pc'[q] \notin {"install", "erase"}
    BY <1>1, <1>3, <1>7 DEF InCommit
  <2>10. \A q \in Procs : pc'[q] \in {"write_log", "write_head"} => q = p
    BY <1>3, <1>7 DEF InCommit
  <2>2. \A i \in 1..Len(lh) : ~Installed(i) /\ ~Installed(i)'
    BY <2>1 DEF Installed
  <2>3. Logged' = Logged
    BY <1>1 DEF Logged
  <2>4. PinInv'
    BY <1>1, <1>5, <1>6, <2>2, <2>3 DEF PinInv
  <2>5. \A i \in 1..Len(lh) : i <= tail + 1 => dlog'[i] = View(lh[i])'
    <3>1. \A i \in 1..Len(lh) : i <= tail => dlog[i] = View(lh[i])
      BY <1>1 DEF LogInv
    <3>2. \A i \in 1..Len(lh) : i <= tail => dlog'[i] = dlog[i]
      BY SMTT(30), <1>1, <1>2, <1>4
    <3>3. dlog'[tail + 1] = View(lh[tail + 1])
      BY SMTT(30), <1>1, <1>2, <1>4
    <3>4. \A i \in 1..Len(lh) : i <= tail + 1 => i <= tail \/ i = tail + 1
      BY SMTT(30), <1>2
    <3>. QED
      <4>1. \A i \in 1..Len(lh) : View(lh[i])' = View(lh[i])
        BY <1>1, <1>5, <1>6
      <4>. QED
        BY <3>1, <3>2, <3>3, <3>4, <4>1
  <2>6. pc'[p] = "write_head" => tail' = 0 /\ \A i \in 1..Len(lh) : i <= tail + 1
    BY SMTT(30), <1>1, <1>2, <1>4, <1>7
  <2>7. pc'[p] = "write_log" => tail' = tail + 1
    BY <1>1, <1>7
  <2>8. dhead' = <<>>
    <3>1. dhead = <<>>
      BY <1>13, <2>1 DEF LogInv
    <3>. QED
      BY <1>1, <3>1
  <2>9. LogInv'
    BY <1>1, <1>4, <2>1, <2>10, <2>5, <2>6, <2>7, <2>8 DEF LogInv
  <2>. QED
    BY <2>4, <2>9
<1>. QED
  BY <1>8, <1>9, <1>10, <1>11

\* write_head: the transaction is committed.
LEMMA WriteHeadStep ==
  ASSUME IInv, TypeOK', NEW p \in Procs, write_head(p)
  PROVE  IInv'
<1>1. /\ UNCHANGED <<torn, disk, dlog, cache, pin, lh, outstanding, committing, held, tail, mode>>
      /\ mode = "run" /\ pc[p] = "write_head" /\ dhead' = lh
      /\ pc' = [pc EXCEPT ![p] = "install"]
      /\ pc \in [Procs -> PCs] /\ lh \in Seq(Blocks)
  BY DEF write_head, Goto, TypeOK
<1>2. /\ \A q \in Procs : q # p => pc[q] \notin InCommit
      /\ committing /\ Active = {}
  BY <1>1, SoleCommitter DEF InCommit
<1>3. tail = 0 /\ lh # <<>> /\ Len(lh) \in Nat /\ tail < Len(lh)
  <2>1. tail = 0 /\ lh # <<>>
    BY <1>1 DEF LogInv
  <2>. QED
    BY SMTT(30), <1>1, <2>1
<1>4. pc'[p] = "install" /\ \A q \in Procs : q # p => pc'[q] = pc[q]
  BY <1>1
<1>5. HeadInv' /\ RecoverInv'
  BY <1>1 DEF HeadInv, NoDup, RecoverInv
<1>6. CommitInv'
  <2>1. Active' = Active
    BY <1>1, <1>4 DEF Active, InOp
  <2>2. \A q \in Procs : pc'[q] \in InCommit <=> q = p
    BY <1>2, <1>4 DEF InCommit
  <2>3. \A q \in Procs : pc'[q] # "done"
    BY <1>2, <1>4 DEF InCommit
  <2>. QED
    BY <1>1, <1>2, <1>3, <2>1, <2>2, <2>3 DEF CommitInv
<1>7. CacheInv'
  <2>1. \A q \in Procs, l \in InBuf : pc'[q] = l <=> pc[q] = l
    BY <1>1, <1>4 DEF InBuf
  <2>. QED
    BY <1>1, <2>1, CacheFrame
<1>8. PinInv' /\ LogInv'
  <2>1. \A q \in Procs : /\ pc[q] \notin {"install", "erase"}
                        /\ pc'[q] \notin {"write_log", "write_head", "erase"}
    BY <1>1, <1>2, <1>4 DEF InCommit
  <2>2. \A i \in 1..Len(lh) : ~Installed(i) /\ ~Installed(i)'
    BY SMTT(30), <1>1, <1>3, <2>1 DEF Installed
  <2>3. Logged' = Logged
    BY <1>1 DEF Logged
  <2>4. \A i \in 1..Len(lh) : View(lh[i])' = dlog[i]
    BY <1>1 DEF LogInv, View
  <2>. QED
    BY <1>1, <1>4, <2>1, <2>2, <2>3, <2>4 DEF PinInv, LogInv
<1>. QED
  BY <1>5, <1>6, <1>7, <1>8

\* install_trans: one more block is home and unpinned.
LEMMA InstallStep ==
  ASSUME IInv, TypeOK', NEW p \in Procs, install_trans(p)
  PROVE  IInv'
<1> DEFINE b == lh[tail + 1]
<1>1. /\ UNCHANGED <<torn, dlog, dhead, lh, outstanding, committing, held, mode>>
      /\ mode = "run" /\ pc[p] = "install"
      /\ pc' = [pc EXCEPT ![p] = IF tail + 1 < Len(lh) THEN "install" ELSE "erase"]
      /\ tail' = IF tail + 1 < Len(lh) THEN tail + 1 ELSE 0
      /\ disk' = [disk EXCEPT ![b] = dlog[tail + 1]]
      /\ cache' = [cache EXCEPT ![b] = dlog[tail + 1]]
      /\ pin' = [pin EXCEPT ![b] = @ - 1]
  BY DEF install_trans, Goto, CopyHome, bunpin
<1>2. /\ pc \in [Procs -> PCs] /\ lh \in Seq(Blocks) /\ tail \in Nat /\ LOGSIZE \in Nat
      /\ dlog \in [1..LOGSIZE -> Data] /\ cache \in [Blocks -> Data \cup {Empty}]
      /\ disk \in [Blocks -> Data] /\ pin \in [Blocks -> Nat] /\ Empty \notin Data
  BY LogAssumption DEF TypeOK, LogAssumption
<1>3. /\ \A q \in Procs : q # p => pc[q] \notin InCommit
      /\ committing /\ Active = {} /\ \A q \in Procs : pc[q] \notin InOp
  BY <1>1, SoleCommitter DEF InCommit
<1>4. tail < Len(lh) /\ Len(lh) <= LOGSIZE /\ Len(lh) \in Nat
  <2>1. tail < Len(lh)
    BY <1>1 DEF CommitInv
  <2>. QED
    BY SMTT(30), <1>2, <2>1 DEF HeadInv
<1>5. /\ b \in Blocks /\ \A i \in 1..Len(lh) : lh[i] \in Blocks
      /\ \A i \in 1..Len(lh) : lh[i] = b <=> i = tail + 1
      /\ dlog[tail + 1] \in Data
  BY SMTT(30), <1>2, <1>4 DEF HeadInv, NoDup
<1>6. /\ \A q \in Procs : q # p => pc'[q] = pc[q]
      /\ pc'[p] \in {"install", "erase"}
      /\ pc'[p] = "install" <=> tail + 1 < Len(lh)
  BY <1>1, <1>2
<1>7. \A i \in 1..Len(lh) : Installed(i) <=> i <= tail
  BY <1>1, <1>3 DEF Installed, InCommit
<1>8. \A i \in 1..Len(lh) : Installed(i)' <=> i <= tail + 1
  <2>1. CASE tail + 1 < Len(lh)
    <3>1. pc'[p] = "install" /\ \A q \in Procs : pc'[q] # "erase"
      BY <1>3, <1>6, <2>1 DEF InCommit
    <3>2. tail' = tail + 1
      BY <1>1, <2>1
    <3>. QED
      BY <3>1, <3>2 DEF Installed
  <2>2. CASE ~(tail + 1 < Len(lh))
    <3>1. pc'[p] = "erase"
      BY <1>6, <2>2
    <3>2. \A i \in 1..Len(lh) : i <= tail + 1
      BY SMTT(30), <1>2, <1>4, <2>2
    <3>. QED
      BY <3>1, <3>2 DEF Installed
  <2>. QED
    BY <2>1, <2>2
<1>9. \A i \in 1..Len(lh) : i <= tail + 1 <=> i <= tail \/ i = tail + 1
  BY SMTT(30), <1>2
<1>10. \A x \in Blocks : x # b => View(x)' = View(x) /\ disk'[x] = disk[x]
                                /\ cache'[x] = cache[x] /\ pin'[x] = pin[x]
  BY <1>1, <1>2, <1>5 DEF View
<1>11. /\ \A x \in Blocks : x = b => View(x)' = dlog[tail + 1]
       /\ disk'[b] = dlog[tail + 1] /\ cache'[b] # Empty /\ pin'[b] = pin[b] - 1
  BY <1>1, <1>2, <1>5 DEF View
<1>12. HeadInv' /\ RecoverInv'
  BY <1>1 DEF HeadInv, NoDup, RecoverInv
<1>13. CommitInv'
  <2>1. Active' = Active
    BY <1>1, <1>6 DEF Active, InOp
  <2>2. \A q \in Procs : pc'[q] \in InCommit <=> q = p
    BY <1>3, <1>6 DEF InCommit
  <2>3. \A q \in Procs : pc'[q] \in {"write_log", "install"} => tail' < Len(lh)
    BY <1>1, <1>3, <1>6 DEF InCommit
  <2>4. \A q \in Procs : pc'[q] # "done"
    BY <1>3, <1>6 DEF InCommit
  <2>. QED
    BY <1>1, <1>3, <2>1, <2>2, <2>3, <2>4 DEF CommitInv
<1>14. CacheInv'
  <2>1. /\ \A q \in Procs : pc'[q] \in InBuf <=> pc[q] \in InBuf
        /\ \A q \in Procs : pc'[q] # "dirty" /\ pc[q] # "dirty"
    BY <1>1, <1>3, <1>6 DEF InBuf, InOp
  <2>2. Logged' = Logged /\ b \in Logged
    <3>1. tail + 1 \in 1..Len(lh)
      BY SMTT(30), <1>2, <1>4
    <3>. QED
      BY <1>1, <3>1 DEF Logged
  <2>3. \A x \in Blocks \ (Logged \cup torn) : View(x)' = disk'[x]
    BY <1>1, <1>10, <2>1, <2>2 DEF CacheInv
  <2>. QED
    BY <1>1, <2>1, <2>2, <2>3 DEF CacheInv
<1>15. PinInv'
  <2>1. Logged' = Logged /\ b \in Logged
    <3>1. tail + 1 \in 1..Len(lh)
      BY SMTT(30), <1>2, <1>4
    <3>. QED
      BY <1>1, <3>1 DEF Logged
  <2>2. \A x \in Blocks \ Logged : pin'[x] = 0
    BY <1>1, <1>10, <2>1 DEF PinInv
  <2>3. \A i \in 1..Len(lh) : pin[lh[i]] = IF i <= tail THEN 0 ELSE 1
    BY <1>1, <1>7 DEF PinInv
  <2>4. \A i \in 1..Len(lh) : pin'[lh[i]] = IF i <= tail + 1 THEN 0 ELSE 1
    <3>1. pin'[b] = 0
      <4>1. tail + 1 \in 1..Len(lh) /\ ~(tail + 1 <= tail)
        BY SMTT(30), <1>2, <1>4
      <4>2. pin[b] = 1
        BY <2>3, <4>1
      <4>3. pin'[b] = pin[b] - 1
        BY <1>11
      <4>. QED
        BY SMTT(30), <4>2, <4>3
    <3>. QED
      BY <1>5, <1>9, <1>10, <2>3, <3>1
  <2>5. \A i \in 1..Len(lh) : ~Installed(i)' => cache'[lh[i]] # Empty
    BY <1>1, <1>5, <1>7, <1>8, <1>9, <1>10 DEF PinInv
  <2>. QED
    BY <1>1, <1>8, <2>1, <2>2, <2>4, <2>5 DEF PinInv
<1>16. LogInv'
  <2>1. \A q \in Procs : pc'[q] \notin {"write_log", "write_head"}
    BY <1>3, <1>6 DEF InCommit
  <2>2. dhead' = lh'
    BY <1>1 DEF LogInv
  <2>3. \A i \in 1..Len(lh) : View(lh[i]) = dlog[i] /\ (i <= tail => disk[lh[i]] = dlog[i])
    BY <1>1, <1>7 DEF LogInv
  <2>4. ASSUME NEW i \in 1..Len(lh)
        PROVE  View(lh[i])' = dlog[i] /\ (i <= tail + 1 => disk'[lh[i]] = dlog[i])
    <3>1. CASE i = tail + 1
      <4>1. lh'[i] = b /\ lh[i] = b
        BY <1>1, <3>1
      <4>. QED
        BY <1>5, <1>11, <3>1, <4>1 DEF View
    <3>2. CASE i # tail + 1
      <4>1. lh[i] \in Blocks /\ lh[i] # b
        BY <1>5, <3>2
      <4>2. View(lh[i])' = View(lh[i]) /\ disk'[lh[i]] = disk[lh[i]]
        BY <1>1, <1>10, <4>1
      <4>. QED
        BY <1>9, <2>3, <3>2, <4>2
    <3>. QED
      BY <3>1, <3>2
  <2>. QED
    BY <1>1, <1>6, <1>8, <2>1, <2>2, <2>4 DEF LogInv
<1>. QED
  BY <1>12, <1>13, <1>14, <1>15, <1>16

\* The erasing write_head: everything in the log is home.
LEMMA EraseStep ==
  ASSUME IInv, TypeOK', NEW p \in Procs, erase(p)
  PROVE  IInv'
<1>1. /\ UNCHANGED <<torn, disk, dlog, cache, pin, outstanding, committing, held, tail, mode>>
      /\ mode = "run" /\ pc[p] = "erase" /\ lh' = <<>> /\ dhead' = <<>>
      /\ pc' = [pc EXCEPT ![p] = "done"]
      /\ pc \in [Procs -> PCs] /\ lh \in Seq(Blocks)
  BY DEF erase, Goto, TypeOK
<1>2. /\ \A q \in Procs : q # p => pc[q] \notin InCommit
      /\ committing /\ Active = {} /\ \A q \in Procs : pc[q] \notin InOp
  BY <1>1, SoleCommitter DEF InCommit
<1>3. pc'[p] = "done" /\ \A q \in Procs : q # p => pc'[q] = pc[q]
  BY <1>1
<1>4. /\ Len(lh') = 0 /\ Len(dhead') = 0 /\ Logged' = {}
      /\ 1..Len(lh') = {}
  BY SMTT(30), <1>1 DEF Logged
<1>5. \A i \in 1..Len(lh) : Installed(i)
  BY <1>1 DEF Installed
<1>6. HeadInv' /\ RecoverInv'
  <2>1. LOGSIZE \in Nat
    BY LogAssumption DEF LogAssumption
  <2>2. HeadInv'
    BY SMTT(30), <1>1, <1>4, <2>1 DEF HeadInv, NoDup
  <2>3. RecoverInv'
    BY <1>1 DEF RecoverInv
  <2>. QED
    BY <2>2, <2>3
<1>7. CommitInv'
  <2>1. Active' = Active
    BY <1>1, <1>3 DEF Active, InOp
  <2>2. \A q \in Procs : pc'[q] \in InCommit <=> q = p
    BY <1>2, <1>3 DEF InCommit
  <2>3. \A q \in Procs : pc'[q] \notin {"write_log", "install"}
    BY <1>2, <1>3 DEF InCommit
  <2>. QED
    BY <1>1, <1>2, <2>1, <2>2, <2>3 DEF CommitInv
<1>8. CacheInv'
  <2>1. /\ \A q \in Procs : pc'[q] \in InBuf <=> pc[q] \in InBuf
        /\ \A q \in Procs : pc'[q] # "dirty" /\ pc[q] # "dirty"
    BY <1>1, <1>2, <1>3 DEF InBuf, InOp
  <2>2. ASSUME NEW x \in Blocks \ torn PROVE View(x) = disk[x]
    <3>1. CASE x \in Logged
      <4>1. PICK i \in 1..Len(lh) : lh[i] = x
        BY <3>1 DEF Logged
      <4>. QED
        BY <1>1, <1>5, <4>1 DEF LogInv
    <3>2. CASE x \notin Logged
      BY <1>1, <2>1, <3>2 DEF CacheInv
    <3>. QED
      BY <3>1, <3>2
  <2>3. \A x \in Blocks \ torn : View(x)' = disk'[x]
    BY <1>1, <2>2 DEF View
  <2>. QED
    BY <1>1, <1>4, <2>1, <2>3 DEF CacheInv
<1>9. PinInv'
  <2>1. ASSUME NEW x \in Blocks PROVE pin[x] = 0
    <3>1. CASE x \in Logged
      BY <1>1, <1>5, <3>1 DEF Logged, PinInv
    <3>2. CASE x \notin Logged
      BY <1>1, <3>2 DEF PinInv
    <3>. QED
      BY <3>1, <3>2
  <2>. QED
    BY <1>1, <1>4, <2>1 DEF PinInv
<1>10. LogInv'
  <2>1. \A q \in Procs : pc'[q] \notin {"write_log", "write_head", "install", "erase"}
    BY <1>2, <1>3 DEF InCommit
  <2>. QED
    BY <1>1, <2>1 DEF LogInv
<1>. QED
  BY <1>6, <1>7, <1>8, <1>9, <1>10

\* The end of end_op after a commit.
LEMMA CommitDoneStep ==
  ASSUME IInv, TypeOK', NEW p \in Procs, commit_done(p)
  PROVE  IInv'
<1>1. /\ UNCHANGED <<torn, disk, dlog, dhead, cache, pin, lh, outstanding, held, tail, mode>>
      /\ mode = "run" /\ pc[p] = "done" /\ committing' = FALSE
      /\ pc' = wakeup([pc EXCEPT ![p] = "out"])
      /\ pc \in [Procs -> PCs]
  BY DEF commit_done, diskvars, TypeOK
<1>2. /\ \A q \in Procs : q # p => pc[q] \notin InCommit
      /\ committing /\ Active = {}
  BY <1>1, SoleCommitter DEF InCommit
<1>3. /\ pc'[p] = "out"
      /\ \A q \in Procs \ {p} : pc'[q] = pc[q] \/ (pc[q] = "sleep" /\ pc'[q] = "begin")
  BY <1>1 DEF wakeup
<1>4. \A q \in Procs : pc'[q] \notin InCommit
  BY <1>2, <1>3 DEF InCommit
<1>5. HeadInv' /\ RecoverInv'
  BY <1>1 DEF HeadInv, NoDup, RecoverInv
<1>6. CommitInv'
  <2>1. Active' = Active
    BY <1>1, <1>3 DEF Active, InOp
  <2>2. lh = <<>>
    BY <1>1 DEF CommitInv
  <2>. QED
    BY <1>1, <1>2, <1>4, <2>1, <2>2 DEF CommitInv, InCommit
<1>7. CacheInv'
  <2>1. \A q \in Procs, l \in InBuf : pc'[q] = l <=> pc[q] = l
    BY <1>1, <1>3 DEF InBuf
  <2>. QED
    BY <1>1, <2>1, CacheFrame
<1>8. PinInv' /\ LogInv'
  <2>1. \A q \in Procs : /\ pc[q] \notin {"write_log", "write_head", "install", "erase"}
                        /\ pc'[q] \notin {"write_log", "write_head", "install", "erase"}
    BY <1>1, <1>2, <1>4 DEF InCommit
  <2>2. \A i \in 1..Len(lh) : ~Installed(i) /\ ~Installed(i)'
    BY <2>1 DEF Installed
  <2>3. Logged' = Logged
    BY <1>1 DEF Logged
  <2>. QED
    BY <1>1, <2>1, <2>2, <2>3 DEF PinInv, LogInv
<1>. QED
  BY <1>5, <1>6, <1>7, <1>8

----------------------------------------------------------------------------
(* Crash and recovery *)

\* A crash keeps only the disk, and the header on it stays well formed.
LEMMA CrashStep ==
  ASSUME IInv, TypeOK', Crash
  PROVE  IInv'
<1>1. /\ UNCHANGED <<disk, dlog, dhead>> /\ mode' = "read_head" /\ tail' = 0
      /\ cache' = [b \in Blocks |-> Empty] /\ pin' = [b \in Blocks |-> 0]
      /\ lh' = <<>> /\ outstanding' = 0 /\ committing' = FALSE /\ torn' = {}
      /\ pc' = [p \in Procs |-> "out"] /\ held' = [p \in Procs |-> NoBlock]
  BY DEF Crash, diskvars
<1>2. HeadInv'
  BY SMTT(30), <1>1, LogAssumption DEF HeadInv, NoDup, LogAssumption
<1>3. RecoverInv'
  BY <1>1 DEF RecoverInv, View
<1>. QED
  BY <1>1, <1>2, <1>3 DEF CommitInv, CacheInv, PinInv, LogInv

\* read_head at boot.
LEMMA ReadHeadStep ==
  ASSUME IInv, TypeOK', read_head
  PROVE  IInv'
<1>1. /\ UNCHANGED <<torn, disk, dlog, dhead, cache, pin, outstanding, committing, pc, held, tail>>
      /\ mode = "read_head" /\ lh' = dhead
      /\ mode' = IF dhead = <<>> THEN "clear" ELSE "recover"
  BY DEF read_head, diskvars
<1>2. tail = 0 /\ dhead \in Seq(Blocks)
  BY <1>1 DEF RecoverInv, TypeOK
<1>3. HeadInv'
  BY <1>1 DEF HeadInv, NoDup
<1>4. RecoverInv'
  <2>1. \A b \in Blocks : View(b)' = disk'[b]
    BY <1>1 DEF RecoverInv, View
  <2>2. mode' = "recover" => tail' < Len(lh') /\ \A i \in 1..Len(lh') : ~(i <= tail')
    BY SMTT(30), <1>1, <1>2
  <2>3. mode' = "clear" => 1..Len(lh') = {}
    BY SMTT(30), <1>1
  <2>. QED
    BY <1>1, <2>1, <2>2, <2>3 DEF RecoverInv
<1>. QED
  BY <1>1, <1>3, <1>4 DEF CommitInv, CacheInv, PinInv, LogInv

\* One iteration of install_trans(1).
LEMMA InstallRecoveringStep ==
  ASSUME IInv, TypeOK', install_recovering
  PROVE  IInv'
<1> DEFINE b == lh[tail + 1]
<1>1. /\ UNCHANGED <<torn, dlog, dhead, pin, lh, outstanding, committing, pc, held>>
      /\ mode = "recover"
      /\ mode' = IF tail + 1 < Len(lh) THEN "recover" ELSE "clear"
      /\ tail' = IF tail + 1 < Len(lh) THEN tail + 1 ELSE 0
      /\ disk' = [disk EXCEPT ![b] = dlog[tail + 1]]
      /\ cache' = [cache EXCEPT ![b] = dlog[tail + 1]]
  BY DEF install_recovering, CopyHome
<1>2. /\ lh \in Seq(Blocks) /\ tail \in Nat /\ LOGSIZE \in Nat
      /\ dlog \in [1..LOGSIZE -> Data] /\ cache \in [Blocks -> Data \cup {Empty}]
      /\ disk \in [Blocks -> Data] /\ Empty \notin Data
  BY LogAssumption DEF TypeOK, LogAssumption
<1>3. /\ tail < Len(lh) /\ Len(lh) <= LOGSIZE /\ Len(lh) \in Nat
      /\ \A i \in 1..Len(lh) : i <= tail => disk[lh[i]] = dlog[i]
  <2>1. /\ tail < Len(lh)
        /\ \A i \in 1..Len(lh) : i <= tail => disk[lh[i]] = dlog[i]
    BY <1>1 DEF RecoverInv
  <2>. QED
    BY SMTT(30), <1>2, <2>1 DEF HeadInv
<1>4. /\ b \in Blocks /\ \A i \in 1..Len(lh) : lh[i] \in Blocks
      /\ \A i \in 1..Len(lh) : lh[i] = b <=> i = tail + 1
      /\ dlog[tail + 1] \in Data
  BY SMTT(30), <1>2, <1>3 DEF HeadInv, NoDup
<1>5. HeadInv'
  BY <1>1 DEF HeadInv, NoDup
<1>6. \A x \in Blocks : View(x)' = disk'[x]
  BY <1>1, <1>2, <1>4 DEF RecoverInv, View
<1>7. ASSUME NEW i \in 1..Len(lh), i <= tail + 1
      PROVE  disk'[lh[i]] = dlog[i]
  <2>1. CASE i = tail + 1
    BY <1>1, <1>2, <1>4, <2>1
  <2>2. CASE i # tail + 1
    <3>1. i <= tail
      BY SMTT(30), <1>2, <1>7, <2>2
    <3>2. lh[i] \in Blocks /\ lh[i] # b
      BY <1>4, <2>2
    <3>. QED
      BY <1>1, <1>2, <1>3, <3>1, <3>2
  <2>. QED
    BY <2>1, <2>2
<1>8. RecoverInv'
  <2>1. CASE tail + 1 < Len(lh)
    BY <1>1, <1>2, <1>6, <1>7, <2>1 DEF RecoverInv
  <2>2. CASE ~(tail + 1 < Len(lh))
    <3>1. \A i \in 1..Len(lh) : i <= tail + 1
      BY SMTT(30), <1>2, <1>3, <2>2
    <3>. QED
      BY <1>1, <1>6, <1>7, <2>2, <3>1 DEF RecoverInv
  <2>. QED
    BY <2>1, <2>2
<1>. QED
  BY <1>1, <1>5, <1>8 DEF CommitInv, CacheInv, PinInv, LogInv

\* The write_head that ends recover_from_log.
LEMMA ClearLogStep ==
  ASSUME IInv, TypeOK', clear_log
  PROVE  IInv'
<1>1. /\ UNCHANGED <<torn, disk, dlog, cache, pin, outstanding, committing, pc, held, tail>>
      /\ mode = "clear" /\ mode' = "run" /\ lh' = <<>> /\ dhead' = <<>>
  BY DEF clear_log
<1>2. /\ pc = [p \in Procs |-> "out"] /\ held = [p \in Procs |-> NoBlock]
      /\ pin = [b \in Blocks |-> 0] /\ outstanding = 0 /\ committing = FALSE
      /\ torn = {} /\ \A b \in Blocks : View(b) = disk[b]
  BY <1>1 DEF RecoverInv
<1>3. 1..Len(lh') = {} /\ Len(lh') = 0 /\ Len(dhead') = 0
  BY SMTT(30), <1>1
<1>4. \A p \in Procs : pc'[p] = "out" /\ held'[p] = NoBlock
  BY <1>1, <1>2
<1>5. HeadInv' /\ RecoverInv'
  <2>1. LOGSIZE \in Nat
    BY LogAssumption DEF LogAssumption
  <2>2. HeadInv'
    BY SMTT(30), <1>1, <1>3, <2>1 DEF HeadInv, NoDup
  <2>3. RecoverInv'
    BY <1>1 DEF RecoverInv
  <2>. QED
    BY <2>2, <2>3
<1>6. CommitInv'
  <2>1. Active' = {}
    BY <1>4 DEF Active, InOp
  <2>. QED
    BY <1>1, <1>2, <1>4, <2>1, FS_EmptySet DEF CommitInv, InCommit
<1>7. CacheInv'
  <2>1. \A b \in Blocks : View(b)' = disk'[b]
    BY <1>1, <1>2 DEF View
  <2>. QED
    BY <1>1, <1>2, <1>4, <2>1 DEF CacheInv, InBuf
<1>8. PinInv' /\ LogInv'
  BY <1>1, <1>2, <1>3, <1>4 DEF PinInv, LogInv
<1>. QED
  BY <1>5, <1>6, <1>7, <1>8

----------------------------------------------------------------------------
(* Types *)

\* Every step keeps the types.
LEMMA TypeStep ==
  ASSUME IInv, Next
  PROVE  TypeOK'
<1>1. /\ Zero \in Data /\ LOGSIZE \in Nat /\ NoBlock \notin Blocks
  BY LogAssumption DEF LogAssumption
<1>2. \A b \in Blocks : View(b) \in Data
  BY DEF View, TypeOK
<1>3. ASSUME NEW p \in Procs, begin_op(p) PROVE TypeOK'
  <2>1. UNCHANGED <<torn, disk, dlog, dhead, cache, pin, lh, committing, held, tail, mode>>
    BY <1>3 DEF begin_op, diskvars
  <2>2. pc' \in [Procs -> PCs]
    BY <1>3 DEF begin_op, Goto, TypeOK, PCs, InOp
  <2>3. outstanding' \in Int /\ wrote' \in [Procs -> SUBSET Blocks]
    BY SMTT(30), <1>3 DEF begin_op, TypeOK
  <2>. QED
    BY <2>1, <2>2, <2>3 DEF TypeOK
<1>4. ASSUME NEW p \in Procs, NEW b \in Blocks, bread(p, b) PROVE TypeOK'
  <2>1. UNCHANGED <<torn, disk, dlog, dhead, pin, lh, outstanding, committing, wrote, tail, mode>>
    BY <1>4 DEF bread, diskvars
  <2>2. pc' \in [Procs -> PCs]
    BY <1>4 DEF bread, Goto, TypeOK, PCs, InOp
  <2>3. /\ cache' \in [Blocks -> Data \cup {Empty}]
        /\ held' \in [Procs -> Blocks \cup {NoBlock}]
    BY <1>2, <1>4 DEF bread, TypeOK
  <2>. QED
    BY <2>1, <2>2, <2>3 DEF TypeOK
<1>5. ASSUME NEW p \in Procs, brelse(p) PROVE TypeOK'
  <2>1. UNCHANGED <<torn, disk, dlog, dhead, cache, pin, lh, outstanding, committing, wrote, tail, mode>>
    BY <1>5 DEF brelse, diskvars
  <2>2. pc' \in [Procs -> PCs]
    BY <1>5 DEF brelse, Goto, TypeOK, PCs, InOp
  <2>3. held' \in [Procs -> Blocks \cup {NoBlock}]
    BY <1>5 DEF brelse, TypeOK
  <2>. QED
    BY <2>1, <2>2, <2>3 DEF TypeOK
<1>6. ASSUME NEW p \in Procs, NEW v \in Data, modify(p, v) PROVE TypeOK'
  <2>1. /\ UNCHANGED <<disk, dlog, dhead, pin, lh, outstanding, committing, held,
                        wrote, tail, mode>>
        /\ cache' = [cache EXCEPT ![held[p]] = v] /\ torn' \subseteq torn
    BY <1>6 DEF modify, diskvars
  <2>2. pc' \in [Procs -> PCs]
    BY <1>6 DEF modify, Goto, TypeOK, PCs, InOp
  <2>3. cache' \in [Blocks -> Data \cup {Empty}]
    BY <2>1 DEF TypeOK
  <2>. QED
    BY <2>1, <2>2, <2>3 DEF TypeOK
<1>21. ASSUME NEW p \in Procs, NEW v \in Data, copyin_fails(p, v) PROVE TypeOK'
  <2>1. /\ UNCHANGED <<disk, dlog, dhead, pin, lh, outstanding, committing, wrote, tail, mode>>
        /\ cache' = [cache EXCEPT ![held[p]] = v] /\ held' = [held EXCEPT ![p] = NoBlock]
        /\ torn' \subseteq torn \cup {held[p]} /\ held[p] \in FileBlocks
    BY <1>21 DEF copyin_fails, diskvars
  <2>2. pc' \in [Procs -> PCs]
    BY <1>21 DEF copyin_fails, Goto, TypeOK, PCs, InOp
  <2>3. /\ cache' \in [Blocks -> Data \cup {Empty}] /\ torn' \in SUBSET FileBlocks
        /\ held' \in [Procs -> Blocks \cup {NoBlock}]
    BY <2>1 DEF TypeOK
  <2>. QED
    BY <2>1, <2>2, <2>3 DEF TypeOK
<1>7. ASSUME NEW p \in Procs, log_write(p) PROVE TypeOK'
  <2>1. /\ UNCHANGED <<torn, disk, dlog, dhead, cache, outstanding, committing, held, tail>>
        /\ mode = "run" /\ pc[p] = "dirty"
    BY <1>7 DEF log_write, diskvars
  <2>2. held[p] \in Blocks
    BY <2>1 DEF CacheInv, InBuf, TypeOK
  <2>3. pc' \in [Procs -> PCs] /\ mode' \in {"run", "panic"}
    BY <1>7 DEF log_write, Goto, TypeOK, PCs, InOp
  <2>4. wrote' \in [Procs -> SUBSET Blocks]
    <3>1. wrote \in [Procs -> SUBSET Blocks]
      BY DEF TypeOK
    <3>2. wrote' = wrote \/ wrote' = [wrote EXCEPT ![p] = wrote[p] \cup {held[p]}]
      BY <1>7 DEF log_write
    <3>3. wrote[p] \cup {held[p]} \in SUBSET Blocks
      BY <2>2, <3>1
    <3>. QED
      BY <3>1, <3>2, <3>3
  <2>5. lh' \in Seq(Blocks) /\ pin' \in [Blocks -> Nat]
    <3>1. \/ lh' = lh /\ pin' = pin
          \/ lh' = Append(lh, held[p]) /\ pin' = [pin EXCEPT ![held[p]] = @ + 1]
      BY <1>7 DEF log_write, bpin
    <3>2. lh \in Seq(Blocks) /\ pin \in [Blocks -> Nat]
      BY DEF TypeOK
    <3>3. Append(lh, held[p]) \in Seq(Blocks)
      BY <2>2, <3>2, AppendFacts
    <3>4. [pin EXCEPT ![held[p]] = @ + 1] \in [Blocks -> Nat]
      BY SMTT(30), <2>2, <3>2
    <3>. QED
      BY <3>1, <3>2, <3>3, <3>4
  <2>. QED
    BY <2>1, <2>3, <2>4, <2>5 DEF TypeOK
<1>8. ASSUME NEW p \in Procs, end_op(p) PROVE TypeOK'
  <2>1. UNCHANGED <<torn, disk, dlog, dhead, cache, pin, lh, held, wrote, tail>>
    BY <1>8 DEF end_op, diskvars
  <2>2. outstanding' \in Int /\ mode' \in {"run", "panic"}
    <3>1. outstanding' = outstanding - 1 /\ mode' \in {"run", "panic"}
      BY <1>8 DEF end_op
    <3>2. outstanding \in Int
      BY DEF TypeOK
    <3>. QED
      BY SMTT(30), <3>1, <3>2
  <2>3. pc' \in [Procs -> PCs]
    BY <1>8 DEF end_op, Goto, wakeup, TypeOK, PCs, InCommit
  <2>4. committing' \in BOOLEAN
    BY <1>8 DEF end_op, TypeOK
  <2>. QED
    BY <2>1, <2>2, <2>3, <2>4 DEF TypeOK
<1>9. ASSUME NEW p \in Procs, commit(p) PROVE TypeOK'
  <2>1. /\ UNCHANGED <<torn, disk, dlog, dhead, cache, pin, lh, outstanding, committing,
                        held, wrote, mode>>
        /\ tail' = 0
    BY <1>9 DEF commit, diskvars
  <2>2. pc' \in [Procs -> PCs]
    BY <1>9 DEF commit, Goto, TypeOK, PCs, InCommit
  <2>. QED
    BY <2>1, <2>2 DEF TypeOK
<1>10. ASSUME NEW p \in Procs, write_log(p) PROVE TypeOK'
  <2>1. /\ UNCHANGED <<torn, disk, dhead, pin, lh, outstanding, committing, held, wrote, mode>>
        /\ dlog' = [dlog EXCEPT ![tail + 1] = View(lh[tail + 1])]
        /\ cache' = [cache EXCEPT ![lh[tail + 1]] = View(lh[tail + 1])]
        /\ tail' \in {tail + 1, 0}
    BY <1>10 DEF write_log
  <2>2. pc' \in [Procs -> PCs]
    BY <1>10 DEF write_log, Goto, TypeOK, PCs, InCommit
  <2>3. tail < Len(lh)
    BY <1>10 DEF write_log, CommitInv
  <2>4. lh[tail + 1] \in Blocks
    BY SMTT(30), <2>3 DEF TypeOK
  <2>5. dlog' \in [1..LOGSIZE -> Data] /\ cache' \in [Blocks -> Data \cup {Empty}]
    BY <1>2, <2>1, <2>4 DEF TypeOK
  <2>6. tail' \in Nat
    BY SMTT(30), <2>1 DEF TypeOK
  <2>. QED
    BY <2>1, <2>2, <2>5, <2>6 DEF TypeOK
<1>11. ASSUME NEW p \in Procs, write_head(p) PROVE TypeOK'
  <2>1. /\ UNCHANGED <<torn, disk, dlog, cache, pin, lh, outstanding, committing, held,
                        wrote, tail, mode>>
        /\ dhead' = lh
    BY <1>11 DEF write_head
  <2>2. pc' \in [Procs -> PCs]
    BY <1>11 DEF write_head, Goto, TypeOK, PCs, InCommit
  <2>. QED
    BY <2>1, <2>2 DEF TypeOK
<1>12. ASSUME CopyHome(tail + 1), tail < Len(lh)
       PROVE  /\ disk' \in [Blocks -> Data]
              /\ cache' \in [Blocks -> Data \cup {Empty}]
              /\ lh[tail + 1] \in Blocks
  <2>1. tail + 1 \in 1..Len(lh) /\ tail + 1 \in 1..LOGSIZE
    BY SMTT(30), <1>1, <1>12 DEF TypeOK, HeadInv
  <2>2. lh[tail + 1] \in Blocks /\ dlog[tail + 1] \in Data
    <3>1. lh \in Seq(Blocks) /\ dlog \in [1..LOGSIZE -> Data]
      BY DEF TypeOK
    <3>. QED
      BY SMTT(30), <2>1, <3>1
  <2>. QED
    BY <1>12, <2>2 DEF CopyHome, TypeOK
<1>13. ASSUME NEW p \in Procs, install_trans(p) PROVE TypeOK'
  <2>1. /\ UNCHANGED <<torn, dlog, dhead, lh, outstanding, committing, held, wrote, mode>>
        /\ pin' = [pin EXCEPT ![lh[tail + 1]] = @ - 1]
        /\ tail' \in {tail + 1, 0} /\ CopyHome(tail + 1)
    BY <1>13 DEF install_trans, bunpin
  <2>2. pc' \in [Procs -> PCs]
    BY <1>13 DEF install_trans, Goto, TypeOK, PCs, InCommit
  <2>3. tail < Len(lh)
    BY <1>13 DEF install_trans, CommitInv
  <2>4. pin' \in [Blocks -> Nat]
    <3>1. /\ pin \in [Blocks -> Nat] /\ lh \in Seq(Blocks) /\ tail \in Nat
          /\ mode = "run" /\ pc[p] = "install"
      BY <1>13 DEF install_trans, TypeOK
    <3>2. tail + 1 \in 1..Len(lh)
      BY SMTT(30), <2>3, <3>1
    <3>3. ~Installed(tail + 1)
      BY SMTT(30), <1>13, <3>1, SoleCommitter DEF Installed, InCommit
    <3>4. pin[lh[tail + 1]] = 1
      BY <3>1, <3>2, <3>3 DEF PinInv
    <3>. QED
      BY SMTT(30), <2>1, <3>1, <3>2, <3>4
  <2>5. disk' \in [Blocks -> Data] /\ cache' \in [Blocks -> Data \cup {Empty}]
    BY <1>12, <2>1, <2>3
  <2>6. tail' \in Nat
    BY SMTT(30), <2>1 DEF TypeOK
  <2>. QED
    BY <2>1, <2>2, <2>4, <2>5, <2>6 DEF TypeOK
<1>14. ASSUME NEW p \in Procs, erase(p) PROVE TypeOK'
  <2>1. /\ UNCHANGED <<torn, disk, dlog, cache, pin, outstanding, committing, held,
                        wrote, tail, mode>>
        /\ lh' = <<>> /\ dhead' = <<>>
    BY <1>14 DEF erase
  <2>2. pc' \in [Procs -> PCs]
    BY <1>14 DEF erase, Goto, TypeOK, PCs, InCommit
  <2>3. lh' \in Seq(Blocks) /\ dhead' \in Seq(Blocks)
    BY SMTT(30), <2>1
  <2>. QED
    BY <2>1, <2>2, <2>3 DEF TypeOK
<1>15. ASSUME NEW p \in Procs, commit_done(p) PROVE TypeOK'
  <2>1. /\ UNCHANGED <<torn, disk, dlog, dhead, cache, pin, lh, outstanding, held,
                        wrote, tail, mode>>
        /\ committing' = FALSE
    BY <1>15 DEF commit_done, diskvars
  <2>2. pc' \in [Procs -> PCs]
    BY <1>15 DEF commit_done, wakeup, TypeOK, PCs
  <2>. QED
    BY <2>1, <2>2 DEF TypeOK
<1>16. ASSUME NEW b \in Blocks, recycle(b) PROVE TypeOK'
  BY <1>16 DEF recycle, diskvars, TypeOK
<1>17. ASSUME read_head PROVE TypeOK'
  BY <1>17 DEF read_head, diskvars, TypeOK
<1>18. ASSUME install_recovering PROVE TypeOK'
  <2>1. /\ UNCHANGED <<torn, dlog, dhead, pin, lh, outstanding, committing, pc, held, wrote>>
        /\ mode = "recover" /\ mode' \in {"recover", "clear"}
        /\ tail' \in {tail + 1, 0} /\ CopyHome(tail + 1)
    BY <1>18 DEF install_recovering
  <2>2. tail < Len(lh)
    BY <2>1 DEF RecoverInv
  <2>3. disk' \in [Blocks -> Data] /\ cache' \in [Blocks -> Data \cup {Empty}]
    BY <1>12, <2>1, <2>2
  <2>4. tail' \in Nat
    BY SMTT(30), <2>1 DEF TypeOK
  <2>. QED
    BY <2>1, <2>3, <2>4 DEF TypeOK
<1>19. ASSUME clear_log PROVE TypeOK'
  <2>1. /\ UNCHANGED <<torn, disk, dlog, cache, pin, outstanding, committing, pc, held,
                        wrote, tail>>
        /\ lh' = <<>> /\ dhead' = <<>> /\ mode' = "run"
    BY <1>19 DEF clear_log
  <2>2. lh' \in Seq(Blocks) /\ dhead' \in Seq(Blocks)
    BY SMTT(30), <2>1
  <2>. QED
    BY <2>1, <2>2 DEF TypeOK
<1>20. ASSUME Crash PROVE TypeOK'
  <2>1. /\ UNCHANGED <<disk, dlog, dhead>> /\ lh' = <<>> /\ outstanding' = 0
        /\ committing' = FALSE /\ tail' = 0 /\ mode' = "read_head" /\ torn' = {}
    BY <1>20 DEF Crash, diskvars
  <2>2. /\ cache' \in [Blocks -> Data \cup {Empty}] /\ pin' \in [Blocks -> Nat]
        /\ held' \in [Procs -> Blocks \cup {NoBlock}]
        /\ wrote' \in [Procs -> SUBSET Blocks]
    BY <1>20 DEF Crash
  <2>3. pc' \in [Procs -> PCs]
    BY <1>20 DEF Crash, PCs
  <2>4. lh' \in Seq(Blocks) /\ outstanding' \in Int /\ tail' \in Nat
    BY SMTT(30), <2>1
  <2>6. committing' \in BOOLEAN
    BY <2>1
  <2>5. disk' \in [Blocks -> Data] /\ dlog' \in [1..LOGSIZE -> Data] /\ dhead' \in Seq(Blocks)
    BY <2>1 DEF TypeOK
  <2>. QED
    BY <2>1, <2>2, <2>3, <2>4, <2>5, <2>6 DEF TypeOK
<1>. QED
  BY <1>3, <1>4, <1>5, <1>6, <1>7, <1>8, <1>9, <1>10, <1>11, <1>13, <1>14, <1>15,
     <1>16, <1>17, <1>18, <1>19, <1>20, <1>21
     DEF Next, Proc, CommitStep, Recover

----------------------------------------------------------------------------
(* The inductive invariant *)

\* The state mkfs leaves satisfies the invariant.
LEMMA InitIInv == Init => IInv
<1> SUFFICES ASSUME Init PROVE IInv
  OBVIOUS
<1> USE LogAssumption DEF Init, LogAssumption
<1>1. TypeOK
  <2>1. /\ disk \in [Blocks -> Data] /\ dlog \in [1..LOGSIZE -> Data]
        /\ cache \in [Blocks -> Data \cup {Empty}] /\ pin \in [Blocks -> Nat]
    OBVIOUS
  <2>2. /\ held \in [Procs -> Blocks \cup {NoBlock}]
        /\ wrote \in [Procs -> SUBSET Blocks]
    OBVIOUS
  <2>3. pc \in [Procs -> PCs]
    BY DEF PCs
  <2>4. /\ lh \in Seq(Blocks) /\ dhead \in Seq(Blocks) /\ outstanding \in Int
        /\ tail \in Nat /\ mode = "read_head"
    BY SMTT(30)
  <2>5. committing \in BOOLEAN
    OBVIOUS
  <2>. QED
    BY <2>1, <2>2, <2>3, <2>4, <2>5 DEF TypeOK
<1>2. HeadInv
  BY SMTT(30) DEF HeadInv, NoDup
<1>3. RecoverInv
  BY DEF RecoverInv, View
<1>. QED
  BY <1>1, <1>2, <1>3 DEF CommitInv, CacheInv, PinInv, LogInv

\* Every step preserves the invariant.
LEMMA NextIInv ==
  ASSUME IInv, Next
  PROVE  IInv'
<1>1. TypeOK'
  BY TypeStep
<1>2. ASSUME NEW p \in Procs, Proc(p) PROVE IInv'
  BY <1>1, <1>2, BeginOpStep, BreadStep, BrelseStep, ModifyStep, CopyinFailsStep,
     LogWriteStep, EndOpStep, CommitStartStep, WriteLogStep, WriteHeadStep, InstallStep,
     EraseStep, CommitDoneStep
     DEF Proc, CommitStep
<1>3. ASSUME NEW b \in Blocks, recycle(b) PROVE IInv'
  BY <1>1, <1>3, RecycleStep
<1>4. CASE Recover
  BY <1>1, <1>4, ReadHeadStep, InstallRecoveringStep, ClearLogStep DEF Recover
<1>5. CASE Crash
  BY <1>1, <1>5, CrashStep
<1>. QED
  BY <1>2, <1>3, <1>4, <1>5 DEF Next

\* A step that changes no variable preserves the invariant.
LEMMA StutterIInv ==
  ASSUME IInv, UNCHANGED vars
  PROVE  IInv'
<1> USE DEF vars
<1>1. TypeOK' /\ HeadInv'
  BY DEF TypeOK, HeadInv, NoDup
<1>2. RecoverInv'
  BY DEF RecoverInv, View
<1>3. CommitInv'
  BY CommitFrame
<1>4. CacheInv'
  BY CacheFrame
<1>5. PinInv'
  BY PinFrame
<1>6. LogInv'
  <2>1. \A b \in Blocks : View(b)' = View(b)
    BY DEF View
  <2>. QED
    BY <2>1, LogFrame
<1>. QED
  BY <1>1, <1>2, <1>3, <1>4, <1>5, <1>6

\* IInv holds in every reachable state of the log.
THEOREM Invariance == Spec => []IInv
<1>1. IInv /\ [Next]_vars => IInv'
  BY NextIInv, StutterIInv
<1>. QED
  BY InitIInv, <1>1, PTL DEF Spec

----------------------------------------------------------------------------
(* What the invariant implies *)

\* Every variable of the log keeps its type, through crashes and recovery.
THEOREM TypeCorrect == Spec => []TypeOK
BY Invariance, PTL DEF IInv

\* commit() runs with no call in progress and no second committer.
THEOREM CommitterAlone == Spec => []CommitAlone
<1>1. ASSUME IInv PROVE CommitAlone
  <2> SUFFICES ASSUME mode = "run"
               PROVE  /\ committing => outstanding = 0 /\ Active = {}
                      /\ \A p, q \in Procs :
                           pc[p] \in InCommit /\ pc[q] \in InCommit => p = q
    BY DEF CommitAlone
  <2>1. committing => Active = {} /\ outstanding = 0
    BY <1>1, FS_EmptySet DEF CommitInv
  <2>. QED
    BY <1>1, <2>1 DEF CommitInv
<1>. QED
  BY <1>1, Invariance, PTL

\* A buffer is pinned exactly while its block waits to be installed.
THEOREM PinsFollowLog == Spec => []PinsMatchLog
<1>1. ASSUME IInv PROVE PinsMatchLog
  <2> SUFFICES ASSUME mode = "run", NEW b \in Blocks
               PROVE  pin[b] = IF \E i \in 1..Len(lh) : lh[i] = b /\ ~Installed(i)
                               THEN 1 ELSE 0
    BY DEF PinsMatchLog
  <2>1. CASE b \in Logged
    <3>1. PICK i \in 1..Len(lh) : lh[i] = b
      BY <2>1 DEF Logged
    <3>2. \A j \in 1..Len(lh) : lh[j] = b => j = i
      BY <1>1, <3>1 DEF HeadInv, NoDup
    <3>. QED
      BY <1>1, <3>1, <3>2 DEF PinInv
  <2>2. CASE b \notin Logged
    BY <1>1, <2>2 DEF PinInv, Logged
  <2>. QED
    BY <2>1, <2>2
<1>. QED
  BY <1>1, Invariance, PTL

\* Outside the log an unlocked cached block equals its home block on disk, unless
\* a copy from user memory has failed in it and it has not been logged since.
THEOREM CacheIsCoherent == Spec => []CacheCoherent
<1>1. ASSUME IInv PROVE CacheCoherent
  BY <1>1 DEF CacheCoherent, CacheInv, Unlocked
<1>. QED
  BY <1>1, Invariance, PTL

\* Once the last end_op has returned, a reboot finds every block as the file
\* system sees it, the torn ones excepted.
THEOREM DurableWhenQuiet == Spec => []QuiescentDurable
<1>1. ASSUME IInv PROVE QuiescentDurable
  <2> SUFFICES ASSUME mode = "run", outstanding = 0, ~committing
               PROVE  lh = <<>> /\ \A b \in Blocks \ torn : View(b) = Recovered[b]
    BY DEF QuiescentDurable
  <2>1. Active = {}
    <3>1. IsFiniteSet(Active)
      BY FS_Subset, LogAssumption DEF LogAssumption, Active
    <3>. QED
      BY <1>1, <3>1, FS_EmptySet DEF CommitInv
  <2>2. lh = <<>> /\ \A p \in Procs : pc[p] \notin InCommit
    BY <1>1, <2>1 DEF CommitInv
  <2>3. dhead = <<>> /\ Logged = {}
    BY SMTT(30), <1>1, <2>2 DEF LogInv, Logged, InCommit
  <2>4. \A p \in Procs : pc[p] # "dirty"
    BY <2>1 DEF Active, InOp
  <2>5. \A b \in Blocks \ torn : View(b) = disk[b]
    BY <1>1, <2>3, <2>4 DEF CacheInv
  <2>. QED
    BY SMTT(30), <2>2, <2>3, <2>5 DEF Recovered
<1>. QED
  BY <1>1, Invariance, PTL

\* Whoever sleeps in begin_op is owed a wakeup by a call or by a committer.
THEOREM SleepersAreWoken == Spec => []SleeperHasWaker
<1>1. Init => SleeperHasWaker
  BY DEF Init, SleeperHasWaker
<1>2. ASSUME IInv, SleeperHasWaker, Next
      PROVE  SleeperHasWaker'
  <2>1. pc \in [Procs -> PCs]
    BY <1>2 DEF TypeOK
  <2>2. ASSUME NEW p \in Procs, begin_op(p) PROVE SleeperHasWaker'
    <3>1. CASE pc' = [pc EXCEPT ![p] = "op"]
      BY <2>1, <3>1 DEF SleeperHasWaker, Active, InOp
    <3>2. CASE pc' = [pc EXCEPT ![p] = "sleep"] /\ MustWait
      <4>1. mode = "run" /\ pc[p] \in {"out", "begin"}
        BY <2>2 DEF begin_op
      <4>2. Active' = Active /\ \A q \in Procs : pc'[q] \in InCommit <=> pc[q] \in InCommit
        BY <2>1, <3>2, <4>1 DEF Active, InOp, InCommit
      <4>3. committing \/ Active # {}
        <5>1. SUFFICES ASSUME ~committing, Active = {} PROVE FALSE
          OBVIOUS
        <5>2. lh = <<>> /\ outstanding = 0
          BY <1>2, <4>1, <5>1, FS_EmptySet DEF CommitInv
        <5>. QED
          BY SMTT(30), <3>2, <5>1, <5>2, LogAssumption DEF MustWait, LogAssumption
      <4>4. committing => \E q \in Procs : pc[q] \in InCommit
        BY <1>2, <4>1 DEF CommitInv
      <4>. QED
        BY <4>2, <4>3, <4>4 DEF SleeperHasWaker
    <3>. QED
      BY <2>2, <3>1, <3>2 DEF begin_op, Goto
  <2>3. ASSUME NEW p \in Procs, end_op(p) PROVE SleeperHasWaker'
    <3>1. CASE pc' = [pc EXCEPT ![p] = "commit"]
      BY <2>1, <3>1 DEF SleeperHasWaker, InCommit
    <3>2. CASE pc' = wakeup([pc EXCEPT ![p] = "out"])
      BY <2>1, <3>2 DEF SleeperHasWaker, wakeup
    <3>3. CASE mode' = "panic"
      BY <3>3 DEF SleeperHasWaker
    <3>. QED
      BY <2>3, <3>1, <3>2, <3>3 DEF end_op, Goto
  <2>4. ASSUME NEW p \in Procs, commit_done(p) PROVE SleeperHasWaker'
    BY <2>1, <2>4 DEF commit_done, SleeperHasWaker, wakeup
  <2>5. ASSUME mode = "run", NEW p \in Procs, NEW l \in PCs, pc' = [pc EXCEPT ![p] = l],
               l # "sleep",
               \/ pc[p] \notin InOp \cup InCommit
               \/ pc[p] \in InOp /\ l \in InOp
               \/ pc[p] \in InCommit /\ l \in InCommit
        PROVE  SleeperHasWaker'
    <3>1. \A q \in Procs :
            /\ pc'[q] = "sleep" => pc[q] = "sleep"
            /\ pc[q] \in InOp => pc'[q] \in InOp
            /\ pc[q] \in InCommit => pc'[q] \in InCommit
      BY <2>1, <2>5 DEF InOp, InCommit
    <3>. QED
      BY <1>2, <2>5, <3>1 DEF SleeperHasWaker, Active
  <2>6. ASSUME NEW p \in Procs,
               \/ brelse(p)
               \/ \E b \in Blocks : bread(p, b)
               \/ \E v \in Data : modify(p, v) \/ copyin_fails(p, v)
        PROVE  SleeperHasWaker'
    <3>1. /\ mode = "run"
          /\ \/ pc[p] = "out" /\ pc' = [pc EXCEPT ![p] = "rd"]
             \/ pc[p] = "op" /\ pc' = [pc EXCEPT ![p] = "buf"]
             \/ pc[p] = "buf" /\ pc' = [pc EXCEPT ![p] = "op"]
             \/ pc[p] = "rd" /\ pc' = [pc EXCEPT ![p] = "out"]
             \/ pc[p] = "buf" /\ pc' = [pc EXCEPT ![p] = "dirty"]
      BY <2>6 DEF brelse, bread, modify, copyin_fails, Goto
    <3>. QED
      BY <2>5, <3>1 DEF InOp, InCommit, PCs
  <2>7. ASSUME NEW p \in Procs, log_write(p) PROVE SleeperHasWaker'
    <3>1. CASE mode' = "panic"
      BY <3>1 DEF SleeperHasWaker
    <3>2. CASE mode = "run" /\ pc[p] = "dirty" /\ pc' = [pc EXCEPT ![p] = "buf"]
      BY <2>5, <3>2 DEF InOp, PCs
    <3>. QED
      BY <2>7, <3>1, <3>2 DEF log_write, Goto
  <2>8. ASSUME NEW p \in Procs,
               \/ commit(p) \/ write_log(p) \/ write_head(p) \/ install_trans(p) \/ erase(p)
        PROVE  SleeperHasWaker'
    <3>1. /\ mode = "run" /\ pc[p] \in InCommit
          /\ \E l \in InCommit : pc' = [pc EXCEPT ![p] = l]
      BY <2>8 DEF commit, write_log, write_head, install_trans, erase, Goto, InCommit
    <3>. QED
      BY <2>5, <3>1 DEF InCommit, PCs
  <2>9. ASSUME NEW b \in Blocks, recycle(b) PROVE SleeperHasWaker'
    BY <1>2, <2>9 DEF recycle, SleeperHasWaker, Active
  <2>10. CASE Recover \/ Crash
    <3>1. \/ mode' # "run"
          \/ mode = "clear" /\ pc' = pc
      BY <2>10 DEF Recover, read_head, install_recovering, clear_log, Crash
    <3>. QED
      BY <1>2, <3>1 DEF RecoverInv, SleeperHasWaker
  <2>11. ASSUME NEW p \in Procs, Proc(p) PROVE SleeperHasWaker'
    BY <2>2, <2>3, <2>4, <2>6, <2>7, <2>8, <2>11 DEF Proc, CommitStep
  <2>. QED
    BY <1>2, <2>9, <2>10, <2>11 DEF Next
<1>3. ASSUME SleeperHasWaker, UNCHANGED vars PROVE SleeperHasWaker'
  BY <1>3 DEF vars, SleeperHasWaker, Active
<1>. QED
  BY <1>1, <1>2, <1>3, Invariance, PTL DEF Spec

\* One committer, alone, and a waker for every sleeper of begin_op(), for any
\* number of processes and any log size (begin_op and end_op in log.c).
THEOREM LogIsOrderly == Spec => []Orderly
  BY TypeCorrect, CommitterAlone, SleepersAreWoken, PTL DEF Orderly

\* The buffers, the log and the home blocks agree, the blocks excepted that a
\* failing copy has left changed and unlogged, for any number of processes and
\* blocks and any log size (log_write, install_trans and commit in log.c,
\* fs.c:522-525).
THEOREM LogIsCoherent == Spec => []Coherent
  BY PinsFollowLog, CacheIsCoherent, DurableWhenQuiet, PTL DEF Coherent

----------------------------------------------------------------------------
(* The log has room *)

\* What the calls in progress may still add to the log, as pairs of a call and a
\* number, so that it can be counted: begin_op gives a call MAXOPBLOCKS of them,
\* and every block that it logs takes one.
Reserved == {r \in Procs \X (1..MAXOPBLOCKS) : r[1] \in Active /\ r[2] > Cardinality(wrote[r[1]])}

\* The log has room for them, and a call logs OPBLOCKS blocks at most.
Room ==
  mode = "run" =>
    /\ Len(lh) + Cardinality(Reserved) <= LOGSIZE
    /\ \A p \in Active : /\ wrote[p] \subseteq Logged /\ IsFiniteSet(wrote[p])
                         /\ Cardinality(wrote[p]) <= OPBLOCKS
    /\ \A p \in Procs : pc[p] = "dirty" => Cardinality(wrote[p] \cup {held[p]}) <= OPBLOCKS

\* Reserved is finite, and has no more than MAXOPBLOCKS for each call.
ReservedSmall ==
  /\ IsFiniteSet(Active) /\ IsFiniteSet(Reserved)
  /\ Cardinality(Active) \in Nat /\ Cardinality(Reserved) \in Nat
  /\ Cardinality(Reserved) <= Cardinality(Active) * MAXOPBLOCKS

\* A transaction reserves finitely many blocks, at most MAXOPBLOCKS for each call.
LEMMA ReservedFinite == ReservedSmall
<1>1. IsFiniteSet(Active)
  BY LogAssumption, FS_Subset DEF Active, LogAssumption
<1>2. IsFiniteSet(1..MAXOPBLOCKS) /\ Cardinality(1..MAXOPBLOCKS) = MAXOPBLOCKS
  BY SMTT(30), LogAssumption, FS_Interval DEF LogAssumption
<1>3. /\ IsFiniteSet(Active \X (1..MAXOPBLOCKS))
      /\ Cardinality(Active \X (1..MAXOPBLOCKS)) = Cardinality(Active) * MAXOPBLOCKS
  BY <1>1, <1>2, FS_Product
<1>4. Reserved \subseteq Active \X (1..MAXOPBLOCKS)
  BY DEF Reserved, Active
<1>5. IsFiniteSet(Reserved) /\ Cardinality(Reserved) <= Cardinality(Active \X (1..MAXOPBLOCKS))
  BY <1>3, <1>4, FS_Subset
<1> QED BY <1>1, <1>3, <1>5, FS_CardinalityType DEF ReservedSmall

\* The same in the next state.
LEMMA ReservedFiniteNext == ReservedSmall'
  BY ReservedFinite, PTL

\* A step that lets no call begin or log anything keeps the room.
LEMMA RoomFrame ==
  ASSUME Room, mode = "run", UNCHANGED <<lh, wrote>>, Active' \subseteq Active,
         \A p \in Procs : pc'[p] = "dirty" =>
           \/ pc[p] = "dirty" /\ held'[p] = held[p]
           \/ Cardinality(wrote[p] \cup {held'[p]}) <= OPBLOCKS
  PROVE  Room'
<1>1. Reserved' \subseteq Reserved
  BY DEF Reserved
<1>2. Cardinality(Reserved') <= Cardinality(Reserved) /\ Cardinality(Reserved') \in Nat
  BY <1>1, ReservedFinite, ReservedFiniteNext, FS_Subset DEF ReservedSmall
<1>3. Len(lh) + Cardinality(Reserved) <= LOGSIZE => Len(lh) + Cardinality(Reserved') <= LOGSIZE
  <2>1. LOGSIZE \in Nat /\ Cardinality(Reserved) \in Nat
    BY ReservedFinite, LogAssumption DEF ReservedSmall, LogAssumption
  <2> QED BY SMTT(30), <1>2, <2>1
<1>4. Logged' = Logged
  BY DEF Logged
<1> QED BY <1>3, <1>4 DEF Room

\* begin_op lets a call begin only when the log has room for MAXOPBLOCKS blocks
\* of it and of every other call.
LEMMA BeginRoom ==
  ASSUME IInv, Room, NEW p \in Procs, begin_op(p)
  PROVE  Room' /\ mode' = "run"
<1>1. CASE MustWait /\ Goto(p, "sleep") /\ UNCHANGED <<outstanding, wrote>>
  <2>1. /\ pc \in [Procs -> PCs] /\ pc' = [pc EXCEPT ![p] = "sleep"]
        /\ mode = "run" /\ mode' = "run" /\ UNCHANGED <<lh, wrote, held>>
    BY <1>1 DEF begin_op, Goto, TypeOK
  <2>2. Active' \subseteq Active /\ \A q \in Procs : pc'[q] = "dirty" => pc[q] = "dirty"
    BY <2>1 DEF Active, InOp
  <2> QED BY <2>1, <2>2, RoomFrame
<1>2. CASE ~MustWait /\ outstanding' = outstanding + 1 /\ wrote' = [wrote EXCEPT ![p] = {}]
           /\ Goto(p, "op")
  <2>1. /\ pc \in [Procs -> PCs] /\ pc' = [pc EXCEPT ![p] = "op"] /\ wrote \in [Procs -> SUBSET Blocks]
        /\ mode = "run" /\ mode' = "run" /\ UNCHANGED <<lh, held>> /\ pc[p] \in {"out", "begin"}
    BY <1>2 DEF begin_op, Goto, TypeOK
  <2>2. Active' = Active \cup {p} /\ p \notin Active
    BY <2>1 DEF Active, InOp
  <2>3. outstanding = Cardinality(Active) /\ Cardinality(Active') = Cardinality(Active) + 1
    BY <2>1, <2>2, ReservedFinite, FS_AddElement DEF ReservedSmall, CommitInv
  <2>4. Len(lh) + (outstanding + 1) * MAXOPBLOCKS <= LOGSIZE
    <3>1. /\ Len(lh) \in Nat /\ outstanding \in Nat /\ MAXOPBLOCKS \in Nat /\ LOGSIZE \in Nat
      BY SMTT(30), <2>3, ReservedFinite, LogAssumption DEF ReservedSmall, TypeOK, LogAssumption
    <3> QED BY SMTT(30), <1>2, <3>1 DEF MustWait
  <2>5. Len(lh') + Cardinality(Reserved') <= LOGSIZE
    <3>1. Cardinality(Reserved') \in Nat /\ Cardinality(Reserved') <= (outstanding + 1) * MAXOPBLOCKS
      BY <2>3, ReservedFiniteNext DEF ReservedSmall
    <3>2. /\ Len(lh) \in Nat /\ (outstanding + 1) * MAXOPBLOCKS \in Nat /\ LOGSIZE \in Nat /\ lh' = lh
      BY SMTT(30), <2>1, <2>3, ReservedFinite, LogAssumption DEF ReservedSmall, TypeOK, LogAssumption
    <3> HIDE DEF Reserved
    <3> QED BY SMTT(30), <2>4, <3>1, <3>2
  <2>6. ASSUME NEW q \in Active'
        PROVE  wrote'[q] \subseteq Logged' /\ IsFiniteSet(wrote'[q]) /\ Cardinality(wrote'[q]) <= OPBLOCKS
    <3>1. CASE q = p
      BY SMTT(30), <1>2, <2>1, <3>1, FS_EmptySet, LogAssumption DEF LogAssumption
    <3>2. CASE q # p
      <4>1. q \in Active /\ q \in Procs /\ wrote'[q] = wrote[q] /\ Logged' = Logged
        BY <1>2, <2>1, <2>2, <3>2 DEF Active, Logged
      <4> QED BY <2>1, <4>1 DEF Room
    <3> QED BY <3>1, <3>2
  <2>7. ASSUME NEW q \in Procs, pc'[q] = "dirty" PROVE Cardinality(wrote'[q] \cup {held'[q]}) <= OPBLOCKS
    <3>1. q # p /\ pc[q] = "dirty" /\ wrote'[q] = wrote[q] /\ held'[q] = held[q]
      BY <1>2, <2>1, <2>7
    <3> QED BY <2>1, <3>1 DEF Room
  <2> QED BY <2>1, <2>5, <2>6, <2>7 DEF Room
<1> QED BY <1>1, <1>2 DEF begin_op

\* The buffers that a call reads, changes and releases take no room.
LEMMA BufferRoom ==
  ASSUME IInv, Room, NEW p \in Procs,
         \/ brelse(p) \/ \E b \in Blocks : bread(p, b)
         \/ \E v \in Data : modify(p, v) \/ copyin_fails(p, v)
  PROVE  Room' /\ mode' = "run"
<1>1. pc \in [Procs -> PCs] /\ held \in [Procs -> Blocks \cup {NoBlock}]
  BY DEF TypeOK
<1>2. CASE brelse(p) \/ (\E b \in Blocks : bread(p, b)) \/ \E v \in Data : copyin_fails(p, v)
  <2>1. mode = "run" /\ mode' = "run" /\ UNCHANGED <<lh, wrote>>
    BY <1>2 DEF brelse, bread, copyin_fails
  <2>2. /\ \A q \in Procs : pc'[q] \in InOp => pc[q] \in InOp
        /\ \A q \in Procs : pc'[q] = "dirty" => pc[q] = "dirty" /\ held'[q] = held[q]
    BY <1>1, <1>2 DEF brelse, bread, copyin_fails, Goto, InOp
  <2>3. Active' \subseteq Active
    BY <2>2 DEF Active
  <2> QED BY <2>1, <2>2, <2>3, RoomFrame
<1>3. CASE \E v \in Data : modify(p, v)
  <2>1. mode = "run" /\ mode' = "run" /\ UNCHANGED <<lh, wrote, held>>
    BY <1>3 DEF modify
  <2>2. /\ \A q \in Procs : pc'[q] \in InOp => pc[q] \in InOp
        /\ \A q \in Procs : pc'[q] = "dirty" => pc[q] = "dirty" \/ q = p
        /\ Cardinality(wrote[p] \cup {held[p]}) <= OPBLOCKS
    BY <1>1, <1>3 DEF modify, Goto, InOp
  <2>3. Active' \subseteq Active
    BY <2>2 DEF Active
  <2> QED BY <2>1, <2>2, <2>3, RoomFrame
<1> QED BY <1>2, <1>3

\* A call that has changed a buffer finds room for it in the log, and what it
\* adds it had reserved.
LEMMA WriteRoom ==
  ASSUME OPBLOCKS < MAXOPBLOCKS, LOGSIZE - MAXOPBLOCKS + OPBLOCKS <= NLOG - 2,
         IInv, Room, NEW p \in Procs, log_write(p)
  PROVE  Room' /\ mode' = "run"
<1> DEFINE w == Cardinality(wrote[p])
<1>1. /\ mode = "run" /\ pc[p] = "dirty" /\ p \in Active /\ pc \in [Procs -> PCs]
      /\ wrote \in [Procs -> SUBSET Blocks] /\ lh \in Seq(Blocks)
  BY DEF log_write, TypeOK, Active, InOp
<1>2. /\ OPBLOCKS \in Nat /\ MAXOPBLOCKS \in Nat /\ LOGSIZE \in Nat /\ NLOG \in Nat
      /\ Len(lh) \in Nat /\ Cardinality(Reserved) \in Nat
  BY SMTT(30), <1>1, ReservedFinite, LogAssumption DEF ReservedSmall, LogAssumption
<1>3. /\ wrote[p] \subseteq Logged /\ IsFiniteSet(wrote[p])
      /\ w \in Nat /\ w <= OPBLOCKS /\ Cardinality(wrote[p] \cup {held[p]}) <= OPBLOCKS
      /\ Len(lh) + Cardinality(Reserved) <= LOGSIZE
  BY <1>1, FS_CardinalityType DEF Room
<1>4. /\ IsFiniteSet(wrote[p] \cup {held[p]})
      /\ Cardinality(wrote[p] \cup {held[p]}) = IF held[p] \in wrote[p] THEN w ELSE w + 1
  BY <1>3, FS_AddElement
<1>5. outstanding \in Nat /\ outstanding >= 1
  <2>1. outstanding = Cardinality(Active)
    BY <1>1 DEF CommitInv
  <2> QED BY SMTT(30), <1>1, <2>1, ReservedFinite, FS_EmptySet DEF ReservedSmall
\* The numbers above w are reserved to p, MAXOPBLOCKS - w of them.
<1>6. MAXOPBLOCKS - w <= Cardinality(Reserved)
  <2> DEFINE Rest == {p} \X ((w + 1)..MAXOPBLOCKS)
  <2>1. Rest \subseteq Reserved
    BY SMTT(30), <1>1, <1>2, <1>3 DEF Reserved
  <2>2. /\ IsFiniteSet((w + 1)..MAXOPBLOCKS)
        /\ Cardinality((w + 1)..MAXOPBLOCKS) = MAXOPBLOCKS - w
    <3>1. w + 1 \in Int /\ MAXOPBLOCKS \in Int /\ w + 1 <= MAXOPBLOCKS
      BY SMTT(30), <1>2, <1>3
    <3> HIDE DEF w
    <3>2. /\ IsFiniteSet((w + 1)..MAXOPBLOCKS)
          /\ Cardinality((w + 1)..MAXOPBLOCKS) =
               IF w + 1 > MAXOPBLOCKS THEN 0 ELSE MAXOPBLOCKS - (w + 1) + 1
      BY <3>1, FS_Interval
    <3> QED BY SMTT(30), <1>2, <1>3, <3>1, <3>2
  <2>3. IsFiniteSet({p}) /\ Cardinality({p}) = 1
    BY FS_Singleton
  <2>4. Cardinality(Rest) = 1 * (MAXOPBLOCKS - w)
    <3> DEFINE S == {p}
               T == (w + 1)..MAXOPBLOCKS
    <3>1. IsFiniteSet(S) /\ Cardinality(S) = 1
      BY <2>3
    <3>2. IsFiniteSet(T) /\ Cardinality(T) = MAXOPBLOCKS - w
      BY <2>2
    <3>3. Rest = S \X T
      OBVIOUS
    <3> HIDE DEF S, T, Rest
    <3>4. Cardinality(S \X T) = Cardinality(S) * Cardinality(T)
      BY <3>1, <3>2, FS_Product
    <3> QED BY <3>1, <3>2, <3>3, <3>4
  <2>5. Cardinality(Rest) <= Cardinality(Reserved)
    BY <2>1, ReservedFinite, FS_Subset DEF ReservedSmall
  <2> QED BY SMTT(30), <1>2, <1>3, <2>4, <2>5
<1>7. ~TooBig
  <2> HIDE DEF w
  <2> QED BY SMTT(30), <1>2, <1>3, <1>6 DEF TooBig
<1>8. /\ mode' = "run" /\ wrote' = [wrote EXCEPT ![p] = @ \cup {held[p]}]
      /\ pc' = [pc EXCEPT ![p] = "buf"] /\ held' = held
      /\ IF held[p] \in Logged THEN lh' = lh ELSE lh' = Append(lh, held[p])
  BY SMTT(30), <1>1, <1>5, <1>7 DEF log_write, Goto
<1>9. held[p] \in Blocks
  <2>1. held \in [Procs -> Blocks \cup {NoBlock}] /\ held[p] # NoBlock
    BY <1>1 DEF TypeOK, CacheInv, InBuf
  <2> QED BY <2>1
<1>10. Active' = Active
  BY <1>1, <1>8 DEF Active, InOp
<1>11. Logged' = Logged \cup {held[p]}
  <2>1. CASE held[p] \in Logged
    BY <1>8, <2>1 DEF Logged
  <2>2. CASE held[p] \notin Logged
    <3>1. lh' = Append(lh, held[p])
      BY <1>8, <2>2
    <3>2. /\ Len(lh') = Len(lh) + 1 /\ \A i \in 1..Len(lh) : lh'[i] = lh[i]
          /\ lh'[Len(lh) + 1] = held[p]
      BY <1>1, <1>9, <3>1, AppendFacts
    <3>3. \A b : b \in Logged' <=> \E i \in 1..(Len(lh) + 1) : lh'[i] = b
      BY <3>2 DEF Logged
    <3>4. \A i : i \in 1..(Len(lh) + 1) <=> i \in 1..Len(lh) \/ i = Len(lh) + 1
      BY SMTT(30), <1>2
    <3>5. \A b : b \in Logged' <=> (\E i \in 1..Len(lh) : lh[i] = b) \/ b = held[p]
      BY <3>2, <3>3, <3>4
    <3> QED BY <3>5 DEF Logged
  <2> QED BY <2>1, <2>2
<1>12. Len(lh') + Cardinality(Reserved') <= LOGSIZE
  <2>1. \A q \in Procs : q # p => wrote'[q] = wrote[q]
    BY <1>8, <1>1
  <2>2. wrote'[p] = wrote[p] \cup {held[p]}
    BY <1>8, <1>1
  <2>3. CASE held[p] \in Logged
    <3>1. Reserved' \subseteq Reserved
      <4>1. w <= Cardinality(wrote'[p]) /\ Cardinality(wrote'[p]) \in Nat
        BY SMTT(30), <1>3, <1>4, <2>2
      <4> HIDE DEF w
      <4>2. ASSUME NEW r \in Reserved' PROVE r \in Reserved
        <5>1. r \in Procs \X (1..MAXOPBLOCKS) /\ r[1] \in Active /\ r[2] > Cardinality(wrote'[r[1]])
          BY <1>10 DEF Reserved
        <5>2. r[1] \in Procs /\ r[2] \in Nat
          BY SMTT(30), <5>1, <1>2
        <5>3. r[2] > Cardinality(wrote[r[1]])
          <6>1. CASE r[1] = p
            BY SMTT(30), <1>3, <4>1, <5>1, <5>2, <6>1 DEF w
          <6>2. CASE r[1] # p
            BY <2>1, <5>1, <5>2, <6>2
          <6> QED BY <6>1, <6>2
        <5> QED BY <5>1, <5>3 DEF Reserved
      <4> QED BY <4>2
    <3>2. Cardinality(Reserved') <= Cardinality(Reserved) /\ Cardinality(Reserved') \in Nat
      BY <3>1, ReservedFinite, ReservedFiniteNext, FS_Subset DEF ReservedSmall
    <3> QED BY SMTT(30), <1>2, <1>3, <1>8, <2>3, <3>2
  <2>4. CASE held[p] \notin Logged
    <3>1. held[p] \notin wrote[p] /\ Cardinality(wrote'[p]) = w + 1 /\ w + 1 <= MAXOPBLOCKS
      BY SMTT(30), <1>2, <1>3, <1>4, <2>2, <2>4
    <3>2. <<p, w + 1>> \in Reserved
      BY SMTT(30), <1>1, <1>2, <1>3, <3>1 DEF Reserved
    <3>3. Reserved' \subseteq Reserved \ {<<p, w + 1>>}
      <4> HIDE DEF w
      <4>2. ASSUME NEW r \in Reserved' PROVE r \in Reserved /\ r # <<p, w + 1>>
        <5>1. r \in Procs \X (1..MAXOPBLOCKS) /\ r[1] \in Active /\ r[2] > Cardinality(wrote'[r[1]])
          BY <1>10 DEF Reserved
        <5>2. r[1] \in Procs /\ r[2] \in Nat
          BY SMTT(30), <5>1, <1>2
        <5>3. r[2] > Cardinality(wrote[r[1]]) /\ (r[1] = p => r[2] # w + 1)
          <6>1. CASE r[1] = p
            BY SMTT(30), <1>3, <3>1, <5>1, <5>2, <6>1 DEF w
          <6>2. CASE r[1] # p
            BY <2>1, <5>1, <5>2, <6>2
          <6> QED BY <6>1, <6>2
        <5> QED BY SMTT(30), <5>1, <5>3 DEF Reserved
      <4> QED BY <4>2
    <3>4. /\ IsFiniteSet(Reserved \ {<<p, w + 1>>})
          /\ Cardinality(Reserved \ {<<p, w + 1>>}) = Cardinality(Reserved) - 1
      BY SMTT(30), <3>2, ReservedFinite, FS_RemoveElement DEF ReservedSmall
    <3>5. Cardinality(Reserved') <= Cardinality(Reserved) - 1 /\ Cardinality(Reserved') \in Nat
      BY SMTT(30), <3>3, <3>4, ReservedFiniteNext, FS_Subset DEF ReservedSmall
    <3>6. Len(lh') = Len(lh) + 1
      BY <1>1, <1>8, <1>9, <2>4, AppendFacts
    <3> QED BY SMTT(30), <1>2, <1>3, <3>5, <3>6
  <2> QED BY <2>3, <2>4
<1>13. ASSUME NEW q \in Active'
       PROVE  wrote'[q] \subseteq Logged' /\ IsFiniteSet(wrote'[q]) /\ Cardinality(wrote'[q]) <= OPBLOCKS
  <2>1. CASE q = p
    BY <1>1, <1>3, <1>4, <1>8, <1>11, <2>1
  <2>2. CASE q # p
    <3>1. q \in Active /\ wrote'[q] = wrote[q]
      BY <1>1, <1>8, <1>10, <2>2 DEF Active
    <3> QED BY <1>1, <1>11, <3>1 DEF Room
  <2> QED BY <2>1, <2>2
<1>14. ASSUME NEW q \in Procs, pc'[q] = "dirty" PROVE Cardinality(wrote'[q] \cup {held'[q]}) <= OPBLOCKS
  <2>1. q # p /\ pc[q] = "dirty" /\ wrote'[q] = wrote[q] /\ held'[q] = held[q]
    BY <1>1, <1>8, <1>14
  <2> QED BY <1>1, <2>1 DEF Room
<1> QED BY <1>8, <1>12, <1>13, <1>14 DEF Room

\* The end of a call gives back what it had reserved.
LEMMA EndRoom ==
  ASSUME IInv, Room, NEW p \in Procs, end_op(p)
  PROVE  Room' /\ mode' = "run"
<1>1. /\ mode = "run" /\ pc[p] = "op" /\ p \in Active /\ UNCHANGED <<lh, wrote, held>>
      /\ pc \in [Procs -> PCs]
  BY DEF end_op, Active, InOp, TypeOK
<1>2. ~committing
  BY <1>1 DEF CommitInv
<1>3. /\ mode' = "run"
      /\ pc' = [pc EXCEPT ![p] = "commit"] \/ pc' = wakeup([pc EXCEPT ![p] = "out"])
  BY <1>1, <1>2 DEF end_op, Goto
<1>4. \A q \in Procs : pc'[q] \in InOp => pc'[q] = pc[q]
  BY <1>1, <1>3 DEF wakeup, InOp
<1>5. Active' \subseteq Active /\ \A q \in Procs : pc'[q] = "dirty" => pc[q] = "dirty"
  BY <1>4 DEF Active, InOp
<1> QED BY <1>1, <1>3, <1>5, RoomFrame

\* A commit runs with no call in progress, and nothing reserved.
LEMMA CommitRoom ==
  ASSUME IInv, Room, NEW p \in Procs, CommitStep(p)
  PROVE  Room' /\ mode' = "run"
<1>1. /\ mode = "run" /\ mode' = "run" /\ pc[p] \in InCommit /\ pc \in [Procs -> PCs]
      /\ lh' = lh \/ lh' = <<>>
  BY DEF CommitStep, commit, write_log, write_head, install_trans, erase, commit_done, InCommit, TypeOK
<1>2. Active = {}
  BY <1>1 DEF CommitInv
<1>3. \A q \in Procs : pc'[q] \in InOp => pc[q] \in InOp
  BY <1>1 DEF CommitStep, commit, write_log, write_head, install_trans, erase, commit_done, Goto,
              wakeup, InOp
<1>4. Active' = {}
  BY <1>2, <1>3 DEF Active
<1>5. Len(lh') <= LOGSIZE /\ Len(lh') \in Nat
  BY SMTT(30), <1>1, LogAssumption DEF HeadInv, TypeOK, LogAssumption
<1>6. Reserved' = {}
  BY <1>4 DEF Reserved
<1>7. Cardinality(Reserved') = 0
  BY <1>6, FS_EmptySet
<1>8. ASSUME NEW q \in Procs, pc'[q] = "dirty" PROVE FALSE
  BY <1>4, <1>8 DEF Active, InOp
<1>9. Len(lh') + Cardinality(Reserved') <= LOGSIZE
  BY SMTT(30), <1>5, <1>7
<1> QED BY <1>1, <1>4, <1>8, <1>9 DEF Room

\* After a recovery the log is empty, and nobody has begun.
LEMMA RebootRoom ==
  ASSUME IInv, Room, NoPanic, Crash \/ Recover
  PROVE  Room' /\ mode' # "panic"
<1>1. CASE Crash \/ read_head \/ install_recovering
  BY <1>1 DEF Crash, read_head, install_recovering, Room
<1>2. CASE clear_log
  <2>1. mode' = "run" /\ lh' = <<>> /\ pc' = pc /\ pc = [p \in Procs |-> "out"]
    BY <1>2 DEF clear_log, RecoverInv
  <2>2. Active' = {} /\ \A q \in Procs : pc'[q] # "dirty"
    BY <2>1 DEF Active, InOp
  <2>3. Reserved' = {}
    BY <2>2 DEF Reserved
  <2>4. Cardinality(Reserved') = 0 /\ Len(lh') = 0
    BY <2>1, <2>3, FS_EmptySet
  <2>5. Len(lh') + Cardinality(Reserved') <= LOGSIZE
    BY SMTT(30), <2>4, LogAssumption DEF LogAssumption
  <2> QED BY <2>1, <2>2, <2>5 DEF Room
<1> QED BY <1>1, <1>2 DEF Recover

\* log_write never finds the log too small and end_op never finds a commit in
\* progress, if a system call writes fewer blocks than begin_op reserves for it
\* and the part of its share that it leaves covers the block that the on-disk
\* log is short of LOGSIZE (log.size counts the header, and log_write refuses at
\* log.size - 1).
THEOREM LogNeverPanics ==
  ASSUME OPBLOCKS < MAXOPBLOCKS, LOGSIZE - MAXOPBLOCKS + OPBLOCKS <= NLOG - 2
  PROVE  Spec => []NoPanic
<1>1. Init => Room /\ NoPanic
  BY DEF Init, Room, NoPanic
<1>2. ASSUME IInv, Room, NoPanic, Next PROVE Room' /\ NoPanic'
  <2>1. ASSUME NEW p \in Procs, Proc(p) PROVE Room' /\ mode' = "run"
    BY <1>2, <2>1, BeginRoom, WriteRoom, EndRoom, BufferRoom, CommitRoom DEF Proc
  <2>2. ASSUME NEW b \in Blocks, recycle(b) PROVE Room' /\ mode' = mode
    <3>1. UNCHANGED <<mode, lh, wrote, pc, held>>
      BY <2>2 DEF recycle
    <3>2. mode # "run" => Room'
      BY <3>1 DEF Room
    <3>3. Active' = Active
      BY <3>1 DEF Active
    <3>4. mode = "run" => Room'
      BY <1>2, <3>1, <3>3, RoomFrame
    <3> QED BY <3>1, <3>2, <3>4
  <2>3. CASE Crash \/ Recover
    BY <1>2, <2>3, RebootRoom DEF NoPanic
  <2> QED BY <1>2, <2>1, <2>2, <2>3 DEF Next, NoPanic
<1>3. Room /\ NoPanic /\ UNCHANGED vars => Room' /\ NoPanic'
  <2> SUFFICES ASSUME Room, NoPanic, UNCHANGED vars PROVE Room' /\ NoPanic'
    OBVIOUS
  <2>1. UNCHANGED <<mode, lh, wrote, pc, held>>
    BY DEF vars
  <2>2. Active' = Active /\ NoPanic'
    BY <2>1 DEF Active, NoPanic
  <2>3. mode # "run" => Room'
    BY <2>1 DEF Room
  <2>4. mode = "run" => Room'
    BY <2>1, <2>2, RoomFrame
  <2> QED BY <2>2, <2>3, <2>4
<1>4. IInv /\ Room /\ NoPanic /\ [Next]_vars => Room' /\ NoPanic'
  BY <1>2, <1>3
<1> QED BY <1>1, <1>4, Invariance, PTL DEF Spec

----------------------------------------------------------------------------
(* Log implements AtomicDisk *)

\* What recovery would find depends on the disk only.
LEMMA RecoveredSame ==
  ASSUME UNCHANGED <<disk, dlog, dhead>>
  PROVE  Recovered' = Recovered
BY DEF Recovered

\* While the system runs, the file system sees the buffers.
LEMMA RunView == mode \in {"run", "panic"} => Current = [b \in Blocks |-> View(b)]
BY DEF Current

\* A step in run mode that writes no disk block and no buffer is a stutter or
\* a change of the set of active calls.
LEMMA CurrentSame ==
  ASSUME mode \in {"run", "panic"}, mode' \in {"run", "panic"},
         \A b \in Blocks : View(b)' = View(b)
  PROVE  Current' = Current
<1>1. [b \in Blocks |-> View(b)]' = [b \in Blocks |-> View(b)]
  OBVIOUS
<1>. QED
  BY <1>1 DEF Current

\* The open transaction depends on the header and on who has changed what.
LEMMA PendingSame ==
  ASSUME mode \in {"run", "panic"}, mode' \in {"run", "panic"}, UNCHANGED <<dhead, lh>>,
         \A q \in Procs : pc'[q] = "dirty" <=> pc[q] = "dirty",
         \A q \in Procs : pc[q] = "dirty" => held'[q] = held[q]
  PROVE  Pending' = Pending
<1>1. {held'[q] : q \in {r \in Procs : pc'[r] = "dirty"}}
        = {held[q] : q \in {r \in Procs : pc[r] = "dirty"}}
  OBVIOUS
<1>. QED
  BY <1>1 DEF Pending, Logged

\* While a call is in progress the transaction is open: no header is written.
LEMMA OpenTransaction ==
  ASSUME IInv, mode = "run", NEW p \in Procs, pc[p] \in InOp
  PROVE  /\ dhead = <<>>
         /\ Pending = Logged \cup {held[q] : q \in {r \in Procs : pc[r] = "dirty"}}
<1>1. \A q \in Procs : pc[q] \notin InCommit
  BY NoCommitter
<1>2. dhead = <<>>
  BY <1>1 DEF LogInv, InCommit
<1>. QED
  BY <1>2 DEF Pending

\* A fresh file system is an initial state of AtomicDisk.
LEMMA InitRefines == Init => AD!AInit
<1> SUFFICES ASSUME Init PROVE AD!AInit
  OBVIOUS
<1>1. disk \in [Blocks -> Data] /\ dhead = <<>> /\ mode = "read_head"
  BY LogAssumption DEF Init, LogAssumption
<1>2. Recovered = disk
  BY SMTT(30), <1>1 DEF Recovered
<1>3. Current = Recovered
  BY <1>1 DEF Current
<1>4. Active = {}
  BY DEF Init, Active, InOp
<1>5. Pending = {} /\ torn = {}
  BY <1>1 DEF Init, Pending
<1>. QED
  BY <1>1, <1>2, <1>3, <1>4, <1>5 DEF AD!AInit

\* The steps of a call: Begin, Write, Tear, End, or nothing.
LEMMA CallRefines ==
  ASSUME IInv, NEW p \in Procs,
         \/ begin_op(p) \/ log_write(p) \/ end_op(p) \/ brelse(p)
         \/ \E b \in Blocks : bread(p, b)
         \/ \E v \in Data : modify(p, v) \/ copyin_fails(p, v)
  PROVE  [AD!ANext]_(AD!avars)
<1>1. /\ mode = "run" /\ mode' \in {"run", "panic"}
      /\ UNCHANGED <<disk, dlog, dhead>>
  BY DEF begin_op, log_write, end_op, brelse, bread, modify, copyin_fails, diskvars
<1>2. Recovered' = Recovered
  BY <1>1, RecoveredSame
<1>3. /\ pc \in [Procs -> PCs] /\ cache \in [Blocks -> Data \cup {Empty}]
      /\ held \in [Procs -> Blocks \cup {NoBlock}]
  BY DEF TypeOK
<1>4. ASSUME UNCHANGED cache PROVE Current' = Current
  BY <1>1, <1>4, CurrentSame DEF View
<1>5. CASE begin_op(p)
  <2>1. Current' = Current /\ UNCHANGED torn
    BY <1>4, <1>5 DEF begin_op
  <2>2. Active' = Active \/ (p \notin Active /\ Active' = Active \cup {p})
    BY <1>3, <1>5 DEF begin_op, Goto, Active, InOp
  <2>3. UNCHANGED <<lh, held>> /\ \A q \in Procs : pc'[q] = "dirty" <=> pc[q] = "dirty"
    BY <1>3, <1>5 DEF begin_op, Goto
  <2>4. Pending' = Pending
    BY <1>1, <2>3, PendingSame
  <2>. QED
    BY <1>2, <2>1, <2>2, <2>4 DEF AD!ANext, AD!Begin, AD!avars
<1>6. CASE end_op(p)
  <2>1. Current' = Current /\ UNCHANGED torn
    BY <1>4, <1>6 DEF end_op
  <2>2. Active' = Active \/ (p \in Active /\ Active' = Active \ {p})
    BY <1>3, <1>6 DEF end_op, Goto, wakeup, Active, InOp
  <2>3. UNCHANGED <<lh, held>> /\ \A q \in Procs : pc'[q] = "dirty" <=> pc[q] = "dirty"
    BY <1>3, <1>6 DEF end_op, Goto, wakeup
  <2>4. Pending' = Pending
    BY <1>1, <2>3, PendingSame
  <2>. QED
    BY <1>2, <2>1, <2>2, <2>4 DEF AD!ANext, AD!End, AD!avars
<1>7. CASE brelse(p)
  <2>1. Current' = Current /\ UNCHANGED torn
    BY <1>4, <1>7 DEF brelse
  <2>2. Active' = Active
    BY <1>3, <1>7 DEF brelse, Goto, Active, InOp
  <2>3. /\ UNCHANGED lh /\ \A q \in Procs : pc'[q] = "dirty" <=> pc[q] = "dirty"
        /\ \A q \in Procs : pc[q] = "dirty" => held'[q] = held[q]
    BY <1>3, <1>7 DEF brelse, Goto
  <2>4. Pending' = Pending
    BY <1>1, <2>3, PendingSame
  <2>. QED
    BY <1>2, <2>1, <2>2, <2>4 DEF AD!avars
<1>8. ASSUME NEW b \in Blocks, bread(p, b) PROVE [AD!ANext]_(AD!avars)
  <2>1. cache' = [cache EXCEPT ![b] = View(b)] /\ UNCHANGED torn
    BY <1>8 DEF bread
  <2>2. \A x \in Blocks : View(x)' = View(x)
    BY <1>1, <1>3, <2>1, LogAssumption DEF View, TypeOK, LogAssumption
  <2>3. Current' = Current
    BY <1>1, <2>2, CurrentSame
  <2>4. Active' = Active
    BY <1>3, <1>8 DEF bread, Goto, Active, InOp
  <2>5. /\ UNCHANGED lh /\ \A q \in Procs : pc'[q] = "dirty" <=> pc[q] = "dirty"
        /\ \A q \in Procs : pc[q] = "dirty" => held'[q] = held[q]
    BY <1>3, <1>8 DEF bread, Goto
  <2>6. Pending' = Pending
    BY <1>1, <2>5, PendingSame
  <2>. QED
    BY <1>2, <2>1, <2>3, <2>4, <2>6 DEF AD!avars
<1>9. CASE log_write(p)
  <2>1. Current' = Current /\ UNCHANGED <<torn, held>> /\ pc[p] = "dirty"
    BY <1>4, <1>9 DEF log_write
  <2>2. Active' = Active
    BY <1>3, <1>9 DEF log_write, Goto, Active, InOp
  <2>3. Pending' = Pending
    <3>1. CASE UNCHANGED <<lh, pc>>
      BY <1>1, <2>1, <3>1, PendingSame
    <3>2. CASE /\ (lh' = lh /\ held[p] \in Logged) \/ lh' = Append(lh, held[p])
               /\ pc' = [pc EXCEPT ![p] = "buf"]
      <4>1. Logged' = Logged \cup {held[p]}
        <5>1. CASE lh' = lh /\ held[p] \in Logged
          BY <5>1 DEF Logged
        <5>2. CASE lh' = Append(lh, held[p])
          <6>1. lh \in Seq(Blocks) /\ held[p] \in Blocks
            BY <1>1, <1>3, <2>1 DEF TypeOK, CacheInv, InBuf
          <6>2. /\ Len(lh') = Len(lh) + 1 /\ lh'[Len(lh) + 1] = held[p]
                /\ \A i \in 1..Len(lh) : lh'[i] = lh[i]
            BY <5>2, <6>1, AppendFacts
          <6>. QED
            BY SMTT(30), <6>1, <6>2 DEF Logged
        <5>. QED
          BY <3>2, <5>1, <5>2
      <4>2. {held[q] : q \in {r \in Procs : pc[r] = "dirty"}}
              = {held[q] : q \in {r \in Procs : pc'[r] = "dirty"}} \cup {held[p]}
        BY <1>3, <2>1, <3>2
      <4>3. /\ dhead = <<>>
            /\ Pending = Logged \cup {held[q] : q \in {r \in Procs : pc[r] = "dirty"}}
        BY <1>1, <2>1, OpenTransaction DEF InOp
      <4>4. Pending' = Logged' \cup {held[q] : q \in {r \in Procs : pc'[r] = "dirty"}}
        BY <1>1, <2>1, <4>3 DEF Pending
      <4>. QED
        BY <4>1, <4>2, <4>3, <4>4
    <3>. QED
      BY <1>9, <3>1, <3>2 DEF log_write, Goto
  <2>. QED
    BY <1>2, <2>1, <2>2, <2>3 DEF AD!avars
<1>10. ASSUME NEW v \in Data, modify(p, v) PROVE [AD!ANext]_(AD!avars)
  <2>1. /\ pc[p] = "buf" /\ pc' = [pc EXCEPT ![p] = "dirty"] /\ mode' = mode
        /\ cache' = [cache EXCEPT ![held[p]] = v] /\ torn' = torn \ {held[p]}
        /\ UNCHANGED <<lh, held>>
    BY <1>10 DEF modify, Goto
  <2>2. held[p] \in Blocks
    BY <1>1, <1>3, <2>1 DEF CacheInv, InBuf
  <2>3. p \in Active /\ Active' = Active
    BY <1>3, <2>1 DEF Active, InOp
  <2>4. \A x \in Blocks : View(x)' = IF x = held[p] THEN v ELSE View(x)
    BY <1>1, <1>3, <2>1, LogAssumption DEF View, LogAssumption
  <2>5. Current = [x \in Blocks |-> View(x)] /\ Current' = [x \in Blocks |-> View(x)']
    BY <1>1 DEF Current
  <2>6. Current' = [Current EXCEPT ![held[p]] = v]
    BY <2>2, <2>4, <2>5
  <2>7. Pending' = Pending \cup {held[p]}
    <3>1. /\ dhead = <<>>
          /\ Pending = Logged \cup {held[q] : q \in {r \in Procs : pc[r] = "dirty"}}
      BY <1>1, <2>1, OpenTransaction DEF InOp
    <3>2. Pending' = Logged' \cup {held[q] : q \in {r \in Procs : pc'[r] = "dirty"}}
      BY <1>1, <2>1, <3>1 DEF Pending
    <3>3. {held[q] : q \in {r \in Procs : pc'[r] = "dirty"}}
            = {held[q] : q \in {r \in Procs : pc[r] = "dirty"}} \cup {held[p]}
      BY <1>3, <2>1
    <3>4. Logged' = Logged
      BY <2>1 DEF Logged
    <3>. QED
      BY <3>1, <3>2, <3>3, <3>4
  <2>8. AD!Write(p, held[p], v)
    BY <1>2, <2>1, <2>3, <2>6, <2>7 DEF AD!Write
  <2>. QED
    BY <2>2, <2>8 DEF AD!ANext
<1>11. ASSUME NEW v \in Data, copyin_fails(p, v) PROVE [AD!ANext]_(AD!avars)
  <2>1. /\ pc[p] = "buf" /\ pc' = [pc EXCEPT ![p] = "op"] /\ mode' = mode
        /\ cache' = [cache EXCEPT ![held[p]] = v] /\ held[p] \in FileBlocks
        /\ torn' = torn \cup ({held[p]} \ Logged)
        /\ UNCHANGED lh /\ held' = [held EXCEPT ![p] = NoBlock]
    BY <1>11 DEF copyin_fails, Goto
  <2>2. held[p] \in Blocks /\ \A q \in Procs : q # p => held[q] # held[p]
    BY <1>1, <1>3, <2>1 DEF CacheInv, InBuf
  <2>3. p \in Active /\ Active' = Active
    BY <1>3, <2>1 DEF Active, InOp
  <2>4. \A x \in Blocks : View(x)' = IF x = held[p] THEN v ELSE View(x)
    BY <1>1, <1>3, <2>1, LogAssumption DEF View, LogAssumption
  <2>5. Current = [x \in Blocks |-> View(x)] /\ Current' = [x \in Blocks |-> View(x)']
    BY <1>1 DEF Current
  <2>6. Current' = [Current EXCEPT ![held[p]] = v]
    BY <2>2, <2>4, <2>5
  <2>7. Pending' = Pending
    <3>1. /\ \A q \in Procs : pc'[q] = "dirty" <=> pc[q] = "dirty"
          /\ \A q \in Procs : pc[q] = "dirty" => held'[q] = held[q]
      BY <1>3, <2>1
    <3>. QED
      BY <1>1, <2>1, <3>1, PendingSame
  <2>8. held[p] \in Pending <=> held[p] \in Logged
    <3>1. Pending = Logged \cup {held[q] : q \in {r \in Procs : pc[r] = "dirty"}}
      BY <1>1, <2>1, OpenTransaction DEF InOp
    <3>. QED
      BY <2>1, <2>2, <3>1
  <2>9. torn' = torn \cup ({held[p]} \ Pending)
    BY <2>1, <2>8
  <2>10. AD!Tear(p, held[p], v)
    BY <1>2, <2>1, <2>3, <2>6, <2>7, <2>9 DEF AD!Tear
  <2>. QED
    BY <2>2, <2>10 DEF AD!ANext
<1>. QED
  BY <1>5, <1>6, <1>7, <1>8, <1>9, <1>10, <1>11

\* The commit: writing the header is AtomicDisk's Commit, the rest changes
\* neither what recovery would find nor what the file system sees.
LEMMA CommitRefines ==
  ASSUME IInv, NEW p \in Procs, CommitStep(p)
  PROVE  [AD!ANext]_(AD!avars)
<1>1. mode = "run" /\ mode' = "run" /\ pc[p] \in InCommit
  BY DEF CommitStep, commit, write_log, write_head, install_trans, erase, commit_done, InCommit
<1>2. /\ Active = {} /\ \A q \in Procs : pc[q] \notin InOp
      /\ \A q \in Procs : q # p => pc[q] \notin InCommit
  BY <1>1, SoleCommitter
<1>3. /\ pc \in [Procs -> PCs] /\ cache \in [Blocks -> Data \cup {Empty}]
      /\ disk \in [Blocks -> Data] /\ dlog \in [1..LOGSIZE -> Data]
      /\ lh \in Seq(Blocks) /\ tail \in Nat /\ LOGSIZE \in Nat /\ Empty \notin Data
  BY LogAssumption DEF TypeOK, LogAssumption
<1>4. Active' = {}
  <2>1. \A q \in Procs : pc'[q] \notin InOp
    BY <1>2, <1>3 DEF CommitStep, commit, write_log, write_head, install_trans,
                      erase, commit_done, Goto, wakeup, InOp
  <2>. QED
    BY <2>1 DEF Active
<1>10. UNCHANGED <<torn, held>>
  BY DEF CommitStep, commit, write_log, write_head, install_trans, erase, commit_done
<1>11. \A q \in Procs : pc[q] # "dirty" /\ pc'[q] # "dirty"
  <2>1. pc' \in [Procs -> PCs] /\ Active = {} /\ Active' = {}
    BY <1>2, <1>3, <1>4 DEF CommitStep, commit, write_log, write_head, install_trans,
                            erase, commit_done, Goto, wakeup, PCs, InOp, InCommit
  <2>. QED
    BY <2>1 DEF Active, InOp
<1>12. ASSUME UNCHANGED <<dhead, lh>> PROVE Pending' = Pending
  BY <1>1, <1>11, <1>12, PendingSame
<1>13. /\ Pending = (IF dhead = <<>> THEN Logged ELSE {})
       /\ Pending' = (IF dhead' = <<>> THEN Logged' ELSE {})
  <2>1. /\ {held[q] : q \in {r \in Procs : pc[r] = "dirty"}} = {}
        /\ {held'[q] : q \in {r \in Procs : pc'[r] = "dirty"}} = {}
    BY <1>11
  <2>. QED
    BY <1>1, <2>1 DEF Pending
<1>5. CASE commit(p) \/ commit_done(p)
  <2>1. UNCHANGED <<disk, dlog, dhead, cache, lh>>
    BY <1>5 DEF commit, commit_done, diskvars
  <2>2. Current' = Current
    BY <1>1, <2>1, CurrentSame DEF View
  <2>3. Recovered' = Recovered
    BY <2>1, RecoveredSame
  <2>. QED
    BY <1>2, <1>4, <1>10, <1>12, <2>1, <2>2, <2>3 DEF AD!avars
<1>6. CASE write_log(p)
  <2>1. /\ UNCHANGED <<disk, dhead, lh>> /\ pc[p] = "write_log"
        /\ cache' = [cache EXCEPT ![lh[tail + 1]] = View(lh[tail + 1])]
    BY <1>6 DEF write_log
  <2>2. dhead = <<>>
    BY <1>1, <1>2, <2>1 DEF LogInv, InCommit
  <2>3. Recovered' = Recovered
    BY SMTT(30), <2>1, <2>2 DEF Recovered
  <2>4. \A x \in Blocks : View(x)' = View(x)
    BY <1>3, <2>1 DEF View
  <2>5. Current' = Current
    BY <1>1, <2>4, CurrentSame
  <2>. QED
    BY <1>2, <1>4, <1>10, <1>12, <2>1, <2>3, <2>5 DEF AD!avars
<1>7. CASE write_head(p)
  <2>1. UNCHANGED <<disk, dlog, cache, lh>> /\ pc[p] = "write_head" /\ dhead' = lh
    BY <1>7 DEF write_head
  <2>2. Current' = Current /\ Current = [b \in Blocks |-> View(b)]
    BY <1>1, <2>1, CurrentSame, RunView DEF View
  <2>3. \A i \in 1..Len(lh) : dlog[i] = View(lh[i])
    BY <1>1, <2>1 DEF LogInv
  <2>4. dhead = <<>> /\ lh # <<>>
    BY <1>1, <1>2, <2>1 DEF LogInv, InCommit
  <2>7. Recovered = disk
    BY SMTT(30), <1>3, <2>4 DEF Recovered
  <2>8. Pending = Logged /\ Pending' = {}
    BY <1>13, <2>1, <2>4
  <2>5. ASSUME NEW b \in Blocks
        PROVE  (IF b \in Logged THEN View(b) ELSE disk[b])
                 = IF \E i \in 1..Len(lh) : lh[i] = b
                   THEN dlog[CHOOSE i \in 1..Len(lh) : lh[i] = b] ELSE disk[b]
    <3>1. CASE \E i \in 1..Len(lh) : lh[i] = b
      <4>1. PICK i : i = (CHOOSE k \in 1..Len(lh) : lh[k] = b)
        OBVIOUS
      <4>2. i \in 1..Len(lh) /\ lh[i] = b
        BY <3>1, <4>1
      <4>. QED
        BY <2>3, <3>1, <4>1, <4>2 DEF Logged
    <3>2. CASE ~\E i \in 1..Len(lh) : lh[i] = b
      BY <3>2 DEF Logged
    <3>. QED
      BY <3>1, <3>2
  <2>6. Recovered' = [b \in Blocks |-> IF b \in Pending THEN Current[b] ELSE Recovered[b]]
    <3>1. Recovered' = [b \in Blocks |-> IF b \in Logged THEN View(b) ELSE disk[b]]
      <4>1. Recovered' = [b \in Blocks |->
                            IF \E i \in 1..Len(lh) : lh[i] = b
                            THEN dlog[CHOOSE i \in 1..Len(lh) : lh[i] = b] ELSE disk[b]]
        BY SMTT(30), <2>1 DEF Recovered
      <4>. QED
        BY <2>5, <4>1
    <3>2. \A b \in Blocks : Current[b] = View(b)
      BY <2>2
    <3>. QED
      BY <2>7, <2>8, <3>1, <3>2
  <2>. QED
    BY <1>2, <1>4, <1>10, <2>2, <2>6, <2>8 DEF AD!ANext, AD!Commit
<1>8. CASE install_trans(p)
  <2>1. /\ UNCHANGED <<dlog, dhead, lh>> /\ pc[p] = "install"
        /\ disk' = [disk EXCEPT ![lh[tail + 1]] = dlog[tail + 1]]
        /\ cache' = [cache EXCEPT ![lh[tail + 1]] = dlog[tail + 1]]
    BY <1>8 DEF install_trans, CopyHome
  <2>2. tail + 1 \in 1..Len(lh) /\ tail + 1 \in 1..LOGSIZE
    BY SMTT(30), <1>1, <1>3, <2>1 DEF CommitInv, HeadInv
  <2>3. dhead = lh /\ View(lh[tail + 1]) = dlog[tail + 1] /\ dlog[tail + 1] \in Data
    BY <1>1, <1>3, <2>1, <2>2 DEF LogInv
  <2>4. \A x \in Blocks : View(x)' = View(x)
    BY <1>3, <2>1, <2>3 DEF View
  <2>5. Recovered' = Recovered
    BY <1>3, <2>1, <2>2, <2>3 DEF Recovered
  <2>6. Current' = Current
    BY <1>1, <2>4, CurrentSame
  <2>. QED
    BY <1>2, <1>4, <1>10, <1>12, <2>1, <2>5, <2>6 DEF AD!avars
<1>9. CASE erase(p)
  <2>1. UNCHANGED <<disk, dlog, cache>> /\ pc[p] = "erase" /\ dhead' = <<>> /\ lh' = <<>>
    BY <1>9 DEF erase
  <2>2. dhead = lh /\ \A i \in 1..Len(lh) : disk[lh[i]] = dlog[i]
    BY <1>1, <2>1 DEF LogInv, Installed
  <2>3. Recovered = disk
    BY <1>3, <2>2 DEF Recovered
  <2>4. Recovered' = disk
    BY SMTT(30), <1>3, <2>1 DEF Recovered
  <2>5. Current' = Current
    BY <1>1, <2>1, CurrentSame DEF View
  <2>6. Pending' = Pending
    <3>1. (dhead = <<>> => Logged = {}) /\ Logged' = {}
      BY SMTT(30), <1>3, <2>1, <2>2 DEF Logged
    <3>. QED
      BY <1>13, <2>1, <3>1
  <2>. QED
    BY <1>2, <1>4, <1>10, <2>3, <2>4, <2>5, <2>6 DEF AD!avars
<1>. QED
  BY <1>5, <1>6, <1>7, <1>8, <1>9 DEF CommitStep

\* Losing memory is AtomicDisk's Crash; the steps of recovery write only what
\* Recovered already says, and hand over to calls that see it.
LEMMA RecoverRefines ==
  ASSUME IInv, Crash \/ Recover
  PROVE  [AD!ANext]_(AD!avars)
<1>1. /\ cache \in [Blocks -> Data \cup {Empty}] /\ disk \in [Blocks -> Data]
      /\ dlog \in [1..LOGSIZE -> Data] /\ lh \in Seq(Blocks) /\ dhead \in Seq(Blocks)
      /\ tail \in Nat /\ LOGSIZE \in Nat
  BY LogAssumption DEF TypeOK, LogAssumption
<1>2. CASE Crash
  <2>1. UNCHANGED <<disk, dlog, dhead>> /\ mode' = "read_head"
    BY <1>2 DEF Crash, diskvars
  <2>2. Recovered' = Recovered
    BY <2>1, RecoveredSame
  <2>3. Current' = Recovered'
    BY <2>1 DEF Current
  <2>4. Active' = {} /\ torn' = {}
    BY <1>2 DEF Crash, Active, InOp
  <2>5. Pending' = {}
    BY <2>1 DEF Pending
  <2>. QED
    BY <2>2, <2>3, <2>4, <2>5 DEF AD!ANext, AD!Crash
<1>3. CASE Recover
  <2>1. mode \in {"read_head", "recover", "clear"} /\ pc' = pc
    BY <1>3 DEF Recover, read_head, install_recovering, clear_log
  <2>2. Active' = Active /\ Current = Recovered
    BY <2>1 DEF Active, Current
  <2>4. UNCHANGED torn
    BY <1>3 DEF Recover, read_head, install_recovering, clear_log
  <2>5. Pending' = Pending
    <3>1. Pending = {}
      BY <2>1 DEF Pending
    <3>2. CASE read_head \/ install_recovering
      <4>1. mode' \in {"recover", "clear"}
        BY <3>2 DEF read_head, install_recovering
      <4>. QED
        BY <3>1, <4>1 DEF Pending
    <3>3. CASE clear_log
      <4>1. mode = "clear" /\ mode' = "run" /\ lh' = <<>> /\ dhead' = <<>>
        BY <3>3 DEF clear_log
      <4>2. \A q \in Procs : pc'[q] # "dirty"
        BY <2>1, <4>1 DEF RecoverInv
      <4>3. Logged' = {}
        BY SMTT(30), <4>1 DEF Logged
      <4>. QED
        BY <3>1, <4>1, <4>2, <4>3 DEF Pending
    <3>. QED
      BY <1>3, <3>2, <3>3 DEF Recover
  <2>3. Recovered' = Recovered /\ Current' = Recovered'
    <3>1. CASE read_head
      <4>1. UNCHANGED <<disk, dlog, dhead>> /\ mode' \in {"clear", "recover"}
        BY <3>1 DEF read_head, diskvars
      <4>. QED
        BY <4>1, RecoveredSame DEF Current
    <3>2. CASE install_recovering
      <4>1. /\ mode = "recover" /\ mode' \in {"recover", "clear"}
            /\ UNCHANGED <<dlog, dhead>>
            /\ disk' = [disk EXCEPT ![lh[tail + 1]] = dlog[tail + 1]]
        BY <3>2 DEF install_recovering, CopyHome
      <4>2. lh = dhead /\ tail + 1 \in 1..Len(dhead)
        BY SMTT(30), <1>1, <4>1 DEF RecoverInv
      <4>3. Recovered' = Recovered
        BY <1>1, <4>1, <4>2 DEF Recovered
      <4>. QED
        BY <4>1, <4>3 DEF Current
    <3>3. CASE clear_log
      <4>1. /\ mode = "clear" /\ mode' = "run"
            /\ UNCHANGED <<disk, dlog, cache>> /\ dhead' = <<>>
        BY <3>3 DEF clear_log
      <4>2. /\ lh = dhead /\ \A i \in 1..Len(lh) : disk[lh[i]] = dlog[i]
            /\ \A b \in Blocks : View(b) = disk[b]
        BY <4>1 DEF RecoverInv
      <4>3. Recovered = disk /\ Recovered' = disk
        BY SMTT(30), <1>1, <4>1, <4>2 DEF Recovered
      <4>4. \A b \in Blocks : View(b)' = disk[b]
        BY <4>1, <4>2 DEF View
      <4>5. Current' = disk
        BY <1>1, <4>1, <4>4 DEF Current
      <4>. QED
        BY <4>3, <4>5
    <3>. QED
      BY <1>3, <3>1, <3>2, <3>3 DEF Recover
  <2>. QED
    BY <2>2, <2>3, <2>4, <2>5 DEF AD!avars
<1>. QED
  BY <1>2, <1>3

\* Recycling an unreferenced buffer is invisible if it was clean, and Forget if
\* it was torn.
LEMMA RecycleRefines ==
  ASSUME IInv, NEW b \in Blocks, recycle(b)
  PROVE  [AD!ANext]_(AD!avars)
<1>1. /\ UNCHANGED <<disk, dlog, dhead, pc, lh, held, mode>> /\ pin[b] = 0 /\ Unlocked(b)
      /\ cache' = [cache EXCEPT ![b] = Empty] /\ torn' = torn \ {b} /\ mode # "panic"
  BY DEF recycle, diskvars
<1>2. Recovered' = Recovered /\ Active' = Active /\ Pending' = Pending
  BY <1>1, RecoveredSame DEF Active, Pending, Logged
<1>3. CASE mode = "run"
  <2>1. View(b)' = disk[b] /\ \A x \in Blocks : x # b => View(x)' = View(x)
    BY <1>1 DEF View, TypeOK
  <2>2. Current = [x \in Blocks |-> View(x)] /\ Current' = [x \in Blocks |-> View(x)']
    BY <1>1, <1>3 DEF Current
  <2>3. CASE b \in torn
    <3>1. b \notin Logged
      BY <1>3, <2>3 DEF CacheInv
    <3>2. dhead = lh \/ dhead = <<>>
      BY <1>3 DEF LogInv
    <3>3. ~\E i \in 1..Len(dhead) : dhead[i] = b
      BY SMTT(30), <3>1, <3>2 DEF Logged
    <3>4. Recovered[b] = disk[b]
      BY <3>3 DEF Recovered
    <3>5. Current' = [Current EXCEPT ![b] = Recovered[b]]
      BY <2>1, <2>2, <3>4
    <3>6. AD!Forget(b)
      BY <1>1, <1>2, <2>3, <3>5 DEF AD!Forget
    <3>. QED
      BY <3>6 DEF AD!ANext
  <2>4. CASE b \notin torn
    <3>1. View(b) = disk[b]
      <4>1. CASE b \in Logged
        <5>1. PICK i \in 1..Len(lh) : lh[i] = b
          BY <4>1 DEF Logged
        <5>2. Installed(i)
          <6>1. pin[lh[i]] = IF Installed(i) THEN 0 ELSE 1
            BY <1>3 DEF PinInv
          <6>. QED
            BY SMTT(30), <1>1, <5>1, <6>1
        <5>3. PICK p \in Procs : pc[p] \in {"install", "erase"}
          BY <5>2 DEF Installed
        <5>. QED
          BY <1>3, <5>1, <5>2, <5>3 DEF LogInv
      <4>2. CASE b \notin Logged
        <5>1. \A p \in Procs : held[p] # b
          BY <1>1 DEF Unlocked
        <5>. QED
          BY <1>3, <2>4, <4>2, <5>1 DEF CacheInv
      <4>. QED
        BY <4>1, <4>2
    <3>2. Current' = Current
      BY <2>1, <2>2, <3>1
    <3>3. torn' = torn
      BY <1>1, <2>4
    <3>. QED
      BY <1>2, <3>2, <3>3 DEF AD!avars
  <2>. QED
    BY <2>3, <2>4
<1>4. CASE mode \in {"read_head", "recover", "clear"}
  <2>1. torn = {}
    BY <1>4 DEF RecoverInv
  <2>. QED
    BY <1>1, <1>2, <1>4, <2>1 DEF Current, AD!avars
<1>. QED
  BY <1>1, <1>3, <1>4 DEF TypeOK

\* The log makes groups of system calls atomic with respect to crashes, for
\* any number of processes and blocks and any log size: every step of the log
\* is a step of AtomicDisk or changes nothing it can see.
THEOREM LogImplementsAtomicDisk == Spec => CrashAtomic
<1>1. ASSUME IInv, Next PROVE [AD!ANext]_(AD!avars)
  <2>1. ASSUME NEW p \in Procs, Proc(p) PROVE [AD!ANext]_(AD!avars)
    BY <1>1, <2>1, CallRefines, CommitRefines DEF Proc
  <2>2. CASE \E b \in Blocks : recycle(b)
    BY <1>1, <2>2, RecycleRefines
  <2>3. CASE Crash \/ Recover
    BY <1>1, <2>3, RecoverRefines
  <2>. QED
    BY <1>1, <2>1, <2>2, <2>3 DEF Next
<1>2. ASSUME UNCHANGED vars PROVE UNCHANGED AD!avars
  BY <1>2 DEF vars, AD!avars, Recovered, Current, Active, Pending, Logged, View
<1>. QED
  BY <1>1, <1>2, InitRefines, Invariance, PTL DEF Spec, CrashAtomic, AD!ASpec
=============================================================================
