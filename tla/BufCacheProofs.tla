---------------------------- MODULE BufCacheProofs ----------------------------
(***************************************************************************)
(* Proofs about BufCache, for every number of processes, buffers and       *)
(* blocks: the inductive invariant, that every step keeps it, and that the *)
(* cache implements BlockStore.                                            *)
(***************************************************************************)
EXTENDS BufCache, FiniteSetTheorems, TLAPS

\* Leaves that name no prover are for Zenon.
USE ZenonT(60)

\* bget() gives a block one buffer.
Unique == \A b, d \in Bufs : blockno[b] = blockno[d] /\ blockno[b] # NoBlock => b = d

\* A buffer's lock says who holds it.
Holding == \A p \in Procs, b \in Bufs : b \in held[p] <=> locked[b] = p

\* A transfer is of a buffer that the process holds; a buffer that it wants has a
\* higher number than those it holds, and a buffer that it refers to has a block.
Position ==
  \A p \in Procs :
    /\ pc[p] \in {"reading", "writing", "bunpin"} => cur[p] \in held[p]
    /\ pc[p] \in {"acquiresleep", "sleeping"} => \A b \in held[p] : blockno[b] < blockno[cur[p]]
    /\ pc[p] = "brelse" => cur[p] \notin held[p]
    /\ \A b \in Refers(p) : blockno[b] # NoBlock

\* The processes that refer to b.
Users(b) == {p \in Procs : b \in Refers(p)}

\* refcnt counts them, and the log's pin.
Counted ==
  \A b \in Bufs : refcnt[b] = Cardinality(Users(b)) + (IF b \in pinned THEN 1 ELSE 0)

\* A buffer is read before it is used, and is what the disk has unless it was
\* changed since, or waits for its commit.
Current ==
  /\ \A b \in Bufs :
       /\ valid[b] => blockno[b] # NoBlock
       /\ b \in dirty => locked[b] # Nobody
       /\ b \in dirty \cup pinned => valid[b]
       /\ valid[b] /\ b \notin dirty \cup pinned => data[b] = disk[blockno[b]]
  /\ \A p \in Procs :
       /\ \A b \in held[p] : valid[b] \/ (pc[p] = "reading" /\ cur[p] = b)
       /\ pc[p] = "reading" => ~valid[cur[p]]
       /\ pc[p] = "bunpin" => cur[p] \in pinned \ dirty /\ data[cur[p]] = disk[blockno[cur[p]]]

\* The inductive invariant.
BufInv ==
  /\ TypeOK /\ Listed /\ Unique /\ Holding /\ Position /\ Counted /\ Current
  /\ SleepersBlocked

USE BufAssumption DEF Bufs, NoBlock, Goto

----------------------------------------------------------------------------
(* Counting *)

\* What adding and removing one process does to the size of a set of processes.
LEMMA Counts ==
  ASSUME NEW S \in SUBSET Procs, NEW p \in Procs
  PROVE  /\ Cardinality(S) \in Nat /\ (S # {} => Cardinality(S) >= 1)
         /\ p \notin S => Cardinality(S \cup {p}) = Cardinality(S) + 1
         /\ p \in S => Cardinality(S \ {p}) = Cardinality(S) - 1
<1>1. IsFiniteSet(S)
  BY FS_Subset
<1>2. Cardinality(S) \in Nat /\ (Cardinality(S) = 0 <=> S = {})
  BY <1>1, FS_CardinalityType, FS_EmptySet
<1>3. p \notin S => Cardinality(S \cup {p}) = Cardinality(S) + 1
  BY <1>1, FS_AddElement
<1>4. p \in S => Cardinality(S \ {p}) = Cardinality(S) - 1
  BY <1>1, FS_RemoveElement
<1> QED
  BY SMTT(30), <1>2, <1>3, <1>4

\* A buffer that refcnt says is unused is used by nobody (bget recycles it).
LEMMA ZeroIsUnused ==
  ASSUME TypeOK, Counted, NEW b \in Bufs
  PROVE  /\ b \in pinned => refcnt[b] >= 1
         /\ \A p \in Procs : b \in Refers(p) => refcnt[b] >= 1
<1>1. Users(b) \in SUBSET Procs /\ refcnt[b] \in Nat
  BY DEF Users, TypeOK
<1>2. refcnt[b] = Cardinality(Users(b)) + (IF b \in pinned THEN 1 ELSE 0)
  BY DEF Counted
<1>3. ASSUME NEW p \in Procs
      PROVE  Cardinality(Users(b)) \in Nat /\ (b \in Refers(p) => Cardinality(Users(b)) >= 1)
  BY <1>1, Counts DEF Users
<1>4. Cardinality(Users(b)) \in Nat
  BY <1>1, FS_Subset, FS_CardinalityType
<1> QED
  BY SMTT(30), <1>2, <1>3, <1>4

\* In a step of p, another process keeps its place, or is woken.
OthersStay(p) ==
  \A q \in Procs \ {p} :
    /\ held'[q] = held[q] /\ cur'[q] = cur[q]
    /\ pc'[q] = pc[q] \/ (pc[q] = "sleeping" /\ pc'[q] = "acquiresleep")

\* A step of p changes the users of a buffer by p at most.
LEMMA UsersChange ==
  ASSUME TypeOK, NEW p \in Procs, OthersStay(p), NEW b \in Bufs
  PROVE  /\ Cardinality(Users(b)) \in Nat
         /\ (b \in Refers(p) <=> b \in Refers(p)') =>
               Cardinality(Users(b))' = Cardinality(Users(b))
         /\ b \notin Refers(p) /\ b \in Refers(p)' =>
               Cardinality(Users(b))' = Cardinality(Users(b)) + 1
         /\ b \in Refers(p) /\ b \notin Refers(p)' =>
               Cardinality(Users(b))' = Cardinality(Users(b)) - 1
<1>1. \A q \in Procs \ {p} : Refers(q)' = Refers(q)
  BY DEF OthersStay, Refers
<1>2. Users(b) \in SUBSET Procs
  BY DEF Users
<1>3. (b \in Refers(p) <=> b \in Refers(p)') => Users(b)' = Users(b)
  BY <1>1 DEF Users
<1>4. b \notin Refers(p) /\ b \in Refers(p)' => Users(b)' = Users(b) \cup {p} /\ p \notin Users(b)
  BY <1>1 DEF Users
<1>5. b \in Refers(p) /\ b \notin Refers(p)' => Users(b)' = Users(b) \ {p} /\ p \in Users(b)
  BY <1>1 DEF Users
<1>6. /\ Cardinality(Users(b)) \in Nat
      /\ p \notin Users(b) => Cardinality(Users(b) \cup {p}) = Cardinality(Users(b)) + 1
      /\ p \in Users(b) => Cardinality(Users(b) \ {p}) = Cardinality(Users(b)) - 1
  BY <1>2, Counts
<1> QED
  BY <1>3, <1>4, <1>5, <1>6

----------------------------------------------------------------------------
(* The list *)

\* bget() recycles a buffer without references.
LEMMA VictimIsUnused ==
  ASSUME TypeOK, NEW b \in Victims
  PROVE  b \in Bufs /\ refcnt[b] = 0
BY DEF TypeOK, Victims, Unused

\* Moving a buffer to the front leaves every buffer on the list.
LEMMA ToFrontKeeps ==
  ASSUME TypeOK, Listed, NEW b \in Bufs
  PROVE  /\ ToFront(b) \in [1..NBUF -> Bufs]
         /\ \A d \in Bufs : \E j \in 1..NBUF : ToFront(b)[j] = d
<1> DEFINE at == CHOOSE j \in 1..NBUF : lru[j] = b
<1>1. at \in 1..NBUF /\ lru[at] = b
  BY DEF Listed
<1> HIDE DEF at
<1>2. ToFront(b) = [j \in 1..NBUF |->
                      IF j = 1 THEN b ELSE IF j <= at THEN lru[j - 1] ELSE lru[j]]
  BY DEF ToFront, at
<1>3. ASSUME NEW j \in 1..NBUF, j # 1 PROVE j - 1 \in 1..NBUF
  BY SMTT(30), <1>3
<1>4. lru \in [1..NBUF -> Bufs]
  BY DEF TypeOK
<1>5. ToFront(b) \in [1..NBUF -> Bufs]
  BY <1>2, <1>3, <1>4
<1>6. ASSUME NEW d \in Bufs PROVE \E j \in 1..NBUF : ToFront(b)[j] = d
  <2>1. PICK i \in 1..NBUF : lru[i] = d
    BY DEF Listed
  <2>2. CASE i = at
    <3>1. ToFront(b)[1] = d /\ 1 \in 1..NBUF
      BY SMTT(30), <1>1, <1>2, <2>1, <2>2
    <3> QED BY <3>1
  <2>3. CASE i < at
    <3>1. i + 1 \in 1..NBUF /\ i + 1 # 1 /\ i + 1 <= at /\ (i + 1) - 1 = i
      BY SMTT(30), <1>1, <2>3
    <3>2. ToFront(b)[i + 1] = d
      BY <1>2, <2>1, <3>1
    <3> QED BY <3>1, <3>2
  <2>4. CASE i > at
    <3>1. ToFront(b)[i] = d
      BY SMTT(30), <1>1, <1>2, <2>1, <2>4
    <3> QED BY <3>1
  <2> QED BY SMTT(30), <1>1, <2>2, <2>3, <2>4
<1> QED BY <1>5, <1>6

----------------------------------------------------------------------------
(* What each step leaves alone *)

\* In every step of p the others keep their places.
LEMMA OthersKeepPlace ==
  ASSUME TypeOK, NEW p \in Procs, Step(p) \/ Call(p)
  PROVE  OthersStay(p)
<1>1. CASE acquiresleep_wait(p) \/ acquiresleep(p)
  BY <1>1 DEF TypeOK, OthersStay, acquiresleep_wait, acquiresleep, bufs
<1>2. CASE read_done(p)
  BY <1>2 DEF TypeOK, OthersStay, read_done, bufs
<1>8. CASE write_done(p)
  <2>1. ASSUME NEW q \in Procs \ {p}
        PROVE  held'[q] = held[q] /\ cur'[q] = cur[q] /\ pc'[q] = pc[q]
    BY <1>8 DEF TypeOK, write_done, bufs
  <2> QED BY <2>1 DEF OthersStay
<1>3. CASE bunpin(p) \/ brelse(p)
  BY <1>3 DEF TypeOK, OthersStay, bunpin, brelse
<1>4. ASSUME NEW k \in Blocks, bget_hit(p, k) \/ bget_recycle(p, k) \/ bget_panic(p, k)
      PROVE  OthersStay(p)
  <2>1. ASSUME NEW q \in Procs \ {p}
        PROVE  held'[q] = held[q] /\ cur'[q] = cur[q] /\ pc'[q] = pc[q]
    <3>1. CASE bget_hit(p, k)
      BY <3>1 DEF TypeOK, bget_hit
    <3>2. CASE bget_recycle(p, k)
      BY SMTT(30), <3>2 DEF TypeOK, bget_recycle
    <3>3. CASE bget_panic(p, k)
      BY <3>3 DEF TypeOK, bget_panic, bufs
    <3> QED BY <1>4, <3>1, <3>2, <3>3
  <2> QED BY <2>1 DEF OthersStay
<1>5. ASSUME NEW b \in Bufs, bpin(p, b) \/ bwrite(p, b) PROVE OthersStay(p)
  BY <1>5 DEF TypeOK, OthersStay, bpin, bwrite, bufs
<1>6. ASSUME NEW b \in Bufs, releasesleep(p, b) PROVE OthersStay(p)
  BY <1>6 DEF TypeOK, OthersStay, releasesleep, Woken
<1>7. ASSUME NEW b \in Bufs, NEW v \in Values, modify(p, b, v) PROVE OthersStay(p)
  BY <1>7 DEF TypeOK, OthersStay, modify
<1> QED
  BY <1>1, <1>2, <1>3, <1>4, <1>5, <1>6, <1>7, <1>8 DEF Step, Call

----------------------------------------------------------------------------
(* The invariant is kept: one lemma for each conjunct *)

\* Every variable keeps its type.
LEMMA TypeOKStep ==
  ASSUME BufInv, NEW p \in Procs, Step(p) \/ Call(p)
  PROVE  TypeOK'
<1> USE DEF BufInv
<1>0. cur[p] \in Bufs
  BY DEF TypeOK
<1>1. CASE acquiresleep_wait(p)
  BY <1>1 DEF TypeOK, acquiresleep_wait, bufs
<1>2. CASE acquiresleep(p)
  BY <1>2, <1>0 DEF TypeOK, acquiresleep, bufs
<1>3. CASE read_done(p)
  <2>1. blockno[cur[p]] \in Blocks
    BY <1>3, <1>0 DEF TypeOK, Position, Refers, read_done
  <2> QED
    BY <1>3, <1>0, <2>1 DEF TypeOK, read_done
<1>4. CASE write_done(p)
  <2>1. blockno[cur[p]] \in Blocks
    BY <1>4, <1>0 DEF TypeOK, Position, Refers, write_done
  <2> QED
    BY <1>4, <1>0, <2>1 DEF TypeOK, write_done, bufs
<1>5. CASE bunpin(p)
  <2>1. refcnt[cur[p]] >= 1
    BY <1>5, <1>0, ZeroIsUnused DEF bunpin, Current
  <2>4. refcnt[cur[p]] \in Nat
    BY <1>0 DEF TypeOK
  <2>2. refcnt[cur[p]] - 1 \in Nat
    BY SMTT(30), <2>1, <2>4
  <2>3. refcnt' \in [Bufs -> Nat]
    BY <1>5, <1>0, <2>2 DEF TypeOK, bunpin
  <2> QED
    BY <1>5, <1>0, <2>3 DEF TypeOK, bunpin
<1>6. CASE brelse(p)
  <2>1. refcnt[cur[p]] >= 1
    BY <1>6, <1>0, ZeroIsUnused DEF brelse, Refers
  <2>2. lru' \in [1..NBUF -> Bufs]
    <3>1. CASE lru' = lru
      BY <3>1 DEF TypeOK
    <3>2. CASE lru' = ToFront(cur[p])
      BY <3>2, <1>0, ToFrontKeeps
    <3> QED BY <1>6, <3>1, <3>2 DEF brelse
  <2>6. refcnt[cur[p]] \in Nat
    BY <1>0 DEF TypeOK
  <2>5. refcnt[cur[p]] - 1 \in Nat
    BY SMTT(30), <2>1, <2>6
  <2>3. refcnt' \in [Bufs -> Nat] /\ pc' = [pc EXCEPT ![p] = "run"]
    BY <1>6, <1>0, <2>5 DEF TypeOK, brelse
  <2>4. UNCHANGED <<blockno, valid, data, locked, disk, pinned, cur, held, dirty>>
    BY <1>6 DEF brelse
  <2> QED
    BY <2>2, <2>3, <2>4 DEF TypeOK
<1>7. ASSUME NEW k \in Blocks, bget_hit(p, k) PROVE TypeOK'
  <2>1. PICK b \in Bufs : cur' = [cur EXCEPT ![p] = b] /\ refcnt' = [refcnt EXCEPT ![b] = @ + 1]
    BY <1>7 DEF bget_hit, Cached
  <2>4. refcnt[b] \in Nat
    BY DEF TypeOK
  <2>2. refcnt[b] + 1 \in Nat
    BY SMTT(30), <2>4
  <2>3. refcnt' \in [Bufs -> Nat] /\ cur' \in [Procs -> Bufs]
    BY <2>1, <2>2 DEF TypeOK
  <2> QED
    BY <1>7, <2>3 DEF TypeOK, bget_hit
<1>8. ASSUME NEW k \in Blocks, bget_recycle(p, k) PROVE TypeOK'
  <2>1. PICK b \in Victims :
          /\ cur' = [cur EXCEPT ![p] = b] /\ blockno' = [blockno EXCEPT ![b] = k]
          /\ valid' = [valid EXCEPT ![b] = FALSE] /\ refcnt' = [refcnt EXCEPT ![b] = 1]
    BY <1>8 DEF bget_recycle
  <2>2. b \in Bufs
    BY VictimIsUnused
  <2>3. /\ pc' = [pc EXCEPT ![p] = "acquiresleep"]
        /\ UNCHANGED <<data, lru, locked, disk, pinned, held, dirty>>
    BY <1>8 DEF bget_recycle
  <2> QED
    BY <2>1, <2>2, <2>3 DEF TypeOK
<1>9. ASSUME NEW k \in Blocks, bget_panic(p, k) PROVE TypeOK'
  BY <1>9 DEF TypeOK, bget_panic, bufs
<1>10. ASSUME NEW b \in Bufs, bpin(p, b) PROVE TypeOK'
  <2>3. refcnt[b] \in Nat
    BY DEF TypeOK
  <2>1. refcnt[b] + 1 \in Nat
    BY SMTT(30), <2>3
  <2>2. refcnt' \in [Bufs -> Nat]
    BY <1>10, <2>1 DEF TypeOK, bpin
  <2> QED
    BY <1>10, <2>2 DEF TypeOK, bpin
<1>11. ASSUME NEW b \in Bufs, bwrite(p, b) PROVE TypeOK'
  BY <1>11 DEF TypeOK, bwrite, bufs
<1>12. ASSUME NEW b \in Bufs, releasesleep(p, b) PROVE TypeOK'
  BY <1>12 DEF TypeOK, releasesleep, Woken, bufs
<1>13. ASSUME NEW b \in Bufs, NEW v \in Values, modify(p, b, v) PROVE TypeOK'
  BY <1>13 DEF TypeOK, modify
<1> QED
  BY <1>1, <1>2, <1>3, <1>4, <1>5, <1>6, <1>7, <1>8, <1>9, <1>10, <1>11, <1>12, <1>13
  DEF Step, Call

\* The list keeps every buffer (brelse moves one of them to the front).
LEMMA ListedStep ==
  ASSUME BufInv, NEW p \in Procs, Step(p) \/ Call(p)
  PROVE  Listed'
<1>1. CASE UNCHANGED lru
  BY <1>1 DEF Listed, BufInv
<1>2. CASE brelse(p)
  <2>1. CASE lru' = ToFront(cur[p])
    <3>1. TypeOK /\ Listed /\ cur[p] \in Bufs
      BY DEF BufInv, TypeOK
    <3>2. \A b \in Bufs : \E j \in 1..NBUF : ToFront(cur[p])[j] = b
      BY <3>1, ToFrontKeeps
    <3> QED BY <2>1, <3>2 DEF Listed
  <2> QED BY <1>1, <1>2, <2>1 DEF brelse
<1>3. ASSUME NEW k \in Blocks, bget_hit(p, k) \/ bget_recycle(p, k) \/ bget_panic(p, k)
      PROVE  UNCHANGED lru
  BY <1>3 DEF bget_hit, bget_recycle, bget_panic, bufs
<1>4. ASSUME NEW b \in Bufs, bpin(p, b) \/ bwrite(p, b) \/ releasesleep(p, b)
      PROVE  UNCHANGED lru
  BY <1>4 DEF bpin, bwrite, releasesleep, bufs
<1>5. ASSUME NEW b \in Bufs, NEW v \in Values, modify(p, b, v) PROVE UNCHANGED lru
  BY <1>5 DEF modify
<1>6. acquiresleep_wait(p) \/ acquiresleep(p) \/ read_done(p) \/ write_done(p) \/ bunpin(p)
      => UNCHANGED lru
  BY DEF acquiresleep_wait, acquiresleep, read_done, write_done, bunpin, bufs
<1> QED
  BY <1>1, <1>2, <1>3, <1>4, <1>5, <1>6 DEF Step, Call

\* A block gets a second buffer from no step: bget recycles one for a block that has none.
LEMMA UniqueStep ==
  ASSUME BufInv, NEW p \in Procs, Step(p) \/ Call(p)
  PROVE  Unique'
<1> USE DEF BufInv
<1>1. CASE UNCHANGED blockno
  BY <1>1 DEF Unique
<1>2. ASSUME NEW k \in Blocks, bget_recycle(p, k) PROVE Unique'
  <2>1. PICK b \in Victims : blockno' = [blockno EXCEPT ![b] = k]
    BY <1>2 DEF bget_recycle
  <2>2. \A d \in Bufs : blockno[d] # k
    BY <1>2 DEF bget_recycle, Cached
  <2>3. blockno \in [Bufs -> Blocks \cup {NoBlock}] /\ b \in Bufs
    BY VictimIsUnused DEF TypeOK
  <2> QED
    BY <2>1, <2>2, <2>3 DEF Unique
<1>3. ASSUME NEW k \in Blocks, bget_hit(p, k) \/ bget_panic(p, k) PROVE UNCHANGED blockno
  BY <1>3 DEF bget_hit, bget_panic, bufs
<1>4. ASSUME NEW b \in Bufs, bpin(p, b) \/ bwrite(p, b) \/ releasesleep(p, b)
      PROVE  UNCHANGED blockno
  BY <1>4 DEF bpin, bwrite, releasesleep, bufs
<1>5. ASSUME NEW b \in Bufs, NEW v \in Values, modify(p, b, v) PROVE UNCHANGED blockno
  BY <1>5 DEF modify
<1>6. Step(p) => UNCHANGED blockno
  BY DEF Step, acquiresleep_wait, acquiresleep, read_done, write_done, bunpin, brelse, bufs
<1> QED
  BY <1>1, <1>2, <1>3, <1>4, <1>5, <1>6 DEF Call

\* The locks and what the processes hold stay in step.
LEMMA HoldingStep ==
  ASSUME BufInv, NEW p \in Procs, Step(p) \/ Call(p)
  PROVE  Holding'
<1> USE DEF BufInv
<1>1. CASE UNCHANGED <<held, locked>>
  BY <1>1 DEF Holding
<1>2. CASE acquiresleep(p)
  <2>1. ASSUME NEW q \in Procs, NEW d \in Bufs
        PROVE  d \in held'[q] <=> locked'[d] = q
    <3>1. d \in held[q] <=> locked[d] = q
      BY DEF Holding
    <3>2. d \in held'[q] <=> d \in held[q] \/ (q = p /\ d = cur[p])
      BY <1>2 DEF TypeOK, acquiresleep
    <3>3. locked'[d] = IF d = cur[p] THEN p ELSE locked[d]
      BY <1>2 DEF TypeOK, acquiresleep
    <3>4. locked[cur[p]] = Nobody
      BY <1>2 DEF acquiresleep
    <3> QED BY <3>1, <3>2, <3>3, <3>4
  <2> QED BY <2>1 DEF Holding
<1>3. ASSUME NEW b \in Bufs, releasesleep(p, b) PROVE Holding'
  <2>1. ASSUME NEW q \in Procs, NEW d \in Bufs
        PROVE  d \in held'[q] <=> locked'[d] = q
    <3>1. (d \in held[q] <=> locked[d] = q) /\ locked[b] = p
      BY <1>3 DEF Holding, releasesleep
    <3>2. d \in held'[q] <=> d \in held[q] /\ ~(q = p /\ d = b)
      BY <1>3 DEF TypeOK, releasesleep
    <3>3. locked'[d] = IF d = b THEN Nobody ELSE locked[d]
      BY <1>3 DEF TypeOK, releasesleep
    <3> QED BY <3>1, <3>2, <3>3
  <2> QED BY <2>1 DEF Holding
<1>4. ASSUME NEW k \in Blocks, bget_hit(p, k) \/ bget_recycle(p, k) \/ bget_panic(p, k)
      PROVE  UNCHANGED <<held, locked>>
  BY <1>4 DEF bget_hit, bget_recycle, bget_panic
<1>5. ASSUME NEW b \in Bufs, bpin(p, b) \/ bwrite(p, b) PROVE UNCHANGED <<held, locked>>
  BY <1>5 DEF bpin, bwrite
<1>6. ASSUME NEW b \in Bufs, NEW v \in Values, modify(p, b, v) PROVE UNCHANGED <<held, locked>>
  BY <1>6 DEF modify
<1>7. acquiresleep_wait(p) \/ read_done(p) \/ write_done(p) \/ bunpin(p) \/ brelse(p)
      => UNCHANGED <<held, locked>>
  BY DEF acquiresleep_wait, read_done, write_done, bunpin, brelse
<1> QED
  BY <1>1, <1>2, <1>3, <1>4, <1>5, <1>6, <1>7 DEF Step, Call

\* A process sleeps only for a lock that is held: who releases it wakes all.
LEMMA SleepersStep ==
  ASSUME BufInv, NEW p \in Procs, Step(p) \/ Call(p)
  PROVE  SleepersBlocked'
<1> USE DEF BufInv
<1> DEFINE Awake == \A q \in Procs : pc'[q] = "sleeping" => pc[q] = "sleeping" /\ cur'[q] = cur[q]
<1>0. cur[p] \in Bufs
  BY DEF TypeOK
<1>1. CASE Awake /\ UNCHANGED locked
  BY <1>1 DEF SleepersBlocked
<1>2. CASE acquiresleep_wait(p)
  BY <1>2 DEF TypeOK, SleepersBlocked, acquiresleep_wait
<1>3. CASE acquiresleep(p)
  <2>1. Awake
    BY <1>3 DEF TypeOK, acquiresleep
  <2>2. \A d \in Bufs : locked[d] # Nobody => locked'[d] # Nobody
    BY <1>3 DEF TypeOK, acquiresleep
  <2> QED BY <2>1, <2>2 DEF TypeOK, SleepersBlocked
<1>4. ASSUME NEW b \in Bufs, releasesleep(p, b) PROVE SleepersBlocked'
  <2>1. \A q \in Procs : pc'[q] = "sleeping" => q # p /\ pc[q] = "sleeping" /\ cur[q] # b
    BY <1>4 DEF TypeOK, releasesleep, Woken
  <2> QED BY <1>4, <2>1 DEF TypeOK, SleepersBlocked, releasesleep
<1>5. ASSUME NEW k \in Blocks, bget_hit(p, k) PROVE Awake /\ UNCHANGED locked
  BY <1>5 DEF TypeOK, bget_hit
<1>6. ASSUME NEW k \in Blocks, bget_recycle(p, k) PROVE Awake /\ UNCHANGED locked
  BY <1>6 DEF TypeOK, bget_recycle
<1>7. ASSUME NEW k \in Blocks, bget_panic(p, k) PROVE Awake /\ UNCHANGED locked
  BY <1>7 DEF TypeOK, bget_panic
<1>8. ASSUME NEW b \in Bufs, bpin(p, b) \/ bwrite(p, b) PROVE Awake /\ UNCHANGED locked
  BY <1>8 DEF TypeOK, bpin, bwrite
<1>9. ASSUME NEW b \in Bufs, NEW v \in Values, modify(p, b, v) PROVE Awake /\ UNCHANGED locked
  BY <1>9 DEF modify
<1>10. read_done(p) => Awake /\ UNCHANGED locked
  BY DEF TypeOK, read_done
<1>11. write_done(p) => Awake /\ UNCHANGED locked
  BY DEF TypeOK, write_done
<1>12. bunpin(p) \/ brelse(p) => Awake /\ UNCHANGED locked
  BY DEF TypeOK, bunpin, brelse
<1> HIDE DEF Awake
<1> QED
  BY <1>1, <1>2, <1>3, <1>4, <1>5, <1>6, <1>7, <1>8, <1>9, <1>10, <1>11, <1>12 DEF Step, Call

\* Where a process is agrees with the buffers it refers to.
LEMMA PositionStep ==
  ASSUME BufInv, NEW p \in Procs, Step(p) \/ Call(p)
  PROVE  Position'
<1> USE DEF BufInv
<1> DEFINE Place(q) ==
      /\ pc[q] \in {"reading", "writing", "bunpin"} => cur[q] \in held[q]
      /\ pc[q] \in {"acquiresleep", "sleeping"} => \A b \in held[q] : blockno[b] < blockno[cur[q]]
      /\ pc[q] = "brelse" => cur[q] \notin held[q]
      /\ \A b \in Refers(q) : blockno[b] # NoBlock
<1>0. /\ \A q \in Procs : Place(q) /\ cur[q] \in Bufs /\ held[q] \in SUBSET Bufs
      /\ \A q \in Procs : Refers(q) \subseteq Bufs
  <2>1. \A q \in Procs : Place(q)
    BY DEF Position
  <2>2. \A q \in Procs : cur[q] \in Bufs /\ held[q] \in SUBSET Bufs
    BY DEF TypeOK
  <2> QED BY <2>1, <2>2 DEF Refers
<1>1. ASSUME \A q \in Procs : \A b \in Refers(q) : blockno'[b] = blockno[b], Place(p)'
      PROVE  Position'
  <2>1. ASSUME NEW q \in Procs \ {p} PROVE Place(q)'
    <3>1. OthersStay(p)
      BY OthersKeepPlace
    <3>2. held'[q] = held[q] /\ cur'[q] = cur[q] /\ Refers(q)' = Refers(q)
      BY <3>1 DEF OthersStay, Refers
    <3>3. pc'[q] = pc[q] \/ (pc[q] = "sleeping" /\ pc'[q] = "acquiresleep")
      BY <3>1 DEF OthersStay
    <3>4. \A b \in held[q] : blockno'[b] = blockno[b]
      BY <1>1 DEF Refers
    <3>5. pc[q] \in {"acquiresleep", "sleeping"} => blockno'[cur[q]] = blockno[cur[q]]
      BY <1>1 DEF Refers
    <3> QED
      BY SMTT(30), <1>0, <1>1, <3>2, <3>3, <3>4, <3>5
  <2> QED
    BY <1>1, <2>1 DEF Position
<1>2. ASSUME UNCHANGED blockno, Place(p)' PROVE Position'
  BY <1>1, <1>2
<1>3. CASE acquiresleep_wait(p)
  <2>1. pc[p] = "acquiresleep" /\ pc'[p] = "sleeping" /\ UNCHANGED <<cur, held, blockno>>
    BY <1>3 DEF TypeOK, acquiresleep_wait, bufs
  <2>2. Place(p)'
    BY <1>0, <2>1 DEF Refers
  <2> QED BY <1>2, <2>1, <2>2
<1>4. CASE acquiresleep(p)
  <2>1. /\ pc[p] = "acquiresleep" /\ pc'[p] \in {"run", "reading"} /\ UNCHANGED <<cur, blockno>>
        /\ held'[p] = held[p] \cup {cur[p]}
    BY <1>4 DEF TypeOK, acquiresleep, bufs
  <2>2. Place(p)'
    BY <1>0, <2>1 DEF Refers
  <2> QED BY <1>2, <2>1, <2>2
<1>5. CASE read_done(p) \/ bunpin(p) \/ brelse(p)
  <2>1. pc'[p] = "run" /\ UNCHANGED <<cur, held, blockno>>
    BY <1>5 DEF TypeOK, read_done, bunpin, brelse
  <2>2. Place(p)'
    BY <1>0, <2>1 DEF Refers
  <2> QED BY <1>2, <2>1, <2>2
<1>6. CASE write_done(p)
  <2>1. /\ pc[p] = "writing" /\ pc'[p] \in {"run", "bunpin"} /\ UNCHANGED <<cur, held, blockno>>
    BY <1>6 DEF TypeOK, write_done, bufs
  <2>2. Place(p)'
    BY <1>0, <2>1 DEF Refers
  <2> QED BY <1>2, <2>1, <2>2
<1>7. ASSUME NEW k \in Blocks, bget_hit(p, k) PROVE Position'
  <2>1. PICK b \in Bufs : blockno[b] = k /\ cur' = [cur EXCEPT ![p] = b]
    BY <1>7 DEF bget_hit, Cached
  <2>2. /\ pc[p] = "run" /\ pc'[p] = "acquiresleep" /\ UNCHANGED <<held, blockno>>
        /\ \A d \in held[p] : blockno[d] < k
    BY <1>7 DEF TypeOK, bget_hit
  <2>3. cur'[p] = b
    BY <2>1 DEF TypeOK
  <2>4. Place(p)'
    BY <1>0, <2>1, <2>2, <2>3 DEF Refers
  <2> QED BY <1>2, <2>2, <2>4
<1>8. ASSUME NEW k \in Blocks, bget_recycle(p, k) PROVE Position'
  <2>1. PICK b \in Victims : cur' = [cur EXCEPT ![p] = b] /\ blockno' = [blockno EXCEPT ![b] = k]
    BY <1>8 DEF bget_recycle
  <2>2. /\ pc[p] = "run" /\ pc'[p] = "acquiresleep" /\ UNCHANGED held
        /\ \A d \in held[p] : blockno[d] < k
    BY <1>8 DEF TypeOK, bget_recycle
  <2>3. b \in Bufs /\ refcnt[b] = 0
    BY VictimIsUnused
  <2>4. \A q \in Procs : b \notin Refers(q)
    BY SMTT(30), <2>3, ZeroIsUnused
  <2>5. cur'[p] = b /\ blockno'[b] = k /\ \A d \in Bufs : d # b => blockno'[d] = blockno[d]
    BY <2>1, <2>3 DEF TypeOK
  <2>6. \A q \in Procs : \A d \in Refers(q) : blockno'[d] = blockno[d]
    BY <1>0, <2>4, <2>5
  <2>7. \A d \in held[p] : blockno'[d] = blockno[d] /\ blockno[d] # NoBlock
    BY <1>0, <2>6 DEF Refers
  <2>8. Place(p)'
    BY <2>2, <2>5, <2>7 DEF Refers
  <2> QED BY <1>1, <2>6, <2>8
<1>9. ASSUME NEW k \in Blocks, bget_panic(p, k) PROVE Position'
  <2>1. pc[p] = "run" /\ pc'[p] = "panic" /\ UNCHANGED <<cur, held, blockno>>
    BY <1>9 DEF TypeOK, bget_panic, bufs
  <2>2. Place(p)'
    BY <1>0, <2>1 DEF Refers
  <2> QED BY <1>2, <2>1, <2>2
<1>10. ASSUME NEW b \in Bufs, bpin(p, b) PROVE Position'
  BY <1>10 DEF bpin, Position, Refers
<1>11. ASSUME NEW b \in Bufs, bwrite(p, b) PROVE Position'
  <2>1. /\ pc[p] = "run" /\ pc'[p] = "writing" /\ cur'[p] \in held[p]
        /\ UNCHANGED <<held, blockno>>
    BY <1>11 DEF TypeOK, bwrite, bufs
  <2>2. Place(p)'
    BY <1>0, <2>1 DEF Refers
  <2> QED BY <1>2, <2>1, <2>2
<1>12. ASSUME NEW b \in Bufs, releasesleep(p, b) PROVE Position'
  <2>1. /\ pc[p] = "run" /\ pc'[p] = "brelse" /\ b \in held[p] /\ cur'[p] = b
        /\ held'[p] = held[p] \ {b} /\ UNCHANGED blockno
    BY <1>12 DEF TypeOK, releasesleep, Woken, bufs
  <2>2. Place(p)'
    BY <1>0, <2>1 DEF Refers
  <2> QED BY <1>2, <2>1, <2>2
<1>13. ASSUME NEW b \in Bufs, NEW v \in Values, modify(p, b, v) PROVE Position'
  BY <1>13 DEF modify, Position, Refers
<1> HIDE DEF Place
<1> QED
  BY <1>3, <1>4, <1>5, <1>6, <1>7, <1>8, <1>9, <1>10, <1>11, <1>12, <1>13 DEF Step, Call

\* refcnt follows the processes that come to refer to a buffer, or cease to.
LEMMA CountedStep ==
  ASSUME BufInv, NEW p \in Procs, Step(p) \/ Call(p)
  PROVE  Counted'
<1> USE DEF BufInv
<1> DEFINE Pin(d) == IF d \in pinned THEN 1 ELSE 0
           n(d) == Cardinality(Users(d))
<1>0. /\ cur[p] \in Bufs /\ held[p] \in SUBSET Bufs /\ Refers(p) \in SUBSET Bufs
      /\ OthersStay(p)
  BY OthersKeepPlace DEF TypeOK, Refers
<1>a. \A d \in Bufs : refcnt[d] = n(d) + Pin(d) /\ refcnt[d] \in Nat
  BY DEF Counted, TypeOK
<1>b. \A d \in Bufs :
        /\ n(d) \in Nat
        /\ (d \in Refers(p) <=> d \in Refers(p)') => n(d)' = n(d)
        /\ d \notin Refers(p) /\ d \in Refers(p)' => n(d)' = n(d) + 1
        /\ d \in Refers(p) /\ d \notin Refers(p)' => n(d)' = n(d) - 1
  BY <1>0, UsersChange
<1>c. ASSUME \A d \in Bufs : refcnt'[d] = n(d)' + Pin(d)' PROVE Counted'
  BY <1>c DEF Counted
<1>1. CASE UNCHANGED <<refcnt, pinned>> /\ Refers(p)' = Refers(p)
  <2>1. \A d \in Bufs : n(d)' = n(d)
    BY <1>1, <1>b
  <2>2. \A d \in Bufs : Pin(d)' = Pin(d) /\ refcnt'[d] = refcnt[d]
    BY <1>1
  <2> HIDE DEF n, Pin
  <2> QED BY <1>a, <2>1, <2>2, <1>c
<1>2. CASE acquiresleep_wait(p) \/ acquiresleep(p)
  <2>1. UNCHANGED <<refcnt, pinned>>
    BY <1>2 DEF acquiresleep_wait, acquiresleep, bufs
  <2>2. pc[p] = "acquiresleep" /\ cur' = cur
    BY <1>2 DEF acquiresleep_wait, acquiresleep
  <2>3. \/ pc'[p] = "sleeping" /\ held'[p] = held[p]
        \/ pc'[p] \in {"run", "reading"} /\ held'[p] = held[p] \cup {cur[p]}
    BY <1>2 DEF acquiresleep_wait, acquiresleep, TypeOK
  <2> QED BY <1>1, <2>1, <2>2, <2>3 DEF Refers
<1>3. CASE read_done(p) \/ write_done(p)
  <2>1. UNCHANGED <<refcnt, pinned, cur, held>> /\ pc[p] \in {"reading", "writing"}
    BY <1>3 DEF read_done, write_done, bufs
  <2>2. pc'[p] \in {"run", "bunpin"}
    BY <1>3 DEF read_done, write_done, TypeOK
  <2> QED BY <1>1, <2>1, <2>2 DEF Refers
<1>4. ASSUME NEW b \in Bufs, releasesleep(p, b) PROVE Counted'
  <2>1. /\ pc[p] = "run" /\ pc'[p] = "brelse" /\ b \in held[p] /\ cur'[p] = b
        /\ held'[p] = held[p] \ {b} /\ UNCHANGED <<refcnt, pinned>>
    BY <1>4 DEF TypeOK, releasesleep, Woken, bufs
  <2> QED BY <1>1, <2>1 DEF Refers
<1>5. ASSUME NEW b \in Bufs, bwrite(p, b) PROVE Counted'
  <2>1. pc[p] = "run" /\ pc'[p] = "writing" /\ UNCHANGED <<refcnt, pinned, held>>
    BY <1>5 DEF TypeOK, bwrite, bufs
  <2> QED BY <1>1, <2>1 DEF Refers
<1>6. ASSUME NEW b \in Bufs, NEW v \in Values, modify(p, b, v) PROVE Counted'
  BY <1>1, <1>6 DEF modify, Refers
<1>7. ASSUME NEW k \in Blocks, bget_panic(p, k) PROVE Counted'
  <2>1. pc[p] = "run" /\ pc'[p] = "panic" /\ UNCHANGED <<refcnt, pinned, held>>
    BY <1>7 DEF TypeOK, bget_panic, bufs
  <2> QED BY <1>1, <2>1 DEF Refers
<1>8. ASSUME NEW k \in Blocks, bget_hit(p, k) PROVE Counted'
  <2>1. PICK b \in Bufs : /\ blockno[b] = k /\ cur' = [cur EXCEPT ![p] = b]
                          /\ refcnt' = [refcnt EXCEPT ![b] = @ + 1]
    BY <1>8 DEF bget_hit, Cached
  <2>2. /\ pc[p] = "run" /\ pc'[p] = "acquiresleep" /\ UNCHANGED <<held, pinned>>
        /\ \A d \in held[p] : blockno[d] < k
    BY <1>8 DEF TypeOK, bget_hit
  <2>3. cur'[p] = b /\ \A d \in Bufs : refcnt'[d] = IF d = b THEN refcnt[b] + 1 ELSE refcnt[d]
    BY <2>1 DEF TypeOK
  <2>4. b \notin held[p]
    <3>1. ~(k < k)
      BY SMTT(30)
    <3> QED BY <2>1, <2>2, <3>1
  <2>5. Refers(p) = held[p] /\ Refers(p)' = held[p] \cup {b}
    BY <2>2, <2>3 DEF Refers
  <2>6. \A d \in Bufs : n(d)' = (IF d = b THEN n(b) + 1 ELSE n(d)) /\ Pin(d)' = Pin(d)
    BY <1>b, <2>2, <2>4, <2>5
  <2> HIDE DEF n
  <2> QED BY SMTT(30), <1>a, <1>b, <1>c, <2>3, <2>6
<1>9. ASSUME NEW k \in Blocks, bget_recycle(p, k) PROVE Counted'
  <2>1. PICK b \in Victims : cur' = [cur EXCEPT ![p] = b] /\ refcnt' = [refcnt EXCEPT ![b] = 1]
    BY <1>9 DEF bget_recycle
  <2>2. pc[p] = "run" /\ pc'[p] = "acquiresleep" /\ UNCHANGED <<held, pinned>>
    BY <1>9 DEF TypeOK, bget_recycle
  <2>3. b \in Bufs /\ refcnt[b] = 0
    BY VictimIsUnused
  <2>4. b \notin held[p] /\ b \notin pinned
    BY SMTT(30), <2>3, ZeroIsUnused DEF Refers
  <2>5. cur'[p] = b /\ \A d \in Bufs : refcnt'[d] = IF d = b THEN 1 ELSE refcnt[d]
    BY <2>1, <2>3 DEF TypeOK
  <2>6. Refers(p) = held[p] /\ Refers(p)' = held[p] \cup {b}
    BY <2>2, <2>5 DEF Refers
  <2>7. \A d \in Bufs : n(d)' = (IF d = b THEN n(b) + 1 ELSE n(d)) /\ Pin(d)' = Pin(d)
    BY <1>b, <2>2, <2>3, <2>4, <2>6
  <2>9. Pin(b) = 0 /\ refcnt[b] = n(b) + Pin(b) /\ n(b) \in Nat
    BY <1>a, <1>b, <2>3, <2>4
  <2> HIDE DEF n, Pin
  <2>8. n(b) = 0 /\ Pin(b) = 0
    BY SMTT(30), <2>3, <2>9
  <2> QED BY SMTT(30), <1>a, <1>b, <1>c, <2>3, <2>5, <2>7, <2>8
<1>10. ASSUME NEW b \in Bufs, bpin(p, b) PROVE Counted'
  <2>1. Refers(p)' = Refers(p) /\ pinned' = pinned \cup {b}
    BY <1>10 DEF bpin, Refers
  <2>2. \A d \in Bufs : refcnt'[d] = IF d = b /\ b \notin pinned THEN refcnt[b] + 1 ELSE refcnt[d]
    BY <1>10 DEF bpin, TypeOK
  <2>3. \A d \in Bufs : n(d)' = n(d)
    BY <1>b, <2>1
  <2>4. \A d \in Bufs : Pin(d)' = IF d = b THEN 1 ELSE Pin(d)
    BY <2>1
  <2>5. Pin(b) = IF b \in pinned THEN 1 ELSE 0
    OBVIOUS
  <2> HIDE DEF n, Pin
  <2>6. ASSUME NEW d \in Bufs PROVE refcnt'[d] = n(d)' + Pin(d)'
    <3>1. CASE d = b
      BY SMTT(30), <1>a, <1>b, <2>2, <2>3, <2>4, <2>5, <3>1
    <3>2. CASE d # b
      BY <1>a, <2>2, <2>3, <2>4, <3>2
    <3> QED BY <3>1, <3>2
  <2> QED BY <1>c, <2>6
<1>11. CASE bunpin(p)
  <2>1. /\ pc[p] = "bunpin" /\ pc'[p] = "run" /\ UNCHANGED <<cur, held>>
        /\ pinned' = pinned \ {cur[p]} /\ cur[p] \in pinned
    BY SMTT(30), <1>11 DEF bunpin, TypeOK, Current
  <2>2. \A d \in Bufs : refcnt'[d] = IF d = cur[p] THEN refcnt[d] - 1 ELSE refcnt[d]
    BY <1>11 DEF bunpin, TypeOK
  <2>3. \A d \in Bufs : n(d)' = n(d)
    BY <1>b, <2>1 DEF Refers
  <2> HIDE DEF n
  <2> QED BY SMTT(30), <1>a, <1>b, <1>c, <2>1, <2>2, <2>3
<1>12. CASE brelse(p)
  <2>1. pc[p] = "brelse" /\ pc'[p] = "run" /\ UNCHANGED <<cur, held, pinned>>
    BY <1>12 DEF brelse, TypeOK
  <2>2. \A d \in Bufs : refcnt'[d] = IF d = cur[p] THEN refcnt[d] - 1 ELSE refcnt[d]
    BY <1>12 DEF brelse, TypeOK
  <2>3. cur[p] \notin held[p]
    BY <2>1 DEF Position
  <2>4. Refers(p) = held[p] \cup {cur[p]} /\ Refers(p)' = held[p]
    BY <2>1 DEF Refers
  <2>5. \A d \in Bufs : n(d)' = (IF d = cur[p] THEN n(d) - 1 ELSE n(d)) /\ Pin(d)' = Pin(d)
    BY <1>b, <2>1, <2>3, <2>4
  <2> HIDE DEF n
  <2> QED BY SMTT(30), <1>a, <1>b, <1>c, <2>2, <2>5
<1> HIDE DEF n, Pin
<1> QED
  BY <1>2, <1>3, <1>4, <1>5, <1>6, <1>7, <1>8, <1>9, <1>10, <1>11, <1>12 DEF Step, Call

----------------------------------------------------------------------------
(* What is cached *)

\* Buffers stay what the disk has, or are marked.
LEMMA CurrentStep ==
  ASSUME BufInv, NEW p \in Procs, Step(p) \/ Call(p)
  PROVE  Current'
<1> USE DEF BufInv
<1> DEFINE B(d) ==
             /\ valid[d] => blockno[d] # NoBlock
             /\ d \in dirty => locked[d] # Nobody
             /\ d \in dirty \cup pinned => valid[d]
             /\ valid[d] /\ d \notin dirty \cup pinned => data[d] = disk[blockno[d]]
           P(q) ==
             /\ \A d \in held[q] : valid[d] \/ (pc[q] = "reading" /\ cur[q] = d)
             /\ pc[q] = "reading" => ~valid[cur[q]]
             /\ pc[q] = "bunpin" => /\ cur[q] \in pinned \ dirty
                                    /\ data[cur[q]] = disk[blockno[cur[q]]]
           Same(d) ==
             /\ valid'[d] = valid[d] /\ data'[d] = data[d] /\ blockno'[d] = blockno[d]
             /\ d \in pinned' <=> d \in pinned
             /\ d \in dirty' <=> d \in dirty
             /\ blockno[d] # NoBlock => disk'[blockno[d]] = disk[blockno[d]]
<1>0. /\ \A d \in Bufs : B(d)
      /\ \A q \in Procs : P(q)
  BY DEF Current
<1>a. cur[p] \in Bufs /\ \A q \in Procs : cur[q] \in Bufs /\ held[q] \in SUBSET Bufs
  BY DEF TypeOK
<1>b. \A q \in Procs : pc[q] \in {"reading", "bunpin"} => cur[q] \in held[q]
  BY DEF Position
<1>c. \A q \in Procs : \A d \in held[q] : blockno[d] # NoBlock
  BY DEF Position, Refers
<1>d. \A q \in Procs : \A d \in held[q] : q # p => d \notin held[p]
  BY SMTT(30), <1>a DEF Holding
<1>e. OthersStay(p)
  BY OthersKeepPlace
\* A buffer that the step leaves alone, and the other processes.
<1>1. ASSUME NEW d \in Bufs, Same(d), d \in dirty => locked'[d] # Nobody PROVE B(d)'
  <2>1. B(d)
    BY <1>0
  <2> QED BY <1>1, <2>1
<1>2. ASSUME NEW q \in Procs, q # p, \A d \in held[q] : Same(d) PROVE P(q)'
  <2>1. held'[q] = held[q] /\ cur'[q] = cur[q]
    BY <1>e, <1>2 DEF OthersStay
  <2>2. /\ pc'[q] = "reading" <=> pc[q] = "reading"
        /\ pc'[q] = "bunpin" <=> pc[q] = "bunpin"
    BY <1>e, <1>2 DEF OthersStay
  <2>3. pc[q] \in {"reading", "bunpin"} => Same(cur[q]) /\ blockno[cur[q]] # NoBlock
    BY <1>b, <1>c, <1>2
  <2>4. P(q)
    BY <1>0
  <2> QED BY <1>2, <2>1, <2>2, <2>3, <2>4
\* A step that touches at most one buffer x, which no other process holds.
<1>3. ASSUME NEW x \in Bufs, \A q \in Procs \ {p} : x \notin held[q],
             \A d \in Bufs \ {x} : Same(d) /\ (locked[d] # Nobody => locked'[d] # Nobody),
             B(x)', P(p)'
      PROVE  Current'
  <2>0. \A d \in Bufs : d \in dirty => locked[d] # Nobody
    BY <1>0
  <2> HIDE DEF B, P, Same
  <2>1. \A d \in Bufs : B(d)'
    <3>1. ASSUME NEW d \in Bufs, d # x PROVE B(d)'
      <4>1. d \in dirty => locked[d] # Nobody
        BY <2>0
      <4> QED BY <1>1, <1>3, <3>1, <4>1
    <3> QED BY <1>3, <3>1
  <2>2. \A q \in Procs : P(q)'
    <3>1. ASSUME NEW q \in Procs, q # p PROVE P(q)'
      <4>1. \A d \in held[q] : Same(d)
        BY <1>a, <1>3, <3>1
      <4> QED BY <1>2, <3>1, <4>1
    <3> QED BY <1>3, <3>1
  <2> QED BY <2>1, <2>2 DEF Current, B, P
<1>4. \A x \in held[p] : x \in Bufs /\ \A q \in Procs \ {p} : x \notin held[q]
  BY <1>a, <1>d
\* A step of p that leaves every buffer alone.
<1>5. ASSUME UNCHANGED <<valid, data, blockno, pinned, dirty, disk, locked>>, P(p)'
      PROVE  Current'
  <2>1. \A d \in Bufs : B(d)'
    BY <1>0, <1>5
  <2>2. \A q \in Procs : P(q)'
    BY <1>2, <1>5
  <2> QED BY <2>1, <2>2 DEF Current
<1>6. CASE acquiresleep_wait(p)
  <2>1. /\ UNCHANGED <<valid, data, blockno, pinned, dirty, disk, locked, held, cur>>
        /\ pc[p] = "acquiresleep" /\ pc'[p] = "sleeping"
    BY <1>6 DEF acquiresleep_wait, bufs, TypeOK
  <2>2. P(p)'
    BY <1>0, <2>1
  <2> QED BY <1>5, <2>1, <2>2
<1>7. CASE acquiresleep(p)
  <2>1. /\ UNCHANGED <<valid, data, blockno, pinned, dirty, disk, cur>>
        /\ pc[p] = "acquiresleep" /\ held'[p] = held[p] \cup {cur[p]}
    BY <1>7 DEF acquiresleep, bufs, TypeOK
  <2>2. pc'[p] = IF valid[cur[p]] THEN "run" ELSE "reading"
    BY <1>7 DEF acquiresleep, TypeOK
  <2>3. P(p)'
    <3>1. P(p)
      BY <1>0
    <3> QED BY <2>1, <2>2, <3>1
  <2>4. locked[cur[p]] = Nobody /\ locked' = [locked EXCEPT ![cur[p]] = p]
    BY <1>7 DEF acquiresleep
  <2>5. \A q \in Procs : cur[p] \notin held[q]
    BY SMTT(30), <1>a, <2>4 DEF Holding
  <2>6. \A d \in Bufs : d # cur[p] => locked'[d] = locked[d]
    BY <2>4 DEF TypeOK
  <2>7. locked'[cur[p]] # Nobody
    BY <1>a, <2>4 DEF TypeOK
  <2>8. B(cur[p])'
    BY <1>0, <1>a, <2>1, <2>7
  <2>9. \A d \in Bufs \ {cur[p]} : Same(d)
    BY <2>1
  <2> HIDE DEF B, P, Same
  <2>10. \A d \in Bufs \ {cur[p]} : Same(d) /\ (locked[d] # Nobody => locked'[d] # Nobody)
    BY <2>6, <2>9
  <2>11. cur[p] \in Bufs /\ \A q \in Procs \ {p} : cur[p] \notin held[q]
    BY <1>a, <2>5
  <2> QED BY <1>3, <2>1, <2>3, <2>8, <2>10, <2>11
<1>8. CASE read_done(p)
  <2>1. /\ pc[p] = "reading" /\ pc'[p] = "run" /\ cur[p] \in held[p]
        /\ UNCHANGED <<blockno, pinned, dirty, disk, locked, cur, held>>
    BY <1>8, <1>b DEF read_done, TypeOK
  <2>2. data'[cur[p]] = disk[blockno[cur[p]]] /\ valid'[cur[p]] = TRUE
    BY <1>8, <1>a DEF read_done, TypeOK
  <2>3. \A d \in Bufs : d # cur[p] => valid'[d] = valid[d] /\ data'[d] = data[d]
    BY <1>8 DEF read_done, TypeOK
  <2>4. P(p)'
    BY <1>0, <1>a, <2>1, <2>2, <2>3
  <2>5. B(cur[p])'
    BY <1>0, <1>a, <1>c, <2>1, <2>2
  <2>6. \A d \in Bufs \ {cur[p]} : Same(d)
    BY <2>1, <2>3
  <2> HIDE DEF B, P, Same
  <2> QED BY <1>3, <1>4, <2>1, <2>4, <2>5, <2>6
<1>9. CASE write_done(p)
  <2>1. /\ pc[p] = "writing" /\ cur[p] \in held[p] /\ dirty' = dirty \ {cur[p]}
        /\ UNCHANGED <<blockno, valid, data, pinned, locked, cur, held>>
    BY <1>9 DEF write_done, bufs, Position
  <2>2. pc'[p] = IF cur[p] \in pinned THEN "bunpin" ELSE "run"
    BY <1>9 DEF write_done, TypeOK
  <2>3. blockno[cur[p]] \in Blocks
    BY <1>a, <1>c, <2>1 DEF TypeOK
  <2>4. /\ disk'[blockno[cur[p]]] = data[cur[p]]
        /\ \A k \in Blocks : k # blockno[cur[p]] => disk'[k] = disk[k]
    BY <1>9, <2>3 DEF write_done, TypeOK
  <2>5. P(p)'
    BY <1>0, <2>1, <2>2, <2>4
  <2>6. B(cur[p])'
    BY <1>0, <1>a, <2>1, <2>4
  <2>7. \A d \in Bufs \ {cur[p]} : Same(d)
    <3>1. ASSUME NEW d \in Bufs, d # cur[p], blockno[d] # NoBlock
          PROVE  disk'[blockno[d]] = disk[blockno[d]]
      <4>1. blockno[d] # blockno[cur[p]]
        BY <1>a, <3>1 DEF Unique
      <4>2. blockno[d] \in Blocks
        BY <3>1 DEF TypeOK
      <4> QED BY <2>4, <4>1, <4>2
    <3> QED BY <2>1, <3>1
  <2> HIDE DEF B, P, Same
  <2> QED BY <1>3, <1>4, <2>1, <2>5, <2>6, <2>7
<1>10. CASE bunpin(p)
  <2>1. /\ pc[p] = "bunpin" /\ pc'[p] = "run" /\ cur[p] \in held[p]
        /\ pinned' = pinned \ {cur[p]}
        /\ UNCHANGED <<blockno, valid, data, disk, dirty, locked, cur, held>>
    BY <1>10, <1>b DEF bunpin, TypeOK
  <2>2. P(p)'
    BY <1>0, <2>1
  <2>3. B(cur[p])'
    BY <1>0, <1>a, <2>1
  <2>4. \A d \in Bufs \ {cur[p]} : Same(d)
    BY <2>1
  <2> HIDE DEF B, P, Same
  <2> QED BY <1>3, <1>4, <2>1, <2>2, <2>3, <2>4
<1>11. CASE brelse(p)
  <2>1. /\ UNCHANGED <<valid, data, blockno, pinned, dirty, disk, locked, held, cur>>
        /\ pc[p] = "brelse" /\ pc'[p] = "run"
    BY <1>11 DEF brelse, TypeOK
  <2>2. P(p)'
    BY <1>0, <2>1
  <2> QED BY <1>5, <2>1, <2>2
<1>12. ASSUME NEW k \in Blocks, bget_hit(p, k) \/ bget_panic(p, k) PROVE Current'
  <2>1. /\ UNCHANGED <<valid, data, blockno, pinned, dirty, disk, locked, held>>
        /\ pc[p] = "run" /\ pc'[p] \in {"acquiresleep", "panic"}
    BY <1>12 DEF bget_hit, bget_panic, bufs, TypeOK
  <2>2. P(p)'
    BY <1>0, <2>1
  <2> QED BY <1>5, <2>1, <2>2
<1>13. ASSUME NEW k \in Blocks, bget_recycle(p, k) PROVE Current'
  <2>1. PICK x \in Victims : /\ blockno' = [blockno EXCEPT ![x] = k]
                             /\ valid' = [valid EXCEPT ![x] = FALSE]
    BY <1>13 DEF bget_recycle
  <2>2. /\ pc[p] = "run" /\ pc'[p] = "acquiresleep"
        /\ UNCHANGED <<data, pinned, dirty, disk, locked, held>>
    BY <1>13 DEF bget_recycle, TypeOK
  <2>3. x \in Bufs /\ refcnt[x] = 0
    BY VictimIsUnused
  <2>4. x \notin pinned /\ \A q \in Procs : x \notin held[q]
    BY SMTT(30), <2>3, ZeroIsUnused DEF Refers
  <2>5. locked[x] = Nobody
    BY SMTT(30), <2>3, <2>4 DEF Holding, TypeOK
  <2>6. ~valid'[x]
    BY <2>1, <2>3 DEF TypeOK
  <2>7. \A d \in Bufs : d # x => blockno'[d] = blockno[d] /\ valid'[d] = valid[d]
    BY <2>1 DEF TypeOK
  <2>8. B(x)'
    BY <1>0, <2>2, <2>3, <2>4, <2>5, <2>6
  <2>9. P(p)'
    <3>1. \A d \in held[p] : d # x /\ valid'[d] = valid[d]
      BY <1>a, <2>4, <2>7
    <3>2. P(p)
      BY <1>0
    <3> QED BY <2>2, <3>1, <3>2
  <2>10. \A d \in Bufs \ {x} : Same(d)
    BY <2>2, <2>7
  <2> HIDE DEF B, P, Same
  <2> QED BY <1>3, <2>2, <2>3, <2>4, <2>8, <2>9, <2>10
<1>14. ASSUME NEW b \in Bufs, bpin(p, b) PROVE Current'
  <2>1. /\ pc[p] = "run" /\ b \in held[p] /\ b \in dirty
        /\ pinned' = pinned \cup {b} /\ dirty' = dirty \ {b}
        /\ UNCHANGED <<blockno, valid, data, disk, locked, pc, cur, held>>
    BY <1>14 DEF bpin
  <2>2. P(p)' /\ B(b)'
    BY <1>0, <2>1
  <2>3. \A d \in Bufs \ {b} : Same(d)
    BY <2>1
  <2> HIDE DEF B, P, Same
  <2> QED BY <1>3, <1>4, <2>1, <2>2, <2>3
<1>15. ASSUME NEW b \in Bufs, bwrite(p, b) PROVE Current'
  <2>1. /\ UNCHANGED <<valid, data, blockno, pinned, dirty, disk, locked, held>>
        /\ pc[p] = "run" /\ pc'[p] = "writing"
    BY <1>15 DEF bwrite, bufs, TypeOK
  <2>2. P(p)'
    BY <1>0, <2>1
  <2> QED BY <1>5, <2>1, <2>2
<1>16. ASSUME NEW b \in Bufs, releasesleep(p, b) PROVE Current'
  <2>1. /\ UNCHANGED <<valid, data, blockno, pinned, dirty, disk>> /\ b \notin dirty
        /\ pc[p] = "run" /\ pc'[p] = "brelse" /\ b \in held[p] /\ held'[p] = held[p] \ {b}
    BY <1>16 DEF releasesleep, Woken, bufs, TypeOK
  <2>2. P(p)' /\ B(b)'
    BY <1>0, <2>1
  <2>3. \A d \in Bufs \ {b} : Same(d)
    BY <2>1
  <2>4. \A d \in Bufs : d # b => locked'[d] = locked[d]
    BY <1>16 DEF releasesleep, TypeOK
  <2> HIDE DEF B, P, Same
  <2> QED BY <1>3, <1>4, <2>1, <2>2, <2>3, <2>4
<1>17. ASSUME NEW b \in Bufs, NEW v \in Values, modify(p, b, v) PROVE Current'
  <2>1. /\ pc[p] = "run" /\ b \in held[p] /\ dirty' = dirty \cup {b}
        /\ UNCHANGED <<blockno, valid, disk, pinned, locked, pc, cur, held>>
    BY <1>17 DEF modify
  <2>2. \A d \in Bufs : d # b => data'[d] = data[d]
    BY <1>17 DEF modify, TypeOK
  <2>3. valid[b] /\ locked[b] = p
    <3>1. P(p)
      BY <1>0
    <3>2. valid[b]
      BY <2>1, <3>1
    <3>3. locked[b] = p
      BY <2>1 DEF Holding
    <3> QED BY <3>2, <3>3
  <2>4. P(p)'
    BY <1>0, <2>1
  <2>5. B(b)'
    BY <1>0, <2>1, <2>3
  <2>6. \A d \in Bufs \ {b} : Same(d)
    BY <2>1, <2>2
  <2> HIDE DEF B, P, Same
  <2> QED BY <1>3, <1>4, <2>1, <2>4, <2>5, <2>6
<1> HIDE DEF B, P, Same
<1> QED
  BY <1>6, <1>7, <1>8, <1>9, <1>10, <1>11, <1>12, <1>13, <1>14, <1>15, <1>16, <1>17
  DEF Step, Call

----------------------------------------------------------------------------
(* The invariant *)

\* binit() establishes the invariant ...
LEMMA InitBufInv == Init => BufInv
<1> SUFFICES ASSUME Init PROVE BufInv
  OBVIOUS
<1>1. TypeOK
  <2>1. lru \in [1..NBUF -> Bufs]
    BY SMTT(30) DEF Init
  <2>4. 1 \in Bufs
    BY SMTT(30)
  <2> QED
    BY <2>1, <2>4 DEF Init, TypeOK
<1>7. Listed
  <2>1. \A b \in Bufs : lru[NBUF + 1 - b] = b /\ NBUF + 1 - b \in 1..NBUF
    BY SMTT(30) DEF Init
  <2> QED BY <2>1 DEF Listed
<1>2. \A p \in Procs : Refers(p) = {} /\ pc[p] = "run" /\ held[p] = {}
  BY DEF Init, Refers
<1>3. Unique /\ Holding /\ SleepersBlocked
  BY DEF Init, Unique, Holding, SleepersBlocked
<1>4. Position
  BY <1>2 DEF Position
<1>5. Counted
  <2>1. \A b \in Bufs : Users(b) = {}
    BY <1>2 DEF Users
  <2>2. \A b \in Bufs : Cardinality(Users(b)) = 0
    BY <2>1, FS_EmptySet
  <2>3. \A b \in Bufs : refcnt[b] = 0 /\ b \notin pinned
    BY DEF Init
  <2> QED BY SMTT(30), <2>2, <2>3 DEF Counted
<1>6. Current
  BY <1>2 DEF Init, Current
<1> QED
  BY <1>1, <1>3, <1>4, <1>5, <1>6, <1>7 DEF BufInv

\* ... every step keeps it ...
LEMMA NextBufInv == BufInv /\ [Next]_vars => BufInv'
<1> SUFFICES ASSUME BufInv, [Next]_vars PROVE BufInv'
  OBVIOUS
<1>1. CASE UNCHANGED vars
  <2> USE <1>1 DEF vars, bufs
  <2>1. TypeOK' /\ Listed' /\ Unique' /\ Holding'
    BY DEF BufInv, TypeOK, Listed, Unique, Holding
  <2>2. \A q \in Procs : Refers(q)' = Refers(q)
    BY DEF Refers
  <2>3. Position'
    BY <2>2 DEF BufInv, Position
  <2>4. \A b \in Bufs : Users(b)' = Users(b)
    BY <2>2 DEF Users
  <2>5. Counted'
    BY <2>4 DEF BufInv, Counted
  <2>6. Current' /\ SleepersBlocked'
    BY DEF BufInv, Current, SleepersBlocked
  <2> QED BY <2>1, <2>3, <2>5, <2>6 DEF BufInv
<1>2. ASSUME NEW p \in Procs, Step(p) \/ Call(p) PROVE BufInv'
  <2>1. TypeOK' /\ Listed' /\ Unique' /\ Holding'
    BY <1>2, TypeOKStep, ListedStep, UniqueStep, HoldingStep
  <2>2. Position' /\ Counted'
    BY <1>2, PositionStep, CountedStep
  <2>3. Current' /\ SleepersBlocked'
    BY <1>2, CurrentStep, SleepersStep
  <2> QED BY <2>1, <2>2, <2>3 DEF BufInv
<1> QED BY <1>1, <1>2 DEF Next

\* In every reachable state the buffers, their locks and their counts agree.
LEMMA BufInvariance == Spec => []BufInv
  BY InitBufInv, NextBufInv, PTL DEF Spec

\* Whatever the number of processes, buffers and blocks: refcnt counts those who
\* refer to a buffer and the log's pin (bget, brelse, bpin, bunpin in bio.c), and
\* nobody sleeps over a free sleep lock (acquiresleep, releasesleep).
THEOREM BuffersAreKept == Spec => []BuffersKept
<1>1. BufInv => BuffersKept
  BY DEF BufInv, BuffersKept, RefCounts, Counted, Users
<1> QED BY <1>1, BufInvariance, PTL

----------------------------------------------------------------------------
(* The refinement *)

\* What the abstract store holds for block k, given its buffer, or that it has none.
Mapped ==
  \A k \in Blocks :
    /\ \A b \in Bufs : blockno[b] = k =>
         /\ Contents[k] = (IF valid[b] THEN data[b] ELSE disk[k])
         /\ Holder[k] = locked[b]
    /\ (\A b \in Bufs : blockno[b] # k) => Contents[k] = disk[k] /\ Holder[k] = Nobody

\* With one buffer a block, the store's state can be read off the buffers.
LEMMA StoreIsMapped == TypeOK /\ Unique => Mapped
<1> SUFFICES ASSUME TypeOK, Unique, NEW k \in Blocks
             PROVE  /\ \A b \in Bufs : blockno[b] = k =>
                         /\ Contents[k] = (IF valid[b] THEN data[b] ELSE disk[k])
                         /\ Holder[k] = locked[b]
                    /\ (\A b \in Bufs : blockno[b] # k) =>
                         Contents[k] = disk[k] /\ Holder[k] = Nobody
  BY DEF Mapped
<1>1. ASSUME NEW b \in Bufs, blockno[b] = k
      PROVE  /\ Contents[k] = (IF valid[b] THEN data[b] ELSE disk[k])
             /\ Holder[k] = locked[b]
  <2>1. Cached(k) = {b}
    BY <1>1 DEF Cached, Unique
  <2>2. Contents[k] = IF \E d \in {b} : valid[d]
                      THEN data[CHOOSE d \in {b} : valid[d]] ELSE disk[k]
    BY <2>1 DEF Contents
  <2>3. Holder[k] = IF \E d \in {b} : locked[d] # Nobody
                    THEN locked[CHOOSE d \in {b} : locked[d] # Nobody] ELSE Nobody
    BY <2>1 DEF Holder
  <2>4. valid[b] => (CHOOSE d \in {b} : valid[d]) = b
    OBVIOUS
  <2>5. locked[b] # Nobody => (CHOOSE d \in {b} : locked[d] # Nobody) = b
    OBVIOUS
  <2> QED BY SMTT(30), <2>2, <2>3, <2>4, <2>5
<1>2. ASSUME \A b \in Bufs : blockno[b] # k
      PROVE  Contents[k] = disk[k] /\ Holder[k] = Nobody
  BY <1>2 DEF Cached, Contents, Holder
<1> QED BY <1>1, <1>2

\* The same, after a step.
LEMMA StoreIsMappedNext == TypeOK' /\ Unique' => Mapped'
  BY StoreIsMapped, PTL

\* A step that keeps the blocks' buffers, and what they hold, is none of the store's.
LEMMA StoreUnchanged ==
  ASSUME Mapped, Mapped', UNCHANGED blockno,
         \A b \in Bufs : blockno[b] # NoBlock =>
           /\ locked'[b] = locked[b]
           /\ (IF valid'[b] THEN data'[b] ELSE disk'[blockno[b]])
                = (IF valid[b] THEN data[b] ELSE disk[blockno[b]]),
         \A k \in Blocks : (\A b \in Bufs : blockno[b] # k) => disk'[k] = disk[k]
  PROVE  UNCHANGED <<Contents, Holder>>
<1>1. ASSUME NEW k \in Blocks PROVE Contents'[k] = Contents[k] /\ Holder'[k] = Holder[k]
  <2>1. ASSUME NEW b \in Bufs, blockno[b] = k
        PROVE  Contents'[k] = Contents[k] /\ Holder'[k] = Holder[k]
    <3>1. k # NoBlock /\ blockno'[b] = k
      BY <2>1
    <3>2. /\ Contents[k] = (IF valid[b] THEN data[b] ELSE disk[k])
          /\ Holder[k] = locked[b]
      BY <2>1 DEF Mapped
    <3>3. /\ Contents'[k] = (IF valid'[b] THEN data'[b] ELSE disk'[k])
          /\ Holder'[k] = locked'[b]
      BY <3>1 DEF Mapped
    <3> QED BY SMTT(30), <2>1, <3>1, <3>2, <3>3
  <2>2. CASE \A b \in Bufs : blockno[b] # k
    <3>1. Contents[k] = disk[k] /\ Holder[k] = Nobody
      BY <2>2 DEF Mapped
    <3>2. Contents'[k] = disk'[k] /\ Holder'[k] = Nobody
      BY <2>2 DEF Mapped
    <3> QED BY <2>2, <3>1, <3>2
  <2> QED BY <2>1, <2>2
<1>2. /\ Contents = [k \in Blocks |-> Contents[k]] /\ Contents' = [k \in Blocks |-> Contents'[k]]
      /\ Holder = [k \in Blocks |-> Holder[k]] /\ Holder' = [k \in Blocks |-> Holder'[k]]
  BY DEF Contents, Holder
<1> QED BY <1>1, <1>2

\* Every step of the cache is one of the store, or none (the lock that a process
\* gets, its updates and its unlock are the store's; hits, misses, recycling and
\* transfers are not seen).
LEMMA StepIsStoreStep ==
  ASSUME BufInv, Mapped, Mapped', NEW p \in Procs, Step(p) \/ Call(p)
  PROVE  [Store!Next]_<<Contents, Holder>>
<1> USE DEF BufInv
\* What Mapped says of a block with a buffer, and of one without, before and after.
<1>m. ASSUME NEW k \in Blocks, NEW b \in Bufs
      PROVE  /\ blockno[b] = k => /\ Contents[k] = (IF valid[b] THEN data[b] ELSE disk[k])
                                  /\ Holder[k] = locked[b]
             /\ blockno'[b] = k => /\ Contents'[k] = (IF valid'[b] THEN data'[b] ELSE disk'[k])
                                   /\ Holder'[k] = locked'[b]
  BY DEF Mapped
<1>n. ASSUME NEW k \in Blocks
      PROVE  /\ (\A b \in Bufs : blockno[b] # k) => Contents[k] = disk[k] /\ Holder[k] = Nobody
             /\ (\A b \in Bufs : blockno'[b] # k)
                  => Contents'[k] = disk'[k] /\ Holder'[k] = Nobody
  BY DEF Mapped
<1>t. /\ cur[p] \in Bufs /\ held[p] \in SUBSET Bufs
      /\ \A d \in Bufs : blockno[d] # NoBlock => blockno[d] \in Blocks
  BY DEF TypeOK
<1>T. /\ blockno \in [Bufs -> Blocks \cup {NoBlock}] /\ valid \in [Bufs -> BOOLEAN]
      /\ data \in [Bufs -> Values] /\ locked \in [Bufs -> Procs \cup {Nobody}]
      /\ disk \in [Blocks -> Values]
  BY DEF TypeOK
<1>h. \A d \in held[p] : d \in Bufs /\ blockno[d] \in Blocks /\ locked[d] = p
  <2>1. \A d \in held[p] : blockno[d] # NoBlock
    BY DEF Position, Refers
  <2> QED BY <1>t, <2>1 DEF Holding
<1>f. /\ Contents = [k \in Blocks |-> Contents[k]] /\ Contents' = [k \in Blocks |-> Contents'[k]]
      /\ Holder = [k \in Blocks |-> Holder[k]] /\ Holder' = [k \in Blocks |-> Holder'[k]]
  BY DEF Contents, Holder
<1>u. CASE UNCHANGED <<blockno, valid, data, disk, locked>>
  <2>1. UNCHANGED <<Contents, Holder>>
    BY <1>u, StoreUnchanged
  <2> QED BY <2>1
<1>1. CASE acquiresleep_wait(p) \/ bunpin(p) \/ brelse(p)
  BY <1>1, <1>u DEF acquiresleep_wait, bunpin, brelse, bufs
<1>2. ASSUME NEW k \in Blocks, bget_hit(p, k) \/ bget_panic(p, k)
      PROVE  UNCHANGED <<blockno, valid, data, disk, locked>>
  BY <1>2 DEF bget_hit, bget_panic, bufs
<1>3. ASSUME NEW b \in Bufs, bpin(p, b) \/ bwrite(p, b)
      PROVE  UNCHANGED <<blockno, valid, data, disk, locked>>
  BY <1>3 DEF bpin, bwrite, bufs
<1>4. CASE acquiresleep(p)
  <2> DEFINE k == blockno[cur[p]]
  <2>1. /\ UNCHANGED <<blockno, valid, data, disk>> /\ locked[cur[p]] = Nobody
        /\ locked' = [locked EXCEPT ![cur[p]] = p]
    BY <1>4 DEF acquiresleep, bufs
  <2>2. k \in Blocks
    BY <1>4, <1>t DEF acquiresleep, Position, Refers
  <2>3. Holder[k] = Nobody /\ Holder'[k] = p
    <3>1. locked'[cur[p]] = p
      BY <1>t, <2>1, <1>T
    <3> QED BY <1>m, <1>t, <2>1, <2>2, <3>1
  <2>4. \A j \in Blocks : Contents'[j] = Contents[j] /\ (j # k => Holder'[j] = Holder[j])
    <3>1. ASSUME NEW j \in Blocks, NEW b \in Bufs, blockno[b] = j
          PROVE  Contents'[j] = Contents[j] /\ (j # k => Holder'[j] = Holder[j])
      <4>1. j # k => locked'[b] = locked[b]
        BY <2>1, <3>1, <1>T
      <4>2. blockno'[b] = j /\ UNCHANGED <<valid, data, disk>>
        BY <2>1, <3>1
      <4> HIDE DEF k
      <4>3. Contents'[j] = Contents[j]
        BY SMTT(30), <1>m, <3>1, <4>2
      <4>4. j # k => Holder'[j] = Holder[j]
        BY <1>m, <3>1, <4>1, <4>2
      <4> QED BY <4>3, <4>4
    <3>2. ASSUME NEW j \in Blocks, \A b \in Bufs : blockno[b] # j
          PROVE  Contents'[j] = Contents[j] /\ Holder'[j] = Holder[j]
      BY <1>n, <2>1, <3>2
    <3> QED BY <3>1, <3>2
  <2> HIDE DEF k
  <2>5. Holder' = [Holder EXCEPT ![k] = p] /\ Contents' = Contents
    BY <1>f, <2>2, <2>3, <2>4
  <2>6. Store!Lock(p, k)
    BY <2>3, <2>5 DEF Store!Lock
  <2> QED BY <2>2, <2>6 DEF Store!Next
<1>5. ASSUME NEW b \in Bufs, releasesleep(p, b) PROVE [Store!Next]_<<Contents, Holder>>
  <2> DEFINE k == blockno[b]
  <2>1. /\ UNCHANGED <<blockno, valid, data, disk>> /\ b \in held[p]
        /\ locked' = [locked EXCEPT ![b] = Nobody]
    BY <1>5 DEF releasesleep, bufs
  <2>2. k \in Blocks /\ locked[b] = p
    BY <1>h, <2>1
  <2>3. Holder[k] = p /\ Holder'[k] = Nobody
    <3>1. locked'[b] = Nobody
      BY <2>1, <1>T
    <3> QED BY <1>m, <2>1, <2>2, <3>1
  <2>4. \A j \in Blocks : Contents'[j] = Contents[j] /\ (j # k => Holder'[j] = Holder[j])
    <3>1. ASSUME NEW j \in Blocks, NEW d \in Bufs, blockno[d] = j
          PROVE  Contents'[j] = Contents[j] /\ (j # k => Holder'[j] = Holder[j])
      <4>1. j # k => locked'[d] = locked[d]
        BY <2>1, <3>1, <1>T
      <4>2. blockno'[d] = j /\ UNCHANGED <<valid, data, disk>>
        BY <2>1, <3>1
      <4> HIDE DEF k
      <4>3. Contents'[j] = Contents[j]
        BY SMTT(30), <1>m, <3>1, <4>2
      <4>4. j # k => Holder'[j] = Holder[j]
        BY <1>m, <3>1, <4>1, <4>2
      <4> QED BY <4>3, <4>4
    <3>2. ASSUME NEW j \in Blocks, \A d \in Bufs : blockno[d] # j
          PROVE  Contents'[j] = Contents[j] /\ Holder'[j] = Holder[j]
      BY <1>n, <2>1, <3>2
    <3> QED BY <3>1, <3>2
  <2> HIDE DEF k
  <2>5. Holder' = [Holder EXCEPT ![k] = Nobody] /\ Contents' = Contents
    BY <1>f, <2>2, <2>3, <2>4
  <2>6. Store!Unlock(p, k)
    BY <2>3, <2>5 DEF Store!Unlock
  <2> QED BY <2>2, <2>6 DEF Store!Next
<1>6. ASSUME NEW b \in Bufs, NEW v \in Values, modify(p, b, v)
      PROVE  [Store!Next]_<<Contents, Holder>>
  <2> DEFINE k == blockno[b]
  <2>1. /\ UNCHANGED <<blockno, valid, locked, disk>> /\ pc[p] = "run" /\ b \in held[p]
        /\ data' = [data EXCEPT ![b] = v]
    BY <1>6 DEF modify
  <2>2. k \in Blocks /\ locked[b] = p
    BY <1>h, <2>1
  <2>3. Holder[k] = p /\ Contents'[k] = v
    <3>1. data'[b] = v /\ valid[b]
      BY SMTT(30), <2>1, <1>T DEF Current
    <3> QED BY <1>m, <2>1, <2>2, <3>1
  <2>4. \A j \in Blocks : Holder'[j] = Holder[j] /\ (j # k => Contents'[j] = Contents[j])
    <3>1. ASSUME NEW j \in Blocks, NEW d \in Bufs, blockno[d] = j
          PROVE  Holder'[j] = Holder[j] /\ (j # k => Contents'[j] = Contents[j])
      <4>1. j # k => data'[d] = data[d]
        BY <2>1, <3>1, <1>T
      <4>2. blockno'[d] = j /\ UNCHANGED <<valid, locked, disk>>
        BY <2>1, <3>1
      <4> HIDE DEF k
      <4>3. Holder'[j] = Holder[j]
        BY SMTT(30), <1>m, <3>1, <4>2
      <4>4. j # k => Contents'[j] = Contents[j]
        BY <1>m, <3>1, <4>1, <4>2
      <4> QED BY <4>3, <4>4
    <3>2. ASSUME NEW j \in Blocks, \A d \in Bufs : blockno[d] # j
          PROVE  Contents'[j] = Contents[j] /\ Holder'[j] = Holder[j]
      BY <1>n, <2>1, <3>2
    <3> QED BY <3>1, <3>2
  <2> HIDE DEF k
  <2>5. Contents' = [Contents EXCEPT ![k] = v] /\ Holder' = Holder
    BY <1>f, <2>2, <2>3, <2>4
  <2>6. Store!Update(p, k, v)
    BY <2>3, <2>5 DEF Store!Update
  <2> QED BY <2>2, <2>6 DEF Store!Next
<1>7. CASE read_done(p)
  <2>1. /\ pc[p] = "reading" /\ cur[p] \in held[p] /\ ~valid[cur[p]]
        /\ UNCHANGED <<blockno, disk, locked>>
    BY <1>7 DEF read_done, Position, Current
  <2>2. data'[cur[p]] = disk[blockno[cur[p]]] /\ valid'[cur[p]] = TRUE
    BY <1>7, <1>t, <1>T DEF read_done
  <2>3. \A d \in Bufs : d # cur[p] => valid'[d] = valid[d] /\ data'[d] = data[d]
    BY <1>7, <1>T DEF read_done
  <2>4. \A d \in Bufs : (IF valid'[d] THEN data'[d] ELSE disk'[blockno[d]])
                          = (IF valid[d] THEN data[d] ELSE disk[blockno[d]])
    BY <2>1, <2>2, <2>3
  <2>5. UNCHANGED <<Contents, Holder>>
    BY <2>1, <2>4, StoreUnchanged
  <2> QED BY <2>5
<1>8. CASE write_done(p)
  <2>1. /\ pc[p] = "writing" /\ cur[p] \in held[p] /\ valid[cur[p]]
        /\ UNCHANGED <<blockno, valid, data, locked>>
    <3>1. pc[p] = "writing" /\ UNCHANGED <<blockno, valid, data, locked>>
      BY <1>8 DEF write_done, bufs
    <3>2. cur[p] \in held[p]
      BY <3>1 DEF Position
    <3> QED BY <3>1, <3>2 DEF Current
  <2>2. \A k \in Blocks : k # blockno[cur[p]] => disk'[k] = disk[k]
    BY <1>8, <1>h, <2>1, <1>T DEF write_done
  <2>3. ASSUME NEW d \in Bufs, blockno[d] # NoBlock
        PROVE  (IF valid'[d] THEN data'[d] ELSE disk'[blockno[d]])
                 = (IF valid[d] THEN data[d] ELSE disk[blockno[d]])
    <3>1. CASE d = cur[p]
      BY <2>1, <3>1
    <3>2. CASE d # cur[p]
      <4>1. blockno[d] # blockno[cur[p]]
        BY <1>t, <2>3, <3>2 DEF Unique
      <4>2. disk'[blockno[d]] = disk[blockno[d]]
        BY <1>t, <2>2, <2>3, <4>1
      <4> QED BY <2>1, <4>2
    <3> QED BY <3>1, <3>2
  <2>4. UNCHANGED <<Contents, Holder>>
    BY <1>t, <2>1, <2>2, <2>3, StoreUnchanged
  <2> QED BY <2>4
<1>9. ASSUME NEW k \in Blocks, bget_recycle(p, k) PROVE UNCHANGED <<Contents, Holder>>
  <2>1. PICK x \in Victims : /\ blockno' = [blockno EXCEPT ![x] = k]
                             /\ valid' = [valid EXCEPT ![x] = FALSE]
    BY <1>9 DEF bget_recycle
  <2>2. UNCHANGED <<data, disk, locked>> /\ \A d \in Bufs : blockno[d] # k
    BY <1>9 DEF bget_recycle, Cached
  <2>3. x \in Bufs /\ refcnt[x] = 0
    BY VictimIsUnused
  <2>4. x \notin pinned /\ \A q \in Procs : x \notin held[q]
    BY SMTT(30), <2>3, ZeroIsUnused DEF Refers
  <2>5. locked[x] = Nobody
    BY SMTT(30), <2>3, <2>4, <1>T DEF Holding
  <2>6. valid[x] => data[x] = disk[blockno[x]]
    BY <2>3, <2>4, <2>5 DEF Current
  <2>7. blockno'[x] = k /\ ~valid'[x]
    BY <2>1, <2>3, <1>T
  <2>8. \A d \in Bufs : d # x => blockno'[d] = blockno[d] /\ valid'[d] = valid[d]
    BY <2>1, <1>T
  <2>9. ASSUME NEW j \in Blocks PROVE Contents'[j] = Contents[j] /\ Holder'[j] = Holder[j]
    <3>1. CASE j = k
      <4>1. Contents[k] = disk[k] /\ Holder[k] = Nobody
        BY <1>n, <2>2
      <4>2. Contents'[k] = disk'[k] /\ Holder'[k] = locked'[x]
        BY <1>m, <2>3, <2>7
      <4> QED BY <2>2, <2>5, <3>1, <4>1, <4>2
    <3>2. CASE j # k /\ blockno[x] = j
      <4>1. Contents[j] = disk[j] /\ Holder[j] = Nobody
        BY SMTT(30), <1>m, <2>3, <2>5, <2>6, <3>2
      <4>2. \A d \in Bufs : blockno'[d] # j
        BY <2>3, <2>7, <2>8, <3>2 DEF Unique
      <4>3. Contents'[j] = disk'[j] /\ Holder'[j] = Nobody
        BY <1>n, <4>2
      <4> QED BY <2>2, <4>1, <4>3
    <3>3. ASSUME j # k, blockno[x] # j, NEW d \in Bufs, blockno[d] = j
          PROVE  Contents'[j] = Contents[j] /\ Holder'[j] = Holder[j]
      <4>1. blockno'[d] = j /\ valid'[d] = valid[d]
        BY <2>8, <3>3
      <4> QED BY SMTT(30), <1>m, <2>2, <3>3, <4>1
    <3>4. CASE j # k /\ \A d \in Bufs : blockno[d] # j
      <4>1. \A d \in Bufs : blockno'[d] # j
        BY <2>3, <2>7, <2>8, <3>4
      <4> QED BY <1>n, <2>2, <3>4, <4>1
    <3> QED BY <3>1, <3>2, <3>3, <3>4
  <2> QED BY <1>f, <2>9
<1> QED
  BY <1>u, <1>1, <1>2, <1>3, <1>4, <1>5, <1>6, <1>7, <1>8, <1>9 DEF Step, Call

\* The initial cache is a store with what the disk has, and nobody in it.
LEMMA InitIsStoreInit == Init => Store!Init
<1> SUFFICES ASSUME Init PROVE Store!Init
  OBVIOUS
<1>1. TypeOK /\ Unique
  BY InitBufInv DEF BufInv
<1>2. Mapped /\ \A k \in Blocks : \A b \in Bufs : blockno[b] # k
  BY <1>1, StoreIsMapped DEF Init
<1>3. \A k \in Blocks : Contents[k] = disk[k] /\ Holder[k] = Nobody
  BY <1>2 DEF Mapped
<1>4. Contents = [k \in Blocks |-> Contents[k]] /\ Holder = [k \in Blocks |-> Holder[k]]
  BY DEF Contents, Holder
<1> QED BY <1>1, <1>3, <1>4 DEF Store!Init, TypeOK

\* The buffer cache implements the block store: a process that has read a block
\* has it alone and sees its latest contents, through hits, misses, recycling and
\* transfers (bread, bwrite, brelse, bpin, bunpin in bio.c).
THEOREM CacheIsStore == Spec => StoreSpec
<1>1. Init => Store!Init
  BY InitIsStoreInit
<1>2. BufInv /\ BufInv' /\ [Next]_vars => [Store!Next]_<<Contents, Holder>>
  <2> SUFFICES ASSUME BufInv, BufInv', [Next]_vars PROVE [Store!Next]_<<Contents, Holder>>
    OBVIOUS
  <2>1. CASE UNCHANGED vars
    <3>1. UNCHANGED <<Contents, Holder>>
      BY <2>1 DEF vars, bufs, Contents, Holder, Cached
    <3> QED BY <3>1
  <2>2. Mapped /\ Mapped'
    BY StoreIsMapped, StoreIsMappedNext DEF BufInv
  <2>3. CASE Next
    BY <2>2, <2>3, StepIsStoreStep DEF Next
  <2> QED BY <2>1, <2>3
<1> QED
  BY <1>1, <1>2, BufInvariance, PTL DEF Spec, StoreSpec, Store!Spec

=============================================================================
