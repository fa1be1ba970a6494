------------------------------ MODULE PipeProofs ------------------------------
(***************************************************************************)
(* Proofs about Pipe, for every number of processes and every size of the  *)
(* ring: the life of its page, and when its readers and writers block.     *)
(***************************************************************************)
EXTENDS Pipe, SequenceTheorems, TLAPS

\* Leaves that name no prover are for Zenon.
USE ZenonT(60)

\* The places in pipe.c that hold pi->lock.
Locking == {"loop", "while", "copy", "rsleep", "wsleep"}

\* pi->lock excludes.
Locked ==
  /\ \A p \in Procs : p \in lock <=> pc[p] \in Locking
  /\ \A p, q \in lock : p = q

\* An end is open while somebody has a descriptor for it, and until the one who
\* dropped the last has been through pipeclose().  Nobody is inside pipe.c
\* without a descriptor.
Ends ==
  /\ allocated <=> readopen \/ writeopen
  /\ readopen <=> rfd # {} \/ \E p \in Procs : pc[p] = "close_r"
  /\ writeopen <=> wfd # {} \/ \E p \in Procs : pc[p] = "close_w"
  /\ \A p \in Procs :
       /\ pc[p] \in InRead => p \in rfd
       /\ pc[p] \in InWrite => p \in wfd
       /\ pc[p] = "close_r" => rfd = {} /\ \A q \in Procs : pc[q] = "close_r" => q = p
       /\ pc[p] = "close_w" => wfd = {} /\ \A q \in Procs : pc[q] = "close_w" => q = p

\* Who sleeps, or is about to, has found the pipe full or empty.  It stays so
\* but for the one who holds the lock, and who will wake the sleepers, unless it
\* is a writer that is killed and leaves them untold.
Sleepers ==
  \A p \in Procs :
    /\ pc[p] = "wsleep" => Full /\ readopen /\ \A q \in Procs : pc[q] # "rchan"
    /\ pc[p] = "rsleep" => Empty /\ writeopen
    /\ pc[p] = "wchan" => readopen /\ (Full \/ \E q \in Procs : pc[q] = "copy")
    /\ pc[p] = "rchan" =>
         /\ writeopen
         /\ Empty \/ untold \/ \E q \in Procs : pc[q] = "loop" /\ i[q] > 0

\* A reader that has taken nothing yet finds a byte, or the end of the stream.
Eof ==
  \A p \in Procs :
    /\ eof[p] /\ p \notin BadBuf => Empty /\ ~writeopen /\ wfd = {}
    /\ pc[p] = "copy" /\ i[p] = 0 => ~Empty \/ ~writeopen

\* The ring holds at most PIPESIZE bytes.
Fits == Count \in 0..PIPESIZE

\* The inductive invariant.
PipeInv == TypeOK /\ Locked /\ Ends /\ Sleepers /\ Eof /\ Fits

----------------------------------------------------------------------------
(* Lemmas *)

\* The disjuncts of Next for one process.
Step(p) ==
  \/ Kernel(p) \/ close(p)
  \/ \E k \in 0..MAXN : write(p, k) \/ read(p, k)
  \/ \E q \in Procs : fork(p, q)
  \/ p \in Killable /\ kill(p)

USE PipeAssumption
USE DEF Goto, Return, WakeAndGoto, Locking, InRead, InWrite, InClose, Looping, MayWrite,
        pipe, files, seen

\* A counter of the pipe stays below UINT, and finds its place in the ring.
LEMMA Counters ==
  /\ UINT \in Nat \ {0}
  /\ \A x \in 0..(UINT - 1) : /\ (x + 1) % UINT \in 0..(UINT - 1)
                             /\ x % PIPESIZE \in 0..(PIPESIZE - 1)
<1>1. UINT \in Nat \ {0}
  BY SMTT(30) DEF UINT
<1> QED BY SMTT(30), <1>1

----------------------------------------------------------------------------
(* The ring and its counters *)

\* C's arithmetic on the counters.
Mod(z) == z % UINT

\* Where the byte number k after a counter x is in the ring.
Place(x, k) == Mod(x + k) % PIPESIZE

\* What is known of the counters: sums and differences wrap at most once.
LEMMA Ring ==
  /\ UINT \in Nat /\ PIPESIZE < UINT
  /\ \A z \in Int :
       /\ 0 <= z /\ z < UINT => Mod(z) = z
       /\ UINT <= z /\ z < 2 * UINT => Mod(z) = z - UINT
       /\ z < 0 /\ z >= -UINT => Mod(z) = z + UINT
<1>1. UINT \in Nat /\ PIPESIZE < UINT
  BY SMTT(30) DEF UINT
<1> QED BY SMTT(30), <1>1 DEF Mod

\* No multiple of PIPESIZE lies strictly between 0 and PIPESIZE.
LEMMA NoMultiple ==
  ASSUME NEW m \in Int, NEW d \in 1..(PIPESIZE - 1)
  PROVE  m * PIPESIZE # d
<1>1. CASE m <= 0
  BY SMTT(30), <1>1
<1>2. CASE m >= 1
  BY SMTT(30), <1>2
<1> QED BY SMTT(30), <1>1, <1>2

\* A number is its quotient by PIPESIZE and its remainder.
LEMMA Division ==
  ASSUME NEW z \in Nat
  PROVE  \E m \in Int : z = m * PIPESIZE + (z % PIPESIZE)
<1>1. z = (z \div PIPESIZE) * PIPESIZE + (z % PIPESIZE) /\ z \div PIPESIZE \in Int
  BY SMTT(30)
<1> QED BY <1>1

\* Fewer than PIPESIZE bytes in a row have places of their own.
LEMMA PlacesDiffer ==
  ASSUME NEW x \in 0..(UINT - 1), NEW k \in 0..(PIPESIZE - 1), NEW j \in 0..(k - 1)
  PROVE  Place(x, j) # Place(x, k)
<1>1. PICK a \in Nat : a = Mod(x + j)
  BY SMTT(30), Ring
<1>2. PICK b \in Nat : b = Mod(x + k)
  BY SMTT(30), Ring
<1>3. b - a = k - j \/ b - a = k - j - UINT
  BY SMTT(30), <1>1, <1>2, Ring
<1>4. SUFFICES ASSUME a % PIPESIZE = b % PIPESIZE PROVE FALSE
  BY <1>1, <1>2 DEF Place
<1> DEFINE r == a % PIPESIZE
<1>5. PICK m \in Int : a = m * PIPESIZE + r
  BY Division
<1>6. PICK l \in Int : b = l * PIPESIZE + r
  BY <1>4, <1>5, Division
<1>7. r \in Int
  BY SMTT(30)
<1> HIDE DEF r
<1>8. b - a = (l - m) * PIPESIZE
  BY SMTT(30), <1>5, <1>6, <1>7
<1>9. k - j = (l - m) * PIPESIZE \/ k - j = (l - m + WRAPS) * PIPESIZE
  BY SMTT(30), <1>3, <1>8 DEF UINT
<1>10. l - m \in Int /\ l - m + WRAPS \in Int /\ k - j \in 1..(PIPESIZE - 1)
  BY SMTT(30)
<1> QED BY <1>9, <1>10, NoMultiple

\* The second byte after a counter is the first after its successor.
LEMMA PlaceNext ==
  ASSUME NEW x \in 0..(UINT - 1), NEW k \in 0..(PIPESIZE - 1)
  PROVE  Place(Mod(x + 1), k) = Place(x, k + 1)
<1>1. Mod(x + 1) = IF x + 1 < UINT THEN x + 1 ELSE 0
  BY SMTT(30), Ring
<1>2. Mod(x + (k + 1)) = IF x + k + 1 < UINT THEN x + k + 1 ELSE x + k + 1 - UINT
  BY SMTT(30), Ring
<1>3. Mod(Mod(x + 1) + k) = Mod(x + (k + 1))
  BY SMTT(30), <1>1, <1>2, Ring
<1> QED BY <1>3 DEF Place

----------------------------------------------------------------------------
(* The invariant is inductive *)

\* Steps keep the types; the counters wrap.
LEMMA TypeOKStep ==
  ASSUME PipeInv, NEW p \in Procs, Step(p)
  PROVE  TypeOK'
<1>1. CASE acquire(p)
  BY <1>1 DEF acquire, PipeInv, TypeOK
<1>2. CASE sleep(p)
  BY <1>2 DEF sleep, PipeInv, TypeOK
<1>3. CASE pipeclose(p)
  BY <1>3 DEF pipeclose, PipeInv, TypeOK
<1>4. CASE write_fails(p)
  BY SMTT(30), <1>4 DEF write_fails, PipeInv, TypeOK
<1>5. CASE write_full(p)
  BY <1>5 DEF write_full, PipeInv, TypeOK
<1>6. CASE write_done(p)
  <2>1. pc' \in [Procs -> {"user"} \cup InRead \cup InWrite \cup InClose]
    BY <1>6 DEF write_done, PipeInv, TypeOK
  <2>2. n' \in [Procs -> 0..MAXN] /\ i' \in [Procs -> 0..MAXN]
    BY SMTT(30), <1>6 DEF write_done, PipeInv, TypeOK
  <2> QED BY <1>6, <2>1, <2>2 DEF write_done, PipeInv, TypeOK
<1>7. ASSUME NEW b \in Bytes, write_byte(p, b) PROVE TypeOK'
  <2>1. data' \in [0..(PIPESIZE - 1) -> Bytes \cup {NoByte}]
    BY <1>7, Counters DEF write_byte, PipeInv, TypeOK
  <2>2. nwrite' \in 0..(UINT - 1)
    BY <1>7, Counters DEF write_byte, PipeInv, TypeOK
  <2>3. i' \in [Procs -> 0..MAXN]
    BY SMTT(30), <1>7 DEF write_byte, PipeInv, TypeOK
  <2> QED BY <1>7, <2>1, <2>2, <2>3 DEF write_byte, PipeInv, TypeOK
<1>8. CASE read_killed(p)
  BY SMTT(30), <1>8 DEF read_killed, PipeInv, TypeOK
<1>9. CASE read_wait(p)
  BY <1>9 DEF read_wait, PipeInv, TypeOK
<1>10. CASE read_start(p)
  BY <1>10 DEF read_start, PipeInv, TypeOK
<1>11. CASE read_byte(p)
  <2>1. nread' \in 0..(UINT - 1) /\ nread % PIPESIZE \in 0..(PIPESIZE - 1)
    BY <1>11, Counters DEF read_byte, PipeInv, TypeOK
  <2>2. i' \in [Procs -> 0..MAXN]
    BY SMTT(30), <1>11 DEF read_byte, PipeInv, TypeOK
  <2> QED BY <1>11, <2>1, <2>2 DEF read_byte, PipeInv, TypeOK
<1>12. CASE read_fault(p)
  <2>1. nread' \in 0..(UINT - 1)
    BY <1>12, Counters DEF read_fault, PipeInv, TypeOK
  <2>2. pc' \in [Procs -> {"user"} \cup InRead \cup InWrite \cup InClose]
    BY <1>12 DEF read_fault, PipeInv, TypeOK
  <2> QED BY SMTT(30), <1>12, <2>1, <2>2 DEF read_fault, PipeInv, TypeOK
<1>13. CASE read_done(p)
  BY SMTT(30), <1>13 DEF read_done, PipeInv, TypeOK
<1>14. CASE close(p)
  BY <1>14 DEF close, PipeInv, TypeOK
<1>15. ASSUME NEW k \in 0..MAXN, write(p, k) PROVE TypeOK'
  BY <1>15 DEF write, PipeInv, TypeOK
<1>16. ASSUME NEW k \in 0..MAXN, read(p, k) PROVE TypeOK'
  BY <1>16 DEF read, PipeInv, TypeOK
<1>17. ASSUME NEW q \in Procs, fork(p, q) PROVE TypeOK'
  BY <1>17 DEF fork, PipeInv, TypeOK
<1>18. CASE kill(p)
  BY <1>18 DEF kill, PipeInv, TypeOK
<1> QED BY <1>1, <1>2, <1>3, <1>4, <1>5, <1>6, <1>7, <1>8, <1>9, <1>10, <1>11,
   <1>12, <1>13, <1>14, <1>15, <1>16, <1>17, <1>18 DEF Step, Kernel

\* Steps keep that pi->lock excludes.
LEMMA LockedStep ==
  ASSUME PipeInv, NEW p \in Procs, Step(p)
  PROVE  Locked'
<1>1. CASE acquire(p)
  BY <1>1 DEF acquire, PipeInv, TypeOK, Locked
<1>2. CASE sleep(p)
  BY SMTT(30), <1>2 DEF sleep, PipeInv, TypeOK, Locked
<1>3. CASE pipeclose(p)
  BY SMTT(30), <1>3 DEF pipeclose, PipeInv, TypeOK, Locked, Ends
<1>4. CASE write_fails(p)
  BY SMTT(30), <1>4 DEF write_fails, PipeInv, TypeOK, Locked
<1>5. CASE write_full(p)
  BY <1>5 DEF write_full, PipeInv, TypeOK, Locked
<1>6. CASE write_done(p)
  BY <1>6 DEF write_done, PipeInv, TypeOK, Locked
<1>7. ASSUME NEW b \in Bytes, write_byte(p, b) PROVE Locked'
  BY <1>7 DEF write_byte, PipeInv, TypeOK, Locked
<1>8. CASE read_killed(p)
  BY SMTT(30), <1>8 DEF read_killed, PipeInv, TypeOK, Locked
<1>9. CASE read_wait(p)
  BY <1>9 DEF read_wait, PipeInv, TypeOK, Locked
<1>10. CASE read_start(p)
  BY <1>10 DEF read_start, PipeInv, TypeOK, Locked
<1>11. CASE read_byte(p)
  BY <1>11 DEF read_byte, PipeInv, TypeOK, Locked
<1>12. CASE read_fault(p)
  BY <1>12 DEF read_fault, PipeInv, TypeOK, Locked
<1>13. CASE read_done(p)
  BY <1>13 DEF read_done, PipeInv, TypeOK, Locked
<1>14. CASE close(p)
  <2>1. CASE rfd' = rfd \ {p} /\ rfd' = {} /\ wfd' = wfd /\ Goto(p, "close_r")
    BY <1>14, <2>1 DEF close, PipeInv, TypeOK, Locked
  <2>2. CASE rfd' = rfd \ {p} /\ rfd' # {} /\ wfd' = wfd /\ Goto(p, "user")
    BY <1>14, <2>2 DEF close, PipeInv, TypeOK, Locked
  <2>3. CASE wfd' = wfd \ {p} /\ wfd' = {} /\ rfd' = rfd /\ Goto(p, "close_w")
    BY <1>14, <2>3 DEF close, PipeInv, TypeOK, Locked
  <2>4. CASE wfd' = wfd \ {p} /\ wfd' # {} /\ rfd' = rfd /\ Goto(p, "user")
    BY <1>14, <2>4 DEF close, PipeInv, TypeOK, Locked
  <2> QED BY <1>14, <2>1, <2>2, <2>3, <2>4 DEF close
<1>15. ASSUME NEW k \in 0..MAXN, write(p, k) PROVE Locked'
  BY <1>15 DEF write, PipeInv, TypeOK, Locked
<1>16. ASSUME NEW k \in 0..MAXN, read(p, k) PROVE Locked'
  BY <1>16 DEF read, PipeInv, TypeOK, Locked
<1>17. ASSUME NEW q \in Procs, fork(p, q) PROVE Locked'
  BY <1>17 DEF fork, PipeInv, TypeOK, Locked
<1>18. CASE kill(p)
  BY <1>18 DEF kill, PipeInv, TypeOK, Locked
<1> QED BY <1>1, <1>2, <1>3, <1>4, <1>5, <1>6, <1>7, <1>8, <1>9, <1>10, <1>11,
   <1>12, <1>13, <1>14, <1>15, <1>16, <1>17, <1>18 DEF Step, Kernel

\* A step that leaves the ends and their descriptors alone, and brings nobody to
\* the other side of a descriptor.
SameEnds ==
  /\ UNCHANGED <<readopen, writeopen, allocated, rfd, wfd>>
  /\ \A q \in Procs : /\ pc'[q] = "close_r" <=> pc[q] = "close_r"
                      /\ pc'[q] = "close_w" <=> pc[q] = "close_w"
                      /\ pc'[q] \in InRead => pc[q] \in InRead \/ q \in rfd
                      /\ pc'[q] \in InWrite => pc[q] \in InWrite \/ q \in wfd

\* Such a step keeps Ends.
LEMMA SameEndsKeeps == Ends /\ SameEnds => Ends'
  BY SMTT(30) DEF Ends, SameEnds

\* Steps keep that an end is open as long as somebody may use it.
LEMMA EndsStep ==
  ASSUME PipeInv, NEW p \in Procs, Step(p)
  PROVE  Ends'
<1> USE DEF PipeInv
<1>1. acquire(p) \/ write_fails(p) \/ read_killed(p) \/ read_wait(p) \/ read_start(p)
      => SameEnds
  BY SMTT(30) DEF acquire, write_fails, read_killed, read_wait, read_start, SameEnds, TypeOK
<1>2. write_full(p) \/ write_done(p) => SameEnds
  BY SMTT(30) DEF write_full, write_done, SameEnds, TypeOK
<1>3. (\E b \in Bytes : write_byte(p, b)) \/ read_byte(p) => SameEnds
  BY DEF write_byte, read_byte, SameEnds, TypeOK
<1>4. read_fault(p) \/ read_done(p) => SameEnds
  BY SMTT(30) DEF read_fault, read_done, SameEnds, TypeOK
<1>5. (\E k \in 0..MAXN : write(p, k) \/ read(p, k)) => SameEnds
  BY SMTT(30) DEF write, read, SameEnds, TypeOK
<1>6. sleep(p) => SameEnds
  BY DEF sleep, SameEnds, TypeOK
<1>7. kill(p) => SameEnds
  BY SMTT(30) DEF kill, SameEnds, TypeOK
<1>8. CASE \E q \in Procs : fork(p, q)
  <2>1. UNCHANGED <<readopen, writeopen, allocated, pc>>
    BY <1>8 DEF fork, TypeOK
  <2>2. /\ rfd \subseteq rfd' /\ (rfd = {} => rfd' = {})
        /\ wfd \subseteq wfd' /\ (wfd = {} => wfd' = {})
    BY <1>8 DEF fork, TypeOK
  <2> QED BY <2>1, <2>2 DEF Ends
<1>9. CASE close(p)
  <2>1. UNCHANGED <<readopen, writeopen, allocated>> /\ pc[p] = "user"
    BY <1>9 DEF close, TypeOK
  <2>2. CASE p \in rfd /\ rfd' = rfd \ {p} /\ rfd' = {} /\ wfd' = wfd /\ Goto(p, "close_r")
    <3>1. pc'[p] = "close_r" /\ \A q \in Procs : q # p => pc'[q] = pc[q]
      BY <2>2 DEF TypeOK
    <3>2. \A q \in Procs : pc[q] # "close_r" /\ (pc[q] \in InRead => q = p)
      BY <2>2 DEF Ends
    <3>3. (\E q \in Procs : pc'[q] = "close_w") <=> \E q \in Procs : pc[q] = "close_w"
      BY <2>1, <3>1
    <3> QED BY SMTT(30), <2>1, <2>2, <3>1, <3>2, <3>3 DEF Ends
  <2>3. CASE p \in rfd /\ rfd' = rfd \ {p} /\ rfd' # {} /\ wfd' = wfd /\ Goto(p, "user")
    <3>1. \A q \in Procs : pc'[q] = pc[q]
      BY <2>1, <2>3 DEF TypeOK
    <3>2. \A q \in Procs : pc[q] \in InRead => q # p
      BY <2>1 DEF InRead
    <3>3. \A q \in rfd : q # p => q \in rfd'
      BY <2>3
    <3> QED BY SMTT(30), <2>1, <2>3, <3>1, <3>2, <3>3 DEF Ends
  <2>4. CASE p \in wfd /\ wfd' = wfd \ {p} /\ wfd' = {} /\ rfd' = rfd /\ Goto(p, "close_w")
    <3>1. pc'[p] = "close_w" /\ \A q \in Procs : q # p => pc'[q] = pc[q]
      BY <2>4 DEF TypeOK
    <3>2. \A q \in Procs : pc[q] # "close_w" /\ (pc[q] \in InWrite => q = p)
      BY <2>4 DEF Ends
    <3>3. (\E q \in Procs : pc'[q] = "close_r") <=> \E q \in Procs : pc[q] = "close_r"
      BY <2>1, <3>1
    <3> QED BY SMTT(30), <2>1, <2>4, <3>1, <3>2, <3>3 DEF Ends
  <2>5. CASE p \in wfd /\ wfd' = wfd \ {p} /\ wfd' # {} /\ rfd' = rfd /\ Goto(p, "user")
    <3>1. \A q \in Procs : pc'[q] = pc[q]
      BY <2>1, <2>5 DEF TypeOK
    <3>2. \A q \in Procs : pc[q] \in InWrite => q # p
      BY <2>1 DEF InWrite
    <3>3. \A q \in wfd : q # p => q \in wfd'
      BY <2>5
    <3> QED BY SMTT(30), <2>1, <2>5, <3>1, <3>2, <3>3 DEF Ends
  <2> QED BY <1>9, <2>2, <2>3, <2>4, <2>5 DEF close
<1>10. CASE pipeclose(p)
  <2>1. CASE pc[p] = "close_r"
    <3>1. /\ ~readopen' /\ writeopen' = writeopen /\ UNCHANGED <<rfd, wfd>>
          /\ allocated' <=> allocated /\ writeopen
      BY SMTT(30), <1>10, <2>1 DEF pipeclose, TypeOK
    <3>2. rfd = {} /\ \A q \in Procs : pc'[q] # "close_r"
      <4>1. rfd = {} /\ \A q \in Procs : pc[q] = "close_r" => q = p
        BY <2>1 DEF Ends
      <4> QED BY <1>10, <2>1, <4>1 DEF pipeclose, TypeOK
    <3>3. \A q \in Procs : /\ pc'[q] = "close_w" <=> pc[q] = "close_w"
                           /\ pc'[q] \in InRead => pc[q] \in InRead
                           /\ pc'[q] \in InWrite => pc[q] \in InWrite
      BY SMTT(30), <1>10, <2>1 DEF pipeclose, TypeOK
    <3>4. (writeopen <=> wfd # {} \/ \E q \in Procs : pc[q] = "close_w")'
      <4>1. writeopen <=> wfd # {} \/ \E q \in Procs : pc[q] = "close_w"
        BY DEF Ends
      <4>2. (\E q \in Procs : pc[q] = "close_w")' <=> \E q \in Procs : pc[q] = "close_w"
        BY <3>3
      <4> QED BY <3>1, <4>1, <4>2
    <3>5. (allocated <=> readopen \/ writeopen)'
      BY <3>1 DEF Ends
    <3>6. (readopen <=> rfd # {} \/ \E q \in Procs : pc[q] = "close_r")'
      BY <3>1, <3>2
    <3> QED BY <3>1, <3>2, <3>3, <3>4, <3>5, <3>6 DEF Ends
  <2>2. CASE pc[p] = "close_w"
    <3>1. /\ ~writeopen' /\ readopen' = readopen /\ UNCHANGED <<rfd, wfd>>
          /\ allocated' <=> allocated /\ readopen
      BY SMTT(30), <1>10, <2>2 DEF pipeclose, TypeOK
    <3>2. wfd = {} /\ \A q \in Procs : pc'[q] # "close_w"
      <4>1. wfd = {} /\ \A q \in Procs : pc[q] = "close_w" => q = p
        BY <2>2 DEF Ends
      <4> QED BY <1>10, <2>2, <4>1 DEF pipeclose, TypeOK
    <3>3. \A q \in Procs : /\ pc'[q] = "close_r" <=> pc[q] = "close_r"
                           /\ pc'[q] \in InRead => pc[q] \in InRead
                           /\ pc'[q] \in InWrite => pc[q] \in InWrite
      BY SMTT(30), <1>10, <2>2 DEF pipeclose, TypeOK
    <3>4. (readopen <=> rfd # {} \/ \E q \in Procs : pc[q] = "close_r")'
      <4>1. readopen <=> rfd # {} \/ \E q \in Procs : pc[q] = "close_r"
        BY DEF Ends
      <4>2. (\E q \in Procs : pc[q] = "close_r")' <=> \E q \in Procs : pc[q] = "close_r"
        BY <3>3
      <4> QED BY <3>1, <4>1, <4>2
    <3>5. (allocated <=> readopen \/ writeopen)'
      BY <3>1 DEF Ends
    <3>6. (writeopen <=> wfd # {} \/ \E q \in Procs : pc[q] = "close_w")'
      BY <3>1, <3>2
    <3> QED BY <3>1, <3>2, <3>3, <3>4, <3>5, <3>6 DEF Ends
  <2> QED BY <1>10, <2>1, <2>2 DEF pipeclose
<1> QED BY <1>1, <1>2, <1>3, <1>4, <1>5, <1>6, <1>7, <1>8, <1>9, <1>10, SameEndsKeeps
        DEF Step, Kernel

\* A step that changes nothing a sleeper waits for, and puts nobody to sleep.
SameSleepers ==
  /\ Full' = Full /\ Empty' = Empty /\ UNCHANGED <<readopen, writeopen, untold>>
  /\ \A q \in Procs :
       /\ pc'[q] \in {"wsleep", "rsleep", "wchan", "rchan"} => pc[q] = pc'[q]
       /\ pc[q] \in {"copy", "loop"} => pc'[q] = pc[q] /\ i'[q] = i[q]

\* Such a step keeps Sleepers.
LEMMA SameSleepersKeeps == Sleepers /\ SameSleepers => Sleepers'
  BY SMTT(30) DEF Sleepers, SameSleepers

\* A step that moves neither counter leaves the pipe as full or empty as it was.
LEMMA SameCount == UNCHANGED <<nread, nwrite>> => Full' = Full /\ Empty' = Empty
  BY DEF Full, Empty

\* While one process is in a place that holds the lock, no other is.
LEMMA Alone ==
  ASSUME PipeInv, NEW p \in Procs, NEW q \in Procs, pc[p] \in Locking, pc[q] \in Locking
  PROVE  p = q
  BY DEF PipeInv, Locked

\* Steps keep that a sleeper has a reason to sleep, or a waker.
LEMMA SleepersStep ==
  ASSUME PipeInv, NEW p \in Procs, Step(p)
  PROVE  Sleepers'
<1>1. acquire(p) \/ read_killed(p) \/ read_start(p) => SameSleepers
  BY SameCount DEF acquire, read_killed, read_start, SameSleepers, PipeInv, TypeOK
<1>2. close(p) \/ kill(p) => SameSleepers
  BY SMTT(30), SameCount DEF close, kill, SameSleepers, PipeInv, TypeOK
<1>3. (\E q \in Procs : fork(p, q)) => SameSleepers
  BY SameCount DEF fork, SameSleepers, PipeInv, TypeOK
<1>4. (\E k \in 0..MAXN : write(p, k) \/ read(p, k)) => SameSleepers
  BY SameCount DEF write, read, SameSleepers, PipeInv, TypeOK
<1>5. CASE sleep(p)
  <2>1. Full' = Full /\ Empty' = Empty /\ UNCHANGED <<readopen, writeopen, untold>>
    BY <1>5, SameCount DEF sleep
  <2>2. \A q \in Procs \ {p} : pc'[q] = pc[q] /\ pc[q] \notin Locking
    BY <1>5, Alone DEF sleep, PipeInv, TypeOK
  <2>3. CASE pc[p] = "rsleep" /\ pc'[p] = "rchan"
    BY <2>1, <2>2, <2>3 DEF PipeInv, Sleepers
  <2>4. CASE pc[p] = "wsleep" /\ pc'[p] = "wchan"
    BY <2>1, <2>2, <2>4 DEF PipeInv, Sleepers
  <2> QED BY <1>5, <2>3, <2>4 DEF sleep, PipeInv, TypeOK
<1>6. CASE pipeclose(p)
  <2>1. Full' = Full /\ Empty' = Empty
    BY <1>6, SameCount DEF pipeclose
  <2>2. \A q \in Procs : pc[q] \notin Locking
    BY <1>6 DEF pipeclose, PipeInv, Locked
  <2>3. CASE pc[p] = "close_r" /\ writeopen' = writeopen /\ WakeAndGoto("wchan", p, "user")
            /\ untold' = untold
    BY <2>1, <2>2, <2>3 DEF PipeInv, TypeOK, Sleepers
  <2>4. CASE pc[p] = "close_w" /\ readopen' = readopen /\ WakeAndGoto("rchan", p, "user")
    BY <2>1, <2>2, <2>4 DEF PipeInv, TypeOK, Sleepers
  <2> QED BY <1>6, <2>3, <2>4 DEF pipeclose
<1>7. CASE write_fails(p)
  <2>1. /\ Full' = Full /\ Empty' = Empty /\ UNCHANGED <<readopen, writeopen>>
        /\ untold' = (untold \/ i[p] > 0)
    BY <1>7, SameCount DEF write_fails
  <2>2. pc[p] = "loop" /\ pc'[p] = "user"
    BY <1>7 DEF write_fails, PipeInv, TypeOK
  <2>3. \A q \in Procs \ {p} : pc'[q] = pc[q] /\ pc[q] \notin Locking
    BY <1>7, <2>2, Alone DEF write_fails, PipeInv, TypeOK
  <2> QED BY <2>1, <2>2, <2>3 DEF PipeInv, Sleepers
<1>8. CASE write_full(p) \/ write_done(p)
  <2>1. Full' = Full /\ Empty' = Empty /\ UNCHANGED <<readopen, writeopen>>
    BY <1>8, SameCount DEF write_full, write_done
  <2>2. pc[p] = "loop" /\ \/ pc'[p] = "user"
                          \/ pc'[p] = "wsleep" /\ Full /\ readopen
    BY <1>8 DEF write_full, write_done, PipeInv, TypeOK
  <2>3. \A q \in Procs : pc'[q] # "rchan"
    BY <1>8 DEF write_full, write_done, PipeInv, TypeOK
  <2>4. \A q \in Procs \ {p} : /\ pc'[q] \in {pc[q], "read"}
                               /\ pc[q] \notin Locking
    BY SMTT(30), <1>8, <2>2, Alone DEF write_full, write_done, PipeInv, TypeOK
  <2> QED BY <2>1, <2>2, <2>3, <2>4 DEF PipeInv, Sleepers
<1>9. ASSUME NEW b \in Bytes, write_byte(p, b) PROVE Sleepers'
  <2>1. pc[p] = "loop" /\ ~Full /\ UNCHANGED <<readopen, writeopen, untold, pc>>
    BY <1>9 DEF write_byte
  <2>2. \A q \in Procs : pc[q] \notin {"copy", "wsleep", "rsleep"}
    BY <2>1, Alone
  <2>3. i'[p] > 0
    BY SMTT(30), <1>9 DEF write_byte, PipeInv, TypeOK
  <2> QED BY <2>1, <2>2, <2>3 DEF PipeInv, Sleepers
<1>10. CASE read_wait(p)
  <2>1. Full' = Full /\ Empty' = Empty /\ UNCHANGED <<readopen, writeopen, untold>>
    BY <1>10, SameCount DEF read_wait
  <2>2. pc[p] = "while" /\ pc'[p] = "rsleep" /\ Empty /\ writeopen
    BY <1>10 DEF read_wait, PipeInv, TypeOK
  <2>3. \A q \in Procs \ {p} : pc'[q] = pc[q] /\ pc[q] \notin Locking
    BY <1>10, <2>2, Alone DEF read_wait, PipeInv, TypeOK
  <2> QED BY <2>1, <2>2, <2>3 DEF PipeInv, Sleepers
<1>11. CASE read_byte(p)
  <2>1. pc[p] = "copy" /\ ~Empty /\ UNCHANGED <<readopen, writeopen, untold, pc>>
    BY <1>11 DEF read_byte
  <2>2. \A q \in Procs : pc[q] \notin {"loop", "wsleep", "rsleep"}
    BY <2>1, Alone
  <2> QED BY <2>1, <2>2 DEF PipeInv, Sleepers
<1>12. CASE read_fault(p)
  <2>1. pc[p] = "copy" /\ ~Empty /\ UNCHANGED <<readopen, writeopen, untold>>
    BY <1>12 DEF read_fault
  <2>2. \A q \in Procs : pc[q] \notin {"loop", "wsleep", "rsleep"}
    BY <2>1, Alone
  <2>3. \A q \in Procs : pc'[q] \in {"user", "write", pc[q]} \ {"wchan"}
    BY <1>12 DEF read_fault, PipeInv, TypeOK
  <2> QED BY <2>1, <2>2, <2>3 DEF PipeInv, Sleepers
<1>13. CASE read_done(p)
  <2>1. Full' = Full /\ Empty' = Empty /\ UNCHANGED <<readopen, writeopen, untold>>
    BY <1>13, SameCount DEF read_done
  <2>2. pc[p] = "copy"
    BY <1>13 DEF read_done
  <2>3. \A q \in Procs : pc[q] \notin {"loop", "wsleep", "rsleep"}
    BY <2>2, Alone
  <2>4. \A q \in Procs : pc'[q] \in {"user", "write", pc[q]} \ {"wchan"}
    BY <1>13 DEF read_done, PipeInv, TypeOK
  <2> QED BY <2>1, <2>2, <2>3, <2>4 DEF PipeInv, Sleepers
<1>14. CASE SameSleepers
  BY <1>14, SameSleepersKeeps DEF PipeInv
<1> QED BY <1>1, <1>2, <1>3, <1>4, <1>5, <1>6, <1>7, <1>8, <1>9, <1>10, <1>11, <1>12,
           <1>13, <1>14 DEF Step, Kernel

\* A step that brings no byte, no writer and no new reader of a byte.
SameEof ==
  /\ Empty' = Empty /\ UNCHANGED eof
  /\ writeopen' => writeopen
  /\ wfd = {} => wfd' = {}
  /\ \A q \in Procs : pc'[q] = "copy" => pc[q] = "copy" /\ i'[q] = i[q]

\* Such a step keeps Eof.
LEMMA SameEofKeeps == Eof /\ SameEof => Eof'
  BY SMTT(30) DEF Eof, SameEof

\* Steps keep that end of file is final.
LEMMA EofStep ==
  ASSUME PipeInv, NEW p \in Procs, Step(p)
  PROVE  Eof'
<1>1. acquire(p) \/ sleep(p) \/ write_fails(p) \/ read_killed(p) \/ read_wait(p) => SameEof
  BY SMTT(30), SameCount
  DEF acquire, sleep, write_fails, read_killed, read_wait, SameEof, PipeInv, TypeOK
<1>2. write_full(p) \/ write_done(p) => SameEof
  <2>1. write_full(p) => SameEof
    BY SMTT(30), SameCount DEF write_full, SameEof, PipeInv, TypeOK
  <2>2. write_done(p) => SameEof
    BY SMTT(30), SameCount DEF write_done, SameEof, PipeInv, TypeOK
  <2> QED BY <2>1, <2>2
<1>3. close(p) \/ kill(p) => SameEof
  BY SMTT(30), SameCount DEF close, kill, SameEof, PipeInv, TypeOK
<1>4. (\E q \in Procs : fork(p, q)) => SameEof
  BY SMTT(30), SameCount DEF fork, SameEof, PipeInv, TypeOK
<1>5. (\E k \in 0..MAXN : write(p, k) \/ read(p, k)) => SameEof
  BY SMTT(30), SameCount DEF write, read, SameEof, PipeInv, TypeOK
<1>6. pipeclose(p) => SameEof
  <2>1. pipeclose(p) => UNCHANGED <<nread, nwrite, eof, wfd, i>> /\ (writeopen' => writeopen)
    BY SMTT(30) DEF pipeclose
  <2>2. pipeclose(p) => \A q \in Procs : pc'[q] = "copy" => pc[q] = "copy"
    BY DEF pipeclose, PipeInv, TypeOK
  <2> QED BY <2>1, <2>2, SameCount DEF SameEof
<1>7. CASE read_start(p)
  <2>1. Empty' = Empty
    BY <1>7, SameCount DEF read_start
  <2> QED BY <1>7, <2>1 DEF read_start, PipeInv, TypeOK, Eof
<1>8. ASSUME NEW b \in Bytes, write_byte(p, b) PROVE Eof'
  <2>1. pc[p] = "loop" /\ UNCHANGED <<pc, eof>>
    BY <1>8 DEF write_byte
  <2>2. wfd # {}
    BY <2>1 DEF PipeInv, Ends
  <2>3. \A q \in Procs : pc[q] # "copy"
    BY <2>1, Alone
  <2> QED BY <2>1, <2>2, <2>3 DEF PipeInv, Eof
<1>9. CASE read_byte(p)
  <2>1. pc[p] = "copy" /\ ~Empty /\ UNCHANGED <<pc, eof>>
    BY <1>9 DEF read_byte
  <2>2. i'[p] # 0
    BY SMTT(30), <1>9 DEF read_byte, PipeInv, TypeOK
  <2>3. \A q \in Procs \ {p} : pc[q] # "copy"
    BY <2>1, Alone
  <2> QED BY <2>1, <2>2, <2>3 DEF PipeInv, Eof
<1>10. CASE read_fault(p)
  <2>1. /\ pc[p] = "copy" /\ ~Empty /\ p \in BadBuf
        /\ \A q \in Procs \ {p} : eof'[q] = eof[q]
    BY <1>10 DEF read_fault, PipeInv, TypeOK
  <2>2. \A q \in Procs : pc'[q] # "copy"
    BY <1>10, <2>1, Alone DEF read_fault, PipeInv, TypeOK
  <2> QED BY <2>1, <2>2 DEF PipeInv, Eof
<1>11. CASE read_done(p)
  <2>1. pc[p] = "copy" /\ UNCHANGED <<writeopen, wfd>> /\ Empty' = Empty
    BY <1>11, SameCount DEF read_done
  <2>2. \A q \in Procs : pc'[q] # "copy"
    BY <1>11, <2>1, Alone DEF read_done, PipeInv, TypeOK
  <2>3. \A q \in Procs \ {p} : eof'[q] = eof[q]
    BY <1>11 DEF read_done, PipeInv, TypeOK
  <2>4. ASSUME eof'[p], p \notin BadBuf PROVE Empty /\ ~writeopen /\ wfd = {}
    <3>1. CASE eof[p]
      BY <2>4, <3>1 DEF PipeInv, Eof
    <3>2. CASE i[p] = 0 /\ n[p] > 0
      <4>1. Empty
        BY SMTT(30), <1>11, <3>2 DEF read_done, PipeInv, TypeOK
      <4>2. ~writeopen
        BY <2>1, <3>2, <4>1 DEF PipeInv, Eof
      <4> QED BY <4>1, <4>2 DEF PipeInv, Ends
    <3> QED BY <1>11, <2>4, <3>1, <3>2 DEF read_done, PipeInv, TypeOK
  <2> QED BY <2>1, <2>2, <2>3, <2>4 DEF PipeInv, Eof
<1>12. CASE SameEof
  BY <1>12, SameEofKeeps DEF PipeInv
<1> QED BY <1>1, <1>2, <1>3, <1>4, <1>5, <1>6, <1>7, <1>8, <1>9, <1>10, <1>11, <1>12
        DEF Step, Kernel

\* What the counters say: the count is the distance of the two, and shows when the
\* pipe is full and empty.
LEMMA Counting ==
  ASSUME TypeOK, Fits
  PROVE  /\ Count = IF nwrite >= nread THEN nwrite - nread ELSE nwrite - nread + UINT
         /\ nwrite = Mod(nread + Count)
         /\ Full <=> Count = PIPESIZE
         /\ Empty <=> Count = 0
<1>1. nread \in 0..(UINT - 1) /\ nwrite \in 0..(UINT - 1) /\ Count \in 0..PIPESIZE
  BY DEF TypeOK, Fits
<1>2. Count = Mod(nwrite - nread) /\ (Full <=> nwrite = Mod(nread + PIPESIZE))
  BY DEF Count, Full, Mod
<1>3. Count = IF nwrite >= nread THEN nwrite - nread ELSE nwrite - nread + UINT
  BY SMTT(30), <1>1, <1>2, Ring
<1>4. nwrite = Mod(nread + Count)
  BY SMTT(30), <1>1, <1>3, Ring
<1>5. Full <=> Count = PIPESIZE
  BY SMTT(30), <1>1, <1>2, <1>3, Ring
<1>6. Empty <=> Count = 0
  BY SMTT(30), <1>1, <1>3, Ring DEF Empty
<1> QED BY <1>3, <1>4, <1>5, <1>6

\* A byte in makes one more, a byte out one less.
LEMMA CountNext ==
  ASSUME TypeOK, Fits
  PROVE  /\ ~Full /\ nwrite' = Mod(nwrite + 1) /\ nread' = nread => Count' = Count + 1
         /\ ~Empty /\ nread' = Mod(nread + 1) /\ nwrite' = nwrite => Count' = Count - 1
<1>1. nread \in 0..(UINT - 1) /\ nwrite \in 0..(UINT - 1) /\ Count \in 0..PIPESIZE
  BY DEF TypeOK, Fits
<1>2. Count' = Mod(nwrite' - nread')
  BY DEF Count, Mod
<1>3. ASSUME ~Full, nwrite' = Mod(nwrite + 1), nread' = nread PROVE Count' = Count + 1
  <2>1. nwrite' = IF nwrite + 1 < UINT THEN nwrite + 1 ELSE 0
    BY SMTT(30), <1>1, <1>3, Ring
  <2>2. Mod(nwrite' - nread') =
          IF nwrite' >= nread' THEN nwrite' - nread' ELSE nwrite' - nread' + UINT
    BY SMTT(30), <1>1, <1>3, <2>1, Ring
  <2> QED BY SMTT(30), <1>1, <1>2, <1>3, <2>1, <2>2, Counting, Ring
<1>4. ASSUME ~Empty, nread' = Mod(nread + 1), nwrite' = nwrite PROVE Count' = Count - 1
  <2>1. nread' = IF nread + 1 < UINT THEN nread + 1 ELSE 0
    BY SMTT(30), <1>1, <1>4, Ring
  <2>2. Mod(nwrite' - nread') =
          IF nwrite' >= nread' THEN nwrite' - nread' ELSE nwrite' - nread' + UINT
    BY SMTT(30), <1>1, <1>4, <2>1, Ring
  <2> QED BY SMTT(30), <1>1, <1>2, <1>4, <2>1, <2>2, Counting, Ring
<1> QED BY <1>3, <1>4

\* Steps keep that the ring holds at most PIPESIZE bytes.
LEMMA FitsStep ==
  ASSUME PipeInv, NEW p \in Procs, Step(p)
  PROVE  Fits'
<1>1. CASE UNCHANGED <<nread, nwrite>>
  BY <1>1 DEF PipeInv, Fits, Count
<1>2. ASSUME NEW b \in Bytes, write_byte(p, b) PROVE Fits'
  <2>1. ~Full /\ nwrite' = Mod(nwrite + 1) /\ nread' = nread
    BY <1>2 DEF write_byte, Mod
  <2> QED BY SMTT(30), <2>1, Counting, CountNext DEF PipeInv, Fits
<1>3. CASE read_byte(p) \/ read_fault(p)
  <2>1. ~Empty /\ nread' = Mod(nread + 1) /\ nwrite' = nwrite
    BY <1>3 DEF read_byte, read_fault, Mod
  <2> QED BY SMTT(30), <2>1, Counting, CountNext DEF PipeInv, Fits
<1>4. CASE \/ acquire(p) \/ sleep(p) \/ pipeclose(p)
           \/ write_fails(p) \/ write_full(p) \/ write_done(p)
  BY <1>1, <1>4 DEF acquire, sleep, pipeclose, write_fails, write_full, write_done
<1>5. CASE \/ read_killed(p) \/ read_wait(p) \/ read_start(p) \/ read_done(p)
           \/ close(p) \/ kill(p)
  BY <1>1, <1>5 DEF read_killed, read_wait, read_start, read_done, close, kill
<1>6. CASE \/ \E k \in 0..MAXN : write(p, k) \/ read(p, k)
           \/ \E q \in Procs : fork(p, q)
  BY <1>1, <1>6 DEF write, read, fork
<1> QED BY <1>2, <1>3, <1>4, <1>5, <1>6 DEF Step, Kernel


\* The invariant holds when pipe() returns.
LEMMA InitPipeInv == Init => PipeInv
<1> SUFFICES ASSUME Init PROVE PipeInv
  OBVIOUS
<1>1. TypeOK
  <2>1. 0 \in 0..(UINT - 1) /\ 0 \in 0..MAXN
    BY SMTT(30), Counters
  <2> QED BY <2>1 DEF Init, TypeOK
<1>2. Locked /\ Ends
  BY DEF Init, Locked, Ends
<1>3. Sleepers /\ Eof
  BY DEF Init, Sleepers, Eof
<1>4. Fits
  BY SMTT(30), Ring DEF Init, Fits, Count, Mod
<1> QED BY <1>1, <1>2, <1>3, <1>4 DEF PipeInv

\* Every step keeps it.
LEMMA NextPipeInv == PipeInv /\ [Next]_vars => PipeInv'
<1> SUFFICES ASSUME PipeInv, [Next]_vars PROVE PipeInv'
  OBVIOUS
<1>1. ASSUME Next PROVE PipeInv'
  <2>1. PICK p \in Procs : Step(p)
    BY <1>1 DEF Next, Step
  <2> QED BY <2>1, TypeOKStep, LockedStep, EndsStep, SleepersStep, EofStep, FitsStep
         DEF PipeInv
<1>2. CASE UNCHANGED vars
  <2>1. TypeOK' /\ Locked'
    BY <1>2 DEF vars, PipeInv, TypeOK, Locked
  <2>2. Ends'
    BY <1>2 DEF vars, PipeInv, Ends
  <2>3. Sleepers' /\ Eof'
    BY SMTT(30), <1>2, SameCount DEF vars, PipeInv, Sleepers, Eof
  <2>4. Fits'
    BY <1>2 DEF vars, PipeInv, Fits, Count
  <2> QED BY <2>1, <2>2, <2>3, <2>4 DEF PipeInv
<1> QED BY <1>1, <1>2

\* The inductive invariant holds in every reachable state.
THEOREM PipeInvariance == Spec => []PipeInv
<1> QED BY InitPipeInv, NextPipeInv, PTL DEF Spec

----------------------------------------------------------------------------
(* Theorems *)

\* For every number of processes and every size of the ring, pipeclose() frees
\* the page when, and only when, nobody has or uses the pipe any more.
THEOREM PageLives == Spec => []PageLife
<1>1. PipeInv => PageLife
  BY DEF PipeInv, TypeOK, Ends, PageLife
<1> QED BY <1>1, PipeInvariance, PTL

\* For every number of processes and every size of the ring, nobody sleeps in
\* pipe.c over something to do but what a killed writer left untold, and end of
\* file is final for who reads into mapped memory.
THEOREM BlockingIsRight == Spec => []BlocksRightly
<1>1. PipeInv => NoMissedWakeup
  <2> SUFFICES ASSUME PipeInv, lock = {}, NEW p \in Procs
               PROVE  /\ pc[p] = "wchan" => Full /\ readopen
                      /\ pc[p] = "rchan" => writeopen /\ (Empty \/ untold)
    BY DEF NoMissedWakeup
  <2>1. \A q \in Procs : pc[q] \notin {"copy", "loop"}
    BY DEF PipeInv, Locked
  <2> QED BY <2>1 DEF PipeInv, Sleepers
<1>2. PipeInv => EofIsFinal
  BY DEF PipeInv, Eof, EofIsFinal
<1> QED BY <1>1, <1>2, PipeInvariance, PTL DEF BlocksRightly

----------------------------------------------------------------------------
(* The refinement *)

\* The contents are a sequence of the bytes at their places.
LEMMA ContentsAreSeq ==
  TypeOK /\ Fits =>
    /\ Contents \in Seq(Bytes \cup {NoByte})
    /\ Len(Contents) = Count
    /\ \A k \in 1..Count : Contents[k] = data[Place(nread, k - 1)]
<1> SUFFICES ASSUME TypeOK, Fits
             PROVE  /\ Contents \in Seq(Bytes \cup {NoByte})
                    /\ Len(Contents) = Count
                    /\ \A k \in 1..Count : Contents[k] = data[Place(nread, k - 1)]
  OBVIOUS
<1>1. Count \in Nat
  BY SMTT(30) DEF Fits
<1>2. \A k \in 1..Count : data[Place(nread, k - 1)] \in Bytes \cup {NoByte}
  <2> SUFFICES ASSUME NEW k \in 1..Count PROVE Place(nread, k - 1) \in 0..(PIPESIZE - 1)
    BY DEF Fits, TypeOK
  <2>1. nread \in 0..(UINT - 1) /\ k - 1 \in 0..PIPESIZE
    BY SMTT(30) DEF Fits, TypeOK
  <2>2. Mod(nread + (k - 1)) \in 0..(UINT - 1)
    BY SMTT(30), <2>1, Ring
  <2> QED BY <2>2, Counters DEF Place
<1>3. Contents = [k \in 1..Count |-> data[Place(nread, k - 1)]]
  <2> SUFFICES ASSUME NEW k \in 1..Count PROVE nread + k - 1 = nread + (k - 1)
    BY DEF Contents, Place, Mod
  <2> QED BY <1>1 DEF Fits, TypeOK
<1> QED BY SMTT(30), <1>1, <1>2, <1>3, IsASeq

\* The same of the next state.
LEMMA ContentsAreSeqNext ==
  (TypeOK /\ Fits)' =>
    (/\ Contents \in Seq(Bytes \cup {NoByte})
     /\ Len(Contents) = Count
     /\ \A k \in 1..Count : Contents[k] = data[Place(nread, k - 1)])'
  BY ContentsAreSeq, PTL

\* A write of a byte appends it.
LEMMA WriteAppends ==
  ASSUME TypeOK, Fits, TypeOK', Fits', NEW p \in Procs, NEW b \in Bytes, write_byte(p, b)
  PROVE  Len(Contents) < PIPESIZE /\ Contents' = Append(Contents, b)
<1>1. ~Full /\ nread' = nread /\ nwrite' = Mod(nwrite + 1)
  BY DEF write_byte, Mod
<1>2. Count' = Count + 1 /\ Count < PIPESIZE /\ Count \in Nat
  BY SMTT(30), <1>1, CountNext, Counting DEF Fits
<1>3. Place(nread, Count) = nwrite % PIPESIZE /\ nwrite % PIPESIZE \in 0..(PIPESIZE - 1)
  BY Counting, Counters DEF Place, Fits, TypeOK
<1>6. /\ data' = [data EXCEPT ![nwrite % PIPESIZE] = b]
      /\ data \in [0..(PIPESIZE - 1) -> Bytes \cup {NoByte}]
  BY DEF write_byte, TypeOK
<1>4. ASSUME NEW k \in 1..Count PROVE Contents'[k] = Contents[k]
  <2>1. Place(nread, k - 1) # Place(nread, Count)
    BY SMTT(30), <1>2, PlacesDiffer DEF Fits, TypeOK
  <2>2. data'[Place(nread, k - 1)] = data[Place(nread, k - 1)]
    BY SMTT(30), <1>3, <1>6, <2>1
  <2>3. k \in 1..Count'
    BY SMTT(30), <1>2
  <2>4. Contents[k] = data[Place(nread, k - 1)] /\ Contents'[k] = data'[Place(nread', k - 1)]
    BY <2>3, ContentsAreSeq, ContentsAreSeqNext
  <2> QED BY <1>1, <2>2, <2>4
<1>5. Contents'[Count + 1] = b
  <2>1. data'[Place(nread, Count)] = b
    BY <1>3, <1>6
  <2>2. Count + 1 \in 1..Count' /\ (Count + 1) - 1 = Count
    BY SMTT(30), <1>2
  <2>3. Contents'[Count + 1] = data'[Place(nread', (Count + 1) - 1)]
    BY <2>2, ContentsAreSeqNext
  <2> QED BY <1>1, <2>1, <2>2, <2>3
<1> QED BY SMTT(30), <1>2, <1>4, <1>5, ContentsAreSeq, ContentsAreSeqNext, AppendProperties, SeqEqual

\* A read takes the first byte off.
LEMMA ReadTakes ==
  ASSUME TypeOK, Fits, TypeOK', Fits',
         ~Empty, nread' = Mod(nread + 1), UNCHANGED <<data, nwrite>>
  PROVE  /\ Contents # << >> /\ Contents' = Tail(Contents)
         /\ Head(Contents) = data[nread % PIPESIZE]
<1>1. Count' = Count - 1 /\ Count > 0 /\ Count \in 0..PIPESIZE
  BY SMTT(30), CountNext, Counting DEF Fits
<1>2. Contents # << >>
  BY SMTT(30), <1>1, ContentsAreSeq
<1>3. Place(nread, 0) = nread % PIPESIZE
  <2>1. Mod(nread + 0) = nread
    <3>1. nread + 0 = nread /\ nread \in Int /\ 0 <= nread /\ nread < UINT
      BY SMTT(30), Ring DEF TypeOK
    <3> QED BY <3>1, Ring
  <2> QED BY <2>1 DEF Place
<1>4. ASSUME NEW k \in 1..(Count - 1) PROVE Contents'[k] = Contents[k + 1]
  <2>1. Place(nread', k - 1) = Place(nread, k)
    BY SMTT(30), <1>1, PlaceNext DEF Fits, TypeOK
  <2>2. k \in 1..Count' /\ k + 1 \in 1..Count /\ (k + 1) - 1 = k
    BY SMTT(30), <1>1
  <2>3. /\ Contents'[k] = data'[Place(nread', k - 1)]
        /\ Contents[k + 1] = data[Place(nread, (k + 1) - 1)]
    BY <2>2, ContentsAreSeq, ContentsAreSeqNext
  <2> QED BY <2>1, <2>2, <2>3
<1> QED BY SMTT(30), <1>1, <1>2, <1>3, <1>4, ContentsAreSeq, ContentsAreSeqNext,
           HeadTailProperties, SeqEqual

\* Every step of the pipe is a step of the queue, or changes neither its bytes nor
\* what the readers have.
LEMMA StepIsQueueStep ==
  ASSUME PipeInv, PipeInv', NEW p \in Procs, Step(p)
  PROVE  [Queue!Next]_<<Contents, ubuf>>
<1>1. CASE UNCHANGED <<data, nread, nwrite, ubuf>>
  BY <1>1 DEF Contents, Count
<1>2. ASSUME NEW b \in Bytes, write_byte(p, b) PROVE Queue!Put(b)
  <2>1. Len(Contents) < PIPESIZE /\ Contents' = Append(Contents, b)
    BY <1>2, WriteAppends DEF PipeInv
  <2> QED BY <1>2, <2>1 DEF write_byte, Queue!Put
<1>3. ASSUME read_byte(p) PROVE Queue!Get(p)
  <2>1. /\ Contents # << >> /\ Contents' = Tail(Contents)
        /\ Head(Contents) = data[nread % PIPESIZE]
    BY <1>3, ReadTakes DEF PipeInv, read_byte, Mod
  <2> QED BY <1>3, <2>1 DEF read_byte, Queue!Get
<1>4. ASSUME read_fault(p) PROVE Queue!Drop
  <2>1. Contents # << >> /\ Contents' = Tail(Contents)
    BY <1>4, ReadTakes DEF PipeInv, read_fault, Mod
  <2> QED BY <1>4, <2>1 DEF read_fault, Queue!Drop
<1>5. CASE \/ acquire(p) \/ sleep(p) \/ pipeclose(p)
           \/ write_fails(p) \/ write_full(p) \/ write_done(p)
  BY <1>1, <1>5 DEF acquire, sleep, pipeclose, write_fails, write_full, write_done
<1>6. CASE \/ read_killed(p) \/ read_wait(p) \/ read_start(p) \/ read_done(p)
           \/ close(p) \/ kill(p)
  BY <1>1, <1>6 DEF read_killed, read_wait, read_start, read_done, close, kill
<1>7. CASE \/ \E k \in 0..MAXN : write(p, k) \/ read(p, k)
           \/ \E q \in Procs : fork(p, q)
  BY <1>1, <1>7 DEF write, read, fork
<1> QED BY <1>2, <1>3, <1>4, <1>5, <1>6, <1>7 DEF Step, Kernel, Queue!Next

\* For every number of processes, every size of the ring and every range of the
\* counters, a pipe is a bounded queue of bytes: what write() puts in comes out of
\* read() once and in order.
THEOREM PipeIsFifo == Spec => Fifo
<1>1. Init => Queue!Init
  <2> SUFFICES ASSUME Init PROVE Queue!Init
    OBVIOUS
  <2>1. Count = 0
    BY SMTT(30), Ring DEF Init, Count, Mod
  <2>2. Contents = << >>
    BY SMTT(30), <2>1 DEF Contents
  <2> QED BY <2>2 DEF Init, Queue!Init
<1>2. PipeInv /\ PipeInv' /\ [Next]_vars => [Queue!Next]_<<Contents, ubuf>>
  <2> SUFFICES ASSUME PipeInv, PipeInv', [Next]_vars
               PROVE  [Queue!Next]_<<Contents, ubuf>>
    OBVIOUS
  <2>1. CASE Next
    <3>1. PICK p \in Procs : Step(p)
      BY <2>1 DEF Next, Step
    <3> QED BY <3>1, StepIsQueueStep
  <2>2. CASE UNCHANGED vars
    BY <2>2 DEF vars, Contents, Count
  <2> QED BY <2>1, <2>2
<1> QED BY <1>1, <1>2, PipeInvariance, PTL DEF Spec, Fifo, Queue!Spec
=============================================================================
