------------------------------ MODULE FileData ------------------------------
(***************************************************************************)
(* The contents of files: the bitmap of blocks and the block lists of      *)
(* inodes (balloc, bfree, bmap, itrunc, readi and writei of kernel/fs.c)   *)
(* under fileread() and filewrite() (kernel/file.c) and the truncating     *)
(* open() (kernel/sysfile.c).                                              *)
(*                                                                         *)
(* An inode's lock is held from ilock() to iunlock(); in between a step    *)
(* allocates or frees one block and what hangs on it.  Of the log there is *)
(* the room it gives: the blocks of the open transaction, begin_op()'s     *)
(* admission, and the commit by the last end_op().  The struct inodes stay *)
(* in the table, so the copy in memory is never read again from the disk;  *)
(* a buffer is, when it has been recycled, unless it is in the log.        *)
(*                                                                         *)
(* A byte is 0 or the number of the process that wrote it.                 *)
(***************************************************************************)
EXTENDS Integers, Sequences, FiniteSets, FiniteSetsExt

CONSTANTS
  Procs,         \* numbers, from 1
  Inodes,
  Files,         \* struct files, open for reading and writing
  ino,           \* f->ip of each
  fds,           \* the struct files each process has open
  NBLOCK,        \* data blocks
  BPB,           \* bits of one bitmap block
  BSIZE, NDIRECT, NINDIRECT, MAXOPBLOCKS, LOGSIZE,
  Sizes,         \* bound: the counts that calls are made with
  CALLS          \* bound: the calls each process makes

ASSUME FileDataAssumption ==
  /\ Procs \subseteq Nat \ {0} /\ ino \in [Files -> Inodes] /\ fds \in [Procs -> SUBSET Files]
  /\ {NBLOCK, BPB, BSIZE, NDIRECT, NINDIRECT} \subseteq Nat \ {0}
  /\ MAXOPBLOCKS >= 6 /\ LOGSIZE >= MAXOPBLOCKS
  /\ Sizes \subseteq Nat \ {0} /\ CALLS \in [Procs -> Nat]

Blocks == 1..NBLOCK
MAXFILE == NDIRECT + NINDIRECT
None == 0

VARIABLES
  used,          \* the bits of the bitmap
  bytes, ptrs,   \* a block's contents, as bytes or as an indirect block
  home,          \* the bytes on disk, of a block that was changed without log_write()
  inode,         \* ip->size and ip->addrs
  dinode,        \* the same in the inode's block
  lk,            \* ip->lock: its holder, or None
  off,           \* f->off
  lh,            \* the blocks in the log's header
  outstanding,
  pc, call,      \* of each process; call holds its locals
  wrote,         \* history: the blocks its transaction has logged
  left,          \* calls it may still make
  shadow         \* history: what each byte of a file may be

fs == <<used, bytes, ptrs, home, inode, dinode>>
vars == <<fs, lk, off, lh, outstanding, pc, call, wrote, left, shadow>>

Bitmap(b) == <<"bitmap", b \div BPB>>
Data(b) == <<"data", b>>
InodeBlock == <<"inode", 0>>

NoCall == [op |-> "none"]
Goto(p, l) == pc' = [pc EXCEPT ![p] = l]
ip(p) == ino[call[p].f]

\* log_write() of the blocks in S by process p.
log_write(p, S) ==
  /\ lh' = lh \cup S
  /\ wrote' = [wrote EXCEPT ![p] = @ \cup S]

----------------------------------------------------------------------------
(* Blocks *)

Free == Blocks \ used
balloc == Min(Free)
ZeroBytes == [k \in 0..(BSIZE - 1) |-> 0]
ZeroPtrs == [k \in 0..(NINDIRECT - 1) |-> None]
bzero_bytes(b) == [bytes EXCEPT ![b] = ZeroBytes]
bzero_ptrs(b) == [ptrs EXCEPT ![b] = ZeroPtrs]

\* A block outside the log is not pinned: bget() may recycle its buffer, and what
\* was never logged is gone.
Same == <<>>     \* the disk has what the buffer has, or will when the log commits
Logged(h, b) == [h EXCEPT ![b] = Same]
recycle(b) ==
  /\ Data(b) \notin lh /\ home[b] # Same
  /\ bytes' = [bytes EXCEPT ![b] = home[b]]
  /\ home' = Logged(home, b)
  /\ UNCHANGED <<used, ptrs, inode, dinode, lk, off, lh, outstanding, pc, call, wrote, left, shadow>>

\* The address of block bn of inode i, as the block list has it.
Mapped(i, bn) ==
  IF bn < NDIRECT THEN inode[i].addrs[bn]
  ELSE IF inode[i].addrs[NDIRECT] = None THEN None
  ELSE ptrs[inode[i].addrs[NDIRECT]][bn - NDIRECT]

NeedsIndirect(i, bn) == bn >= NDIRECT /\ inode[i].addrs[NDIRECT] = None

----------------------------------------------------------------------------
(* Calls *)

\* filewrite() writes a few blocks at a time.
max_no_slop == ((MAXOPBLOCKS - 1 - 1) \div 2) * BSIZE
max == ((MAXOPBLOCKS - 1 - 1 - 2) \div 2) * BSIZE
n1(p) == Min({call[p].n - call[p].i, max})

\* filewrite(f, n), or open() with O_TRUNC of f's inode.
start(p, op, f, n) ==
  /\ pc[p] = "user" /\ left[p] > 0
  /\ left' = [left EXCEPT ![p] = @ - 1]
  /\ call' = [call EXCEPT ![p] = [op |-> op, f |-> f, n |-> n, i |-> 0, off |-> 0, tot |-> 0, torn |-> 0]]
  /\ Goto(p, "begin_op")
  /\ UNCHANGED <<fs, lk, off, lh, outstanding, wrote, shadow>>

begin_op(p) ==
  /\ pc[p] = "begin_op"
  /\ Cardinality(lh) + (outstanding + 1) * MAXOPBLOCKS <= LOGSIZE
  /\ outstanding' = outstanding + 1
  /\ wrote' = [wrote EXCEPT ![p] = {}]
  /\ Goto(p, "ilock")
  /\ UNCHANGED <<fs, lk, off, lh, call, left, shadow>>

\* ilock(), and for a write the checks at the top of writei().
TooFar_no_hole(p) == off[call[p].f] + n1(p) > MAXFILE * BSIZE
TooFar(p) == off[call[p].f] > inode[ip(p)].size \/ off[call[p].f] + n1(p) > MAXFILE * BSIZE
ilock(p) ==
  /\ pc[p] = "ilock" /\ lk[ip(p)] = None
  /\ lk' = [lk EXCEPT ![ip(p)] = p]
  /\ IF call[p].op = "trunc" THEN Goto(p, "itrunc") /\ UNCHANGED call
     ELSE IF TooFar(p) THEN call' = [call EXCEPT ![p].tot = -1] /\ Goto(p, "iunlock")
     ELSE call' = [call EXCEPT ![p].tot = 0, ![p].off = off[call[p].f]] /\ Goto(p, "writei")
  /\ UNCHANGED <<fs, off, lh, outstanding, wrote, left, shadow>>

----------------------------------------------------------------------------
(* writei() *)

InLoop(p) == pc[p] = "writei" /\ call[p].tot < n1(p)
bn(p) == call[p].off \div BSIZE
m(p) == Min({n1(p) - call[p].tot, BSIZE - (call[p].off % BSIZE)})

\* bmap() first allocates the indirect block.
bmap_indirect(p) ==
  /\ InLoop(p) /\ NeedsIndirect(ip(p), bn(p)) /\ Free # {}
  /\ used' = used \cup {balloc}
  /\ bytes' = bzero_bytes(balloc)
  /\ ptrs' = bzero_ptrs(balloc)
  /\ home' = Logged(home, balloc)
  /\ inode' = [inode EXCEPT ![ip(p)].addrs[NDIRECT] = balloc]
  /\ log_write(p, {Bitmap(balloc), Data(balloc)})
  /\ UNCHANGED <<dinode, lk, off, outstanding, pc, call, left, shadow>>

\* One turn of the loop: bmap() allocates the block if there is none;
\* either_copyin() fills its part of it and the block is logged, or it fails on
\* the user's address with j bytes copied, which stay in the buffer; then the block
\* is not logged, so they last only if the transaction has it already.
Fill(b, p, blk, j) ==
  LET at == call[p].off % BSIZE
  IN [b EXCEPT ![blk] = [k \in 0..(BSIZE - 1) |-> IF k \in at..(at + j - 1) THEN p ELSE @[k]]]

copyin(p, b, h, blk, logged) ==
  \/ /\ bytes' = Fill(b, p, blk, m(p)) /\ home' = Logged(h, blk)
     /\ log_write(p, logged \cup {Data(blk)})
     /\ call' = [call EXCEPT ![p].off = @ + m(p), ![p].tot = @ + m(p)]
     /\ UNCHANGED pc
  \/ \E j \in 0..(m(p) - 1) :
       /\ bytes' = Fill(b, p, blk, j)
       /\ log_write(p, logged)
       /\ home' = IF j > 0 /\ Data(blk) \notin lh' /\ h[blk] = Same
                  THEN [h EXCEPT ![blk] = bytes[blk]] ELSE h
       /\ call' = [call EXCEPT ![p].torn = j]
       /\ Goto(p, "writei_end")

writei_mapped(p) ==
  /\ InLoop(p) /\ Mapped(ip(p), bn(p)) # None
  /\ copyin(p, bytes, home, Mapped(ip(p), bn(p)), {})
  /\ UNCHANGED <<used, ptrs, inode, dinode, lk, off, outstanding, left, shadow>>

writei_alloc(p) ==
  LET ind == inode[ip(p)].addrs[NDIRECT]
      new == {Bitmap(balloc), Data(balloc)}
  IN /\ InLoop(p) /\ ~NeedsIndirect(ip(p), bn(p)) /\ Mapped(ip(p), bn(p)) = None
     /\ Free # {}
     /\ used' = used \cup {balloc}
     /\ IF bn(p) < NDIRECT
        THEN /\ inode' = [inode EXCEPT ![ip(p)].addrs[bn(p)] = balloc]
             /\ ptrs' = bzero_ptrs(balloc)
             /\ copyin(p, bzero_bytes(balloc), Logged(home, balloc), balloc, new)
        ELSE /\ ptrs' = [bzero_ptrs(balloc) EXCEPT ![ind][bn(p) - NDIRECT] = balloc]
             /\ copyin(p, bzero_bytes(balloc), Logged(home, balloc), balloc, new \cup {Data(ind)})
             /\ UNCHANGED inode
     /\ UNCHANGED <<dinode, lk, off, outstanding, left, shadow>>

\* balloc: out of blocks, for the block or for the indirect block.
writei_full(p) ==
  /\ InLoop(p) /\ Mapped(ip(p), bn(p)) = None /\ Free = {}
  /\ Goto(p, "writei_end")
  /\ UNCHANGED <<fs, lk, off, lh, outstanding, call, wrote, left, shadow>>

\* What the bytes of a file may be after a write of tot bytes by p at o, and of
\* torn bytes more, which may come and go where the file has bytes already.
Written(s, p, o, tot, torn) ==
  [k \in 1..Max({Len(s), o + tot}) |->
     IF k \in (o + 1)..(o + tot) THEN {p}
     ELSE (IF k <= Len(s) THEN s[k] ELSE {0})
            \cup (IF k \in (o + tot + 1)..(o + tot + torn) THEN {p} ELSE {})]

\* The end of writei() (size, iupdate()), and f->off.
writei_end(p) ==
  /\ pc[p] = "writei_end" \/ (pc[p] = "writei" /\ call[p].tot = n1(p))
  /\ inode' = [inode EXCEPT ![ip(p)].size = Max({@, call[p].off})]
  /\ dinode' = [dinode EXCEPT ![ip(p)] = inode'[ip(p)]]
  /\ log_write(p, {InodeBlock})
  /\ off' = [off EXCEPT ![call[p].f] = @ + call[p].tot]
  /\ shadow' = [shadow EXCEPT ![ip(p)] = Written(@, p, off[call[p].f], call[p].tot, call[p].torn)]
  /\ Goto(p, "iunlock")
  /\ UNCHANGED <<used, bytes, ptrs, home, lk, outstanding, call, left>>

iunlock(p) ==
  /\ pc[p] = "iunlock"
  /\ lk' = [lk EXCEPT ![ip(p)] = None]
  /\ Goto(p, "end_op")
  /\ call' = [call EXCEPT ![p].off = 0, ![p].torn = 0]     \* out of scope
  /\ UNCHANGED <<fs, off, lh, outstanding, wrote, left, shadow>>

\* end_op(), the last of which commits, and filewrite()'s loop.
end_op(p) ==
  /\ pc[p] = "end_op"
  /\ outstanding' = outstanding - 1
  /\ lh' = IF outstanding = 1 THEN {} ELSE lh
  /\ LET more == call[p].op = "write" /\ call[p].tot = n1(p) /\ call[p].i + call[p].tot < call[p].n
     IN /\ Goto(p, IF more THEN "begin_op" ELSE "user")
        /\ call' = [call EXCEPT ![p] = IF more THEN [@ EXCEPT !.i = @ + call[p].tot] ELSE NoCall]
  /\ wrote' = [wrote EXCEPT ![p] = {}]
  /\ UNCHANGED <<fs, lk, off, left, shadow>>

----------------------------------------------------------------------------
(* itrunc() *)

\* The direct blocks, one after the other.
Direct(p) == {k \in 0..(NDIRECT - 1) : inode[ip(p)].addrs[k] # None}
itrunc_direct(p) ==
  /\ pc[p] = "itrunc" /\ Direct(p) # {}
  /\ LET k == Min(Direct(p))
         b == inode[ip(p)].addrs[k]
     IN /\ used' = used \ {b}
        /\ log_write(p, {Bitmap(b)})
        /\ inode' = [inode EXCEPT ![ip(p)].addrs[k] = None]
  /\ UNCHANGED <<bytes, ptrs, home, dinode, lk, off, outstanding, pc, call, left, shadow>>

\* Those the indirect block names, which keeps naming them; call.i is j.
itrunc_indirect(p) ==
  LET ind == inode[ip(p)].addrs[NDIRECT]
      b == ptrs[ind][call[p].i]
  IN /\ pc[p] = "itrunc" /\ Direct(p) = {} /\ ind # None /\ call[p].i < NINDIRECT
     /\ call' = [call EXCEPT ![p].i = @ + 1]
     /\ IF b = None THEN UNCHANGED <<used, lh, wrote>>
        ELSE used' = used \ {b} /\ log_write(p, {Bitmap(b)})
     /\ UNCHANGED <<bytes, ptrs, home, inode, dinode, lk, off, outstanding, pc, left, shadow>>

\* Then the indirect block itself.
NoIndirect_keeps(i) == inode
NoIndirect(i) == [inode EXCEPT ![i].addrs[NDIRECT] = None]
itrunc_last(p) ==
  LET ind == inode[ip(p)].addrs[NDIRECT]
  IN /\ pc[p] = "itrunc" /\ Direct(p) = {} /\ ind # None /\ call[p].i = NINDIRECT
     /\ used' = used \ {ind}
     /\ log_write(p, {Bitmap(ind)})
     /\ inode' = NoIndirect(ip(p))
     /\ Goto(p, "itrunc_end")
     /\ UNCHANGED <<bytes, ptrs, home, dinode, lk, off, outstanding, call, left, shadow>>

itrunc_end(p) ==
  /\ \/ pc[p] = "itrunc_end"
     \/ pc[p] = "itrunc" /\ Direct(p) = {} /\ inode[ip(p)].addrs[NDIRECT] = None
  /\ inode' = [inode EXCEPT ![ip(p)].size = 0]
  /\ dinode' = [dinode EXCEPT ![ip(p)] = inode'[ip(p)]]
  /\ log_write(p, {InodeBlock})
  /\ shadow' = [shadow EXCEPT ![ip(p)] = <<>>]
  /\ Goto(p, "iunlock")
  /\ UNCHANGED <<used, bytes, ptrs, home, lk, off, outstanding, call, left>>

----------------------------------------------------------------------------
(* fileread(), all of it under the inode's lock *)

\* readi() returns the bytes there are, or -1 when either_copyout() fails on the
\* user's address.
readi(f, n) == IF off[f] > inode[ino[f]].size THEN 0 ELSE Min({n, inode[ino[f]].size - off[f]})
fileread(p, f, n) ==
  /\ pc[p] = "user" /\ left[p] > 0 /\ lk[ino[f]] = None
  /\ left' = [left EXCEPT ![p] = @ - 1]
  /\ \E r \in {-1, readi(f, n)} : off' = [off EXCEPT ![f] = IF r > 0 THEN @ + r ELSE @]
  /\ UNCHANGED <<fs, lk, lh, outstanding, pc, call, wrote, shadow>>

----------------------------------------------------------------------------
Init ==
  /\ used = {}
  /\ bytes = [b \in Blocks |-> ZeroBytes] /\ ptrs = [b \in Blocks |-> ZeroPtrs]
  /\ home = [b \in Blocks |-> Same]
  /\ inode = [i \in Inodes |-> [size |-> 0, addrs |-> [k \in 0..NDIRECT |-> None]]]
  /\ dinode = inode
  /\ lk = [i \in Inodes |-> None]
  /\ off = [f \in Files |-> 0]
  /\ lh = {} /\ outstanding = 0
  /\ pc = [p \in Procs |-> "user"] /\ call = [p \in Procs |-> NoCall]
  /\ wrote = [p \in Procs |-> {}] /\ left = CALLS
  /\ shadow = [i \in Inodes |-> <<>>]

Next ==
  \/ \E b \in Blocks : recycle(b)
  \/ \E p \in Procs :
    \/ \E f \in fds[p], n \in Sizes : start(p, "write", f, n) \/ fileread(p, f, n)
    \/ \E f \in fds[p] : start(p, "trunc", f, 0)
    \/ begin_op(p) \/ ilock(p) \/ iunlock(p) \/ end_op(p)
    \/ bmap_indirect(p) \/ writei_mapped(p) \/ writei_alloc(p) \/ writei_full(p) \/ writei_end(p)
    \/ itrunc_direct(p) \/ itrunc_indirect(p) \/ itrunc_last(p) \/ itrunc_end(p)

Spec == Init /\ [][Next]_vars

----------------------------------------------------------------------------
(* Properties *)

\* The slots of an inode's block list, and the blocks they name.
Slots == ((0..NDIRECT) \X {"addrs"}) \cup ((0..(NINDIRECT - 1)) \X {"ptrs"})
Names(i, s) ==
  IF s[2] = "addrs" THEN inode[i].addrs[s[1]]
  ELSE IF inode[i].addrs[NDIRECT] = None THEN None ELSE ptrs[inode[i].addrs[NDIRECT]][s[1]]
Quiet(i) == lk[i] = None
Refs(b) == {r \in Inodes \X Slots : Quiet(r[1]) /\ Names(r[1], r[2]) = b}

\* No block is in two places of the block lists of unlocked inodes, and every
\* block in one is marked in the bitmap; when no transaction is open (which is
\* when the log commits) the marked blocks are exactly those, and the inodes'
\* blocks say what the memory does: writes that ran out of space or of user
\* memory, and truncations, neither leak a block nor share one
\* (balloc, bmap, itrunc, writei in fs.c).
BlocksOwned ==
  /\ \A b \in Blocks : Cardinality(Refs(b)) <= 1 /\ (Refs(b) # {} => b \in used)
  /\ outstanding = 0 => /\ used = {b \in Blocks : Refs(b) # {}}
                        /\ dinode = inode

\* No system call logs more blocks than begin_op() reserved for it, whatever the
\* alignment and wherever its blocks' bits are (filewrite's max in file.c); and if
\* one block has all the bits, as on a disk of FSSIZE blocks, two of the reserved
\* blocks are left, which log_write() needs because it refuses at log.size - 1
\* (log.c:220).
LogFits ==
  \A p \in Procs :
    /\ Cardinality(wrote[p]) <= MAXOPBLOCKS
    /\ Cardinality({x \in wrote[p] : x[1] # "bitmap"}) + 1 <= MAXOPBLOCKS - 2

\* The bytes of a file, with -1 for those in a hole.
Contents(i) ==
  [k \in 1..inode[i].size |-> IF Mapped(i, (k - 1) \div BSIZE) = None THEN -1
                              ELSE bytes[Mapped(i, (k - 1) \div BSIZE)][(k - 1) % BSIZE]]

\* An unlocked file holds the bytes the writes to it stored, each from where the
\* struct file's offset was when it ended, in the order in which they got the
\* lock, short writes included; where a copy from user memory failed it may have the
\* bytes copied so far or still what was there, since they are in a buffer that is
\* not logged and can be recycled; and none of its bytes is in a hole, so readi()'s
\* bmap() never allocates outside a transaction (readi, writei in fs.c, f->off in
\* file.c).
FilesHoldWrites ==
  \A i \in Inodes : Quiet(i) =>
    /\ inode[i].size = Len(shadow[i])
    /\ \A k \in 1..inode[i].size : Contents(i)[k] \in shadow[i][k]
============================================================================
