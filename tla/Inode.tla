------------------------------- MODULE Inode -------------------------------
(***************************************************************************)
(* The inode table and directories (kernel/fs.c), and the system calls     *)
(* that name files (kernel/sysfile.c): open, create, mkdir, unlink, link,  *)
(* chdir, close.                                                           *)
(*                                                                         *)
(* A section under itable.lock is one step.  So is the use of an inode     *)
(* between ilock() and iunlock() when no second lock is taken in it: what  *)
(* it reads and writes is seen by others only under the same lock.  Where  *)
(* a call holds one inode and locks another, or drops a reference, the     *)
(* lock is held across steps.                                              *)
(*                                                                         *)
(* A file has a name's worth of state: its type, its link count and, for   *)
(* directories, its entries; its blocks are left out.  Every call is one   *)
(* transaction of the log (Log), so that crashes need not be seen here.    *)
(***************************************************************************)
EXTENDS Integers, Sequences, FiniteSets

CONSTANTS
  NINUM,      \* inodes on the disk
  NINODE,     \* entries of the inode table
  Procs, Nobody,
  Names,
  Requests    \* the calls made, with their path, relative to the current
              \* directory, and link()'s second path

ASSUME InodeAssumption ==
  /\ NINUM \in Nat \ {0} /\ NINODE \in Nat \ {0}
  /\ Nobody \notin Procs /\ ".." \notin Names
  /\ \A x \in Requests :
       /\ x[1] \in {"open", "create", "mkdir", "unlink", "link", "chdir"}
       /\ x[2] # << >> /\ (x[1] = "link" => x[3] # << >>)

Inums == 1..NINUM
Slots == 1..NINODE
ROOTINO == 1
None == 0

VARIABLES
  din,              \* the inodes on the disk (in the buffer cache)
  tab,              \* itable: inum, ref, valid, type and nlink of each entry
  lk,               \* ip->lock of each entry: its holder, or Nobody
  pc, ret,          \* of each process; ret: where iput() returns to
  call, path, ip, dp, put, old,   \* locals of the call
  newpath,
  cwd, fd           \* p->cwd and one open file

table == <<tab, lk>>
locals == <<call, path, newpath, ip, dp, old>>
vars == <<din, table, pc, ret, locals, put, cwd, fd>>

NoEntries == [nm \in Names |-> None]
FreeInode == [type |-> "free", nlink |-> 0, ents |-> NoEntries, dotdot |-> None]

Lowest(S) == CHOOSE x \in S : \A y \in S : x <= y
Goto(p, l) == pc' = [pc EXCEPT ![p] = l]
Set(f, p, v) == [f EXCEPT ![p] = v]

----------------------------------------------------------------------------
(* The inode table *)

InUse(i) == {s \in Slots : tab[s].ref > 0 /\ tab[s].inum = i}
Empty == {s \in Slots : tab[s].ref = 0}

\* The entry that iget(i) returns; None when the table is full (a panic).
IgetSlot(i) ==
  IF InUse(i) # {} THEN Lowest(InUse(i))
  ELSE IF Empty # {} THEN Lowest(Empty) ELSE None
Iget(i) ==
  IF InUse(i) # {} THEN [tab EXCEPT ![IgetSlot(i)].ref = @ + 1]
  ELSE [tab EXCEPT ![IgetSlot(i)] =
          [inum |-> i, ref |-> 1, valid |-> FALSE, type |-> "free", nlink |-> 0]]

\* The entry after ilock() has read the inode, if it had to.
Loaded(s) ==
  IF tab[s].valid THEN tab[s]
  ELSE [tab[s] EXCEPT !.valid = TRUE, !.type = din[tab[s].inum].type,
                      !.nlink = din[tab[s].inum].nlink]
\* ilock(): panic("ilock: no type")
NoType(s) == Loaded(s).type = "free" /\ ~tab[s].valid

\* The lock is free, and ilock() does not panic, which is the end of everything.
MayLock(s) == lk[s] = Nobody /\ ~NoType(s)

\* iput(s), which returns to l.
CallIput(p, s, l) ==
  /\ put' = Set(put, p, s) /\ ret' = Set(ret, p, l) /\ Goto(p, "iput")

----------------------------------------------------------------------------
(* iput() *)

LastLink_shared(s) == tab[s].valid /\ tab[s].nlink = 0
LastLink_named(s) == tab[s].ref = 1 /\ tab[s].valid /\ tab[s].nlink <= 1
LastLink(s) == tab[s].ref = 1 /\ tab[s].valid /\ tab[s].nlink = 0

iput(p) ==
  /\ pc[p] = "iput"
  /\ LET s == put[p] IN
     \/ /\ LastLink(s) /\ lk[s] = Nobody
        /\ lk' = Set(lk, s, p) /\ Goto(p, "iput_free")
        /\ UNCHANGED <<tab, put>>
     \/ /\ ~LastLink(s)
        /\ tab' = [tab EXCEPT ![s].ref = @ - 1]
        /\ put' = Set(put, p, None) /\ Goto(p, ret[p])
        /\ UNCHANGED lk
  /\ UNCHANGED <<din, ret, locals, cwd, fd>>

\* itrunc(), type = 0, iupdate(): from here on ialloc() may take the inode.
iput_free(p) ==
  /\ pc[p] = "iput_free"
  /\ din' = [din EXCEPT ![tab[put[p]].inum] = FreeInode]
  /\ tab' = [tab EXCEPT ![put[p]].type = "free"]
  /\ Goto(p, "iput_valid")
  /\ UNCHANGED <<lk, ret, locals, put, cwd, fd>>

iput_valid_kept(p) ==
  /\ pc[p] = "iput_valid"
  /\ lk' = Set(lk, put[p], Nobody)
  /\ Goto(p, "iput_dec")
  /\ UNCHANGED <<din, tab, ret, locals, put, cwd, fd>>
iput_valid(p) ==
  /\ pc[p] = "iput_valid"
  /\ tab' = [tab EXCEPT ![put[p]].valid = FALSE]
  /\ lk' = Set(lk, put[p], Nobody)
  /\ Goto(p, "iput_dec")
  /\ UNCHANGED <<din, ret, locals, put, cwd, fd>>

iput_dec(p) ==
  /\ pc[p] = "iput_dec"
  /\ tab' = [tab EXCEPT ![put[p]].ref = @ - 1]
  /\ put' = Set(put, p, None) /\ Goto(p, ret[p])
  /\ UNCHANGED <<din, lk, ret, locals, cwd, fd>>

----------------------------------------------------------------------------
(* namex() *)

\* The call looks for the parent of the path's last element.
nameiparent(p) == call[p] \in {"create", "mkdir", "unlink"} \/ old[p] # None
Fail(p) == IF old[p] # None THEN "link_bad" ELSE "user"
Lookup(i, nm) == IF nm = ".." THEN din[i].dotdot ELSE din[i].ents[nm]

\* rmdir has removed directory i, and with it the link that ".." was to its parent
\* (dp->nlink--): the parent may be freed, and be another file, while i is in use.
Removed(i) == din[i].nlink = 0

\* The system call, up to idup(cwd).
start(p, c, q, r) ==
  /\ pc[p] = "user" /\ (c \in {"open", "create"} => fd[p] = None)
  /\ call' = Set(call, p, c) /\ path' = Set(path, p, q)
  /\ newpath' = Set(newpath, p, r)
  /\ tab' = [tab EXCEPT ![cwd[p]].ref = @ + 1]
  /\ ip' = Set(ip, p, cwd[p]) /\ dp' = Set(dp, p, None) /\ old' = Set(old, p, None)
  /\ Goto(p, "namex")
  /\ UNCHANGED <<din, lk, ret, put, cwd, fd>>

\* namei() has found ip.
namex_found(p) ==
  /\ pc[p] = "namex" /\ path[p] = << >>
  /\ Goto(p, call[p])
  /\ UNCHANGED <<din, table, ret, locals, put, cwd, fd>>

\* Lock ip, and: it is no directory; or it is the parent; or the next element
\* is not there; or it is.  The ".." of a removed directory leads astray: what a
\* call does with the inode that it may find there is not followed.
namex(p) ==
  /\ pc[p] = "namex" /\ path[p] # << >> /\ MayLock(ip[p])
  /\ LET s == ip[p]
         i == tab[s].inum
         nm == Head(path[p])
         next == Lookup(i, nm)
         isdir == Loaded(s).type = "DIR"
         loaded == [tab EXCEPT ![s] = Loaded(s)]
     IN \/ /\ isdir /\ nameiparent(p) /\ Len(path[p]) = 1
           /\ tab' = loaded
           /\ dp' = Set(dp, p, s) /\ ip' = Set(ip, p, None)
           /\ Goto(p, IF old[p] # None THEN "link_dp" ELSE "dp")
           /\ UNCHANGED <<path, put, ret>>
        \/ /\ ~isdir \/ (~(nameiparent(p) /\ Len(path[p]) = 1) /\ next = None)
           /\ tab' = loaded
           /\ ip' = Set(ip, p, None) /\ CallIput(p, s, Fail(p))
           /\ UNCHANGED <<path, dp>>
        \/ /\ isdir /\ ~(nameiparent(p) /\ Len(path[p]) = 1) /\ next # None
           /\ IgetSlot(next) # None
           /\ tab' = [Iget(next) EXCEPT ![s].valid = TRUE, ![s].type = Loaded(s).type,
                                        ![s].nlink = Loaded(s).nlink]
           /\ ip' = Set(ip, p, IgetSlot(next))
           /\ CallIput(p, s, IF nm = ".." /\ Removed(i) THEN "astray" ELSE "namex")
           /\ path' = Set(path, p, Tail(path[p])) /\ UNCHANGED dp
  /\ UNCHANGED <<din, lk, call, newpath, old, cwd, fd>>
astray(p) == pc[p] = "astray" /\ MayLock(ip[p]) /\ UNCHANGED vars

----------------------------------------------------------------------------
(* open(), chdir(), close() *)

\* filealloc() or fdalloc() may fail.
open(p) ==
  /\ pc[p] = "open" /\ MayLock(ip[p])
  /\ tab' = [tab EXCEPT ![ip[p]] = Loaded(ip[p])]
  /\ ip' = Set(ip, p, None)
  /\ \/ fd' = Set(fd, p, ip[p]) /\ Goto(p, "user") /\ UNCHANGED <<put, ret>>
     \/ CallIput(p, ip[p], "user") /\ UNCHANGED fd
  /\ UNCHANGED <<din, lk, call, path, newpath, dp, old, cwd>>

chdir(p) ==
  /\ pc[p] = "chdir" /\ MayLock(ip[p])
  /\ tab' = [tab EXCEPT ![ip[p]] = Loaded(ip[p])]
  /\ ip' = Set(ip, p, None)
  /\ IF Loaded(ip[p]).type = "DIR"
     THEN CallIput(p, cwd[p], "user") /\ cwd' = Set(cwd, p, ip[p])
     ELSE CallIput(p, ip[p], "user") /\ UNCHANGED cwd
  /\ UNCHANGED <<din, lk, call, path, newpath, dp, old, fd>>

close(p) ==
  /\ pc[p] = "user" /\ fd[p] # None
  /\ CallIput(p, fd[p], "user") /\ fd' = Set(fd, p, None)
  /\ UNCHANGED <<din, table, locals, cwd>>

----------------------------------------------------------------------------
(* unlink(), create() and mkdir(): the parent is locked first *)

lock_dp(p) ==
  /\ pc[p] = "dp" /\ MayLock(dp[p])
  /\ tab' = [tab EXCEPT ![dp[p]] = Loaded(dp[p])]
  /\ lk' = Set(lk, dp[p], p)
  /\ Goto(p, IF call[p] = "unlink" THEN "unlink" ELSE "create")
  /\ UNCHANGED <<din, ret, locals, put, cwd, fd>>

Entry(p) == Lookup(tab[dp[p]].inum, Head(path[p]))
\* iunlockput(dp), at the end of the call or before it goes on at l.
DropDp(p, l) ==
  /\ lk' = Set(lk, dp[p], Nobody) /\ CallIput(p, dp[p], l)
  /\ dp' = Set(dp, p, None)

\* dirlookup() finds nothing, or the name is "..".
unlink_bad(p) ==
  /\ \/ pc[p] = "unlink" /\ (Head(path[p]) = ".." \/ Entry(p) = None)
     \/ pc[p] = "bad"
  /\ DropDp(p, "user")
  /\ UNCHANGED <<din, tab, call, path, newpath, ip, old, cwd, fd>>

unlink_get(p) ==
  /\ pc[p] = "unlink" /\ Head(path[p]) # ".." /\ Entry(p) # None
  /\ IgetSlot(Entry(p)) # None
  /\ tab' = Iget(Entry(p)) /\ ip' = Set(ip, p, IgetSlot(Entry(p)))
  /\ Goto(p, "unlink_ip")
  /\ UNCHANGED <<din, lk, ret, call, path, newpath, dp, old, put, cwd, fd>>

\* isdirempty()
IsDirEmpty(i) == \A nm \in Names : din[i].ents[nm] = None

\* ilock(ip): a directory with entries stays; the entry of any other is erased
\* and dp is released, with ip still locked.
unlink_ip(p) ==
  /\ pc[p] = "unlink_ip" /\ MayLock(ip[p])
  /\ LET l == Loaded(ip[p])
         d == tab[dp[p]].inum
     IN \/ /\ l.nlink >= 1 /\ l.type = "DIR" /\ ~IsDirEmpty(l.inum)
           /\ tab' = [tab EXCEPT ![ip[p]] = l]
           /\ CallIput(p, ip[p], "bad") /\ ip' = Set(ip, p, None)
           /\ UNCHANGED <<din, lk, dp>>
        \/ /\ l.nlink >= 1 /\ (l.type = "DIR" => IsDirEmpty(l.inum))
           /\ LET fewer == IF l.type = "DIR" THEN 1 ELSE 0 IN
              /\ din' = [din EXCEPT ![d].ents[Head(path[p])] = None,
                                    ![d].nlink = @ - fewer]
              /\ tab' = [tab EXCEPT ![ip[p]] = l, ![dp[p]].nlink = @ - fewer]
           /\ lk' = [lk EXCEPT ![ip[p]] = p, ![dp[p]] = Nobody]
           /\ CallIput(p, dp[p], "unlink_done") /\ dp' = Set(dp, p, None)
           /\ UNCHANGED ip
  /\ UNCHANGED <<call, path, newpath, old, cwd, fd>>

unlink_done(p) ==
  /\ pc[p] = "unlink_done"
  /\ tab' = [tab EXCEPT ![ip[p]].nlink = @ - 1]
  /\ din' = [din EXCEPT ![tab[ip[p]].inum].nlink = tab'[ip[p]].nlink]
  /\ lk' = Set(lk, ip[p], Nobody)
  /\ CallIput(p, ip[p], "user") /\ ip' = Set(ip, p, None)
  /\ UNCHANGED <<call, path, newpath, dp, old, cwd, fd>>

\* create() of a name that exists: dp is dropped, then ip is opened, or dropped
\* because it is not a file or no struct file is left.
create_exists(p) ==
  /\ pc[p] = "create" /\ Entry(p) # None
  /\ IgetSlot(Entry(p)) # None
  /\ tab' = Iget(Entry(p)) /\ ip' = Set(ip, p, IgetSlot(Entry(p)))
  /\ DropDp(p, "create_old")
  /\ UNCHANGED <<din, call, path, newpath, old, cwd, fd>>

create_old(p) ==
  /\ pc[p] = "create_old" /\ MayLock(ip[p])
  /\ tab' = [tab EXCEPT ![ip[p]] = Loaded(ip[p])]
  /\ ip' = Set(ip, p, None)
  /\ \/ /\ call[p] = "create" /\ Loaded(ip[p]).type = "FILE"
        /\ fd' = Set(fd, p, ip[p]) /\ Goto(p, "user") /\ UNCHANGED <<put, ret>>
     \/ CallIput(p, ip[p], "user") /\ UNCHANGED fd
  /\ UNCHANGED <<din, lk, call, path, newpath, dp, old, cwd>>

\* ialloc() finds a free inode, or none.  (Its scan is not atomic, so it need
\* not be the lowest.)
ialloc(p) ==
  /\ pc[p] = "create" /\ Entry(p) = None
  /\ \/ \E i \in Inums :
          /\ din[i].type = "free"
          /\ din' = [din EXCEPT ![i].type = IF call[p] = "mkdir" THEN "DIR" ELSE "FILE"]
          /\ ret' = Set(ret, p, "create_get") /\ ip' = Set(ip, p, i)
          /\ Goto(p, "create_get")
          /\ UNCHANGED <<lk, dp, put>>
     \/ /\ \A i \in Inums : din[i].type # "free"
        /\ DropDp(p, "user")
        /\ UNCHANGED <<din, ip>>
  /\ UNCHANGED <<tab, call, path, newpath, old, cwd, fd>>

\* Its iget(); until then ip stands for the inode's number.
create_get(p) ==
  /\ pc[p] = "create_get" /\ IgetSlot(ip[p]) # None
  /\ tab' = Iget(ip[p]) /\ ip' = Set(ip, p, IgetSlot(ip[p]))
  /\ Goto(p, "create_ip")
  /\ UNCHANGED <<din, lk, ret, call, path, newpath, dp, old, put, cwd, fd>>

\* ilock(ip), nlink = 1, the entries "." and "..", and the entry in dp.  The
\* last may fail for lack of space; then ip is given back.
create_ip(p) ==
  /\ pc[p] = "create_ip" /\ MayLock(ip[p])
  /\ LET l == Loaded(ip[p])
         i == tab[ip[p]].inum
         d == tab[dp[p]].inum
         more == IF l.type = "DIR" THEN 1 ELSE 0
     IN \/ /\ din' = [din EXCEPT ![i].nlink = 1,
                                 ![i].dotdot = IF l.type = "DIR" THEN d ELSE None,
                                 ![d].ents[Head(path[p])] = i,
                                 ![d].nlink = @ + more]
           /\ tab' = [tab EXCEPT ![ip[p]] = [l EXCEPT !.nlink = 1],
                                 ![dp[p]].nlink = @ + more]
           /\ lk' = [lk EXCEPT ![ip[p]] = p, ![dp[p]] = Nobody]
           /\ CallIput(p, dp[p], "create_done") /\ dp' = Set(dp, p, None)
           /\ UNCHANGED ip
        \/ /\ din' = [din EXCEPT ![i].nlink = 0]
           /\ tab' = [tab EXCEPT ![ip[p]] = [l EXCEPT !.nlink = 0]]
           /\ CallIput(p, ip[p], "bad") /\ ip' = Set(ip, p, None)
           /\ UNCHANGED <<lk, dp>>
  /\ UNCHANGED <<call, path, newpath, old, cwd, fd>>

\* open() keeps the file, if there is a struct file left; mkdir() drops it.
create_done(p) ==
  /\ pc[p] = "create_done"
  /\ lk' = Set(lk, ip[p], Nobody)
  /\ ip' = Set(ip, p, None)
  /\ \/ /\ call[p] = "create"
        /\ fd' = Set(fd, p, ip[p]) /\ Goto(p, "user") /\ UNCHANGED <<put, ret>>
     \/ CallIput(p, ip[p], "user") /\ UNCHANGED fd
  /\ UNCHANGED <<din, tab, call, path, newpath, dp, old, cwd>>

----------------------------------------------------------------------------
(* link() *)

\* ilock(ip), nlink++, then nameiparent(new).
link_uncounted(p) ==
  /\ pc[p] = "link" /\ MayLock(ip[p])
  /\ LET l == Loaded(ip[p]) IN
     \/ /\ l.type = "DIR"
        /\ tab' = [tab EXCEPT ![ip[p]] = l]
        /\ CallIput(p, ip[p], "user") /\ ip' = Set(ip, p, None)
        /\ UNCHANGED <<din, old, path>>
     \/ /\ l.type # "DIR"
        /\ tab' = [tab EXCEPT ![ip[p]] = l,
                              ![cwd[p]].ref = @ + 1]
        /\ UNCHANGED din
        /\ old' = Set(old, p, ip[p]) /\ ip' = Set(ip, p, cwd[p])
        /\ path' = Set(path, p, newpath[p])
        /\ Goto(p, "namex")
        /\ UNCHANGED <<ret, put>>
  /\ UNCHANGED <<lk, call, newpath, dp, cwd, fd>>
link(p) ==
  /\ pc[p] = "link" /\ MayLock(ip[p])
  /\ LET l == Loaded(ip[p]) IN
     \/ /\ l.type = "DIR"
        /\ tab' = [tab EXCEPT ![ip[p]] = l]
        /\ CallIput(p, ip[p], "user") /\ ip' = Set(ip, p, None)
        /\ UNCHANGED <<din, old, path>>
     \/ /\ l.type # "DIR"
        /\ tab' = [tab EXCEPT ![ip[p]] = [l EXCEPT !.nlink = @ + 1],
                              ![cwd[p]].ref = @ + 1]
        /\ din' = [din EXCEPT ![l.inum].nlink = @ + 1]
        /\ old' = Set(old, p, ip[p]) /\ ip' = Set(ip, p, cwd[p])
        /\ path' = Set(path, p, newpath[p])
        /\ Goto(p, "namex")
        /\ UNCHANGED <<ret, put>>
  /\ UNCHANGED <<lk, call, newpath, dp, cwd, fd>>

\* ilock(dp), dirlink(); it fails if the name exists (its iget() and iput() of
\* the file of that name cancel out) or for lack of space.
link_dp(p) ==
  /\ pc[p] = "link_dp" /\ MayLock(dp[p])
  /\ tab' = [tab EXCEPT ![dp[p]] = Loaded(dp[p])]
  /\ \/ /\ Entry(p) = None
        /\ din' = [din EXCEPT ![tab[dp[p]].inum].ents[Head(path[p])] = tab[old[p]].inum]
        /\ CallIput(p, dp[p], "link_done")
     \/ /\ UNCHANGED din
        /\ CallIput(p, dp[p], "link_bad")
  /\ dp' = Set(dp, p, None)
  /\ UNCHANGED <<lk, call, path, newpath, ip, old, cwd, fd>>

link_done(p) ==
  /\ pc[p] = "link_done"
  /\ CallIput(p, old[p], "user") /\ old' = Set(old, p, None)
  /\ UNCHANGED <<din, table, call, path, newpath, ip, dp, cwd, fd>>

link_bad(p) ==
  /\ pc[p] = "link_bad" /\ MayLock(old[p])
  /\ LET l == Loaded(old[p]) IN
     /\ tab' = [tab EXCEPT ![old[p]] = [l EXCEPT !.nlink = @ - 1]]
     /\ din' = [din EXCEPT ![l.inum].nlink = @ - 1]
  /\ CallIput(p, old[p], "user") /\ old' = Set(old, p, None)
  /\ UNCHANGED <<lk, call, path, newpath, ip, dp, cwd, fd>>

----------------------------------------------------------------------------
(* Panics *)

\* The inode that the process is about to lock.
Wants(p) ==
  CASE pc[p] \in {"namex", "astray", "open", "chdir", "link", "unlink_ip", "create_old", "create_ip"}
         -> ip[p]
    [] pc[p] \in {"dp", "link_dp"} -> dp[p]
    [] pc[p] = "link_bad" -> old[p]
    [] OTHER -> None

\* ilock() finds no inode on the disk: panic("ilock: no type").
LocksFree(p) == Wants(p) # None /\ lk[Wants(p)] = Nobody /\ NoType(Wants(p))
\* unlink() finds no link: panic("unlink: nlink < 1").
NoLink(p) ==
  pc[p] = "unlink_ip" /\ lk[ip[p]] = Nobody /\ ~NoType(ip[p]) /\ Loaded(ip[p]).nlink < 1

\* A panic is the end of the process's steps.
panic(p) == (LocksFree(p) \/ NoLink(p)) /\ UNCHANGED vars

----------------------------------------------------------------------------
\* A file system with an empty root, which is everybody's directory.
Init ==
  /\ din = [i \in Inums |-> IF i = ROOTINO
              THEN [type |-> "DIR", nlink |-> 1, ents |-> NoEntries, dotdot |-> ROOTINO]
              ELSE FreeInode]
  /\ tab = [s \in Slots |-> IF s = 1
              THEN [inum |-> ROOTINO, ref |-> Cardinality(Procs), valid |-> TRUE,
                    type |-> "DIR", nlink |-> 1]
              ELSE [inum |-> None, ref |-> 0, valid |-> FALSE, type |-> "free", nlink |-> 0]]
  /\ lk = [s \in Slots |-> Nobody]
  /\ pc = [p \in Procs |-> "user"] /\ ret = [p \in Procs |-> "user"]
  /\ call = [p \in Procs |-> "open"]
  /\ path = [p \in Procs |-> << >>] /\ newpath = [p \in Procs |-> << >>]
  /\ ip = [p \in Procs |-> None] /\ dp = [p \in Procs |-> None]
  /\ put = [p \in Procs |-> None] /\ old = [p \in Procs |-> None]
  /\ cwd = [p \in Procs |-> 1] /\ fd = [p \in Procs |-> None]

Kernel(p) ==
  \/ iput(p) \/ iput_free(p) \/ iput_valid(p) \/ iput_dec(p)
  \/ namex_found(p) \/ namex(p) \/ open(p) \/ chdir(p)
  \/ lock_dp(p) \/ unlink_bad(p) \/ unlink_get(p) \/ unlink_ip(p) \/ unlink_done(p)
  \/ create_exists(p) \/ create_old(p) \/ ialloc(p) \/ create_get(p)
  \/ create_ip(p) \/ create_done(p)
  \/ link(p) \/ link_dp(p) \/ link_done(p) \/ link_bad(p)
  \/ astray(p) \/ panic(p)

Next ==
  \E p \in Procs :
    \/ Kernel(p) \/ close(p)
    \/ \E x \in Requests : start(p, x[1], x[2], x[3])

Spec == Init /\ [][Next]_vars

----------------------------------------------------------------------------
(* Properties *)

TypeOK ==
  /\ din \in [Inums -> [type : {"free", "FILE", "DIR"}, nlink : Nat,
                        ents : [Names -> Inums \cup {None}], dotdot : Inums \cup {None}]]
  /\ tab \in [Slots -> [inum : Inums \cup {None}, ref : Nat, valid : BOOLEAN,
                        type : {"free", "FILE", "DIR"}, nlink : Nat]]
  /\ lk \in [Slots -> Procs \cup {Nobody}]
  /\ cwd \in [Procs -> Slots] /\ fd \in [Procs -> Slots \cup {None}]

\* The pointers to table entries that process p has.
Pointers(p) == <<cwd[p], fd[p], dp[p], put[p], old[p],
                 IF pc[p] = "create_get" \/ (pc[p] = "iput" /\ ret[p] = "create_get")
                 THEN None ELSE ip[p]>>

\* ip->ref "tracks the number of in-memory pointers to the entry" (fs.c:131), and
\* no inode has two entries: two processes that use a file share its lock.  (The
\* state is well-typed besides.)
RefCounts ==
  /\ TypeOK
  /\ \A s \in Slots :
       tab[s].ref = Cardinality({x \in Procs \X (1..6) : Pointers(x[1])[x[2]] = s})
  /\ \A s, u \in Slots :
       tab[s].ref > 0 /\ tab[u].ref > 0 /\ tab[s].inum = tab[u].inum => s = u

\* "ip->ref == 1 means no other process can have ip locked, so this
\* acquiresleep() won't block (or deadlock)" (fs.c:344-345): iput() would
\* otherwise sleep with itable.lock held.
IputWontBlock ==
  \A p \in Procs : pc[p] = "iput" /\ LastLink(put[p]) => lk[put[p]] = Nobody

\* An open file and a current directory stay allocated, whoever unlinks them and
\* however fast ialloc() looks for free inodes.  What a call has looked up stays
\* so too: ilock() finds an inode, and unlink() a link, where they would panic.
\* The exception is a call that has followed the ".." of a removed directory.
OpenStaysAllocated ==
  \A p \in Procs :
    /\ \A s \in {cwd[p], fd[p]} \ {None} : din[tab[s].inum].type # "free"
    /\ LocksFree(p) => pc[p] = "astray"
    /\ ~NoLink(p)

\* A valid entry agrees with the disk, unless iput() is just freeing it.
EntriesAgree ==
  \A s \in Slots :
    /\ tab[s].ref > 0 /\ tab[s].valid
    /\ ~\E p \in Procs : put[p] = s /\ pc[p] = "iput_valid"
    => tab[s].type = din[tab[s].inum].type /\ tab[s].nlink = din[tab[s].inum].nlink

\* The table of struct inodes can be trusted: one entry for an inode in use, kept
\* as long as it is used, that says what the disk does (iget, ilock, iput in fs.c).
TableSound == RefCounts /\ EntriesAgree

\* The entries that name inode i, and the names of subdirectories in i, whose
\* ".." refer to i.
Links(i) == {x \in Inums \X Names : din[x[1]].type = "DIR" /\ din[x[1]].ents[x[2]] = i}
Subdirs(i) == {nm \in Names : din[i].ents[nm] # None /\ din[din[i].ents[nm]].type = "DIR"}
Quiet == \A p \in Procs : pc[p] = "user"

\* Between calls nlink is at least "the number of links referring to" the inode
\* (fs.c:110), counting the ".." of subdirectories, and an entry names an
\* allocated inode: no removal takes a file that has another name.
LinksCounted ==
  Quiet => \A i \in Inums :
             /\ Links(i) # {} => din[i].type # "free"
             /\ din[i].type # "free" =>
                  din[i].nlink >= Cardinality(Links(i)) + Cardinality(Subdirs(i))

\* "iput() frees if the reference and link counts have fallen to zero"
\* (fs.c:127-128).
FreedWhenUnused ==
  Quiet => \A i \in Inums :
             din[i].type # "free" /\ din[i].nlink = 0 => InUse(i) # {}
=============================================================================
