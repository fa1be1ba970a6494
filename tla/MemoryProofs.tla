---------------------------- MODULE MemoryProofs ----------------------------
(***************************************************************************)
(* Proofs about Memory, for every number of processes and pages, every     *)
(* page and table size, every set of programs and of sbrk() arguments:     *)
(* every page has one owner, images match sizes, and vm.c does not panic.  *)
(***************************************************************************)
EXTENDS Memory, TLAPS

\* Leaves that name no prover are for Zenon.
USE ZenonT(60)

\* A table that was not begun, or was freed.
Blank(t) == top[t] = {} /\ \A x \in TablePlaces(t) : at[x] = NoPage

NoUser(t) == \A v \in UserVA : at[UserPage(t, v)] = NoPage

\* A table with both fixed pages and the user pages below hi.
Image(t, hi) ==
  /\ top[t] = {TRAMPOLINE, TRAPFRAME} /\ Present(t, TRAMPOLINE) /\ Present(t, TRAPFRAME)
  /\ \A v \in UserVA : /\ at[UserPage(t, v)] # NoPage <=> v < hi
                       /\ v < hi => Present(t, v)

Alive(p) == pc[p] \notin {"unused", "embryo"}

\* Where each call may be, and whom fork() works on.
Calls ==
  \A p \in Procs :
    /\ op[p] = "none" <=> pc[p] \in {"unused", "embryo", "user", "zombie"}
    /\ pc[p] = "trapframe" => op[p] = "fork"
    /\ pc[p] \in {"args", "load"} => op[p] = "exec"
    /\ pc[p] \in {"create", "tramp", "tfmap"} => op[p] \in {"fork", "exec"}
    /\ op[p] = "fork" => np[p] \in Procs /\ pc[np[p]] = "embryo"
    /\ op[p] # "fork" => np[p] = 0
    /\ \A q \in Procs : op[p] = "fork" /\ op[q] = "fork" /\ np[p] = np[q] => p = q

\* The call of p is in a loop over the pages from base to its end.
InLoop(p) ==
  /\ base[p] <= a[p] /\ a[p] <= PGROUNDUP(end[p]) /\ PGROUNDUP(end[p]) <= UPAGES
  /\ op[p] = "fork" => base[p] = 0 /\ end[p] = sz[p]
  /\ op[p] = "sbrk" => base[p] = PGROUNDUP(sz[p])
  /\ op[p] = "exec" =>
       /\ base[p] = PGROUNDUP(nsz[p]) /\ nsz[p] <= end[p]
       /\ prog[p] # << >> => /\ PGROUNDUP(end[p]) + USERSTACK + 1 <= UPAGES
                             /\ Seg(p).vaddr + Seg(p).memsz <= end[p]
       /\ prog[p] = << >> => PGROUNDUP(end[p]) = base[p] + USERSTACK + 1

\* The segments that p has still to load leave room for the stack.
Fits(p) ==
  \A i \in 1..Len(prog[p]) :
    PGROUNDUP(prog[p][i].vaddr + prog[p][i].memsz) + USERSTACK + 1 <= UPAGES

\* How far a loop over pages has come.
Bounds(p) ==
  /\ PGROUNDUP(sz[p]) <= UPAGES
  /\ ~Alive(p) => sz[p] = 0
  /\ pc[p] \notin {"load", "loop", "page"} => a[p] = 0 /\ base[p] = 0 /\ nsz[p] = 0
  /\ pc[p] = "load" => PGROUNDUP(nsz[p]) + USERSTACK + 1 <= UPAGES
  /\ pc[p] \in {"loop", "page"} => InLoop(p)
  /\ pc[p] = "page" => a[p] < PGROUNDUP(end[p])
  /\ Fits(p)

\* What a process has besides the table that it builds.
Kept(p) ==
  /\ pc[p] = "unused" => Blank(<<p, "cur">>) /\ at[Trapframe(p)] = NoPage
  /\ Alive(p) => at[Trapframe(p)] # NoPage
  /\ \A h \in Nat : Alive(p) /\ op[p] # "sbrk" /\ h = PGROUNDUP(sz[p]) => Image(<<p, "cur">>, h)
  /\ op[p] # "exec" => Blank(<<p, "new">>) /\ \A x \in Args(p) : at[x] = NoPage
  /\ at[Mem(p)] # NoPage <=> pc[p] = "page"
  /\ \A c \in Procs : op[p] = "fork" /\ c = np[p] =>
       (at[Trapframe(c)] # NoPage <=> pc[p] # "trapframe")

\* The table that it builds or grows.
Built(p) ==
  \A t \in Tables, h \in Nat : t = Tab(p) =>
    /\ pc[p] \in {"args", "trapframe", "create"} => Blank(t)
    /\ pc[p] = "tramp" => top[t] = {} /\ NoUser(t)
    /\ pc[p] = "tfmap" => top[t] = {TRAMPOLINE} /\ NoUser(t) /\ Present(t, TRAMPOLINE)
    /\ pc[p] = "load" /\ h = PGROUNDUP(nsz[p]) => Image(t, h)
    /\ pc[p] \in {"loop", "page"} /\ h = a[p] => Image(t, h)

\* A page is free, or one place holds it.
Owned ==
  /\ \A x, y \in Places : at[x] = at[y] /\ at[x] # NoPage => x = y
  /\ \A g \in Pages : g \in free <=> \A x \in Places : at[x] # g

\* The inductive invariant.
MemInv ==
  /\ TypeOK /\ NoPanic /\ Owned /\ Calls
  /\ \A p \in Procs : Bounds(p) /\ Kept(p) /\ Built(p)

----------------------------------------------------------------------------
(* Numbers *)

\* A quotient is the number whose multiples of d bracket n.
LEMMA Division ==
  ASSUME NEW n \in Nat, NEW d \in Nat \ {0}, NEW q \in Nat, q * d <= n, n < (q + 1) * d
  PROVE  n \div d = q
<1>1. n \div d \in Nat /\ (n \div d) * d <= n /\ n < (n \div d + 1) * d
  BY SMTT(30)
<1> DEFINE r == n \div d
<1> HIDE DEF r
<1>2. r \in Nat /\ r * d <= n /\ n < (r + 1) * d
  BY <1>1 DEF r
<1>3. r * d < (q + 1) * d /\ q * d < (r + 1) * d
  BY SMTT(30), <1>2
<1>4. r < q + 1 /\ q < r + 1
  BY SMTT(30), <1>2, <1>3
<1> QED BY SMTT(30), <1>2, <1>4 DEF r

\* n bytes fit on k pages if and only if k is at least PGROUNDUP(n).
LEMMA RoundUp ==
  ASSUME NEW n \in Nat
  PROVE  /\ PGROUNDUP(n) \in Nat
         /\ \A k \in Nat : k * PGSIZE >= n <=> k >= PGROUNDUP(n)
  BY SMTT(30), MemoryAssumption DEF PGROUNDUP

\* An empty image takes no page.
LEMMA RoundUpZero == PGROUNDUP(0) = 0
  BY SMTT(30), MemoryAssumption DEF PGROUNDUP

\* A larger size takes no fewer pages.
LEMMA RoundUpMonotone ==
  ASSUME NEW m \in Nat, NEW n \in Nat, m <= n
  PROVE  PGROUNDUP(m) <= PGROUNDUP(n)
<1>1. PGROUNDUP(m) \in Nat /\ PGROUNDUP(n) \in Nat /\ PGROUNDUP(n) * PGSIZE >= n
  BY SMTT(30), RoundUp
<1>2. PGROUNDUP(n) * PGSIZE \in Nat /\ PGSIZE \in Nat
  BY SMTT(30), <1>1, MemoryAssumption
<1>3. PGROUNDUP(n) * PGSIZE >= m
  BY SMTT(30), <1>1, <1>2
<1> QED BY <1>1, <1>3, RoundUp

\* Whole pages round up to themselves.
LEMMA RoundUpPages ==
  ASSUME NEW k \in Nat
  PROVE  PGROUNDUP(k * PGSIZE) = k
<1>1. k * PGSIZE \in Nat /\ PGSIZE \in Nat \ {0}
  BY SMTT(30), MemoryAssumption
<1>2. PGROUNDUP(k * PGSIZE) \in Nat /\ k >= PGROUNDUP(k * PGSIZE)
  BY SMTT(30), <1>1, RoundUp
<1>3. PGROUNDUP(k * PGSIZE) * PGSIZE >= k * PGSIZE
  BY SMTT(30), <1>1, <1>2, RoundUp
<1>4. PGROUNDUP(k * PGSIZE) >= k
  BY SMTT(30), <1>1, <1>2, <1>3
<1> QED BY SMTT(30), <1>2, <1>4

\* The indexes that walk() uses are within a page-table page; the two fixed pages
\* share theirs, and do not share them with page 0.
LEMMA Indexes ==
  /\ MAXVA \in Nat /\ TRAMPOLINE \in 0..(MAXVA - 1) /\ TRAPFRAME \in 0..(MAXVA - 1)
  /\ UserVA \subseteq 0..(MAXVA - 1) /\ TRAMPOLINE \notin UserVA /\ TRAPFRAME \notin UserVA
  /\ TRAMPOLINE # TRAPFRAME
  /\ \A v \in 0..(MAXVA - 1) : /\ v \div (FAN * FAN) \in 0..(FAN - 1)
                               /\ v \div FAN \in 0..(FAN * FAN - 1)
  /\ TRAMPOLINE \div (FAN * FAN) = FAN - 1 /\ TRAPFRAME \div (FAN * FAN) = FAN - 1
  /\ TRAMPOLINE \div FAN = FAN * FAN - 1 /\ TRAPFRAME \div FAN = FAN * FAN - 1
  /\ 0 \div (FAN * FAN) = 0 /\ 0 \div FAN = 0 /\ FAN * FAN >= 4
<1> DEFINE F2 == FAN * FAN
           F3 == FAN * FAN * FAN
<1>1. FAN \in Nat /\ FAN >= 2 /\ F2 \in Nat /\ F2 >= 4 /\ F3 \in Nat /\ F3 = FAN * F2 /\ F3 >= 8
  <2>1. FAN \in Nat /\ FAN >= 2
    BY MemoryAssumption
  <2>2. F2 \in Nat /\ F2 >= 4
    BY SMTT(30), <2>1
  <2>3. F3 \in Nat /\ F3 = FAN * F2
    BY SMTT(30), <2>1
  <2> HIDE DEF F2, F3
  <2>4. FAN * F2 >= 2 * F2
    BY SMTT(30), <2>1, <2>2
  <2> QED BY SMTT(30), <2>1, <2>2, <2>3, <2>4
<1>2. (FAN - 1) * F2 = F3 - F2 /\ (FAN - 1 + 1) * F2 = F3
  BY SMTT(30), <1>1
<1>3. (F2 - 1) * FAN = F3 - FAN /\ (F2 - 1 + 1) * FAN = F3
  BY SMTT(30), <1>1
<1>4. MAXVA = F3 /\ TRAMPOLINE = F3 - 1 /\ TRAPFRAME = F3 - 2 /\ UPAGES \in Nat /\ UPAGES <= F3 - 2
  BY MemoryAssumption DEF MAXVA, TRAMPOLINE, TRAPFRAME
<1> HIDE DEF F2, F3
<1>5. ASSUME NEW v \in 0..(F3 - 1)
      PROVE  v \div F2 \in 0..(FAN - 1) /\ v \div FAN \in 0..(F2 - 1)
  <2> DEFINE i == v \div F2
             j == v \div FAN
  <2>1. i \in Nat /\ i * F2 <= v /\ j \in Nat /\ j * FAN <= v
    BY SMTT(30), <1>1
  <2> HIDE DEF i, j
  <2>2. i * F2 < FAN * F2 /\ j * FAN < F2 * FAN
    BY SMTT(30), <1>1, <2>1
  <2>3. i < FAN /\ j < F2
    BY SMTT(30), <1>1, <2>1, <2>2
  <2> QED BY SMTT(30), <1>1, <2>1, <2>3 DEF i, j
<1>6. (F3 - 1) \div F2 = FAN - 1 /\ (F3 - 2) \div F2 = FAN - 1
  BY SMTT(30), <1>1, <1>2, Division
<1>7. (F3 - 1) \div FAN = F2 - 1 /\ (F3 - 2) \div FAN = F2 - 1
  BY SMTT(30), <1>1, <1>3, Division
<1>8. 0 \div F2 = 0 /\ 0 \div FAN = 0
  BY SMTT(30), <1>1
<1>9. UserVA \subseteq 0..(MAXVA - 1) /\ TRAMPOLINE \notin UserVA /\ TRAPFRAME \notin UserVA
  BY SMTT(30), <1>1, <1>4 DEF UserVA
<1> QED
  BY SMTT(30), <1>1, <1>4, <1>5, <1>6, <1>7, <1>8, <1>9 DEF F2

----------------------------------------------------------------------------
(* Places *)

\* The places of a table are its own.
LEMMA TablePlace ==
  ASSUME NEW t \in Tables
  PROVE  /\ t[1] \in Procs /\ t[2] \in {"cur", "new"} /\ t = <<t[1], t[2]>>
         /\ \A x \in TablePlaces(t) :
              x \in Places /\ x[1] = t[1] /\ x[2] = t[2] /\ x = <<t[1], t[2], x[3], x[4]>>
<1>1. TablePlaces(t) \subseteq Places
  BY DEF Places
<1>2. t[1] \in Procs /\ t[2] \in {"cur", "new"} /\ t = <<t[1], t[2]>>
  BY SMTT(30) DEF Tables
<1>3. \A x \in TablePlaces(t) : x[1] = t[1] /\ x[2] = t[2] /\ x = <<t[1], t[2], x[3], x[4]>>
  BY SMTT(30) DEF TablePlaces, Nodes, Root, UserPage
<1> QED BY <1>1, <1>2, <1>3

\* The root, the page-table pages on a path and the user pages of a table are its
\* places, and distinct: a user page is no page-table page, two addresses two pages.
LEMMA TableParts ==
  ASSUME NEW t \in Tables
  PROVE  /\ Root(t) \in TablePlaces(t)
         /\ \A v \in 0..(MAXVA - 1) : Path(t, v)[1] \in TablePlaces(t) /\ Path(t, v)[2] \in TablePlaces(t)
         /\ \A v \in UserVA : UserPage(t, v) \in TablePlaces(t)
         /\ \A v \in UserVA : UserPage(t, v) # Root(t)
         /\ \A v \in UserVA, w \in UserVA : UserPage(t, v) = UserPage(t, w) => v = w
         /\ \A v \in UserVA, w \in 0..(MAXVA - 1) : UserPage(t, v) # Path(t, w)[1] /\ UserPage(t, v) # Path(t, w)[2]
<1>1. Root(t) \in TablePlaces(t)
  BY DEF TablePlaces, Nodes
<1>2. ASSUME NEW v \in 0..(MAXVA - 1)
      PROVE  Path(t, v)[1] \in TablePlaces(t) /\ Path(t, v)[2] \in TablePlaces(t)
  BY Indexes DEF TablePlaces, Nodes, Path
<1>3. \A v \in UserVA : UserPage(t, v) \in TablePlaces(t)
  BY DEF TablePlaces
<1>4. \A v \in UserVA : UserPage(t, v) # Root(t)
  BY SMTT(30) DEF UserPage, Root
<1>5. \A v \in UserVA, w \in UserVA : UserPage(t, v) = UserPage(t, w) => v = w
  BY DEF UserPage
<1>6. \A v \in UserVA, w \in 0..(MAXVA - 1) : UserPage(t, v) # Path(t, w)[1] /\ UserPage(t, v) # Path(t, w)[2]
  BY SMTT(30) DEF UserPage, Path
<1> QED BY <1>1, <1>2, <1>3, <1>4, <1>5, <1>6

\* The trapframe, the page in hand and the arguments of a process are places of it.
LEMMA ProcPlace ==
  ASSUME NEW p \in Procs
  PROVE  /\ Trapframe(p) \in Places /\ Trapframe(p)[1] = p /\ Trapframe(p)[2] = "trapframe"
         /\ Mem(p) \in Places /\ Mem(p)[1] = p /\ Mem(p)[2] = "mem"
         /\ \A x \in Args(p) : x \in Places /\ x[1] = p /\ x[2] = "arg"
         /\ \A i \in 1..MAXARG : Arg(p, i) \in Args(p)
<1>1. {Trapframe(p), Mem(p)} \cup Args(p) \subseteq Places
  <2> DEFINE S(q) == {Trapframe(q), Mem(q)} \cup Args(q)
             T == UNION {TablePlaces(t) : t \in Tables}
  <2>1. Places = T \cup UNION {S(q) : q \in Procs}
    BY DEF Places
  <2> HIDE DEF S, T
  <2>2. S(p) \subseteq Places
    BY <2>1
  <2> QED BY <2>2 DEF S
<1>2. Trapframe(p)[1] = p /\ Trapframe(p)[2] = "trapframe" /\ Mem(p)[1] = p /\ Mem(p)[2] = "mem"
  BY DEF Trapframe, Mem
<1>3. \A x \in Args(p) : x[1] = p /\ x[2] = "arg"
  BY SMTT(30) DEF Args, Arg
<1>4. \A i \in 1..MAXARG : Arg(p, i) \in Args(p)
  BY DEF Args
<1> QED BY <1>1, <1>2, <1>3, <1>4

----------------------------------------------------------------------------
(* Allocating and freeing *)

\* kalloc() takes one free page, for x only.
LEMMA Kalloc ==
  ASSUME TypeOK, NEW x \in Places, kalloc(x)
  PROVE  /\ at'[x] # NoPage /\ \A y \in Places : y # x => at'[y] = at[y]
         /\ at' \in [Places -> Pages \cup {NoPage}] /\ free' \subseteq Pages
         /\ at'[x] \in free /\ free' = free \ {at'[x]}
<1>1. PICK r \in free : free' = free \ {r} /\ at' = [at EXCEPT ![x] = r]
  BY DEF kalloc
<1>2. at \in [Places -> Pages \cup {NoPage}] /\ free \subseteq Pages
  BY DEF TypeOK
<1>3. NoPage \notin Pages
  BY SMTT(30) DEF Pages, NoPage
<1> QED BY <1>1, <1>2, <1>3

\* kfree() empties the places X, and frees exactly the pages they held.
LEMMA Kfree ==
  ASSUME TypeOK, NEW X, X \subseteq Places, kfree(X)
  PROVE  /\ \A x \in X : at'[x] = NoPage
         /\ \A y \in Places : y \notin X => at'[y] = at[y]
         /\ at' \in [Places -> Pages \cup {NoPage}] /\ free' \subseteq Pages
         /\ free' = free \cup ({at[x] : x \in X} \ {NoPage})
<1>1. at \in [Places -> Pages \cup {NoPage}] /\ free \subseteq Pages
  BY DEF TypeOK
<1> QED BY <1>1 DEF kfree

\* kalloc() into an empty place, and kfree(), leave each page with one owner.
LEMMA KallocOwned ==
  ASSUME TypeOK, Owned, NEW x \in Places, at[x] = NoPage, kalloc(x)
  PROVE  Owned'
<1>1. /\ at'[x] # NoPage /\ at'[x] \in free /\ free' = free \ {at'[x]}
      /\ \A y \in Places : y # x => at'[y] = at[y]
  BY Kalloc
<1>2. /\ \A y, z \in Places : at[y] = at[z] /\ at[y] # NoPage => y = z
      /\ \A g \in Pages : g \in free <=> \A y \in Places : at[y] # g
      /\ free \subseteq Pages /\ NoPage \notin Pages
  BY SMTT(30) DEF Owned, TypeOK, Pages, NoPage
<1>3. ASSUME NEW y \in Places, NEW z \in Places, at'[y] = at'[z], at'[y] # NoPage PROVE y = z
  BY SMTT(30), <1>1, <1>2, <1>3
<1>4. ASSUME NEW g \in Pages PROVE g \in free' <=> \A y \in Places : at'[y] # g
  <2>1. CASE g = at'[x]
    BY <1>1, <2>1
  <2>2. CASE g # at'[x]
    <3>1. g \in free' <=> g \in free
      BY <1>1, <2>2
    <3>2. (\A y \in Places : at'[y] # g) <=> (\A y \in Places : at[y] # g)
      BY <1>1, <1>2, <2>2
    <3> QED BY <1>2, <3>1, <3>2
  <2> QED BY <2>1, <2>2
<1> QED BY <1>3, <1>4 DEF Owned

\* The same for kfree(): no page is freed while another place holds it.
LEMMA KfreeOwned ==
  ASSUME TypeOK, Owned, NEW X, X \subseteq Places, kfree(X)
  PROVE  Owned'
<1>1. /\ \A x \in X : at'[x] = NoPage
      /\ \A y \in Places : y \notin X => at'[y] = at[y]
      /\ free' = free \cup ({at[x] : x \in X} \ {NoPage})
  BY Kfree
<1>2. /\ \A y, z \in Places : at[y] = at[z] /\ at[y] # NoPage => y = z
      /\ \A g \in Pages : g \in free <=> \A y \in Places : at[y] # g
      /\ free \subseteq Pages /\ NoPage \notin Pages
  BY SMTT(30) DEF Owned, TypeOK, Pages, NoPage
<1>3. ASSUME NEW y \in Places, NEW z \in Places, at'[y] = at'[z], at'[y] # NoPage PROVE y = z
  BY <1>1, <1>2, <1>3
<1>4. ASSUME NEW g \in Pages PROVE g \in free' <=> \A y \in Places : at'[y] # g
  <2>1. ASSUME NEW x \in X, at[x] = g PROVE g \in free' /\ \A y \in Places : at'[y] # g
    <3>1. g \in free'
      BY <1>1, <1>2, <2>1
    <3>2. ASSUME NEW y \in Places PROVE at'[y] # g
      <4>1. CASE y \in X
        BY <1>1, <1>2, <4>1
      <4>2. CASE y \notin X
        BY SMTT(30), <1>1, <1>2, <2>1, <4>2
      <4> QED BY <4>1, <4>2
    <3> QED BY <3>1, <3>2
  <2>2. CASE \A x \in X : at[x] # g
    <3>1. g \in free' <=> g \in free
      BY <1>1, <2>2
    <3>2. (\A y \in Places : at'[y] # g) <=> (\A y \in Places : at[y] # g)
      BY <1>1, <1>2, <2>2
    <3> QED BY <1>2, <3>1, <3>2
  <2> QED BY <2>1, <2>2
<1> QED BY <1>3, <1>4 DEF Owned

----------------------------------------------------------------------------
(* Tables that a step leaves alone, or that it grows *)

Same(i, k) == \A x \in Places : x[1] = i /\ x[2] = k => at'[x] = at[x]

\* A table that gains page-table pages, and no user page, maps what it mapped.
LEMMA TableGrows ==
  ASSUME NEW t \in Tables, top'[t] = top[t],
         \A x \in TablePlaces(t) : at[x] # NoPage => at'[x] # NoPage,
         \A v \in UserVA : at'[UserPage(t, v)] = NoPage <=> at[UserPage(t, v)] = NoPage
  PROVE  /\ NoUser(t) => NoUser(t)'
         /\ \A v \in 0..(MAXVA - 1) : Present(t, v) => Present(t, v)'
         /\ \A h \in Nat : Image(t, h) => Image(t, h)'
<1>1. NoUser(t) => NoUser(t)'
  BY DEF NoUser
<1>2. ASSUME NEW v \in 0..(MAXVA - 1), Present(t, v) PROVE Present(t, v)'
  <2>1. Path(t, v)[1] \in TablePlaces(t) /\ Path(t, v)[2] \in TablePlaces(t)
    BY TableParts
  <2>2. at[Path(t, v)[1]] # NoPage /\ at[Path(t, v)[2]] # NoPage
    BY <1>2 DEF Present
  <2> QED BY <2>1, <2>2 DEF Present
<1>3. ASSUME NEW h \in Nat, Image(t, h) PROVE Image(t, h)'
  <2>1. top'[t] = {TRAMPOLINE, TRAPFRAME}
    BY <1>3 DEF Image
  <2>2. Present(t, TRAMPOLINE)' /\ Present(t, TRAPFRAME)'
    BY <1>2, <1>3, Indexes DEF Image
  <2>3. ASSUME NEW v \in UserVA
        PROVE  (at'[UserPage(t, v)] # NoPage <=> v < h) /\ (v < h => Present(t, v)')
    BY <1>2, <1>3, Indexes DEF Image
  <2> QED BY <2>1, <2>2, <2>3 DEF Image
<1> QED BY <1>1, <1>2, <1>3

\* A table whose places keep their pages is what it was.
LEMMA TableSame ==
  ASSUME NEW t \in Tables, top'[t] = top[t], Same(t[1], t[2])
  PROVE  /\ Blank(t) => Blank(t)'
         /\ NoUser(t) => NoUser(t)'
         /\ \A v \in 0..(MAXVA - 1) : Present(t, v) => Present(t, v)'
         /\ \A h \in Nat : Image(t, h) => Image(t, h)'
<1>1. \A x \in TablePlaces(t) : at'[x] = at[x]
  BY TablePlace DEF Same
<1>2. \A v \in UserVA : UserPage(t, v) \in TablePlaces(t)
  BY TableParts
<1>3. Blank(t) => Blank(t)'
  BY <1>1 DEF Blank
<1> QED
  BY <1>1, <1>2, <1>3, TableGrows

----------------------------------------------------------------------------
(* Processes that a step leaves alone *)

Still(q) ==
  /\ pc'[q] = pc[q] /\ op'[q] = op[q] /\ np'[q] = np[q] /\ sz'[q] = sz[q]
  /\ a'[q] = a[q] /\ base'[q] = base[q] /\ end'[q] = end[q]
  /\ prog'[q] = prog[q] /\ nsz'[q] = nsz[q]

AllSame(q) ==
  /\ \A x \in Places : x[1] = q => at'[x] = at[x]
  /\ top'[<<q, "cur">>] = top[<<q, "cur">>] /\ top'[<<q, "new">>] = top[<<q, "new">>]

\* The bounds of a call that makes no step are what they were.
LEMMA BoundsStill ==
  ASSUME NEW q \in Procs, Bounds(q), Still(q)
  PROVE  Bounds(q)'
  BY DEF Bounds, InLoop, Fits, Still, Alive, Seg

\* The table that a call works on: fork() that of the child, exec() the new one.
LEMMA TabTable ==
  ASSUME Calls, NEW p \in Procs
  PROVE  /\ Tab(p) \in Tables /\ <<p, "cur">> \in Tables /\ <<p, "new">> \in Tables
         /\ op[p] = "fork" => /\ np[p] \in Procs /\ np[p] # p /\ pc[np[p]] = "embryo"
                              /\ Tab(p) = <<np[p], "cur">> /\ op[np[p]] = "none"
         /\ op[p] = "exec" => Tab(p) = <<p, "new">>
         /\ op[p] \notin {"fork", "exec"} => Tab(p) = <<p, "cur">>
<1>1. op[p] = "fork" => np[p] \in Procs /\ pc[np[p]] = "embryo"
  BY DEF Calls
<1>2. op[p] = "fork" => op[np[p]] = "none"
  BY <1>1 DEF Calls
<1>3. op[p] = "fork" => np[p] # p
  BY <1>2
<1> QED BY <1>1, <1>2, <1>3 DEF Tab, Tables

\* A process whose places and locals a step leaves alone keeps its invariant.
LEMMA OtherKeeps ==
  ASSUME Calls, NEW q \in Procs, Bounds(q), Kept(q), Built(q), Still(q), AllSame(q),
         op[q] = "fork" => AllSame(np[q])
  PROVE  Bounds(q)' /\ Kept(q)' /\ Built(q)'
<1>1. Bounds(q)'
  BY BoundsStill
<1>2. /\ pc'[q] = pc[q] /\ op'[q] = op[q] /\ np'[q] = np[q] /\ sz'[q] = sz[q] /\ a'[q] = a[q]
      /\ nsz'[q] = nsz[q] /\ Alive(q)' = Alive(q) /\ Tab(q)' = Tab(q)
  BY DEF Still, Alive, Tab
<1>3. /\ <<q, "cur">> \in Tables /\ <<q, "new">> \in Tables /\ Tab(q) \in Tables
      /\ op[q] = "fork" => np[q] \in Procs
      /\ Tab(q) \in {<<q, "cur">>, <<q, "new">>} \/ (op[q] = "fork" /\ Tab(q) = <<np[q], "cur">>)
  BY TabTable
<1>4. /\ Same(q, "cur") /\ Same(q, "new") /\ Same(q, "trapframe") /\ Same(q, "mem") /\ Same(q, "arg")
      /\ op[q] = "fork" => Same(np[q], "cur") /\ Same(np[q], "trapframe")
  BY DEF AllSame, Same
<1>5. Kept(q)'
  <2>1. at'[Trapframe(q)] = at[Trapframe(q)] /\ at'[Mem(q)] = at[Mem(q)]
    BY <1>4, ProcPlace DEF Same
  <2>2. \A x \in Args(q) : at'[x] = at[x]
    BY SMTT(30), <1>4, ProcPlace DEF Same
  <2>3. \A c \in Procs : op[q] = "fork" /\ c = np[q] => at'[Trapframe(c)] = at[Trapframe(c)]
    BY <1>4, ProcPlace DEF Same
  <2>4. /\ Blank(<<q, "cur">>) => Blank(<<q, "cur">>)'
        /\ \A h \in Nat : Image(<<q, "cur">>, h) => Image(<<q, "cur">>, h)'
    BY <1>3, <1>4, TableSame DEF AllSame
  <2>5. Blank(<<q, "new">>) => Blank(<<q, "new">>)'
    BY <1>3, <1>4, TableSame DEF AllSame
  <2> QED BY <1>2, <2>1, <2>2, <2>3, <2>4, <2>5 DEF Kept
<1>6. Built(q)'
  <2> SUFFICES ASSUME NEW t \in Tables, NEW h \in Nat, t = Tab(q)
               PROVE  /\ pc[q] \in {"args", "trapframe", "create"} => Blank(t)'
                      /\ pc[q] = "tramp" => top'[t] = {} /\ NoUser(t)'
                      /\ pc[q] = "tfmap" => top'[t] = {TRAMPOLINE} /\ NoUser(t)' /\ Present(t, TRAMPOLINE)'
                      /\ pc[q] = "load" /\ h = PGROUNDUP(nsz[q]) => Image(t, h)'
                      /\ pc[q] \in {"loop", "page"} /\ h = a[q] => Image(t, h)'
    BY <1>2 DEF Built
  <2>1. Same(t[1], t[2]) /\ top'[t] = top[t]
    BY SMTT(30), <1>3, <1>4 DEF AllSame
  <2>2. /\ Blank(t) => Blank(t)'
        /\ NoUser(t) => NoUser(t)'
        /\ Present(t, TRAMPOLINE) => Present(t, TRAMPOLINE)'
        /\ Image(t, h) => Image(t, h)'
    BY <2>1, TableSame, Indexes
  <2>3. /\ pc[q] \in {"args", "trapframe", "create"} => Blank(t)
        /\ pc[q] = "tramp" => top[t] = {} /\ NoUser(t)
        /\ pc[q] = "tfmap" => top[t] = {TRAMPOLINE} /\ NoUser(t) /\ Present(t, TRAMPOLINE)
        /\ pc[q] = "load" /\ h = PGROUNDUP(nsz[q]) => Image(t, h)
        /\ pc[q] \in {"loop", "page"} /\ h = a[q] => Image(t, h)
    BY DEF Built
  <2> QED BY <2>1, <2>2, <2>3
<1> QED BY <1>1, <1>5, <1>6

\* The child that fork() is making.
LEMMA EmbryoKeeps ==
  ASSUME Calls, NEW q \in Procs, Bounds(q), Kept(q), pc[q] = "embryo", Still(q),
         Same(q, "new"), Same(q, "arg"), Same(q, "mem"), top'[<<q, "new">>] = top[<<q, "new">>]
  PROVE  Bounds(q)' /\ Kept(q)' /\ Built(q)'
<1>1. Bounds(q)'
  BY BoundsStill
<1>2. pc'[q] = "embryo" /\ op[q] = "none" /\ op'[q] = "none" /\ ~Alive(q)'
  BY DEF Still, Calls, Alive
<1>3. at'[Mem(q)] = at[Mem(q)] /\ \A x \in Args(q) : at'[x] = at[x]
  BY SMTT(30), ProcPlace DEF Same
<1>4. Blank(<<q, "new">>) => Blank(<<q, "new">>)'
  BY TabTable, TableSame
<1>5. Kept(q)'
  BY <1>2, <1>3, <1>4 DEF Kept
<1>6. Built(q)'
  BY <1>2 DEF Built
<1> QED BY <1>1, <1>5, <1>6

----------------------------------------------------------------------------
(* Tables under kalloc() and uvmunmap() *)

\* A page for a page-table page, or for no table, keeps what tables map.
LEMMA AllocTables ==
  ASSUME TypeOK, NEW x \in Places, at[x] = NoPage, kalloc(x), UNCHANGED top, NEW t \in Tables,
         \A v \in UserVA : x # UserPage(t, v)
  PROVE  /\ NoUser(t) => NoUser(t)'
         /\ \A v \in 0..(MAXVA - 1) : Present(t, v) => Present(t, v)'
         /\ \A h \in Nat : Image(t, h) => Image(t, h)'
         /\ x \notin TablePlaces(t) /\ Blank(t) => Blank(t)'
<1>1. \A y \in Places : y # x => at'[y] = at[y]
  BY Kalloc
<1>2. \A y \in TablePlaces(t) : y \in Places
  BY TablePlace
<1>3. \A v \in UserVA : UserPage(t, v) \in TablePlaces(t)
  BY TableParts
<1>4. \A y \in TablePlaces(t) : at[y] # NoPage => at'[y] # NoPage
  BY <1>1, <1>2
<1>5. \A v \in UserVA : at'[UserPage(t, v)] = NoPage <=> at[UserPage(t, v)] = NoPage
  BY <1>1, <1>2, <1>3
<1>6. x \notin TablePlaces(t) /\ Blank(t) => Blank(t)'
  BY <1>1, <1>2 DEF Blank
<1> QED BY <1>4, <1>5, <1>6, TableGrows

\* The pages from lo on are unmapped.
LEMMA ImageCut ==
  ASSUME NEW t \in Tables, NEW lo \in Nat, NEW hi \in Nat, lo <= hi, Image(t, hi),
         top'[t] = top[t],
         \A x \in UserPages(t, lo, hi) : at'[x] = NoPage,
         \A x \in TablePlaces(t) : x \notin UserPages(t, lo, hi) => at'[x] = at[x]
  PROVE  Image(t, lo)'
<1>1. ASSUME NEW v \in 0..(MAXVA - 1), Present(t, v) PROVE Present(t, v)'
  <2>1. Path(t, v)[1] \in TablePlaces(t) /\ Path(t, v)[2] \in TablePlaces(t)
    BY TableParts
  <2>2. Path(t, v)[1] \notin UserPages(t, lo, hi) /\ Path(t, v)[2] \notin UserPages(t, lo, hi)
    BY TableParts DEF UserPages
  <2> QED BY <1>1, <2>1, <2>2 DEF Present
<1>2. ASSUME NEW v \in UserVA
      PROVE  (at'[UserPage(t, v)] # NoPage <=> v < lo) /\ (v < lo => Present(t, v)')
  <2>1. UserPage(t, v) \in TablePlaces(t) /\ v \in Nat /\ v \in 0..(MAXVA - 1)
    BY SMTT(30), TableParts, Indexes DEF UserVA
  <2>2. UserPage(t, v) \in UserPages(t, lo, hi) <=> lo <= v /\ v < hi
    BY TableParts DEF UserPages
  <2>3. (at[UserPage(t, v)] # NoPage <=> v < hi) /\ (v < hi => Present(t, v))
    BY DEF Image
  <2>4. CASE v < lo
    <3>1. v < hi /\ UserPage(t, v) \notin UserPages(t, lo, hi)
      BY SMTT(30), <2>1, <2>2, <2>4
    <3> QED BY <1>1, <2>1, <2>3, <2>4, <3>1
  <2>5. CASE ~(v < lo)
    <3>1. CASE v < hi
      BY SMTT(30), <2>1, <2>2, <2>5, <3>1
    <3>2. CASE ~(v < hi)
      BY <2>1, <2>2, <2>3, <2>5, <3>2
    <3> QED BY <3>1, <3>2
  <2> QED BY <2>4, <2>5
<1>3. Present(t, TRAMPOLINE)' /\ Present(t, TRAPFRAME)' /\ top'[t] = {TRAMPOLINE, TRAPFRAME}
  BY <1>1, Indexes DEF Image
<1> QED BY <1>2, <1>3 DEF Image

\* uvmunmap() of a part of an image finds its pages.
LEMMA ImageMapped ==
  ASSUME NEW t \in Tables, NEW lo \in Nat, NEW hi \in Nat, NEW h \in Nat, Image(t, h),
         hi <= h, h <= UPAGES
  PROVE  Mapped(t, lo, hi)
<1>1. ASSUME NEW v \in lo..(hi - 1) PROVE v \in UserVA /\ at[UserPage(t, v)] # NoPage
  <2>1. v \in UserVA /\ v < h
    BY SMTT(30), MemoryAssumption DEF UserVA
  <2> QED BY <2>1 DEF Image
<1> QED BY <1>1 DEF Mapped

\* A loop over pages is over when a page is past its end.
LEMMA LoopEnd ==
  ASSUME TypeOK, NEW p \in Procs, Bounds(p), pc[p] = "loop"
  PROVE  /\ a[p] \in Nat /\ base[p] \in Nat /\ end[p] \in Nat /\ PGROUNDUP(end[p]) \in Nat
         /\ a[p] * PGSIZE < end[p] => a[p] < PGROUNDUP(end[p])
         /\ a[p] * PGSIZE >= end[p] => a[p] = PGROUNDUP(end[p])
<1>1. a[p] \in Nat /\ base[p] \in Nat /\ end[p] \in Nat
  BY DEF TypeOK
<1>2. PGROUNDUP(end[p]) \in Nat /\ (a[p] * PGSIZE >= end[p] <=> a[p] >= PGROUNDUP(end[p]))
  BY <1>1, RoundUp
<1>3. a[p] <= PGROUNDUP(end[p])
  BY DEF Bounds, InLoop
<1>4. a[p] * PGSIZE \in Nat
  BY SMTT(30), <1>1, MemoryAssumption
<1> QED BY SMTT(30), <1>1, <1>2, <1>3, <1>4

----------------------------------------------------------------------------
(* Loops stay within their bounds *)

\* A call that returns leaves a size that fits below the trapframe.
LEMMA BoundsRet ==
  ASSUME TypeOK, NEW p \in Procs, Bounds(p), Ret(p), pc'[p] = "user",
         sz'[p] = sz[p] \/ (sz'[p] = end[p] /\ PGROUNDUP(end[p]) <= UPAGES)
  PROVE  Bounds(p)'
<1>1. a'[p] = 0 /\ base'[p] = 0 /\ nsz'[p] = 0 /\ prog'[p] = << >> /\ op'[p] = "none"
  BY DEF Ret, TypeOK
<1>2. PGROUNDUP(sz'[p]) <= UPAGES
  BY DEF Bounds
<1>3. 1..Len(prog'[p]) = {}
  BY SMTT(30), <1>1
<1>4. Fits(p)'
  BY <1>3 DEF Fits
<1> QED BY <1>1, <1>2, <1>4 DEF Bounds, Alive

\* What does not loop does not have to stop.
LEMMA BoundsCalm ==
  ASSUME NEW p \in Procs, Bounds(p), sz'[p] = sz[p], prog'[p] = prog[p],
         a'[p] = a[p], base'[p] = base[p], nsz'[p] = nsz[p],
         pc[p] \notin {"load", "loop", "page"}, pc'[p] \notin {"load", "loop", "page"},
         Alive(p) => Alive(p)'
  PROVE  Bounds(p)'
<1>1. Fits(p)'
  BY DEF Bounds, Fits
<1> QED BY <1>1 DEF Bounds

\* The steps that build a table keep the bounds of the loop they are in.
LEMMA BoundsAlloc ==
  ASSUME TypeOK, Calls, NEW p \in Procs, Bounds(p),
         Build(p) \/ \E i \in 1..MAXARG : fetch_arg(p, i)
  PROVE  Bounds(p)'
<1>p. DOMAIN pc = Procs
  BY DEF TypeOK
<1>1. Fail(p) => Bounds(p)'
  <2>1. Fail(p) => Ret(p) /\ UNCHANGED sz
    BY DEF Fail
  <2>2. Fail(p) => pc'[p] = "user"
    <3>1. op[p] = "fork" => np[p] # p
      BY TabTable
    <3> QED BY <1>p, <3>1 DEF Fail, sbrk_fails, fork_fails, exec_fails
  <2> QED BY <2>1, <2>2, BoundsRet
<1>2. ASSUME NEW x, NEW next, Alloc(p, x, next),
             \/ pc[p] \notin {"load", "loop", "page"} /\ next \notin {"load", "loop", "page", "unused", "embryo"}
             \/ pc[p] = next
      PROVE  Bounds(p)'
  <2>1. CASE pc' = [pc EXCEPT ![p] = next] /\ UNCHANGED <<top, sz, op, loop, panicked>>
    <3>1. /\ pc'[p] = next /\ sz' = sz /\ op' = op /\ a' = a /\ base' = base /\ end' = end
          /\ prog' = prog /\ nsz' = nsz /\ np' = np
      BY <1>p, <2>1 DEF loop
    <3>2. CASE pc[p] = next
      BY <3>1, <3>2, BoundsStill DEF Still
    <3>3. CASE pc[p] # next
      BY <1>2, <3>1, <3>3, BoundsCalm DEF Alive
    <3> QED BY <3>2, <3>3
  <2> QED BY <1>1, <1>2, <2>1 DEF Alloc
<1>3. CASE alloc_trapframe(p) \/ uvmcreate(p) \/ walk(p)
  BY <1>2, <1>3 DEF alloc_trapframe, uvmcreate, walk
<1>4. CASE \E i \in 1..MAXARG : fetch_arg(p, i)
  BY <1>2, <1>4 DEF fetch_arg
<1>5. CASE map_top(p)
  <2>1. /\ sz' = sz /\ op' = op /\ a' = a /\ base' = base /\ prog' = prog /\ nsz' = nsz
        /\ pc'[p] = (IF pc[p] = "tramp" THEN "tfmap" ELSE IF op[p] = "fork" THEN "loop" ELSE "load")
        /\ end'[p] = (IF op[p] = "fork" THEN sz[p] ELSE 0) /\ pc[p] \in {"tramp", "tfmap"}
    BY <1>5 DEF map_top, TypeOK
  <2>2. a[p] = 0 /\ base[p] = 0 /\ nsz[p] = 0 /\ PGROUNDUP(sz[p]) <= UPAGES
    BY <2>1 DEF Bounds
  <2>3. op[p] \in {"fork", "exec"}
    BY <2>1 DEF Calls
  <2>4. sz[p] \in Nat /\ PGROUNDUP(sz[p]) \in Nat
    BY RoundUp DEF TypeOK
  <2>5. PGROUNDUP(0) + USERSTACK + 1 <= UPAGES
    BY SMTT(30), RoundUpZero, MemoryAssumption
  <2>6. Alive(p)' /\ Alive(p)
    BY <2>1 DEF Alive
  <2>7. CASE pc[p] = "tramp"
    BY <2>1, <2>6, <2>7, BoundsCalm
  <2>8. CASE pc[p] = "tfmap" /\ op[p] = "fork"
    <3>1. InLoop(p)'
      BY SMTT(30), <2>1, <2>2, <2>4, <2>8 DEF InLoop
    <3>2. Fits(p)'
      BY <2>1 DEF Bounds, Fits
    <3> QED BY <2>1, <2>2, <2>6, <2>8, <3>1, <3>2 DEF Bounds
  <2>9. CASE pc[p] = "tfmap" /\ op[p] = "exec"
    BY <2>1, <2>2, <2>5, <2>6, <2>9 DEF Bounds, Fits
  <2> QED BY <2>1, <2>3, <2>7, <2>8, <2>9
<1>6. CASE alloc_page(p)
  <2>1. CASE pc' = [pc EXCEPT ![p] = "page"] /\ UNCHANGED <<top, sz, op, loop>>
    <3>1. /\ pc'[p] = "page" /\ sz' = sz /\ op' = op /\ a' = a /\ base' = base /\ end' = end
          /\ prog' = prog /\ nsz' = nsz /\ pc[p] = "loop" /\ a[p] * PGSIZE < end[p]
      BY <1>6, <1>p, <2>1 DEF alloc_page, loop
    <3>2. a[p] < PGROUNDUP(end[p])
      BY <3>1, LoopEnd
    <3> QED BY <3>1, <3>2 DEF Bounds, InLoop, Fits, Alive, Seg
  <2> QED BY <1>1, <1>6, <2>1 DEF alloc_page
<1>7. CASE map_page(p)
  <2>1. /\ sz' = sz /\ op' = op /\ base' = base /\ end' = end /\ prog' = prog /\ nsz' = nsz
        /\ pc[p] = "page" /\ pc'[p] = "loop" /\ a'[p] = a[p] + 1
    BY <1>7 DEF map_page, TypeOK
  <2>2. a[p] \in Nat /\ base[p] \in Nat /\ end[p] \in Nat /\ PGROUNDUP(end[p]) \in Nat
    BY RoundUp DEF TypeOK
  <2>3. base[p] <= a[p] /\ a[p] < PGROUNDUP(end[p])
    BY <2>1 DEF Bounds, InLoop
  <2>4. base[p] <= a'[p] /\ a'[p] <= PGROUNDUP(end[p])
    BY SMTT(30), <2>1, <2>2, <2>3
  <2>5. InLoop(p)'
    BY <2>1, <2>4 DEF Bounds, InLoop, Seg
  <2>6. Fits(p)'
    BY <2>1 DEF Bounds, Fits
  <2> QED BY <2>1, <2>5, <2>6 DEF Bounds, Alive
<1> QED BY <1>3, <1>4, <1>5, <1>6, <1>7 DEF Build

\* The steps of exec() keep the bounds: segments go upwards and end below UPAGES.
LEMMA BoundsExec ==
  ASSUME TypeOK, Calls, NEW p \in Procs, Bounds(p), Exec(p)
  PROVE  Bounds(p)'
<1>p. DOMAIN pc = Procs
  BY DEF TypeOK
<1>n. /\ sz[p] \in Nat /\ nsz[p] \in Nat /\ end[p] \in Nat /\ PGROUNDUP(nsz[p]) \in Nat
      /\ PGROUNDUP(end[p]) \in Nat /\ USERSTACK \in Nat /\ UPAGES \in Nat /\ PGSIZE \in Nat
  BY RoundUp, MemoryAssumption DEF TypeOK
<1>1. ASSUME NEW s, NEW G, exec_fails(p, s, G), Ret(p), UNCHANGED sz PROVE Bounds(p)'
  <2>1. pc'[p] = "user"
    BY <1>1, <1>p DEF exec_fails
  <2> QED BY <1>1, <2>1, BoundsRet
<1>2. ASSUME NEW g \in Programs, sys_exec(p, g) PROVE Bounds(p)'
  <2>1. /\ sz' = sz /\ a' = a /\ base' = base /\ nsz' = nsz /\ prog'[p] = g
        /\ pc[p] = "user" /\ pc'[p] = "args"
    BY <1>2 DEF sys_exec, TypeOK
  <2>2. \A i \in 1..Len(g) : PGROUNDUP(g[i].vaddr + g[i].memsz) + USERSTACK + 1 <= UPAGES
    BY MemoryAssumption
  <2>3. PGROUNDUP(sz[p]) <= UPAGES /\ a[p] = 0 /\ base[p] = 0 /\ nsz[p] = 0
    BY <2>1 DEF Bounds
  <2> QED BY <2>1, <2>2, <2>3 DEF Bounds, Fits, Alive
<1>3. CASE exec(p)
  <2>1. /\ sz' = sz /\ a' = a /\ base' = base /\ nsz' = nsz /\ prog' = prog
        /\ pc[p] = "args" /\ pc'[p] = "create"
    BY <1>3, <1>p DEF exec, loop
  <2> QED BY <2>1, BoundsCalm DEF Alive
<1>4. CASE exec_bad(p) \/ push_fails(p)
  BY <1>1, <1>4 DEF exec_bad, push_fails
<1>5. CASE next_segment(p)
  <2> DEFINE first == PGROUNDUP(nsz[p])
             newsz == IF prog[p] # << >> THEN Seg(p).vaddr + Seg(p).memsz
                      ELSE (first + USERSTACK + 1) * PGSIZE
  <2>1. /\ sz' = sz /\ op' = op /\ prog' = prog /\ pc[p] = "load" /\ pc'[p] = "loop"
        /\ base'[p] = first /\ a'[p] = first
        /\ end'[p] = (IF newsz < nsz[p] THEN nsz[p] ELSE newsz)
        /\ nsz'[p] = (IF prog[p] # << >> THEN nsz[p] ELSE first * PGSIZE)
    BY <1>5 DEF next_segment, TypeOK
  <2>2. first + USERSTACK + 1 <= UPAGES /\ PGROUNDUP(sz[p]) <= UPAGES /\ op[p] = "exec"
    BY <2>1 DEF Bounds, Calls
  <2>3. CASE prog[p] # << >>
    <3>1. /\ Seg(p) = prog[p][1] /\ 1 \in 1..Len(prog[p]) /\ Seg(p).vaddr \in Nat
          /\ Seg(p).memsz \in Nat
      <4> DEFINE S == [vaddr : Nat, memsz : Nat]
      <4>1. prog[p] \in Seq(S)
        BY DEF TypeOK
      <4> HIDE DEF S
      <4>2. Seg(p) = prog[p][1] /\ 1 \in 1..Len(prog[p]) /\ Seg(p) \in S
        BY SMTT(30), <2>3, <4>1 DEF Seg
      <4> QED BY <4>2 DEF S
    <3>2. PGROUNDUP(newsz) + USERSTACK + 1 <= UPAGES
      BY <2>3, <3>1 DEF Bounds, Fits
    <3>3. newsz \in Nat
      BY SMTT(30), <2>3, <3>1
    <3> HIDE DEF newsz
    <3>4. end'[p] \in Nat /\ nsz[p] <= end'[p] /\ newsz <= end'[p]
      <4>1. end'[p] = newsz \/ end'[p] = nsz[p]
        BY <2>1
      <4>2. newsz < nsz[p] => end'[p] = nsz[p]
        BY <2>1
      <4>3. ~(newsz < nsz[p]) => end'[p] = newsz
        BY <2>1
      <4> QED BY SMTT(30), <1>n, <3>3, <4>1, <4>2, <4>3
    <3>5. first <= PGROUNDUP(end'[p])
      BY <1>n, <3>4, RoundUpMonotone
    <3>6. PGROUNDUP(end'[p]) + USERSTACK + 1 <= UPAGES
      BY <2>1, <2>2, <3>2
    <3>7. Seg(p)' = Seg(p) /\ Seg(p).vaddr + Seg(p).memsz <= end'[p]
      BY <2>1, <2>3, <3>4 DEF Seg, newsz
    <3>8. PGROUNDUP(end'[p]) \in Nat
      BY <3>4, RoundUp
    <3> HIDE DEF first
    <3>9. first \in Nat /\ nsz'[p] = nsz[p] /\ first = PGROUNDUP(nsz'[p])
      BY <1>n, <2>1, <2>3 DEF first
    <3>10. PGROUNDUP(end'[p]) <= UPAGES
      BY SMTT(30), <1>n, <3>6, <3>8
    <3>11. prog'[p] # << >> /\ op'[p] = "exec"
      BY <2>1, <2>2, <2>3
    <3>12. first <= first
      BY SMTT(30), <3>9
    <3>13. InLoop(p)'
      BY <2>1, <3>4, <3>5, <3>6, <3>7, <3>9, <3>10, <3>11, <3>12 DEF InLoop
    <3>14. Fits(p)'
      BY <2>1 DEF Bounds, Fits
    <3> QED BY <2>1, <2>2, <3>13, <3>14 DEF Bounds, Alive
  <2>4. CASE prog[p] = << >>
    <3>1. newsz = (first + USERSTACK + 1) * PGSIZE /\ nsz'[p] = first * PGSIZE
      BY <2>1, <2>4
    <3>2. PGROUNDUP(nsz'[p]) = first
      BY <1>n, <3>1, RoundUpPages
    <3>3. first * PGSIZE >= nsz[p]
      BY SMTT(30), <1>n, RoundUp
    <3> HIDE DEF first, newsz
    <3>4. first \in Nat
      BY <1>n DEF first
    <3>5. first * PGSIZE \in Nat /\ (USERSTACK + 1) * PGSIZE \in Nat
          /\ newsz = first * PGSIZE + (USERSTACK + 1) * PGSIZE
      BY SMTT(30), <1>n, <3>1, <3>4
    <3>6. newsz \in Nat /\ nsz'[p] <= newsz /\ ~(newsz < nsz[p])
      BY SMTT(30), <1>n, <3>1, <3>3, <3>5
    <3>7. end'[p] = newsz
      BY <2>1, <3>6
    <3>8. first + USERSTACK + 1 \in Nat
      BY SMTT(30), <1>n, <3>4
    <3>9. PGROUNDUP(end'[p]) = first + USERSTACK + 1
      BY <3>1, <3>7, <3>8, RoundUpPages
    <3>10. first <= PGROUNDUP(end'[p])
      BY SMTT(30), <1>n, <3>4, <3>9
    <3>11. prog'[p] = << >> /\ op'[p] = "exec" /\ nsz'[p] <= end'[p]
      BY <2>1, <2>2, <2>4, <3>6, <3>7
    <3>12. first <= first /\ PGROUNDUP(end'[p]) <= UPAGES
      BY SMTT(30), <2>2, <3>4, <3>9
    <3>13. InLoop(p)'
      BY <2>1, <3>2, <3>9, <3>10, <3>11, <3>12 DEF InLoop
    <3>14. Fits(p)'
      BY <2>1 DEF Bounds, Fits
    <3> QED BY <2>1, <2>2, <3>13, <3>14 DEF Bounds, Alive
  <2> QED BY <2>3, <2>4
<1>6. CASE loadseg(p)
  <2>1. CASE end[p] # 0
    <3>1. /\ sz' = sz /\ op' = op /\ pc[p] = "loop" /\ op[p] = "exec" /\ prog[p] # << >>
          /\ pc'[p] = "load" /\ nsz'[p] = end[p] /\ prog'[p] = Tail(prog[p])
      BY <1>6, <2>1 DEF loadseg, TypeOK
    <3>2. PGROUNDUP(sz[p]) <= UPAGES /\ PGROUNDUP(end[p]) + USERSTACK + 1 <= UPAGES
      BY <3>1 DEF Bounds, InLoop
    <3>3. ASSUME NEW i \in 1..Len(prog'[p])
          PROVE  PGROUNDUP(prog'[p][i].vaddr + prog'[p][i].memsz) + USERSTACK + 1 <= UPAGES
      <4>1. prog[p] \in Seq([vaddr : Nat, memsz : Nat])
        BY DEF TypeOK
      <4>2. i + 1 \in 1..Len(prog[p]) /\ prog'[p][i] = prog[p][i + 1]
        BY SMTT(30), <3>1, <4>1
      <4> QED BY <4>2 DEF Bounds, Fits
    <3> QED BY <3>1, <3>2, <3>3 DEF Bounds, Fits, Alive
  <2> QED BY <1>1, <1>6, <2>1 DEF loadseg
<1>7. CASE exec_commit(p)
  <2>1. /\ Ret(p) /\ sz'[p] = end[p] /\ pc'[p] = "user" /\ pc[p] = "loop"
    BY <1>7 DEF exec_commit, StackReady, TypeOK
  <2>2. PGROUNDUP(end[p]) <= UPAGES
    BY <2>1 DEF Bounds, InLoop
  <2> QED BY <2>1, <2>2, BoundsRet
<1>8. CASE \E i \in 1..MAXARG : fetch_arg(p, i)
  BY <1>8, BoundsAlloc
<1> QED BY <1>2, <1>3, <1>4, <1>5, <1>6, <1>7, <1>8 DEF Exec

\* Every step of a process keeps its loops within their bounds.
LEMMA BoundsStep ==
  ASSUME TypeOK, Calls, NEW p \in Procs, Bounds(p), Step(p)
  PROVE  Bounds(p)'
<1>1. CASE Build(p)
  BY <1>1, BoundsAlloc
<1>2. CASE Exec(p)
  BY <1>2, BoundsExec
<1>3. ASSUME NEW q \in Procs, fork(p, q) PROVE Bounds(p)'
  <2>1. p # q /\ pc[p] = "user" /\ pc'[p] = "trapframe"
    BY <1>3 DEF fork, TypeOK
  <2> QED BY <1>3, <2>1, BoundsCalm DEF fork, Alive
<1>4. CASE fork_done(p)
  <2>1. op[p] = "fork" /\ np[p] # p /\ pc[p] = "loop" /\ Ret(p)
    BY <1>4, TabTable DEF fork_done
  <2>2. pc'[p] = "user" /\ sz'[p] = sz[p]
    BY <1>4, <2>1 DEF fork_done, TypeOK
  <2> QED BY <2>1, <2>2, BoundsRet
<1>5. CASE exit(p)
  <2>1. pc[p] = "user" /\ pc'[p] = "zombie"
    BY <1>5 DEF exit, TypeOK
  <2> QED BY <1>5, <2>1, BoundsCalm DEF exit, Alive, loop
<1>6. CASE freeproc(p)
  <2>1. /\ pc[p] = "zombie" /\ pc'[p] = "unused" /\ sz'[p] = 0 /\ a' = a /\ base' = base
        /\ nsz' = nsz /\ prog' = prog
    BY <1>6 DEF freeproc, TypeOK, loop
  <2>2. PGROUNDUP(0) <= UPAGES
    BY SMTT(30), RoundUpZero, MemoryAssumption
  <2>3. Fits(p)'
    BY <2>1 DEF Bounds, Fits
  <2> QED BY <2>1, <2>2, <2>3 DEF Bounds, Alive
<1>7. ASSUME NEW n \in Deltas, grow(p, n) PROVE Bounds(p)'
  <2>1. /\ pc[p] = "user" /\ pc'[p] = "loop" /\ op'[p] = "sbrk" /\ sz' = sz /\ prog' = prog
        /\ base'[p] = PGROUNDUP(sz[p]) /\ a'[p] = PGROUNDUP(sz[p]) /\ end'[p] = sz[p] + n
        /\ PGROUNDUP(sz[p] + n) <= UPAGES /\ n > 0
    BY <1>7 DEF grow, TypeOK
  <2>2. sz[p] \in Nat /\ n \in Int
    BY MemoryAssumption DEF TypeOK
  <2>3. sz[p] + n \in Nat /\ sz[p] <= sz[p] + n
    BY SMTT(30), <2>1, <2>2
  <2>4. PGROUNDUP(sz[p]) <= PGROUNDUP(sz[p] + n) /\ PGROUNDUP(sz[p]) \in Nat
    BY <2>2, <2>3, RoundUp, RoundUpMonotone
  <2>5. PGROUNDUP(sz[p]) <= PGROUNDUP(sz[p])
    BY SMTT(30), <2>4
  <2>6. InLoop(p)'
    BY <2>1, <2>4, <2>5 DEF InLoop
  <2>7. Fits(p)'
    BY <2>1 DEF Bounds, Fits
  <2> QED BY <2>1, <2>6, <2>7 DEF Bounds, Alive
<1>8. ASSUME NEW n \in Deltas, shrink(p, n) PROVE Bounds(p)'
  <2>1. /\ pc[p] = "user" /\ pc' = pc /\ sz'[p] = sz[p] + n /\ sz[p] + n >= 0 /\ n < 0
        /\ a' = a /\ base' = base /\ nsz' = nsz /\ prog' = prog
    BY <1>8 DEF shrink, TypeOK, loop
  <2>2. sz[p] \in Nat /\ n \in Int /\ UPAGES \in Nat
    BY MemoryAssumption DEF TypeOK
  <2>3. sz[p] + n \in Nat /\ sz[p] + n <= sz[p]
    BY SMTT(30), <2>1, <2>2
  <2>4. /\ PGROUNDUP(sz[p] + n) <= PGROUNDUP(sz[p]) /\ PGROUNDUP(sz[p]) \in Nat
        /\ PGROUNDUP(sz[p] + n) \in Nat
    BY <2>2, <2>3, RoundUp, RoundUpMonotone
  <2>5. PGROUNDUP(sz'[p]) <= UPAGES
    <3>1. PGROUNDUP(sz[p]) <= UPAGES
      BY DEF Bounds
    <3> QED BY SMTT(30), <2>1, <2>2, <2>4, <3>1
  <2> QED BY <2>1, <2>5 DEF Bounds, Fits, Alive
<1>9. CASE grow_done(p)
  <2>1. /\ Ret(p) /\ sz'[p] = end[p] /\ pc'[p] = "user" /\ pc[p] = "loop"
    BY <1>9 DEF grow_done, TypeOK
  <2> QED BY <2>1, BoundsRet DEF Bounds, InLoop
<1> QED BY <1>1, <1>2, <1>3, <1>4, <1>5, <1>6, <1>7, <1>8, <1>9 DEF Step

----------------------------------------------------------------------------
(* What a step does to the pages *)

\* The places that a step of p may change.
Near(p, x) ==
  x[1] = p \/ (op[p] = "fork" /\ x[1] = np[p] /\ x[2] \in {"cur", "trapframe"})

Allocates(p) ==
  \E x \in Places : at[x] = NoPage /\ Near(p, x) /\ kalloc(x) /\ UNCHANGED top
Frees(p) ==
  \E X \in SUBSET Places : (\A x \in X : Near(p, x)) /\ kfree(X)

\* The page that p is mapping is an address.
LEMMA HereInRange ==
  ASSUME TypeOK, NEW p \in Procs, Bounds(p), pc[p] \in {"tramp", "tfmap", "page"}
  PROVE  Here(p) \in 0..(MAXVA - 1) /\ (pc[p] = "page" => Here(p) = a[p] /\ a[p] \in UserVA)
<1>1. CASE pc[p] = "page"
  <2>1. a[p] \in Nat /\ end[p] \in Nat /\ UPAGES \in Nat
    BY MemoryAssumption DEF TypeOK
  <2>2. PGROUNDUP(end[p]) \in Nat
    BY <2>1, RoundUp
  <2>3. a[p] < PGROUNDUP(end[p]) /\ PGROUNDUP(end[p]) <= UPAGES
    BY <1>1 DEF Bounds, InLoop
  <2>4. a[p] \in UserVA
    BY SMTT(30), <2>1, <2>2, <2>3 DEF UserVA
  <2>5. Here(p) = a[p]
    BY <1>1 DEF Here
  <2> QED BY <2>4, <2>5, Indexes
<1>2. CASE pc[p] # "page"
  BY <1>2, Indexes DEF Here
<1> QED BY <1>1, <1>2

\* The table and the places of p's call are near it.
LEMMA TabNear ==
  ASSUME Calls, NEW p \in Procs
  PROVE  /\ \A x \in TablePlaces(Tab(p)) : x \in Places /\ Near(p, x)
         /\ \A x \in TablePlaces(<<p, "cur">>) : x \in Places /\ Near(p, x)
         /\ \A x \in TablePlaces(<<p, "new">>) : x \in Places /\ Near(p, x)
         /\ Mem(p) \in Places /\ Near(p, Mem(p))
         /\ Trapframe(p) \in Places /\ Near(p, Trapframe(p))
         /\ \A x \in Args(p) : x \in Places /\ Near(p, x)
         /\ op[p] = "fork" => /\ Trapframe(np[p]) \in Places /\ Near(p, Trapframe(np[p]))
                              /\ \A x \in TablePlaces(<<np[p], "cur">>) : x \in Places /\ Near(p, x)
<1>1. /\ <<p, "cur">> \in Tables /\ <<p, "new">> \in Tables
      /\ op[p] = "fork" => np[p] \in Procs
      /\ Tab(p) \in {<<p, "cur">>, <<p, "new">>} \/ (op[p] = "fork" /\ Tab(p) = <<np[p], "cur">>)
  BY TabTable
<1>2. \A x \in TablePlaces(<<p, "cur">>) : x \in Places /\ x[1] = p
  BY <1>1, TablePlace
<1>3. \A x \in TablePlaces(<<p, "new">>) : x \in Places /\ x[1] = p
  BY <1>1, TablePlace
<1>4. op[p] = "fork" => <<np[p], "cur">> \in Tables
  BY <1>1 DEF Tables
<1>5. op[p] = "fork" => \A x \in TablePlaces(<<np[p], "cur">>) : x \in Places /\ x[1] = np[p] /\ x[2] = "cur"
  BY <1>4, TablePlace
<1>6. op[p] = "fork" => /\ Trapframe(np[p]) \in Places /\ Trapframe(np[p])[1] = np[p]
                        /\ Trapframe(np[p])[2] = "trapframe"
  BY <1>1, ProcPlace
<1>7. /\ Mem(p) \in Places /\ Mem(p)[1] = p /\ Trapframe(p) \in Places /\ Trapframe(p)[1] = p
      /\ \A x \in Args(p) : x \in Places /\ x[1] = p
  BY ProcPlace
<1> QED BY <1>1, <1>2, <1>3, <1>5, <1>6, <1>7 DEF Near

\* The user pages of a table are places of it.
LEMMA UserPlaces ==
  ASSUME NEW t \in Tables, NEW lo, NEW hi
  PROVE  UserPages(t, lo, hi) \subseteq TablePlaces(t)
  BY SMTT(30), TableParts DEF UserPages

\* What a failing uvmalloc() or uvmcopy() takes back is in the table it was filling.
LEMMA UndoPlaces ==
  ASSUME Calls, NEW p \in Procs
  PROVE  Undo(p) \subseteq TablePlaces(Tab(p))
  BY TabTable, UserPlaces DEF Undo

\* Every way to fail only frees.
LEMMA FailFrees ==
  ASSUME Calls, NEW p \in Procs, Fail(p)
  PROVE  Frees(p)
<1>1. CASE op[p] = "sbrk" /\ sbrk_fails(p, Undo(p))
  <2>1. kfree({Mem(p)} \cup Undo(p))
    BY <1>1 DEF sbrk_fails
  <2>2. {Mem(p)} \cup Undo(p) \in SUBSET Places /\ \A x \in {Mem(p)} \cup Undo(p) : Near(p, x)
    BY TabNear, UndoPlaces
  <2> QED BY <2>1, <2>2 DEF Frees
<1>2. CASE op[p] = "fork" /\ fork_fails(p, Undo(p))
  <2> DEFINE X == {Mem(p), Trapframe(np[p])} \cup TablePlaces(<<np[p], "cur">>)
  <2>1. kfree(X)
    BY <1>2 DEF fork_fails
  <2>2. X \in SUBSET Places /\ \A x \in X : Near(p, x)
    BY <1>2, TabNear
  <2> QED BY <2>1, <2>2 DEF Frees
<1>3. CASE op[p] = "exec" /\ exec_fails(p, nsz[p], Undo(p))
  <2> DEFINE X == {Mem(p)} \cup TablePlaces(<<p, "new">>) \cup Args(p)
  <2>1. kfree(X)
    BY <1>3 DEF exec_fails
  <2>2. X \in SUBSET Places /\ \A x \in X : Near(p, x)
    BY TabNear
  <2> QED BY <2>1, <2>2 DEF Frees
<1> QED BY <1>1, <1>2, <1>3 DEF Fail

\* The bad: path of exec() frees places of the caller only.
LEMMA ExecFailsFrees ==
  ASSUME Calls, NEW p \in Procs, NEW s, NEW G, exec_fails(p, s, G)
  PROVE  Frees(p)
<1> DEFINE X == {Mem(p)} \cup TablePlaces(<<p, "new">>) \cup Args(p)
<1>1. kfree(X)
  BY DEF exec_fails
<1>2. X \in SUBSET Places /\ \A x \in X : Near(p, x)
  BY TabNear
<1> QED BY <1>1, <1>2 DEF Frees

\* A step allocates one page into an empty place, frees what some places hold,
\* maps a page, commits to a new image, or leaves the pages alone.
LEMMA Kinds ==
  ASSUME MemInv, NEW p \in Procs, Step(p)
  PROVE  Allocates(p) \/ Frees(p) \/ map_page(p) \/ exec_commit(p) \/ UNCHANGED <<free, at>>
<1>i. TypeOK /\ Calls /\ Bounds(p) /\ Kept(p) /\ Built(p)
  BY DEF MemInv
<1>t. Tab(p) \in Tables
  BY <1>i, TabTable
<1>1. CASE alloc_trapframe(p)
  <2>1. pc[p] = "trapframe" /\ op[p] = "fork" /\ np[p] \in Procs
    BY <1>1, <1>i DEF alloc_trapframe, Calls
  <2>2. at[Trapframe(np[p])] = NoPage
    BY <2>1, <1>i DEF Kept
  <2>3. Trapframe(np[p]) \in Places /\ Near(p, Trapframe(np[p]))
    BY <2>1, <1>i, TabNear
  <2> QED BY <1>1, <1>i, <2>2, <2>3, FailFrees DEF alloc_trapframe, Alloc, Allocates
<1>2. CASE uvmcreate(p)
  <2>1. Blank(Tab(p))
    <3>1. pc[p] = "create"
      BY <1>2 DEF uvmcreate
    <3> QED BY <1>i, <1>t, <3>1 DEF Built
  <2>2. Root(Tab(p)) \in TablePlaces(Tab(p))
    BY <1>t, TableParts
  <2>3. at[Root(Tab(p))] = NoPage
    BY <2>1, <2>2 DEF Blank
  <2>4. Root(Tab(p)) \in Places /\ Near(p, Root(Tab(p)))
    BY <1>i, <2>2, TabNear
  <2> QED BY <1>2, <1>i, <2>3, <2>4, FailFrees DEF uvmcreate, Alloc, Allocates
<1>3. CASE walk(p)
  <2> DEFINE x == NextMissing(Tab(p), Here(p))
  <2>1. Here(p) \in 0..(MAXVA - 1) /\ ~Present(Tab(p), Here(p))
    BY <1>3, <1>i, HereInRange DEF walk
  <2>2. x \in TablePlaces(Tab(p)) /\ at[x] = NoPage
    <3>1. Path(Tab(p), Here(p))[1] \in TablePlaces(Tab(p)) /\ Path(Tab(p), Here(p))[2] \in TablePlaces(Tab(p))
      BY <1>t, <2>1, TableParts
    <3> QED BY <2>1, <3>1 DEF NextMissing, Present
  <2>3. x \in Places /\ Near(p, x)
    BY <1>i, <2>2, TabNear
  <2> HIDE DEF x
  <2>4. Alloc(p, x, pc[p])
    BY <1>3 DEF walk, x
  <2> QED BY <1>i, <2>2, <2>3, <2>4, FailFrees DEF Alloc, Allocates
<1>4. CASE map_top(p)
  BY <1>4 DEF map_top
<1>5. CASE alloc_page(p)
  <2>1. at[Mem(p)] = NoPage
    BY <1>5, <1>i DEF Kept, alloc_page
  <2>2. Mem(p) \in Places /\ Near(p, Mem(p))
    BY <1>i, TabNear
  <2> QED BY <1>5, <1>i, <2>1, <2>2, FailFrees DEF alloc_page, Allocates
<1>6. CASE \E i \in 1..MAXARG : fetch_arg(p, i)
  <2>1. PICK i \in 1..MAXARG : fetch_arg(p, i)
    BY <1>6
  <2>2. at[Arg(p, i)] = NoPage /\ Alloc(p, Arg(p, i), "args")
    BY <2>1 DEF fetch_arg
  <2>3. Arg(p, i) \in Places /\ Near(p, Arg(p, i))
    BY <1>i, TabNear, ProcPlace
  <2> QED BY <1>i, <2>2, <2>3, FailFrees DEF Alloc, Allocates
<1>7. (\E g \in Programs : sys_exec(p, g)) \/ exec(p) \/ next_segment(p) => UNCHANGED <<free, at>>
  BY DEF sys_exec, exec, next_segment
<1>8. CASE exec_bad(p) \/ push_fails(p) \/ loadseg(p)
  BY <1>8, <1>i, ExecFailsFrees DEF exec_bad, push_fails, loadseg
<1>9. (\E q \in Procs : fork(p, q)) \/ fork_done(p) \/ exit(p) \/ grow_done(p) => UNCHANGED <<free, at>>
  BY DEF fork, fork_done, exit, grow_done
<1>10. CASE freeproc(p)
  <2> DEFINE X == {Trapframe(p)} \cup TablePlaces(<<p, "cur">>)
  <2>1. kfree(X)
    BY <1>10 DEF freeproc
  <2>2. X \in SUBSET Places /\ \A x \in X : Near(p, x)
    BY <1>i, TabNear
  <2> QED BY <2>1, <2>2 DEF Frees
<1>11. CASE \E n \in Deltas : grow(p, n) \/ shrink(p, n)
  <2>1. PICK n \in Deltas : grow(p, n) \/ shrink(p, n)
    BY <1>11
  <2>2. CASE grow(p, n)
    BY <2>2 DEF grow
  <2>3. CASE shrink(p, n)
    <3> DEFINE X == UserPages(<<p, "cur">>, PGROUNDUP(sz[p] + n), PGROUNDUP(sz[p]))
    <3>1. kfree(X)
      BY <2>3 DEF shrink
    <3>2. X \subseteq TablePlaces(<<p, "cur">>)
      BY <1>i, TabTable, UserPlaces
    <3>3. X \in SUBSET Places /\ \A x \in X : Near(p, x)
      BY <1>i, <3>2, TabNear
    <3> QED BY <3>1, <3>3 DEF Frees
  <2> QED BY <2>1, <2>2, <2>3
<1> QED
  BY <1>1, <1>2, <1>3, <1>4, <1>5, <1>6, <1>7, <1>8, <1>9, <1>10, <1>11 DEF Step, Build, Exec

\* mappages() of the page in mem finds its entry empty ("remap" is not reached),
\* and moves the page there.
LEMMA MapPageMoves ==
  ASSUME MemInv, NEW p \in Procs, map_page(p)
  PROVE  LET x == UserPage(Tab(p), a[p])
         IN /\ x \in TablePlaces(Tab(p)) /\ x \in Places /\ Near(p, x) /\ x # Mem(p)
            /\ at[x] = NoPage /\ at[Mem(p)] # NoPage /\ UNCHANGED panicked
            /\ at'[x] = at[Mem(p)] /\ at'[Mem(p)] = NoPage
            /\ \A y \in Places : y # x /\ y # Mem(p) => at'[y] = at[y]
            /\ at' \in [Places -> Pages \cup {NoPage}]
<1> DEFINE x == UserPage(Tab(p), a[p])
<1>1. TypeOK /\ Calls /\ Bounds(p) /\ Kept(p) /\ Built(p) /\ pc[p] = "page"
  BY DEF MemInv, map_page
<1>2. Tab(p) \in Tables /\ a[p] \in UserVA /\ a[p] \in Nat
  <2>1. Tab(p) \in Tables
    BY <1>1, TabTable
  <2>2. a[p] \in UserVA
    BY <1>1, HereInRange
  <2>3. a[p] \in Nat
    BY <1>1 DEF TypeOK
  <2> QED BY <2>1, <2>2, <2>3
<1>3. Image(Tab(p), a[p])
  BY <1>1, <1>2 DEF Built
<1>4. at[x] = NoPage
  BY SMTT(30), <1>2, <1>3 DEF Image
<1>5. x \in TablePlaces(Tab(p))
  BY <1>2, TableParts
<1>6. x \in Places /\ Near(p, x) /\ Mem(p) \in Places
  BY <1>1, <1>5, TabNear
<1>7. at[Mem(p)] # NoPage
  BY <1>1 DEF Kept
<1>8. at' = [at EXCEPT ![x] = at[Mem(p)], ![Mem(p)] = NoPage] /\ UNCHANGED panicked
  BY <1>4 DEF map_page
<1>9. at \in [Places -> Pages \cup {NoPage}]
  BY <1>1 DEF TypeOK
<1> HIDE DEF x
<1>10. x # Mem(p)
  BY <1>4, <1>7
<1>11. /\ at'[x] = at[Mem(p)] /\ at'[Mem(p)] = NoPage
       /\ \A y \in Places : y # x /\ y # Mem(p) => at'[y] = at[y]
       /\ at' \in [Places -> Pages \cup {NoPage}]
  BY <1>6, <1>8, <1>9, <1>10
<1> QED BY <1>4, <1>5, <1>6, <1>7, <1>8, <1>10, <1>11 DEF x

\* mappages() hands the page over: the frame in hand becomes the mapped page.
LEMMA MapPageOwned ==
  ASSUME MemInv, NEW p \in Procs, map_page(p)
  PROVE  Owned'
<1>1. PICK x \in Places :
        /\ x # Mem(p) /\ at[x] = NoPage /\ at[Mem(p)] # NoPage
        /\ at'[x] = at[Mem(p)] /\ at'[Mem(p)] = NoPage
        /\ \A y \in Places : y # x /\ y # Mem(p) => at'[y] = at[y]
  BY MapPageMoves
<1>2. Mem(p) \in Places
  BY ProcPlace
<1>3. /\ \A y, z \in Places : at[y] = at[z] /\ at[y] # NoPage => y = z
      /\ \A g \in Pages : g \in free <=> \A y \in Places : at[y] # g
      /\ NoPage \notin Pages
  BY SMTT(30) DEF MemInv, Owned, Pages, NoPage
<1>4. ASSUME NEW y \in Places, NEW z \in Places, at'[y] = at'[z], at'[y] # NoPage PROVE y = z
  BY SMTT(30), <1>1, <1>2, <1>3, <1>4
<1>5. ASSUME NEW g \in Pages
      PROVE  (\A y \in Places : at'[y] # g) <=> (\A y \in Places : at[y] # g)
  BY SMTT(30), <1>1, <1>2, <1>3
<1>6. free' = free
  BY DEF map_page
<1> QED BY <1>3, <1>4, <1>5, <1>6 DEF Owned

\* exec()'s commit moves the pages of the new table to the current one.
Twin(p, x) == <<p, "new", x[3], x[4]>>

\* The places of the new table of exec() correspond one to one to those of the old.
LEMMA Twins ==
  ASSUME NEW p \in Procs
  PROVE  /\ \A x \in TablePlaces(<<p, "cur">>) :
              Twin(p, x) \in TablePlaces(<<p, "new">>)
         /\ \A y \in TablePlaces(<<p, "new">>) :
              \E x \in TablePlaces(<<p, "cur">>) : y = Twin(p, x)
         /\ \A x, y \in TablePlaces(<<p, "cur">>) : Twin(p, x) = Twin(p, y) => x = y
         /\ Twin(p, Root(<<p, "cur">>)) = Root(<<p, "new">>)
         /\ \A v \in UserVA : Twin(p, UserPage(<<p, "cur">>, v)) = UserPage(<<p, "new">>, v)
         /\ \A v \in 0..(MAXVA - 1) :
              /\ Twin(p, Path(<<p, "cur">>, v)[1]) = Path(<<p, "new">>, v)[1]
              /\ Twin(p, Path(<<p, "cur">>, v)[2]) = Path(<<p, "new">>, v)[2]
         /\ \A x \in TablePlaces(<<p, "cur">>) : x \notin TablePlaces(<<p, "new">>)
<1>1. <<p, "cur">> \in Tables /\ <<p, "new">> \in Tables
  BY DEF Tables
<1>2. \A x \in TablePlaces(<<p, "cur">>) : Twin(p, x) \in TablePlaces(<<p, "new">>)
  BY SMTT(30) DEF TablePlaces, Nodes, Root, UserPage, Twin
<1>3. \A y \in TablePlaces(<<p, "new">>) : \E x \in TablePlaces(<<p, "cur">>) : y = Twin(p, x)
  <2> SUFFICES ASSUME NEW y \in TablePlaces(<<p, "new">>)
               PROVE  \E x \in TablePlaces(<<p, "cur">>) : y = Twin(p, x)
    OBVIOUS
  <2>1. <<p, "cur", y[3], y[4]>> \in TablePlaces(<<p, "cur">>)
    BY SMTT(30) DEF TablePlaces, Nodes, Root, UserPage
  <2>2. y = <<p, "new", y[3], y[4]>>
    BY <1>1, TablePlace
  <2> QED BY <2>1, <2>2 DEF Twin
<1>4. ASSUME NEW x \in TablePlaces(<<p, "cur">>), NEW y \in TablePlaces(<<p, "cur">>),
             Twin(p, x) = Twin(p, y)
      PROVE  x = y
  <2>1. x = <<p, "cur", x[3], x[4]>> /\ y = <<p, "cur", y[3], y[4]>>
    BY <1>1, TablePlace
  <2>2. x[3] = y[3] /\ x[4] = y[4]
    BY <1>4 DEF Twin
  <2> QED BY <2>1, <2>2
<1>5. Twin(p, Root(<<p, "cur">>)) = Root(<<p, "new">>)
  BY DEF Twin, Root
<1>6. \A v \in UserVA : Twin(p, UserPage(<<p, "cur">>, v)) = UserPage(<<p, "new">>, v)
  BY DEF Twin, UserPage
<1>7. \A v \in 0..(MAXVA - 1) :
        /\ Twin(p, Path(<<p, "cur">>, v)[1]) = Path(<<p, "new">>, v)[1]
        /\ Twin(p, Path(<<p, "cur">>, v)[2]) = Path(<<p, "new">>, v)[2]
  BY DEF Twin, Path
<1>8. ASSUME NEW x \in TablePlaces(<<p, "cur">>) PROVE x \notin TablePlaces(<<p, "new">>)
  <2>1. x[2] = "cur" /\ (x \in TablePlaces(<<p, "new">>) => x[2] = "new")
    BY <1>1, TablePlace
  <2> QED BY <2>1
<1> QED BY <1>2, <1>3, <1>4, <1>5, <1>6, <1>7, <1>8

\* exec() commits: the old table is freed and the new one takes its place.
LEMMA CommitMoves ==
  ASSUME TypeOK, NEW p \in Procs, exec_commit(p)
  PROVE  /\ \A x \in TablePlaces(<<p, "cur">>) : at'[x] = at[Twin(p, x)]
         /\ \A x \in TablePlaces(<<p, "new">>) \cup Args(p) : at'[x] = NoPage
         /\ \A x \in Places : x \notin TablePlaces(<<p, "cur">>) \cup TablePlaces(<<p, "new">>) \cup Args(p)
                              => at'[x] = at[x]
         /\ at' \in [Places -> Pages \cup {NoPage}] /\ free' \subseteq Pages
         /\ free' = free \cup ({at[x] : x \in TablePlaces(<<p, "cur">>) \cup Args(p)} \ {NoPage})
<1> DEFINE old == TablePlaces(<<p, "cur">>)
           new == TablePlaces(<<p, "new">>)
<1>1. /\ free' = free \cup ({at[x] : x \in old \cup Args(p)} \ {NoPage})
      /\ at' = [x \in Places |-> IF x \in old THEN at[Twin(p, x)]
                                 ELSE IF x \in new \cup Args(p) THEN NoPage ELSE at[x]]
  BY DEF exec_commit, Twin
<1>2. <<p, "cur">> \in Tables /\ <<p, "new">> \in Tables
  BY DEF Tables
<1>3. \A x \in old : x \in Places /\ x[2] = "cur"
  BY <1>2, TablePlace
<1>4. \A x \in new : x \in Places /\ x[2] = "new"
  BY <1>2, TablePlace
<1>5. \A x \in Args(p) : x \in Places /\ x[2] = "arg"
  BY ProcPlace
<1>6. \A x \in old : Twin(p, x) \in new
  BY Twins
<1>7. at \in [Places -> Pages \cup {NoPage}] /\ free \subseteq Pages
  BY DEF TypeOK
<1> HIDE DEF old, new
<1>8. \A x \in new \cup Args(p) : x \notin old /\ x \in Places
  BY <1>3, <1>4, <1>5
<1>9. \A x \in old : at'[x] = at[Twin(p, x)]
  BY <1>1, <1>3
<1>10. \A x \in new \cup Args(p) : at'[x] = NoPage
  BY <1>1, <1>8
<1>11. \A x \in Places : x \notin old \cup new \cup Args(p) => at'[x] = at[x]
  BY <1>1
<1>12. at' \in [Places -> Pages \cup {NoPage}]
  BY <1>1, <1>4, <1>6, <1>7
<1>13. free' \subseteq Pages
  BY <1>1, <1>3, <1>5, <1>7
<1> QED BY <1>1, <1>9, <1>10, <1>11, <1>12, <1>13 DEF old, new

\* The exchange of the tables leaves each page with one owner.
LEMMA CommitOwned ==
  ASSUME TypeOK, Owned, NEW p \in Procs, exec_commit(p)
  PROVE  Owned'
<1> DEFINE old == TablePlaces(<<p, "cur">>)
           new == TablePlaces(<<p, "new">>)
<1>1. /\ \A x \in old : at'[x] = at[Twin(p, x)]
      /\ \A x \in new \cup Args(p) : at'[x] = NoPage
      /\ \A x \in Places : x \notin old \cup new \cup Args(p) => at'[x] = at[x]
      /\ free' = free \cup ({at[x] : x \in old \cup Args(p)} \ {NoPage})
  BY CommitMoves
<1>2. /\ \A y, z \in Places : at[y] = at[z] /\ at[y] # NoPage => y = z
      /\ \A g \in Pages : g \in free <=> \A y \in Places : at[y] # g
      /\ NoPage \notin Pages
  BY SMTT(30) DEF Owned, Pages, NoPage
<1>3. /\ \A x \in old : Twin(p, x) \in new
      /\ \A y \in new : \E x \in old : y = Twin(p, x)
      /\ \A x, y \in old : Twin(p, x) = Twin(p, y) => x = y
      /\ \A x \in old : x \notin new
  BY Twins
<1>4. old \subseteq Places /\ new \subseteq Places /\ Args(p) \subseteq Places
  <2>1. <<p, "cur">> \in Tables /\ <<p, "new">> \in Tables
    BY DEF Tables
  <2> QED BY <2>1, TablePlace, ProcPlace
<1>5. \A x \in Args(p) : x \notin old \cup new
  <2>1. <<p, "cur">> \in Tables /\ <<p, "new">> \in Tables
    BY DEF Tables
  <2>2. \A x \in Args(p) : x[2] = "arg"
    BY ProcPlace
  <2>3. \A x \in old : x[2] = "cur"
    BY <2>1, TablePlace
  <2>4. \A x \in new : x[2] = "new"
    BY <2>1, TablePlace
  <2> QED BY <2>2, <2>3, <2>4
<1> DEFINE from(x) == IF x \in old THEN Twin(p, x) ELSE x
           live == {x \in Places : x \notin new \cup Args(p)}
<1>6. \A x \in live : from(x) \in Places /\ from(x) \notin old \cup Args(p) /\ at'[x] = at[from(x)]
  BY <1>1, <1>3, <1>4, <1>5
<1>7. \A x, y \in live : from(x) = from(y) => x = y
  BY SMTT(30), <1>3
<1>8. \A y \in Places : y \notin old \cup Args(p) => \E x \in live : from(x) = y
  <2> SUFFICES ASSUME NEW y \in Places, y \notin old \cup Args(p) PROVE \E x \in live : from(x) = y
    OBVIOUS
  <2>1. CASE y \in new
    <3>1. PICK x \in old : y = Twin(p, x)
      BY <1>3, <2>1
    <3>2. x \in live /\ from(x) = y
      BY <1>3, <1>4, <1>5, <3>1
    <3> QED BY <3>2
  <2>2. CASE y \notin new
    BY <2>2
  <2> QED BY <2>1, <2>2
<1>9. \A x \in Places : x \notin live => at'[x] = NoPage
  BY <1>1
<1> HIDE DEF from, live, old, new
<1>10. live \subseteq Places
  BY DEF live
<1>11. ASSUME NEW y \in Places, NEW z \in Places, at'[y] = at'[z], at'[y] # NoPage PROVE y = z
  BY SMTT(30), <1>2, <1>6, <1>7, <1>9, <1>11
<1>12. ASSUME NEW g \in Pages PROVE g \in free' <=> \A y \in Places : at'[y] # g
  <2>1. (\A y \in Places : at'[y] # g) <=> (\A y \in Places : y \notin old \cup Args(p) => at[y] # g)
    <3>1. ASSUME NEW y \in Places, at'[y] = g
          PROVE  \E z \in Places : z \notin old \cup Args(p) /\ at[z] = g
      BY <1>2, <1>6, <1>9, <3>1
    <3>2. ASSUME NEW z \in Places, z \notin old \cup Args(p), at[z] = g
          PROVE  \E y \in Places : at'[y] = g
      BY <1>6, <1>8, <1>10, <3>2
    <3> QED BY <3>1, <3>2
  <2>2. g \in free' <=> g \in free \/ \E x \in old \cup Args(p) : at[x] = g
    BY SMTT(30), <1>1, <1>2
  <2>3. ASSUME NEW x \in old \cup Args(p), at[x] = g
        PROVE  \A y \in Places : y \notin old \cup Args(p) => at[y] # g
    BY <1>2, <1>4, <2>3
  <2>4. CASE \E x \in old \cup Args(p) : at[x] = g
    BY <2>1, <2>2, <2>3, <2>4
  <2>5. CASE \A x \in old \cup Args(p) : at[x] # g
    <3>1. (\A y \in Places : y \notin old \cup Args(p) => at[y] # g) <=> (\A y \in Places : at[y] # g)
      BY <1>4, <2>5
    <3> QED BY <1>2, <2>1, <2>2, <2>5, <3>1
  <2> QED BY <2>4, <2>5
<1> QED BY <1>11, <1>12 DEF Owned

----------------------------------------------------------------------------
(* The pages: one owner each, and only those near the process change *)

\* Every step leaves each page with one owner, and moves pages near the caller only.
LEMMA OwnedStep ==
  ASSUME MemInv, NEW p \in Procs, Step(p)
  PROVE  /\ Owned' /\ free' \subseteq Pages /\ at' \in [Places -> Pages \cup {NoPage}]
         /\ \A x \in Places : ~Near(p, x) => at'[x] = at[x]
<1>i. TypeOK /\ Owned /\ Calls
  BY DEF MemInv
<1>1. CASE Allocates(p)
  <2>1. PICK x \in Places : at[x] = NoPage /\ Near(p, x) /\ kalloc(x)
    BY <1>1 DEF Allocates
  <2>2. Owned'
    BY <1>i, <2>1, KallocOwned
  <2>3. /\ \A y \in Places : y # x => at'[y] = at[y]
        /\ at' \in [Places -> Pages \cup {NoPage}] /\ free' \subseteq Pages
    BY <1>i, <2>1, Kalloc
  <2>4. \A y \in Places : ~Near(p, y) => at'[y] = at[y]
    BY <2>1, <2>3
  <2> QED BY <2>2, <2>3, <2>4
<1>2. CASE Frees(p)
  <2>1. PICK X \in SUBSET Places : (\A x \in X : Near(p, x)) /\ kfree(X)
    BY <1>2 DEF Frees
  <2>2. Owned'
    BY <1>i, <2>1, KfreeOwned
  <2>3. /\ \A y \in Places : y \notin X => at'[y] = at[y]
        /\ at' \in [Places -> Pages \cup {NoPage}] /\ free' \subseteq Pages
    BY <1>i, <2>1, Kfree
  <2>4. \A y \in Places : ~Near(p, y) => at'[y] = at[y]
    BY <2>1, <2>3
  <2> QED BY <2>2, <2>3, <2>4
<1>3. CASE map_page(p)
  <2>1. PICK x \in Places : /\ Near(p, x) /\ at' \in [Places -> Pages \cup {NoPage}]
                            /\ \A y \in Places : y # x /\ y # Mem(p) => at'[y] = at[y]
    BY <1>3, MapPageMoves
  <2>2. Near(p, Mem(p)) /\ free' = free /\ free \subseteq Pages
    BY <1>3, <1>i, TabNear DEF map_page, TypeOK
  <2>3. Owned'
    BY <1>3, MapPageOwned
  <2>4. \A y \in Places : ~Near(p, y) => at'[y] = at[y]
    BY <2>1, <2>2
  <2> QED BY <2>1, <2>2, <2>3, <2>4
<1>4. CASE exec_commit(p)
  <2>1. Owned' /\ free' \subseteq Pages /\ at' \in [Places -> Pages \cup {NoPage}]
    BY <1>4, <1>i, CommitOwned, CommitMoves
  <2>2. \A x \in Places : x \notin TablePlaces(<<p, "cur">>) \cup TablePlaces(<<p, "new">>) \cup Args(p)
                          => at'[x] = at[x]
    BY <1>4, <1>i, CommitMoves
  <2>3. \A x \in TablePlaces(<<p, "cur">>) \cup TablePlaces(<<p, "new">>) \cup Args(p) : Near(p, x)
    BY <1>i, TabNear
  <2> QED BY <2>1, <2>2, <2>3
<1>5. CASE UNCHANGED <<free, at>>
  BY <1>5, <1>i DEF Owned, TypeOK
<1> QED BY <1>1, <1>2, <1>3, <1>4, <1>5, Kinds

=============================================================================
