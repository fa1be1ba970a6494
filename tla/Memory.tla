------------------------------- MODULE Memory -------------------------------
(***************************************************************************)
(* Pages: the allocator (kernel/kalloc.c), user page tables (kernel/vm.c)  *)
(* and the calls that build, copy, swap and free address spaces: fork(),   *)
(* sbrk(), exec(), and the freeproc() of wait() (kernel/proc.c, exec.c).   *)
(*                                                                         *)
(* Every pointer that owns a page is a place, and `at' says which page it  *)
(* holds: a trapframe, an argument of exec, a page that kalloc() returned  *)
(* and no table holds yet, a page-table page, a user page.  One kalloc()   *)
(* is one step, so that processes compete for the last pages and any       *)
(* kalloc() can fail; the frees of an error path are one step, as they     *)
(* cannot fail.  Sizes are in bytes, PGSIZE of them to a page.             *)
(***************************************************************************)
EXTENDS Integers, Sequences, FiniteSets

CONSTANTS
  NPAGE,          \* physical pages that kinit() frees
  NPROC,
  PGSIZE,
  FAN,            \* entries of a page-table page
  USERSTACK,      \* stack pages of a new image
  MAXARG,
  UPAGES,         \* bound: pages a user image may have
  Programs,       \* a program: its loadable segments [vaddr, memsz], in bytes
  Deltas          \* arguments of sbrk()

PGROUNDUP(n) == (n + PGSIZE - 1) \div PGSIZE    \* as a number of pages

ASSUME MemoryAssumption ==
  /\ NPAGE \in Nat /\ NPAGE >= 7
  /\ NPROC \in Nat \ {0} /\ PGSIZE \in Nat \ {0} /\ FAN \in Nat /\ FAN >= 2
  /\ MAXARG \in Nat /\ UPAGES \in Nat \ {0} /\ UPAGES <= FAN * FAN * FAN - 2
  /\ USERSTACK \in Nat /\ USERSTACK + 1 <= UPAGES /\ Deltas \subseteq Int
  /\ \A g \in Programs :
       /\ g \in Seq([vaddr : Nat, memsz : Nat])
       /\ \A i \in 1..Len(g) :
            PGROUNDUP(g[i].vaddr + g[i].memsz) + USERSTACK + 1 <= UPAGES

Pages == 1..NPAGE
NoPage == 0                       \* the null pointer
Procs == 1..NPROC
initproc == 1

MAXVA == FAN * FAN * FAN          \* in pages, like the two below
TRAMPOLINE == MAXVA - 1
TRAPFRAME == MAXVA - 2
UserVA == 0..(UPAGES - 1)

VARIABLES
  free,        \* kmem.freelist
  at,          \* the page each place holds
  top,         \* which of TRAMPOLINE and TRAPFRAME a page table maps
  sz,          \* p->sz
  pc, op,      \* where each process is, and in which call
  np,          \* fork(): the child
  a, base, end, \* the loop over pages of uvmalloc() and uvmcopy()
  prog, nsz,   \* exec(): segments still to load, and its local sz
  panicked

loop == <<np, a, base, end, prog, nsz>>
vars == <<free, at, top, sz, pc, op, loop, panicked>>

\* p->pagetable, and the one exec() builds
Tables == Procs \X {"cur", "new"}
\* Page-table pages by level, 2 for the root; level -1 is the user page itself.
Root(t) == <<t[1], t[2], 2, 0>>
UserPage(t, v) == <<t[1], t[2], -1, v>>
Nodes(t) == {Root(t)} \cup {<<t[1], t[2], 1, i>> : i \in 0..(FAN - 1)}
                      \cup {<<t[1], t[2], 0, i>> : i \in 0..(FAN * FAN - 1)}
TablePlaces(t) == Nodes(t) \cup {UserPage(t, v) : v \in UserVA}
Trapframe(p) == <<p, "trapframe", 0, 0>>
Mem(p) == <<p, "mem", 0, 0>>
Arg(p, i) == <<p, "arg", 0, i>>
Args(p) == {Arg(p, i) : i \in 1..MAXARG}
Places ==
  (UNION {TablePlaces(t) : t \in Tables})
  \cup (UNION {{Trapframe(p), Mem(p)} \cup Args(p) : p \in Procs})

----------------------------------------------------------------------------
(* kalloc.c *)

\* The head of the free list; which page that is matters to no caller.
kalloc(x) ==
  LET r == CHOOSE g \in free : TRUE
  IN /\ free # {}
     /\ free' = free \ {r} /\ at' = [at EXCEPT ![x] = r]
\* kfree() of what the places of X hold, which then hold nothing.
kfree(X) ==
  /\ free' = free \cup ({at[x] : x \in X} \ {NoPage})
  /\ at' = [x \in Places |-> IF x \in X THEN NoPage ELSE at[x]]

----------------------------------------------------------------------------
(* vm.c *)

\* The table that p's call works on.
Tab(p) ==
  IF op[p] = "fork" THEN <<np[p], "cur">>
  ELSE IF op[p] = "exec" THEN <<p, "new">> ELSE <<p, "cur">>

\* walk(): the page-table pages below the root on the way to page v.
Path(t, v) == <<<<t[1], t[2], 1, v \div (FAN * FAN)>>, <<t[1], t[2], 0, v \div FAN>>>>
Present(t, v) == at[Path(t, v)[1]] # NoPage /\ at[Path(t, v)[2]] # NoPage
\* The one that walk() allocates next.
NextMissing(t, v) == IF at[Path(t, v)[1]] = NoPage THEN Path(t, v)[1] ELSE Path(t, v)[2]

UserPages(t, lo, hi) == {UserPage(t, v) : v \in {w \in UserVA : lo <= w /\ w < hi}}
\* uvmunmap() finds every page of lo..hi-1 mapped.
Mapped(t, lo, hi) == \A v \in lo..(hi - 1) : v \in UserVA /\ at[UserPage(t, v)] # NoPage

\* proc_freepagetable(t, size), when the pages of `gone' are unmapped already:
\* the two fixed pages and the whole image are mapped, so that uvmunmap() does
\* not panic, and nothing else is, so that freewalk() does not.
FreepagetableOK(t, size, gone) ==
  /\ top[t] = {TRAMPOLINE, TRAPFRAME}
  /\ \A v \in UserVA :
       UserPage(t, v) \notin gone => (at[UserPage(t, v)] # NoPage <=> v < PGROUNDUP(size))

----------------------------------------------------------------------------
(* Returns *)

Ret(p) ==
  /\ op' = [op EXCEPT ![p] = "none"] /\ np' = [np EXCEPT ![p] = 0]
  /\ a' = [a EXCEPT ![p] = 0] /\ base' = [base EXCEPT ![p] = 0]
  /\ end' = [end EXCEPT ![p] = 0] /\ nsz' = [nsz EXCEPT ![p] = 0]
  /\ prog' = [prog EXCEPT ![p] = << >>]

\* The call fails, after it has unmapped the pages of `gone'.
sbrk_fails_leaks(p, gone) ==
  /\ kfree(gone)
  /\ pc' = [pc EXCEPT ![p] = "user"]
  /\ UNCHANGED <<top, panicked>>
sbrk_fails(p, gone) ==
  /\ kfree({Mem(p)} \cup gone)
  /\ pc' = [pc EXCEPT ![p] = "user"]
  /\ UNCHANGED <<top, panicked>>

\* freeproc(np)
fork_fails(p, gone) ==
  LET t == <<np[p], "cur">>
  IN /\ kfree({Mem(p), Trapframe(np[p])} \cup TablePlaces(t))
     /\ top' = [top EXCEPT ![t] = {}]
     /\ panicked' = (panicked \/ (pc[p] \in {"loop", "page"} /\
                                              ~FreepagetableOK(t, sz[np[p]], gone)))
     /\ pc' = [pc EXCEPT ![p] = "user", ![np[p]] = "unused"]

\* bad: of exec(), and the end of sys_exec()
exec_fails(p, size, gone) ==
  LET t == <<p, "new">>
  IN /\ kfree({Mem(p)} \cup TablePlaces(t) \cup Args(p))
     /\ top' = [top EXCEPT ![t] = {}]
     /\ panicked' = (panicked \/ (pc[p] \in {"load", "loop", "page"} /\
                                              ~FreepagetableOK(t, size, gone)))
     /\ pc' = [pc EXCEPT ![p] = "user"]

Undo_short(p) == UserPages(Tab(p), base[p], a[p] - 1)
\* What the loop has mapped so far is unmapped again: uvmdealloc(a, base), or
\* uvmcopy()'s uvmunmap(new, 0, a).
Undo(p) == UserPages(Tab(p), base[p], a[p])

Fail(p) ==
  /\ \/ op[p] = "sbrk" /\ sbrk_fails(p, Undo(p))
     \/ op[p] = "fork" /\ fork_fails(p, Undo(p))
     \/ op[p] = "exec" /\ exec_fails(p, nsz[p], Undo(p))
  /\ Ret(p)
  /\ UNCHANGED sz

----------------------------------------------------------------------------
(* Building an address space: proc_pagetable(), uvmalloc(), uvmcopy() *)

\* The page that p is mapping.
Here(p) ==
  CASE pc[p] = "tramp" -> TRAMPOLINE [] pc[p] = "tfmap" -> TRAPFRAME [] OTHER -> a[p]

\* kalloc() into place x, or failure.
Alloc(p, x, next) ==
  \/ /\ kalloc(x)
     /\ pc' = [pc EXCEPT ![p] = next]
     /\ UNCHANGED <<top, sz, op, loop, panicked>>
  \/ free = {} /\ Fail(p)

\* allocproc()
alloc_trapframe(p) == pc[p] = "trapframe" /\ Alloc(p, Trapframe(np[p]), "create")

uvmcreate(p) == pc[p] = "create" /\ Alloc(p, Root(Tab(p)), "tramp")

\* walk(..., 1) allocates a page-table page.
walk(p) ==
  /\ pc[p] \in {"tramp", "tfmap", "page"} /\ ~Present(Tab(p), Here(p))
  /\ Alloc(p, NextMissing(Tab(p), Here(p)), pc[p])

\* mappages() of the two fixed pages
map_top(p) ==
  /\ pc[p] \in {"tramp", "tfmap"} /\ Present(Tab(p), Here(p))
  /\ top' = [top EXCEPT ![Tab(p)] = @ \cup {Here(p)}]
  /\ panicked' = (panicked \/ Here(p) \in top[Tab(p)])
  /\ pc' = [pc EXCEPT ![p] = IF pc[p] = "tramp" THEN "tfmap"
                             ELSE IF op[p] = "fork" THEN "loop" ELSE "load"]
  /\ end' = [end EXCEPT ![p] = IF op[p] = "fork" THEN sz[p] ELSE 0]
  /\ UNCHANGED <<free, at, sz, op, np, a, base, prog, nsz>>

\* mem = kalloc(), after uvmcopy() has looked at the parent's page.
alloc_page(p) ==
  /\ pc[p] = "loop" /\ a[p] * PGSIZE < end[p]
  /\ \/ /\ kalloc(Mem(p))
        /\ pc' = [pc EXCEPT ![p] = "page"]
        /\ panicked' = (panicked \/ (op[p] = "fork" /\ ~Mapped(<<p, "cur">>, a[p], a[p] + 1)))
        /\ UNCHANGED <<top, sz, op, loop>>
     \/ free = {} /\ Fail(p)

map_page(p) ==
  /\ pc[p] = "page" /\ Present(Tab(p), a[p])
  /\ LET x == UserPage(Tab(p), a[p])
     IN IF at[x] = NoPage
        THEN at' = [at EXCEPT ![x] = at[Mem(p)], ![Mem(p)] = NoPage] /\ UNCHANGED panicked
        ELSE panicked' = TRUE /\ UNCHANGED at                          \* remap
  /\ a' = [a EXCEPT ![p] = @ + 1]
  /\ pc' = [pc EXCEPT ![p] = "loop"]
  /\ UNCHANGED <<free, top, sz, op, np, base, end, prog, nsz>>

----------------------------------------------------------------------------
(* fork() *)

fork(p, q) ==
  /\ pc[p] = "user"
  /\ pc[q] = "unused" /\ \A r \in Procs : pc[r] = "unused" => q <= r
  /\ pc' = [pc EXCEPT ![p] = "trapframe", ![q] = "embryo"]
  /\ op' = [op EXCEPT ![p] = "fork"] /\ np' = [np EXCEPT ![p] = q]
  /\ UNCHANGED <<free, at, top, sz, a, base, end, prog, nsz, panicked>>

fork_done(p) ==
  /\ pc[p] = "loop" /\ op[p] = "fork" /\ a[p] * PGSIZE >= end[p]
  /\ sz' = [sz EXCEPT ![np[p]] = sz[p]]
  /\ pc' = [pc EXCEPT ![p] = "user", ![np[p]] = "user"]
  /\ Ret(p)
  /\ UNCHANGED <<free, at, top, panicked>>

exit(p) ==
  /\ pc[p] = "user" /\ p # initproc
  /\ pc' = [pc EXCEPT ![p] = "zombie"]
  /\ UNCHANGED <<free, at, top, sz, op, loop, panicked>>

\* freeproc(p), by the parent's wait()
freeproc(p) ==
  LET t == <<p, "cur">>
  IN /\ pc[p] = "zombie"
     /\ kfree({Trapframe(p)} \cup TablePlaces(t))
     /\ top' = [top EXCEPT ![t] = {}]
     /\ panicked' = (panicked \/ ~FreepagetableOK(t, sz[p], {}))
     /\ sz' = [sz EXCEPT ![p] = 0]
     /\ pc' = [pc EXCEPT ![p] = "unused"]
     /\ UNCHANGED <<op, loop>>

----------------------------------------------------------------------------
(* sbrk(n): growproc() *)

grow(p, n) ==
  /\ pc[p] = "user" /\ n > 0 /\ PGROUNDUP(sz[p] + n) <= UPAGES
  /\ op' = [op EXCEPT ![p] = "sbrk"] /\ pc' = [pc EXCEPT ![p] = "loop"]
  /\ base' = [base EXCEPT ![p] = PGROUNDUP(sz[p])]
  /\ a' = [a EXCEPT ![p] = PGROUNDUP(sz[p])]
  /\ end' = [end EXCEPT ![p] = sz[p] + n]
  /\ UNCHANGED <<free, at, top, sz, np, prog, nsz, panicked>>

grow_done(p) ==
  /\ pc[p] = "loop" /\ op[p] = "sbrk" /\ a[p] * PGSIZE >= end[p]
  /\ sz' = [sz EXCEPT ![p] = end[p]]
  /\ pc' = [pc EXCEPT ![p] = "user"]
  /\ Ret(p)
  /\ UNCHANGED <<free, at, top, panicked>>

shrink_down(p, n) ==
  LET t == <<p, "cur">>
  IN /\ pc[p] = "user" /\ n < 0 /\ sz[p] + n >= 0
     /\ kfree(UserPages(t, (sz[p] + n) \div PGSIZE, PGROUNDUP(sz[p])))
     /\ panicked' = (panicked \/ ~Mapped(t, (sz[p] + n) \div PGSIZE, PGROUNDUP(sz[p])))
     /\ sz' = [sz EXCEPT ![p] = @ + n]
     /\ UNCHANGED <<top, pc, op, loop>>
\* uvmdealloc(); a size below zero wraps to one above the old, which is ignored.
shrink(p, n) ==
  LET t == <<p, "cur">>
  IN /\ pc[p] = "user" /\ n < 0 /\ sz[p] + n >= 0
     /\ kfree(UserPages(t, PGROUNDUP(sz[p] + n), PGROUNDUP(sz[p])))
     /\ panicked' = (panicked \/ ~Mapped(t, PGROUNDUP(sz[p] + n), PGROUNDUP(sz[p])))
     /\ sz' = [sz EXCEPT ![p] = @ + n]
     /\ UNCHANGED <<top, pc, op, loop>>

----------------------------------------------------------------------------
(* exec() *)

sys_exec(p, g) ==
  /\ pc[p] = "user"
  /\ pc' = [pc EXCEPT ![p] = "args"] /\ op' = [op EXCEPT ![p] = "exec"]
  /\ prog' = [prog EXCEPT ![p] = g]
  /\ UNCHANGED <<free, at, top, sz, np, a, base, end, nsz, panicked>>

\* argv[i] = kalloc()
fetch_arg(p, i) ==
  /\ pc[p] = "args" /\ at[Arg(p, i)] = NoPage
  /\ \A j \in 1..(i - 1) : at[Arg(p, j)] # NoPage
  /\ Alloc(p, Arg(p, i), "args")

\* The last argument has been fetched, and the file is a program.
exec(p) ==
  /\ pc[p] = "args" /\ at[Arg(p, MAXARG)] = NoPage
  /\ pc' = [pc EXCEPT ![p] = "create"]
  /\ UNCHANGED <<free, at, top, sz, op, loop, panicked>>

\* No such file, a bad argument, a read that fails, a malformed header.
exec_bad(p) ==
  /\ pc[p] \in {"args", "load"}
  /\ exec_fails(p, nsz[p], {})
  /\ Ret(p) /\ UNCHANGED sz

Seg(p) == Head(prog[p])
\* uvmalloc() of the next segment, or of guard and stack after the last one.
next_segment(p) ==
  LET first == PGROUNDUP(nsz[p])
      newsz == IF prog[p] # << >> THEN Seg(p).vaddr + Seg(p).memsz
               ELSE (first + USERSTACK + 1) * PGSIZE
  IN /\ pc[p] = "load"
     /\ nsz' = [nsz EXCEPT ![p] = IF prog[p] # << >> THEN @ ELSE first * PGSIZE]
     /\ base' = [base EXCEPT ![p] = first] /\ a' = [a EXCEPT ![p] = first]
     /\ end' = [end EXCEPT ![p] = IF newsz < nsz[p] THEN nsz[p] ELSE newsz]
     /\ pc' = [pc EXCEPT ![p] = "loop"]
     /\ UNCHANGED <<free, at, top, sz, op, np, prog, panicked>>

\* A segment is allocated; loadseg() finds its pages.  A new size of 0 is taken
\* for a failure.
loadseg(p) ==
  /\ pc[p] = "loop" /\ op[p] = "exec" /\ prog[p] # << >> /\ a[p] * PGSIZE >= end[p]
  /\ \/ end[p] = 0 /\ exec_fails(p, nsz[p], {}) /\ Ret(p) /\ UNCHANGED sz
     \/ /\ end[p] # 0
        /\ nsz' = [nsz EXCEPT ![p] = end[p]] /\ prog' = [prog EXCEPT ![p] = Tail(@)]
        /\ panicked' = (panicked \/ ~Mapped(Tab(p), Seg(p).vaddr \div PGSIZE,
                                             PGROUNDUP(Seg(p).vaddr + Seg(p).memsz)))
        /\ pc' = [pc EXCEPT ![p] = "load"]
        /\ UNCHANGED <<free, at, top, sz, op, np, a, base, end>>

\* The stack is there: uvmclear() finds the guard page.
StackReady(p) ==
  pc[p] = "loop" /\ op[p] = "exec" /\ prog[p] = << >> /\ a[p] * PGSIZE >= end[p]

\* The arguments do not fit on the stack; nothing is undone but by bad:.
push_fails(p) ==
  /\ StackReady(p)
  /\ exec_fails(p, end[p], {})
  /\ Ret(p) /\ UNCHANGED sz

\* "Commit to the user image", free the old one and the arguments.
exec_commit(p) ==
  LET t == <<p, "cur">>  n == <<p, "new">>
      old == TablePlaces(t)
      gone == old \cup Args(p)
      new(x) == <<p, "new", x[3], x[4]>>
  IN /\ StackReady(p)
     /\ free' = free \cup ({at[x] : x \in gone} \ {NoPage})
     /\ at' = [x \in Places |->
                 IF x \in old THEN at[new(x)]
                 ELSE IF x \in TablePlaces(n) \cup Args(p) THEN NoPage ELSE at[x]]
     /\ top' = [top EXCEPT ![t] = top[n], ![n] = {}]
     /\ panicked' = (panicked \/ ~FreepagetableOK(t, sz[p], {})
                              \/ ~Mapped(n, PGROUNDUP(end[p]) - USERSTACK - 1, PGROUNDUP(end[p])))
     /\ sz' = [sz EXCEPT ![p] = end[p]]
     /\ pc' = [pc EXCEPT ![p] = "user"]
     /\ Ret(p)

----------------------------------------------------------------------------
\* After kinit() and userinit(): initproc has a trapframe and one user page.
Boot ==
  LET t == <<initproc, "cur">>
  IN <<Trapframe(initproc), Root(t), Path(t, TRAMPOLINE)[1], Path(t, TRAMPOLINE)[2],
       Path(t, 0)[1], Path(t, 0)[2], UserPage(t, 0)>>

Init ==
  /\ at = [x \in Places |-> IF \E i \in 1..7 : Boot[i] = x
                            THEN CHOOSE i \in 1..7 : Boot[i] = x ELSE NoPage]
  /\ free = 8..NPAGE
  /\ top = [t \in Tables |-> IF t = <<initproc, "cur">> THEN {TRAMPOLINE, TRAPFRAME} ELSE {}]
  /\ sz = [p \in Procs |-> IF p = initproc THEN PGSIZE ELSE 0]
  /\ pc = [p \in Procs |-> IF p = initproc THEN "user" ELSE "unused"]
  /\ op = [p \in Procs |-> "none"]
  /\ np = [p \in Procs |-> 0] /\ a = np /\ base = np /\ end = np /\ nsz = np
  /\ prog = [p \in Procs |-> << >>]
  /\ panicked = FALSE

Build(p) ==
  \/ alloc_trapframe(p) \/ uvmcreate(p) \/ walk(p) \/ map_top(p) \/ alloc_page(p) \/ map_page(p)

Exec(p) ==
  \/ \E g \in Programs : sys_exec(p, g)
  \/ \E i \in 1..MAXARG : fetch_arg(p, i)
  \/ exec(p) \/ exec_bad(p) \/ next_segment(p) \/ loadseg(p) \/ push_fails(p) \/ exec_commit(p)

Step(p) ==
  \/ Build(p) \/ Exec(p)
  \/ (\E q \in Procs : fork(p, q)) \/ fork_done(p) \/ exit(p) \/ freeproc(p)
  \/ (\E n \in Deltas : grow(p, n) \/ shrink(p, n)) \/ grow_done(p)

Next == \E p \in Procs : Step(p)

Spec == Init /\ [][Next]_vars

----------------------------------------------------------------------------
(* Properties *)

TypeOK ==
  /\ free \subseteq Pages
  /\ at \in [Places -> Pages \cup {NoPage}]
  /\ top \in [Tables -> SUBSET {TRAMPOLINE, TRAPFRAME}]
  /\ sz \in [Procs -> Nat]
  /\ pc \in [Procs -> {"unused", "embryo", "user", "zombie", "trapframe", "create", "tramp",
                       "tfmap", "loop", "page", "args", "load"}]
  /\ op \in [Procs -> {"none", "fork", "exec", "sbrk"}]
  /\ np \in [Procs -> Procs \cup {0}]
  /\ a \in [Procs -> Nat] /\ base \in [Procs -> Nat] /\ end \in [Procs -> Nat]
  /\ nsz \in [Procs -> Nat]
  /\ prog \in [Procs -> Seq([vaddr : Nat, memsz : Nat])]
  /\ panicked \in BOOLEAN

\* Every page is on the free list or held by exactly one pointer: no error path
\* of fork(), exec() or sbrk() loses a page or frees one that is still mapped,
\* and no two address spaces share one.
Ownership ==
  /\ TypeOK
  /\ \A x, y \in {z \in Places : at[z] # NoPage} : at[x] = at[y] => x = y
  /\ {at[x] : x \in Places} \ {NoPage} = Pages \ free

\* In user mode a process has its trapframe, the two fixed mappings and exactly
\* the pages of 0..sz: a call that failed half way has left them as they were.
ImageMatchesSize ==
  \A p \in Procs :
    pc[p] \in {"user", "zombie"} =>
      /\ at[Trapframe(p)] # NoPage
      /\ FreepagetableOK(<<p, "cur">>, sz[p], {})
      /\ \A v \in UserVA \cup {TRAPFRAME, TRAMPOLINE} :
           v < PGROUNDUP(sz[p]) \/ v \notin UserVA => Present(<<p, "cur">>, v)

\* fork, exec, exit, wait and sbrk reach none of these panics: "mappages: remap",
\* "uvmunmap: not mapped", "freewalk: leaf", "uvmcopy: pte should exist", "loadseg:
\* address should exist", "uvmclear".  (walk()'s own, of an address beyond MAXVA, is
\* not among them: pgaccess() and pgpte() do reach that one, see UserCopy.)
NoPanic == ~panicked
=============================================================================
