----------------------------- MODULE MemorySteps -----------------------------
(***************************************************************************)
(* Proofs about Memory, continued: the steps that build an address space,  *)
(* those of exec() and the failures of every call keep the invariant of    *)
(* MemoryProofs for the process that takes them.                           *)
(***************************************************************************)
EXTENDS MemoryProofs

\* Leaves that name no prover are for Zenon.
USE ZenonT(60)

----------------------------------------------------------------------------
(* What a step leaves alone *)

\* The rest of the state: a step of p changes its own entries, and those of the
\* child that it makes.
LEMMA TopFrame ==
  ASSUME TypeOK, Calls, NEW p \in Procs, Step(p), NEW t \in Tables, t[1] # p,
         ~(op[p] = "fork" /\ t = <<np[p], "cur">>)
  PROVE  top'[t] = top[t]
<1>1. t # <<p, "cur">> /\ t # <<p, "new">> /\ t # Tab(p)
  <2>1. <<p, "cur">>[1] = p /\ <<p, "new">>[1] = p
    OBVIOUS
  <2>2. Tab(p) \in {<<p, "cur">>, <<p, "new">>} \/ (op[p] = "fork" /\ Tab(p) = <<np[p], "cur">>)
    BY DEF Tab
  <2> QED BY <2>1, <2>2
<1>2. top \in [Tables -> SUBSET {TRAMPOLINE, TRAPFRAME}]
  BY DEF TypeOK
<1>3. ASSUME NEW s, NEW G, exec_fails(p, s, G) PROVE top'[t] = top[t]
  BY <1>1, <1>2, <1>3 DEF exec_fails
<1>4. Fail(p) => top'[t] = top[t]
  BY <1>1, <1>2, <1>3 DEF Fail, sbrk_fails, fork_fails
<1>5. ASSUME NEW x, NEW next, Alloc(p, x, next) PROVE top'[t] = top[t]
  BY <1>4, <1>5 DEF Alloc
<1>6. Build(p) => top'[t] = top[t]
  <2>1. alloc_trapframe(p) \/ uvmcreate(p) \/ walk(p) => top'[t] = top[t]
    BY <1>5 DEF alloc_trapframe, uvmcreate, walk
  <2>2. map_top(p) => top'[t] = top[t]
    BY <1>1, <1>2 DEF map_top
  <2>3. alloc_page(p) \/ map_page(p) => top'[t] = top[t]
    BY <1>4 DEF alloc_page, map_page
  <2> QED BY <2>1, <2>2, <2>3 DEF Build
<1>7. Exec(p) => top'[t] = top[t]
  <2>1. (\E i \in 1..MAXARG : fetch_arg(p, i)) => top'[t] = top[t]
    BY <1>5 DEF fetch_arg
  <2>2. exec_bad(p) \/ loadseg(p) \/ push_fails(p) => top'[t] = top[t]
    BY <1>3 DEF exec_bad, loadseg, push_fails
  <2>3. exec_commit(p) => top'[t] = top[t]
    BY <1>1, <1>2 DEF exec_commit
  <2>4. (\E g \in Programs : sys_exec(p, g)) \/ exec(p) \/ next_segment(p) => top'[t] = top[t]
    BY DEF sys_exec, exec, next_segment
  <2> QED BY <2>1, <2>2, <2>3, <2>4 DEF Exec
<1>8. (\E q \in Procs : fork(p, q)) \/ fork_done(p) \/ exit(p) \/ grow_done(p) => top'[t] = top[t]
  BY DEF fork, fork_done, exit, grow_done
<1>9. freeproc(p) => top'[t] = top[t]
  BY <1>1, <1>2 DEF freeproc
<1>10. (\E n \in Deltas : grow(p, n) \/ shrink(p, n)) => top'[t] = top[t]
  BY DEF grow, shrink
<1> QED BY <1>6, <1>7, <1>8, <1>9, <1>10 DEF Step

\* A step changes the locals of no other process, but for the child of a fork().
LEMMA LocalFrame ==
  ASSUME TypeOK, Calls, NEW p \in Procs, Step(p), NEW q \in Procs, q # p
  PROVE  /\ op'[q] = op[q] /\ np'[q] = np[q] /\ a'[q] = a[q] /\ base'[q] = base[q]
         /\ end'[q] = end[q] /\ prog'[q] = prog[q] /\ nsz'[q] = nsz[q]
         /\ ~(op[p] = "fork" /\ q = np[p]) => sz'[q] = sz[q]
         /\ ~(op[p] = "fork" /\ q = np[p]) /\ ~(op'[p] = "fork" /\ q = np'[p]) => pc'[q] = pc[q]
         /\ op[p] = "fork" /\ op'[p] = "fork" =>
              np'[p] = np[p] /\ (q = np[p] => pc'[q] = pc[q] /\ sz'[q] = sz[q])
<1> DEFINE L == /\ op'[q] = op[q] /\ np'[q] = np[q] /\ a'[q] = a[q] /\ base'[q] = base[q]
                /\ end'[q] = end[q] /\ prog'[q] = prog[q] /\ nsz'[q] = nsz[q]
           Z == pc'[q] = pc[q] /\ sz'[q] = sz[q]
           F == op[p] = "fork" => np'[p] = np[p] \/ op'[p] # "fork"
           G == L /\ Z /\ F
           C == L /\ (q # np[p] => Z) /\ op[p] = "fork" /\ op'[p] = "none"
<1>s. SUFFICES \/ G \/ C
               \/ /\ L /\ sz'[q] = sz[q] /\ op[p] = "none" /\ op'[p] = "fork"
                  /\ q # np'[p] => pc'[q] = pc[q]
  OBVIOUS
<1>1. /\ DOMAIN op = Procs /\ DOMAIN np = Procs /\ DOMAIN a = Procs /\ DOMAIN base = Procs
      /\ DOMAIN end = Procs /\ DOMAIN prog = Procs /\ DOMAIN nsz = Procs /\ DOMAIN pc = Procs
      /\ DOMAIN sz = Procs
  BY DEF TypeOK
<1>f. /\ op = [i \in Procs |-> op[i]] /\ np = [i \in Procs |-> np[i]] /\ a = [i \in Procs |-> a[i]]
      /\ base = [i \in Procs |-> base[i]] /\ end = [i \in Procs |-> end[i]]
      /\ prog = [i \in Procs |-> prog[i]] /\ nsz = [i \in Procs |-> nsz[i]]
      /\ pc = [i \in Procs |-> pc[i]] /\ sz = [i \in Procs |-> sz[i]]
  BY DEF TypeOK
<1>2. Ret(p) => L /\ op'[p] = "none"
  BY <1>f DEF Ret
<1>3. UNCHANGED <<sz, op, loop>> => L /\ sz'[q] = sz[q] /\ F
  BY DEF loop
<1>4. ASSUME NEW n, pc' = [pc EXCEPT ![p] = n] PROVE pc'[q] = pc[q]
  BY <1>4, <1>f
<1>5. ASSUME NEW s, NEW H, exec_fails(p, s, H), Ret(p), UNCHANGED sz PROVE G
  BY <1>2, <1>4, <1>5 DEF exec_fails
<1>6. Fail(p) => G \/ C
  <2>1. CASE op[p] = "sbrk" /\ sbrk_fails(p, Undo(p)) /\ Ret(p) /\ UNCHANGED sz
    BY <1>2, <1>4, <2>1 DEF sbrk_fails
  <2>2. CASE op[p] = "fork" /\ fork_fails(p, Undo(p)) /\ Ret(p) /\ UNCHANGED sz
    <3>1. pc' = [pc EXCEPT ![p] = "user", ![np[p]] = "unused"]
      BY <2>2 DEF fork_fails
    <3>2. q # np[p] => pc'[q] = pc[q]
      BY <1>f, <3>1
    <3> QED BY <1>2, <2>2, <3>2
  <2>3. CASE op[p] = "exec" /\ exec_fails(p, nsz[p], Undo(p)) /\ Ret(p) /\ UNCHANGED sz
    BY <1>5, <2>3
  <2> QED BY <2>1, <2>2, <2>3 DEF Fail
<1>7. ASSUME NEW x, NEW next, Alloc(p, x, next) PROVE G \/ C
  BY <1>3, <1>4, <1>6, <1>7 DEF Alloc
<1> HIDE DEF L, Z, F
<1>8. CASE alloc_trapframe(p) \/ uvmcreate(p) \/ walk(p)
  BY <1>7, <1>8 DEF alloc_trapframe, uvmcreate, walk
<1>9. CASE map_top(p)
  <2>1. L
    BY <1>9, <1>f DEF map_top, L
  <2>2. Z /\ F
    BY <1>9, <1>f DEF map_top, Z, F
  <2> QED BY <2>1, <2>2
<1>10. CASE alloc_page(p)
  <2>1. CASE Fail(p)
    BY <1>6, <2>1
  <2>2. CASE pc' = [pc EXCEPT ![p] = "page"] /\ UNCHANGED <<top, sz, op, loop>>
    BY <1>3, <1>4, <2>2 DEF Z
  <2> QED BY <1>10, <2>1, <2>2 DEF alloc_page
<1>11. CASE map_page(p)
  <2>1. L
    BY <1>11, <1>f DEF map_page, L
  <2>2. Z /\ F
    BY <1>11, <1>f DEF map_page, Z, F
  <2> QED BY <2>1, <2>2
<1>12. ASSUME NEW g \in Programs, sys_exec(p, g) PROVE G
  <2>1. L
    BY <1>12, <1>f DEF sys_exec, L
  <2>2. Z /\ F
    BY <1>12, <1>f DEF sys_exec, Z, F
  <2> QED BY <2>1, <2>2
<1>13. ASSUME NEW i \in 1..MAXARG, fetch_arg(p, i) PROVE G \/ C
  BY <1>7, <1>13 DEF fetch_arg
<1>14. CASE exec(p) \/ exit(p)
  BY <1>3, <1>4, <1>14 DEF exec, exit, Z
<1>15. CASE exec_bad(p) \/ push_fails(p)
  BY <1>5, <1>15 DEF exec_bad, push_fails
<1>16. CASE next_segment(p)
  <2>1. L
    BY <1>16, <1>f DEF next_segment, L
  <2>2. Z /\ F
    BY <1>16, <1>f DEF next_segment, Z, F
  <2> QED BY <2>1, <2>2
<1>17. CASE loadseg(p)
  <2>1. CASE exec_fails(p, nsz[p], {}) /\ Ret(p) /\ UNCHANGED sz
    BY <1>5, <2>1
  <2>2. CASE end[p] # 0
    <3>1. L
      BY <1>17, <1>f, <2>2 DEF loadseg, L
    <3>2. Z /\ F
      BY <1>17, <1>f, <2>2 DEF loadseg, Z, F
    <3> QED BY <3>1, <3>2
  <2> QED BY <1>17, <2>1, <2>2 DEF loadseg
<1>18. CASE exec_commit(p)
  <2>1. L /\ op'[p] = "none"
    BY <1>2, <1>18 DEF exec_commit
  <2>2. Z
    BY <1>18, <1>f DEF exec_commit, Z
  <2> QED BY <2>1, <2>2 DEF F
<1>19. ASSUME NEW c \in Procs, fork(p, c)
       PROVE  /\ L /\ sz'[q] = sz[q] /\ op[p] = "none" /\ op'[p] = "fork"
              /\ q # np'[p] => pc'[q] = pc[q]
  <2>1. L /\ sz'[q] = sz[q]
    BY <1>19, <1>f DEF fork, L
  <2>2. op[p] = "none" /\ op'[p] = "fork" /\ np'[p] = c
    BY <1>19, <1>1 DEF fork, Calls
  <2>3. q # c => pc'[q] = pc[q]
    BY <1>19, <1>f DEF fork
  <2> QED BY <2>1, <2>2, <2>3
<1>20. CASE fork_done(p)
  <2>1. L /\ op'[p] = "none" /\ op[p] = "fork"
    BY <1>2, <1>20 DEF fork_done
  <2>2. q # np[p] => Z
    BY <1>20, <1>f DEF fork_done, Z
  <2> QED BY <2>1, <2>2
<1>21. CASE freeproc(p)
  <2>1. L /\ F
    BY <1>21 DEF freeproc, loop, L, F
  <2>2. Z
    BY <1>21, <1>f DEF freeproc, Z
  <2> QED BY <2>1, <2>2
<1>22. ASSUME NEW n \in Deltas, grow(p, n) \/ shrink(p, n) PROVE G
  <2>1. L
    BY <1>22, <1>f DEF grow, shrink, loop, L
  <2>2. Z /\ F
    BY <1>22, <1>f DEF grow, shrink, loop, Z, F
  <2> QED BY <2>1, <2>2
<1>23. CASE grow_done(p)
  <2>1. L /\ op'[p] = "none"
    BY <1>2, <1>23 DEF grow_done
  <2>2. Z
    BY <1>23, <1>f DEF grow_done, Z
  <2> QED BY <2>1, <2>2 DEF F
<1> QED
  BY <1>8, <1>9, <1>10, <1>11, <1>12, <1>13, <1>14, <1>15, <1>16, <1>17, <1>18, <1>19, <1>20,
     <1>21, <1>22, <1>23 DEF Step, Build, Exec

----------------------------------------------------------------------------
(* Allocating a page for the table under way *)

\* What does not change: the trapframe, the image, and no new table.
LEMMA OwnFrame ==
  ASSUME NEW p \in Procs, Kept(p), Alive(p), Same(p, "trapframe")
  PROVE  at'[Trapframe(p)] # NoPage
  BY ProcPlace DEF Kept, Same

\* A call that does not touch the own table keeps the image of it.
LEMMA OwnImage ==
  ASSUME NEW p \in Procs, Kept(p), Alive(p), op[p] # "sbrk", Same(p, "cur"),
         top'[<<p, "cur">>] = top[<<p, "cur">>], NEW h \in Nat, h = PGROUNDUP(sz[p])
  PROVE  Image(<<p, "cur">>, h)'
<1>1. Image(<<p, "cur">>, h) /\ <<p, "cur">> \in Tables
  BY DEF Kept, Tables
<1> QED BY <1>1, TableSame

\* A call other than exec() leaves no new table behind, and no argument.
LEMMA NoNew ==
  ASSUME NEW p \in Procs, Kept(p), op[p] # "exec", Same(p, "new"), Same(p, "arg"),
         top'[<<p, "new">>] = top[<<p, "new">>]
  PROVE  Blank(<<p, "new">>)' /\ \A x \in Args(p) : at'[x] = NoPage
<1>1. Blank(<<p, "new">>) /\ \A x \in Args(p) : at[x] = NoPage
  BY DEF Kept
<1>2. Blank(<<p, "new">>)'
  BY <1>1, TableSame DEF Tables
<1>3. \A x \in Args(p) : at'[x] = NoPage
  BY SMTT(30), <1>1, ProcPlace DEF Same
<1> QED BY <1>2, <1>3

\* What a process has does not change while it builds a table.
LEMMA KeptGoing ==
  ASSUME Calls, NEW p \in Procs, Kept(p), Alive(p), Alive(p)',
         op'[p] = op[p], np'[p] = np[p], sz'[p] = sz[p], Same(p, "trapframe"),
         op[p] # "sbrk" => Same(p, "cur") /\ top'[<<p, "cur">>] = top[<<p, "cur">>],
         op[p] # "exec" =>
           Same(p, "new") /\ Same(p, "arg") /\ top'[<<p, "new">>] = top[<<p, "new">>],
         at'[Mem(p)] # NoPage <=> pc'[p] = "page",
         \A c \in Procs : op[p] = "fork" /\ c = np[p] =>
           (at'[Trapframe(c)] # NoPage <=> pc'[p] # "trapframe")
  PROVE  Kept(p)'
<1>1. at'[Trapframe(p)] # NoPage
  BY OwnFrame
<1>3. ASSUME NEW h \in Nat, op[p] # "sbrk", h = PGROUNDUP(sz[p]) PROVE Image(<<p, "cur">>, h)'
  BY <1>3, OwnImage
<1>4. op[p] # "exec" => Blank(<<p, "new">>)' /\ \A x \in Args(p) : at'[x] = NoPage
  BY NoNew
<1>5. pc'[p] # "unused"
  BY DEF Alive
<1> QED BY <1>1, <1>3, <1>4, <1>5 DEF Kept

\* A page allocated for the call under way disturbs nothing that the caller keeps.
LEMMA AllocKept ==
  ASSUME TypeOK, Calls, NEW p \in Procs, Kept(p), NEW x \in Places, kalloc(x),
         NEW next, pc' = [pc EXCEPT ![p] = next], UNCHANGED <<top, sz, op, loop>>,
         op[p] # "none", next \notin {"unused", "embryo"}, at[x] = NoPage,
         ~(x[1] = p /\ x[2] = "trapframe"), op[p] # "sbrk" => ~(x[1] = p /\ x[2] = "cur"),
         op[p] # "exec" => ~(x[1] = p /\ x[2] \in {"new", "arg"}),
         x = Mem(p) \/ pc[p] = "page" <=> next = "page",
         \A c \in Procs : op[p] = "fork" /\ c = np[p] =>
           (x = Trapframe(c) \/ pc[p] # "trapframe" <=> next # "trapframe")
  PROVE  Kept(p)'
<1>1. at'[x] # NoPage /\ \A y \in Places : y # x => at'[y] = at[y]
  BY Kalloc
<1>2. pc'[p] = next /\ op' = op /\ np' = np /\ sz' = sz /\ top' = top
  BY DEF TypeOK, loop
<1>3. Alive(p) /\ Alive(p)'
  BY <1>2 DEF Alive, Calls
<1>4. Same(p, "trapframe") /\ (op[p] # "sbrk" => Same(p, "cur"))
      /\ (op[p] # "exec" => Same(p, "new") /\ Same(p, "arg"))
  BY <1>1 DEF Same
<1>5. at'[Mem(p)] # NoPage <=> pc'[p] = "page"
  <2>1. Mem(p) \in Places /\ (at[Mem(p)] # NoPage <=> pc[p] = "page")
    BY ProcPlace DEF Kept
  <2> QED BY <1>1, <1>2, <2>1
<1>6. ASSUME NEW c \in Procs, op[p] = "fork", c = np[p]
      PROVE  at'[Trapframe(c)] # NoPage <=> pc'[p] # "trapframe"
  <2>1. Trapframe(c) \in Places /\ (at[Trapframe(c)] # NoPage <=> pc[p] # "trapframe")
    BY <1>6, ProcPlace DEF Kept
  <2> QED BY <1>1, <1>2, <1>6, <2>1
<1> QED BY <1>2, <1>3, <1>4, <1>5, <1>6, KeptGoing

\* A page allocated for the call under way keeps what is built of the table so far.
LEMMA AllocBuilt ==
  ASSUME TypeOK, Calls, NEW p \in Procs, Built(p), NEW x \in Places, kalloc(x), at[x] = NoPage,
         NEW next, pc' = [pc EXCEPT ![p] = next], UNCHANGED <<top, sz, op, loop>>,
         \A v \in UserVA : x # UserPage(Tab(p), v),
         \/ pc[p] = next /\ (x \in TablePlaces(Tab(p)) => pc[p] \in {"tramp", "tfmap", "page"})
         \/ pc[p] = "trapframe" /\ next = "create" /\ x \notin TablePlaces(Tab(p))
         \/ pc[p] = "create" /\ next = "tramp"
         \/ pc[p] = "loop" /\ next = "page"
  PROVE  Built(p)'
<1> SUFFICES ASSUME NEW t \in Tables, NEW h \in Nat, t = Tab(p)
             PROVE  /\ next \in {"args", "trapframe", "create"} => Blank(t)'
                    /\ next = "tramp" => top'[t] = {} /\ NoUser(t)'
                    /\ next = "tfmap" => top'[t] = {TRAMPOLINE} /\ NoUser(t)' /\ Present(t, TRAMPOLINE)'
                    /\ next = "load" /\ h = PGROUNDUP(nsz[p]) => Image(t, h)'
                    /\ next \in {"loop", "page"} /\ h = a[p] => Image(t, h)'
  <2>1. pc'[p] = next /\ nsz' = nsz /\ a' = a /\ Tab(p)' = Tab(p)
    BY DEF TypeOK, loop, Tab
  <2> QED BY <2>1 DEF Built
<1>1. /\ NoUser(t) => NoUser(t)'
      /\ Present(t, TRAMPOLINE) => Present(t, TRAMPOLINE)'
      /\ Image(t, h) => Image(t, h)'
      /\ x \notin TablePlaces(t) /\ Blank(t) => Blank(t)'
      /\ top'[t] = top[t]
  BY AllocTables, Indexes
<1>2. /\ pc[p] \in {"args", "trapframe", "create"} => Blank(t)
      /\ pc[p] = "tramp" => top[t] = {} /\ NoUser(t)
      /\ pc[p] = "tfmap" => top[t] = {TRAMPOLINE} /\ NoUser(t) /\ Present(t, TRAMPOLINE)
      /\ pc[p] = "load" /\ h = PGROUNDUP(nsz[p]) => Image(t, h)
      /\ pc[p] \in {"loop", "page"} /\ h = a[p] => Image(t, h)
  BY DEF Built
<1>3. Blank(t) => NoUser(t) /\ top[t] = {}
  BY TableParts DEF Blank, NoUser
<1> QED BY <1>1, <1>2, <1>3

\* kalloc() of any kind, when it succeeds, keeps the call on its way.
LEMMA AllocStep ==
  ASSUME MemInv, NEW p \in Procs, ~Fail(p),
         \/ alloc_trapframe(p) \/ uvmcreate(p) \/ walk(p) \/ alloc_page(p)
         \/ \E i \in 1..MAXARG : fetch_arg(p, i)
  PROVE  Kept(p)' /\ Built(p)' /\ panicked' = panicked
<1>i. TypeOK /\ Calls /\ Bounds(p) /\ Kept(p) /\ Built(p)
  BY DEF MemInv
<1>t. /\ Tab(p) \in Tables
      /\ op[p] = "fork" => np[p] \in Procs /\ np[p] # p /\ Tab(p) = <<np[p], "cur">>
      /\ op[p] = "exec" => Tab(p) = <<p, "new">>
      /\ op[p] = "sbrk" => Tab(p) = <<p, "cur">>
  BY <1>i, TabTable
<1>u. \A v \in UserVA : /\ UserPage(Tab(p), v) \in TablePlaces(Tab(p))
                        /\ UserPage(Tab(p), v) # Root(Tab(p))
  BY <1>t, TableParts
\* The places of the table that p builds or grows.
<1>x. ASSUME NEW x \in TablePlaces(Tab(p)), op[p] # "none"
      PROVE  /\ x \in Places /\ ~(x[1] = p /\ x[2] = "trapframe") /\ x # Mem(p)
             /\ op[p] # "sbrk" => ~(x[1] = p /\ x[2] = "cur")
             /\ op[p] # "exec" => ~(x[1] = p /\ x[2] \in {"new", "arg"})
             /\ \A c \in Procs : x # Trapframe(c)
  <2>1. x \in Places /\ x[1] = Tab(p)[1] /\ x[2] = Tab(p)[2] /\ x[2] \in {"cur", "new"}
    BY <1>t, TablePlace
  <2>2. op[p] \in {"fork", "exec", "sbrk"}
    BY <1>i, <1>x DEF TypeOK
  <2>3. \A c \in Procs : x # Trapframe(c)
    BY <2>1, ProcPlace
  <2>4. x # Mem(p)
    BY <2>1, ProcPlace
  <2>5. /\ op[p] # "sbrk" => ~(x[1] = p /\ x[2] = "cur")
        /\ op[p] # "exec" => ~(x[1] = p /\ x[2] \in {"new", "arg"})
    BY SMTT(30), <1>t, <2>1, <2>2
  <2> QED BY <2>1, <2>3, <2>4, <2>5
<1>1. CASE alloc_trapframe(p)
  <2> DEFINE x == Trapframe(np[p])
  <2>1. /\ pc[p] = "trapframe" /\ kalloc(x) /\ pc' = [pc EXCEPT ![p] = "create"]
        /\ UNCHANGED <<top, sz, op, loop, panicked>>
    BY <1>1 DEF alloc_trapframe, Alloc
  <2>2. op[p] = "fork" /\ np[p] \in Procs /\ np[p] # p
    BY <1>i, <1>t, <2>1 DEF Calls
  <2>3. x \in Places /\ x[1] = np[p] /\ x[2] = "trapframe" /\ x # Mem(p)
    BY <2>2, ProcPlace
  <2>4. at[x] = NoPage
    BY <1>i, <2>1, <2>2 DEF Kept
  <2>5. x \notin TablePlaces(Tab(p))
    BY <1>t, <2>3, TablePlace
  <2>6. \A c \in Procs : c = np[p] => x = Trapframe(c)
    OBVIOUS
  <2> HIDE DEF x
  <2>7. Kept(p)'
    <3>1. /\ ~(x[1] = p /\ x[2] = "trapframe") /\ ~(x[1] = p /\ x[2] = "cur")
          /\ ~(x[1] = p /\ x[2] \in {"new", "arg"})
          /\ (x = Mem(p) \/ pc[p] = "page" <=> "create" = "page")
          /\ op[p] # "none" /\ "create" \notin {"unused", "embryo"}
      BY <2>1, <2>2, <2>3
    <3>2. \A c \in Procs : op[p] = "fork" /\ c = np[p] =>
            (x = Trapframe(c) \/ pc[p] # "trapframe" <=> "create" # "trapframe")
      BY <2>6
    <3>3. UNCHANGED <<top, sz, op, loop>>
      BY <2>1
    <3> QED BY <1>i, <2>1, <2>3, <2>4, <3>1, <3>2, <3>3, AllocKept
  <2>8. Built(p)'
    BY <1>i, <1>u, <2>1, <2>3, <2>4, <2>5, AllocBuilt
  <2> QED BY <2>1, <2>7, <2>8
<1>2. CASE uvmcreate(p)
  <2> DEFINE x == Root(Tab(p))
  <2>1. /\ pc[p] = "create" /\ kalloc(x) /\ pc' = [pc EXCEPT ![p] = "tramp"]
        /\ UNCHANGED <<top, sz, op, loop, panicked>>
    BY <1>2 DEF uvmcreate, Alloc
  <2>2. op[p] # "none"
    BY <1>i, <2>1 DEF Calls
  <2>3. x \in TablePlaces(Tab(p)) /\ \A v \in UserVA : x # UserPage(Tab(p), v)
    BY <1>t, <1>u, TableParts
  <2>4. at[x] = NoPage
    BY <1>i, <1>t, <2>1, <2>3 DEF Built, Blank
  <2> HIDE DEF x
  <2>5. Kept(p)'
    <3>1. /\ x \in Places /\ ~(x[1] = p /\ x[2] = "trapframe") /\ x # Mem(p)
          /\ op[p] # "sbrk" => ~(x[1] = p /\ x[2] = "cur")
          /\ op[p] # "exec" => ~(x[1] = p /\ x[2] \in {"new", "arg"})
          /\ \A c \in Procs : x # Trapframe(c)
      BY <1>x, <2>2, <2>3
    <3>2. /\ (x = Mem(p) \/ pc[p] = "page" <=> "tramp" = "page")
          /\ "tramp" \notin {"unused", "embryo"} /\ pc[p] # "trapframe" /\ "tramp" # "trapframe"
      BY <2>1, <3>1
    <3>3. UNCHANGED <<top, sz, op, loop>>
      BY <2>1
    <3> QED BY <1>i, <2>1, <2>2, <2>4, <3>1, <3>2, <3>3, AllocKept
  <2>6. Built(p)'
    BY <1>i, <1>x, <2>1, <2>2, <2>3, <2>4, AllocBuilt
  <2> QED BY <2>1, <2>5, <2>6
<1>3. CASE walk(p)
  <2> DEFINE x == NextMissing(Tab(p), Here(p))
  <2>1. /\ pc[p] \in {"tramp", "tfmap", "page"} /\ kalloc(x) /\ pc' = [pc EXCEPT ![p] = pc[p]]
        /\ UNCHANGED <<top, sz, op, loop, panicked>> /\ ~Present(Tab(p), Here(p))
    BY <1>3 DEF walk, Alloc
  <2>2. op[p] # "none"
    BY <1>i, <2>1 DEF Calls
  <2>3. Here(p) \in 0..(MAXVA - 1)
    BY <1>i, <2>1, HereInRange
  <2>4. /\ x = Path(Tab(p), Here(p))[1] \/ x = Path(Tab(p), Here(p))[2]
        /\ at[x] = NoPage
    BY <2>1 DEF NextMissing, Present
  <2>5. x \in TablePlaces(Tab(p)) /\ \A v \in UserVA : x # UserPage(Tab(p), v)
    BY SMTT(30), <1>t, <2>3, <2>4, TableParts
  <2> HIDE DEF x
  <2>6. Kept(p)'
    <3>1. pc[p] \notin {"unused", "embryo", "trapframe"}
      BY <2>1
    <3> QED BY <1>i, <1>x, <2>1, <2>2, <2>4, <2>5, <3>1, AllocKept
  <2>7. Built(p)'
    BY <1>i, <1>x, <2>1, <2>2, <2>4, <2>5, AllocBuilt
  <2> QED BY <2>1, <2>6, <2>7
<1>4. CASE alloc_page(p)
  <2>1. /\ pc[p] = "loop" /\ kalloc(Mem(p)) /\ pc' = [pc EXCEPT ![p] = "page"]
        /\ UNCHANGED <<top, sz, op, loop>> /\ a[p] * PGSIZE < end[p]
        /\ panicked' = (panicked \/ (op[p] = "fork" /\ ~Mapped(<<p, "cur">>, a[p], a[p] + 1)))
    BY <1>4 DEF alloc_page
  <2>2. op[p] # "none" /\ at[Mem(p)] = NoPage
    BY <1>i, <2>1 DEF Calls, Kept
  <2>3. Mem(p) \in Places /\ Mem(p)[1] = p /\ Mem(p)[2] = "mem"
    BY ProcPlace
  <2>4. Mem(p) \notin TablePlaces(Tab(p))
    BY <1>t, <2>3, TablePlace
  <2>6. Kept(p)'
    <3>1. /\ ~(Mem(p)[1] = p /\ Mem(p)[2] = "trapframe") /\ ~(Mem(p)[1] = p /\ Mem(p)[2] = "cur")
          /\ ~(Mem(p)[1] = p /\ Mem(p)[2] \in {"new", "arg"})
          /\ (Mem(p) = Mem(p) \/ pc[p] = "page" <=> "page" = "page")
          /\ "page" \notin {"unused", "embryo"} /\ pc[p] # "trapframe" /\ "page" # "trapframe"
      BY <2>1, <2>3
    <3> QED BY <1>i, <2>1, <2>2, <2>3, <3>1, AllocKept
  <2>7. Built(p)'
    BY <1>i, <1>u, <2>1, <2>2, <2>3, <2>4, AllocBuilt
  <2>8. op[p] = "fork" => Mapped(<<p, "cur">>, a[p], a[p] + 1)
    <3> HAVE op[p] = "fork"
    <3>1. a[p] \in Nat /\ a[p] < PGROUNDUP(end[p]) /\ PGROUNDUP(end[p]) \in Nat
      BY <1>i, <2>1, LoopEnd
    <3>2. end[p] = sz[p] /\ PGROUNDUP(end[p]) <= UPAGES
      BY <1>i, <2>1 DEF Bounds, InLoop
    <3>3. Image(<<p, "cur">>, PGROUNDUP(sz[p])) /\ <<p, "cur">> \in Tables
      BY <1>i, <2>1, <3>1, <3>2, TabTable DEF Kept, Alive
    <3>4. a[p] + 1 \in Nat /\ a[p] + 1 <= PGROUNDUP(sz[p])
      BY SMTT(30), <3>1, <3>2
    <3> QED BY <3>1, <3>2, <3>3, <3>4, ImageMapped
  <2>9. panicked \in BOOLEAN
    BY <1>i DEF TypeOK
  <2> QED BY <2>1, <2>6, <2>7, <2>8, <2>9
<1>5. ASSUME NEW i \in 1..MAXARG, fetch_arg(p, i) PROVE Kept(p)' /\ Built(p)' /\ panicked' = panicked
  <2> DEFINE x == Arg(p, i)
  <2>1. /\ pc[p] = "args" /\ kalloc(x) /\ pc' = [pc EXCEPT ![p] = "args"] /\ at[x] = NoPage
        /\ UNCHANGED <<top, sz, op, loop, panicked>>
    BY <1>5 DEF fetch_arg, Alloc
  <2>2. op[p] = "exec"
    BY <1>i, <2>1 DEF Calls
  <2>3. x \in Places /\ x[1] = p /\ x[2] = "arg"
    BY ProcPlace
  <2>4. x \notin TablePlaces(Tab(p))
    BY <1>t, <2>3, TablePlace
  <2>5. x # Mem(p)
    BY <2>3, ProcPlace
  <2> HIDE DEF x
  <2>6. Kept(p)'
    BY <1>i, <2>1, <2>2, <2>3, <2>5, AllocKept
  <2>7. Built(p)'
    BY <1>i, <1>u, <2>1, <2>3, <2>4, AllocBuilt
  <2> QED BY <2>1, <2>6, <2>7
<1> QED BY <1>1, <1>2, <1>3, <1>4, <1>5

\* mappages() of the trampoline or the trapframe: the two fixed pages, in order, and
\* never on a mapped address.
LEMMA MapTopStep ==
  ASSUME MemInv, NEW p \in Procs, map_top(p)
  PROVE  Kept(p)' /\ Built(p)' /\ panicked' = panicked
<1>i. TypeOK /\ Calls /\ Bounds(p) /\ Kept(p) /\ Built(p)
  BY DEF MemInv
<1>1. /\ pc[p] \in {"tramp", "tfmap"} /\ Present(Tab(p), Here(p))
      /\ top' = [top EXCEPT ![Tab(p)] = @ \cup {Here(p)}]
      /\ panicked' = (panicked \/ Here(p) \in top[Tab(p)])
      /\ UNCHANGED <<free, at, sz, op, np, a, base, prog, nsz>>
  BY DEF map_top
<1>2. pc'[p] = (IF pc[p] = "tramp" THEN "tfmap" ELSE IF op[p] = "fork" THEN "loop" ELSE "load")
  BY <1>i DEF map_top, TypeOK
<1>3. /\ Tab(p) \in Tables /\ <<p, "cur">> \in Tables /\ <<p, "new">> \in Tables
      /\ op[p] \in {"fork", "exec"} /\ (op[p] = "fork" => np[p] \in Procs)
      /\ op[p] = "fork" => np[p] \in Procs /\ np[p] # p /\ Tab(p) = <<np[p], "cur">>
      /\ op[p] = "exec" => Tab(p) = <<p, "new">>
  BY <1>i, <1>1, TabTable DEF Calls
<1>4. top \in [Tables -> SUBSET {TRAMPOLINE, TRAPFRAME}]
  BY <1>i DEF TypeOK
<1>5. /\ Tab(p) # <<p, "cur">> /\ (op[p] # "exec" => Tab(p) # <<p, "new">>)
  BY SMTT(30), <1>3
<1>6. Kept(p)'
  <2>1. top'[<<p, "cur">>] = top[<<p, "cur">>] /\ (op[p] # "exec" => top'[<<p, "new">>] = top[<<p, "new">>])
    BY <1>1, <1>3, <1>4, <1>5
  <2>2. Alive(p) /\ Alive(p)'
    BY <1>1, <1>2 DEF Alive
  <2>3. Same(p, "trapframe") /\ Same(p, "cur") /\ Same(p, "new") /\ Same(p, "arg")
    BY <1>1 DEF Same
  <2>4. at'[Mem(p)] # NoPage <=> pc'[p] = "page"
    BY <1>i, <1>1, <1>2 DEF Kept
  <2>5. ASSUME NEW c \in Procs, op[p] = "fork", c = np[p]
        PROVE  at'[Trapframe(c)] # NoPage <=> pc'[p] # "trapframe"
    BY <1>i, <1>1, <1>2, <2>5 DEF Kept
  <2> QED BY <1>i, <1>1, <2>1, <2>2, <2>3, <2>4, <2>5, KeptGoing
<1>7. ASSUME NEW t \in Tables, t = Tab(p)
      PROVE  /\ NoUser(t) /\ top[t] = (IF pc[p] = "tramp" THEN {} ELSE {TRAMPOLINE})
             /\ pc[p] = "tfmap" => Present(t, TRAMPOLINE)
             /\ Here(p) = (IF pc[p] = "tramp" THEN TRAMPOLINE ELSE TRAPFRAME)
             /\ top'[t] = top[t] \cup {Here(p)} /\ Present(t, Here(p))
  <2>1. NoUser(t) /\ top[t] = (IF pc[p] = "tramp" THEN {} ELSE {TRAMPOLINE})
        /\ (pc[p] = "tfmap" => Present(t, TRAMPOLINE))
    <3>1. 0 \in Nat
      OBVIOUS
    <3> QED BY <1>i, <1>1, <1>7, <3>1 DEF Built
  <2>2. Here(p) = (IF pc[p] = "tramp" THEN TRAMPOLINE ELSE TRAPFRAME)
    BY <1>1 DEF Here
  <2>3. top'[t] = top[t] \cup {Here(p)} /\ Present(t, Here(p))
    BY <1>1, <1>4, <1>7
  <2> QED BY <2>1, <2>2, <2>3
<1>8. panicked' = panicked
  <2>1. Here(p) \notin top[Tab(p)]
    BY SMTT(30), <1>1, <1>3, <1>7, Indexes
  <2>2. panicked \in BOOLEAN
    BY <1>i DEF TypeOK
  <2> QED BY <1>1, <2>1, <2>2
<1>9. Built(p)'
  <2>1. Tab(p)' = Tab(p) /\ a'[p] = a[p] /\ nsz'[p] = nsz[p] /\ a[p] = 0 /\ nsz[p] = 0
    BY <1>i, <1>1 DEF Tab, Bounds
  <2> SUFFICES ASSUME NEW t \in Tables, t = Tab(p)
               PROVE  /\ pc[p] = "tramp" => top'[t] = {TRAMPOLINE} /\ NoUser(t)' /\ Present(t, TRAMPOLINE)'
                      /\ pc[p] = "tfmap" => Image(t, 0)'
    BY <1>1, <1>2, <2>1, RoundUpZero DEF Built
  <2>3. /\ NoUser(t)' = NoUser(t) /\ Present(t, TRAMPOLINE)' = Present(t, TRAMPOLINE)
        /\ Present(t, TRAPFRAME)' = Present(t, TRAPFRAME)
    BY <1>1 DEF NoUser, Present
  <2>4. CASE pc[p] = "tramp"
    <3>1. top'[t] = {TRAMPOLINE}
      BY <1>7, <2>4
    <3> QED BY <1>7, <2>3, <2>4, <3>1
  <2>5. CASE pc[p] = "tfmap"
    <3>1. top'[t] = {TRAMPOLINE, TRAPFRAME} /\ Present(t, TRAMPOLINE)' /\ Present(t, TRAPFRAME)'
      BY <1>7, <2>3, <2>5
    <3>2. NoUser(t)'
      BY <1>7, <2>3
    <3>3. \A v \in UserVA : ~(v < 0) /\ at'[UserPage(t, v)] = NoPage
      BY SMTT(30), <3>2 DEF NoUser, UserVA
    <3> QED BY <2>5, <3>1, <3>3 DEF Image
  <2> QED BY <1>1, <2>4, <2>5
<1> QED BY <1>6, <1>8, <1>9

\* mappages() of a user page: the image is one page longer, and was not mapped there.
LEMMA MapPageStep ==
  ASSUME MemInv, NEW p \in Procs, map_page(p)
  PROVE  Kept(p)' /\ Built(p)' /\ panicked' = panicked
<1>i. TypeOK /\ Calls /\ Bounds(p) /\ Kept(p) /\ Built(p)
  BY DEF MemInv
<1> DEFINE x == UserPage(Tab(p), a[p])
<1>1. /\ x \in TablePlaces(Tab(p)) /\ x \in Places /\ x # Mem(p) /\ at[x] = NoPage
      /\ at[Mem(p)] # NoPage /\ UNCHANGED panicked
      /\ at'[x] = at[Mem(p)] /\ at'[Mem(p)] = NoPage
      /\ \A y \in Places : y # x /\ y # Mem(p) => at'[y] = at[y]
  BY MapPageMoves
<1>2. /\ pc[p] = "page" /\ Present(Tab(p), a[p]) /\ pc'[p] = "loop" /\ a'[p] = a[p] + 1
      /\ UNCHANGED <<free, top, sz, op, np, base, end, prog, nsz>>
  BY <1>i DEF map_page, TypeOK
<1>3. /\ Tab(p) \in Tables /\ op[p] \in {"fork", "exec", "sbrk"}
      /\ op[p] = "fork" => np[p] \in Procs /\ np[p] # p /\ Tab(p) = <<np[p], "cur">>
      /\ op[p] = "exec" => Tab(p) = <<p, "new">>
      /\ op[p] = "sbrk" => Tab(p) = <<p, "cur">>
  <2>1. op[p] # "none"
    BY <1>i, <1>2 DEF Calls
  <2>2. op[p] \in {"fork", "exec", "sbrk"}
    BY <1>i, <2>1 DEF TypeOK
  <2> QED BY <1>i, <2>2, TabTable
<1>4. a[p] \in UserVA /\ a[p] \in Nat
  <2>1. a[p] \in UserVA
    BY <1>i, <1>2, HereInRange
  <2> QED BY <1>i, <2>1 DEF TypeOK
<1>5. x[1] = Tab(p)[1] /\ x[2] = Tab(p)[2]
  BY DEF UserPage
<1>6. Mem(p) \in Places /\ Mem(p)[1] = p /\ Mem(p)[2] = "mem"
  BY ProcPlace
<1>7. Tab(p)[2] \in {"cur", "new"}
  BY SMTT(30), <1>3
<1>b. \A v \in UserVA : v # a[p] => UserPage(Tab(p), v) # x
  BY <1>3, <1>4, TableParts
<1>c. \A v \in 0..(MAXVA - 1) : x # Path(Tab(p), v)[1] /\ x # Path(Tab(p), v)[2]
  BY <1>3, <1>4, TableParts
<1> HIDE DEF x
<1>8. Kept(p)'
  <2>1. Same(p, "trapframe") /\ (op[p] # "sbrk" => Same(p, "cur"))
        /\ (op[p] # "exec" => Same(p, "new")) /\ Same(p, "arg")
    <3>1. Same(p, "trapframe") /\ Same(p, "arg")
      BY <1>1, <1>5, <1>6, <1>7 DEF Same
    <3>2. ASSUME op[p] # "sbrk" PROVE Same(p, "cur")
      <4>1. x[1] # p \/ x[2] # "cur"
        BY SMTT(30), <1>3, <1>5, <3>2
      <4> QED BY <1>1, <1>6, <4>1 DEF Same
    <3>3. ASSUME op[p] # "exec" PROVE Same(p, "new")
      <4>1. x[2] # "new"
        BY SMTT(30), <1>3, <1>5, <3>3
      <4> QED BY <1>1, <1>6, <4>1 DEF Same
    <3> QED BY <3>1, <3>2, <3>3
  <2>2. Alive(p) /\ Alive(p)'
    BY <1>2 DEF Alive
  <2>3. at'[Mem(p)] # NoPage <=> pc'[p] = "page"
    BY <1>1, <1>2
  <2>4. ASSUME NEW c \in Procs, op[p] = "fork", c = np[p]
        PROVE  at'[Trapframe(c)] # NoPage <=> pc'[p] # "trapframe"
    <3>1. Trapframe(c) \in Places /\ Trapframe(c)[2] = "trapframe"
      BY ProcPlace
    <3>2. at'[Trapframe(c)] = at[Trapframe(c)]
      BY <1>1, <1>5, <1>6, <1>7, <3>1
    <3> QED BY <1>i, <1>2, <2>4, <3>2 DEF Kept
  <2> QED BY <1>i, <1>2, <2>1, <2>2, <2>3, <2>4, KeptGoing
<1>9. Built(p)'
  <2>1. Tab(p)' = Tab(p)
    BY <1>2 DEF Tab
  <2> SUFFICES ASSUME NEW t \in Tables, NEW h \in Nat, t = Tab(p), h = a[p] + 1
               PROVE  Image(t, h)'
    BY <1>2, <2>1 DEF Built
  <2>2. Image(t, a[p]) /\ Present(t, a[p])
    BY <1>i, <1>2, <1>4 DEF Built
  <2>3. \A y \in TablePlaces(t) : y \in Places /\ y # Mem(p)
    BY <1>6, TablePlace
  <2>4. ASSUME NEW v \in 0..(MAXVA - 1), Present(t, v) PROVE Present(t, v)'
    <3>1. Path(t, v)[1] \in TablePlaces(t) /\ Path(t, v)[2] \in TablePlaces(t)
      BY TableParts
    <3> QED BY <1>1, <1>c, <2>3, <2>4, <3>1 DEF Present
  <2>5. ASSUME NEW v \in UserVA
        PROVE  /\ at'[UserPage(t, v)] # NoPage <=> v < h
               /\ v < h => Present(t, v)'
    <3>1. v \in 0..(MAXVA - 1) /\ v \in Nat /\ UserPage(t, v) \in TablePlaces(t)
      BY SMTT(30), Indexes, TableParts DEF UserVA
    <3>2. (at[UserPage(t, v)] # NoPage <=> v < a[p]) /\ (v < a[p] => Present(t, v))
      BY <2>2 DEF Image
    <3>3. CASE v = a[p]
      <4>1. at'[UserPage(t, v)] # NoPage
        BY <1>1, <3>3 DEF x
      <4>2. Present(t, v)'
        BY <2>2, <2>4, <3>1, <3>3
      <4> QED BY SMTT(30), <1>4, <3>3, <4>1, <4>2
    <3>4. CASE v # a[p]
      <4>1. at'[UserPage(t, v)] = at[UserPage(t, v)]
        BY <1>1, <1>b, <2>3, <3>1, <3>4
      <4>2. v < h <=> v < a[p]
        BY SMTT(30), <1>4, <3>1, <3>4
      <4> QED BY <2>4, <3>1, <3>2, <4>1, <4>2
    <3> QED BY <3>3, <3>4
  <2>6. top'[t] = {TRAMPOLINE, TRAPFRAME} /\ Present(t, TRAMPOLINE)' /\ Present(t, TRAPFRAME)'
    BY <1>2, <2>2, <2>4, Indexes DEF Image
  <2> QED BY <2>5, <2>6 DEF Image
<1> QED BY <1>1, <1>8, <1>9

----------------------------------------------------------------------------
(* A call fails *)

\* What Ret() leaves of a process that is back in user mode.
LEMMA UserBuilt ==
  ASSUME NEW p \in Procs, pc'[p] \in {"user", "zombie", "unused", "embryo"}
  PROVE  Built(p)'
  BY DEF Built

\* A process in user mode, or dead: its own image, and nothing under way.
LEMMA UserKept ==
  ASSUME NEW p \in Procs, pc'[p] \in {"user", "zombie"}, op'[p] = "none",
         at'[Trapframe(p)] # NoPage, at'[Mem(p)] = NoPage,
         \A h \in Nat : h = PGROUNDUP(sz'[p]) => Image(<<p, "cur">>, h)',
         Blank(<<p, "new">>)', \A x \in Args(p) : at'[x] = NoPage
  PROVE  Kept(p)' /\ Built(p)'
  BY UserBuilt DEF Kept, Alive

\* freewalk() finds no leaf: uvmfree() unmaps exactly the pages of the image, less
\* those that are gone already.
LEMMA FreeOK ==
  ASSUME NEW t \in Tables, NEW lo \in Nat, NEW hi \in Nat, lo <= hi, Image(t, hi),
         NEW s \in Nat, lo = PGROUNDUP(s), NEW gone,
         gone = UserPages(t, lo, hi) \/ lo = hi
  PROVE  FreepagetableOK(t, s, gone)
<1>1. top[t] = {TRAMPOLINE, TRAPFRAME}
  BY DEF Image
<1>2. ASSUME NEW v \in UserVA, UserPage(t, v) \notin gone
      PROVE  at[UserPage(t, v)] # NoPage <=> v < lo
  <2>1. v \in Nat /\ (at[UserPage(t, v)] # NoPage <=> v < hi)
    BY SMTT(30) DEF Image, UserVA
  <2>2. CASE lo = hi
    BY <2>1, <2>2
  <2>3. CASE gone = UserPages(t, lo, hi)
    <3>1. ~(lo <= v /\ v < hi)
      BY <1>2, <2>3 DEF UserPages
    <3> QED BY SMTT(30), <2>1, <3>1
  <2> QED BY <2>2, <2>3
<1> QED BY <1>1, <1>2 DEF FreepagetableOK

\* The table of an image of s bytes, with nothing taken off it before.
LEMMA FreeImage ==
  ASSUME NEW t \in Tables, NEW s \in Nat, Image(t, PGROUNDUP(s))
  PROVE  FreepagetableOK(t, s, {})
<1>1. PICK h \in Nat : h = PGROUNDUP(s)
  BY RoundUp
<1>2. h <= h
  BY SMTT(30), <1>1
<1> QED BY <1>1, <1>2, FreeOK

\* The bad: path of exec() drops the new table and keeps the old image.
LEMMA ExecFails ==
  ASSUME MemInv, NEW p \in Procs, op[p] = "exec", NEW s, NEW gone,
         exec_fails(p, s, gone), Ret(p), UNCHANGED sz,
         pc[p] \in {"load", "loop", "page"} => FreepagetableOK(<<p, "new">>, s, gone)
  PROVE  Kept(p)' /\ Built(p)' /\ panicked' = panicked
<1>i. TypeOK /\ Calls /\ Kept(p)
  BY DEF MemInv
<1> DEFINE X == {Mem(p)} \cup TablePlaces(<<p, "new">>) \cup Args(p)
<1>1. kfree(X) /\ pc'[p] = "user" /\ op'[p] = "none" /\ top' = [top EXCEPT ![<<p, "new">>] = {}]
  BY <1>i DEF exec_fails, Ret, TypeOK
<1>2. <<p, "cur">> \in Tables /\ <<p, "new">> \in Tables /\ <<p, "cur">> # <<p, "new">>
  BY DEF Tables
<1>3. /\ \A x \in TablePlaces(<<p, "new">>) : x \in Places /\ x[2] = "new"
      /\ Mem(p) \in Places /\ Mem(p)[2] = "mem"
      /\ \A x \in Args(p) : x \in Places /\ x[2] = "arg"
  BY SMTT(30), <1>2, TablePlace, ProcPlace
<1>4. X \subseteq Places /\ \A x \in X : x[2] \in {"mem", "new", "arg"}
  BY <1>3
<1>5. Mem(p) \in X /\ TablePlaces(<<p, "new">>) \subseteq X /\ Args(p) \subseteq X
  OBVIOUS
<1> HIDE DEF X
<1>6. (\A x \in X : at'[x] = NoPage) /\ (\A y \in Places : y \notin X => at'[y] = at[y])
  BY <1>i, <1>1, <1>4, Kfree
<1>7. Same(p, "cur") /\ Same(p, "trapframe")
  BY <1>4, <1>6 DEF Same
<1>8. Alive(p) /\ Alive(p)'
  <2>1. pc[p] \notin {"unused", "embryo"}
    BY <1>i DEF Calls
  <2> QED BY <1>1, <2>1 DEF Alive
<1>9. at'[Trapframe(p)] # NoPage
  BY <1>i, <1>7, <1>8, OwnFrame
<1>10. ASSUME NEW h \in Nat, h = PGROUNDUP(sz'[p]) PROVE Image(<<p, "cur">>, h)'
  <2>1. top'[<<p, "cur">>] = top[<<p, "cur">>]
    BY <1>i, <1>1, <1>2 DEF TypeOK
  <2> QED BY <1>i, <1>7, <1>8, <1>10, <2>1, OwnImage
<1>11. Blank(<<p, "new">>)'
  <2>1. top'[<<p, "new">>] = {}
    BY <1>i, <1>1, <1>2 DEF TypeOK
  <2> QED BY <1>5, <1>6, <2>1 DEF Blank
<1>12. at'[Mem(p)] = NoPage /\ \A x \in Args(p) : at'[x] = NoPage
  BY <1>5, <1>6
<1>13. panicked' = panicked
  BY <1>i DEF exec_fails, TypeOK
<1> QED BY <1>1, <1>9, <1>10, <1>11, <1>12, <1>13, UserKept

\* A growproc() out of memory takes back what it mapped and keeps the image.
LEMMA SbrkFails ==
  ASSUME MemInv, NEW p \in Procs, op[p] = "sbrk", pc[p] \in {"loop", "page"},
         sbrk_fails(p, Undo(p)), Ret(p), UNCHANGED sz
  PROVE  Kept(p)' /\ Built(p)' /\ panicked' = panicked
<1>i. TypeOK /\ Calls /\ Kept(p) /\ Bounds(p) /\ Built(p)
  BY DEF MemInv
<1> DEFINE t == <<p, "cur">>
           X == {Mem(p)} \cup UserPages(t, base[p], a[p])
<1>1. Tab(p) = t /\ t \in Tables /\ <<p, "new">> \in Tables
  BY <1>i, TabTable
<1>2. kfree(X) /\ pc'[p] = "user" /\ op'[p] = "none" /\ UNCHANGED <<top, panicked>>
  BY <1>i, <1>1 DEF sbrk_fails, Ret, TypeOK, Undo
<1>3. /\ \A x \in UserPages(t, base[p], a[p]) : x \in TablePlaces(t) /\ x \in Places /\ x[2] = "cur"
      /\ Mem(p) \in Places /\ Mem(p)[2] = "mem"
  BY SMTT(30), <1>1, TablePlace, ProcPlace, UserPlaces
<1>4. X \subseteq Places /\ \A x \in X : x[2] \in {"mem", "cur"}
  BY <1>3
<1>5. (\A x \in X : at'[x] = NoPage) /\ (\A y \in Places : y \notin X => at'[y] = at[y])
  BY <1>i, <1>2, <1>4, Kfree
<1>6. Same(p, "trapframe") /\ Same(p, "new") /\ Same(p, "arg")
  BY <1>4, <1>5 DEF Same
<1>7. Alive(p)
  BY DEF Alive
<1>8. at'[Trapframe(p)] # NoPage
  BY <1>i, <1>6, <1>7, OwnFrame
<1>9. Blank(<<p, "new">>)' /\ \A x \in Args(p) : at'[x] = NoPage
  BY <1>i, <1>2, <1>6, NoNew
<1>10. ASSUME NEW h \in Nat, h = PGROUNDUP(sz'[p]) PROVE Image(t, h)'
  <2>1. PICK hi \in Nat : hi = a[p]
    BY <1>i DEF TypeOK
  <2>2. h = base[p] /\ h <= hi
    BY <1>10, <1>i, <2>1 DEF Bounds, InLoop
  <2>3. Image(t, hi)
    BY <1>i, <1>1, <2>1 DEF Built
  <2>4. \A x \in TablePlaces(t) : x \in Places /\ x # Mem(p)
    BY <1>1, <1>3, TablePlace
  <2>5. /\ \A x \in UserPages(t, h, hi) : at'[x] = NoPage
        /\ \A x \in TablePlaces(t) : x \notin UserPages(t, h, hi) => at'[x] = at[x]
    BY <1>5, <2>1, <2>2, <2>4
  <2>6. top'[t] = top[t]
    BY <1>2
  <2> HIDE DEF t
  <2> QED BY <1>1, <2>2, <2>3, <2>5, <2>6, ImageCut
<1>11. at'[Mem(p)] = NoPage
  BY <1>5
<1> QED BY <1>2, <1>8, <1>9, <1>10, <1>11, UserKept

\* The child becomes a free slot again.
LEMMA ForkFails ==
  ASSUME MemInv, NEW p \in Procs, NEW c \in Procs, op[p] = "fork", c = np[p],
         fork_fails(p, Undo(p)), Ret(p), UNCHANGED sz
  PROVE  /\ Kept(p)' /\ Built(p)' /\ panicked' = panicked
         /\ Bounds(c)' /\ Kept(c)' /\ Built(c)'
<1>i. TypeOK /\ Calls /\ Kept(p) /\ Bounds(p) /\ Built(p) /\ Kept(c) /\ Bounds(c)
  BY DEF MemInv
<1> DEFINE t == <<c, "cur">>
           X == {Mem(p), Trapframe(c)} \cup TablePlaces(t)
<1>1. /\ Tab(p) = t /\ t \in Tables /\ <<p, "cur">> \in Tables /\ <<p, "new">> \in Tables
      /\ <<c, "new">> \in Tables /\ c # p /\ pc[c] = "embryo" /\ op[c] = "none"
  BY <1>i, TabTable DEF Tables
<1>2. /\ kfree(X) /\ top' = [top EXCEPT ![t] = {}]
      /\ panicked' = (panicked \/ (pc[p] \in {"loop", "page"} /\ ~FreepagetableOK(t, sz[c], Undo(p))))
      /\ pc' = [pc EXCEPT ![p] = "user", ![c] = "unused"]
  BY DEF fork_fails
<1>3. /\ pc'[p] = "user" /\ pc'[c] = "unused" /\ op'[p] = "none" /\ op'[c] = "none"
      /\ a'[c] = a[c] /\ base'[c] = base[c] /\ nsz'[c] = nsz[c] /\ prog'[c] = prog[c]
  BY <1>i, <1>1, <1>2 DEF Ret, TypeOK
<1>4. /\ \A x \in TablePlaces(t) : x \in Places /\ x[1] = c /\ x[2] = "cur"
      /\ Mem(p) \in Places /\ Mem(p)[1] = p /\ Mem(p)[2] = "mem"
      /\ Trapframe(c) \in Places /\ Trapframe(c)[1] = c /\ Trapframe(c)[2] = "trapframe"
  BY SMTT(30), <1>1, TablePlace, ProcPlace
<1>5. X \subseteq Places
  BY <1>4
<1>6. (\A x \in X : at'[x] = NoPage) /\ (\A y \in Places : y \notin X => at'[y] = at[y])
  BY <1>i, <1>2, <1>5, Kfree
<1>7. /\ Same(p, "trapframe") /\ Same(p, "cur") /\ Same(p, "new") /\ Same(p, "arg")
      /\ Same(c, "new") /\ Same(c, "arg") /\ Same(c, "mem")
  BY <1>1, <1>4, <1>6 DEF Same
<1>8. /\ top'[<<p, "cur">>] = top[<<p, "cur">>] /\ top'[<<p, "new">>] = top[<<p, "new">>]
      /\ top'[<<c, "new">>] = top[<<c, "new">>] /\ top'[t] = {}
  <2>1. <<p, "cur">> # t /\ <<p, "new">> # t /\ <<c, "new">> # t
    BY <1>1
  <2>2. top \in [Tables -> SUBSET {TRAMPOLINE, TRAPFRAME}]
    BY <1>i DEF TypeOK
  <2> HIDE DEF t
  <2> QED BY <1>1, <1>2, <2>1, <2>2
<1>9. Kept(p)' /\ Built(p)'
  <2>1. Alive(p)
    <3>1. pc[p] \notin {"unused", "embryo"}
      BY <1>i DEF Calls
    <3> QED BY <3>1 DEF Alive
  <2>2. at'[Trapframe(p)] # NoPage
    BY <1>i, <1>7, <2>1, OwnFrame
  <2>3. Blank(<<p, "new">>)' /\ \A x \in Args(p) : at'[x] = NoPage
    BY <1>i, <1>7, <1>8, NoNew
  <2>4. ASSUME NEW h \in Nat, h = PGROUNDUP(sz'[p]) PROVE Image(<<p, "cur">>, h)'
    BY <1>i, <1>7, <1>8, <2>1, <2>4, OwnImage
  <2>5. at'[Mem(p)] = NoPage
    BY <1>6
  <2> QED BY <1>3, <2>2, <2>3, <2>4, <2>5, UserKept
<1>10. Bounds(c)'
  BY <1>i, <1>1, <1>3 DEF Bounds, Fits, Alive
<1>11. Kept(c)' /\ Built(c)'
  <2>1. Blank(<<c, "new">>)' /\ \A x \in Args(c) : at'[x] = NoPage
    BY <1>i, <1>1, <1>7, <1>8, NoNew
  <2>2. Blank(t)' /\ at'[Trapframe(c)] = NoPage
    BY <1>6, <1>8 DEF Blank
  <2>3. at'[Mem(c)] = NoPage
    BY <1>i, <1>1, <1>7, ProcPlace DEF Kept, Same
  <2>4. Kept(c)'
    BY <1>3, <2>1, <2>2, <2>3 DEF Kept, Alive
  <2> QED BY <1>3, <2>4, UserBuilt
<1>12. panicked' = panicked
  <2>1. ASSUME pc[p] \in {"loop", "page"} PROVE FreepagetableOK(t, sz[c], Undo(p))
    <3>1. sz[c] = 0 /\ base[p] = 0 /\ a[p] \in Nat
      BY <1>i, <1>1, <2>1 DEF Bounds, InLoop, Alive, TypeOK
    <3>2. Image(t, a[p])
      BY <1>i, <1>1, <2>1, <3>1 DEF Built
    <3>4. Undo(p) = UserPages(t, 0, a[p])
      BY <1>1, <3>1 DEF Undo
    <3> QED BY SMTT(30), <1>1, <3>1, <3>2, <3>4, RoundUpZero, FreeOK
  <2> QED BY <1>i, <1>2, <2>1 DEF TypeOK
<1> QED BY <1>9, <1>10, <1>11, <1>12

\* A call that runs out of memory leaves the caller as it was, and the child unused.
LEMMA FailStep ==
  ASSUME MemInv, NEW p \in Procs, Fail(p), pc[p] # "load"
  PROVE  /\ Kept(p)' /\ Built(p)' /\ panicked' = panicked
         /\ \A c \in Procs : op[p] = "fork" /\ c = np[p] => Bounds(c)' /\ Kept(c)' /\ Built(c)'
<1>i. TypeOK /\ Calls /\ Bounds(p) /\ Built(p)
  BY DEF MemInv
<1>1. CASE op[p] = "sbrk" /\ sbrk_fails(p, Undo(p)) /\ Ret(p) /\ UNCHANGED sz
  <2>1. pc[p] \notin {"unused", "embryo", "user", "zombie", "trapframe", "args", "create",
                       "tramp", "tfmap"}
    BY <1>1, <1>i DEF Calls
  <2>2. pc[p] \in {"loop", "page"}
    BY <1>i, <2>1 DEF TypeOK
  <2> QED BY <1>1, <2>2, SbrkFails
<1>2. CASE op[p] = "fork" /\ fork_fails(p, Undo(p)) /\ Ret(p) /\ UNCHANGED sz
  <2>1. np[p] \in Procs
    BY <1>2, <1>i DEF Calls
  <2> QED BY <1>2, <2>1, ForkFails
<1>3. CASE op[p] = "exec" /\ exec_fails(p, nsz[p], Undo(p)) /\ Ret(p) /\ UNCHANGED sz
  <2>1. ASSUME pc[p] \in {"load", "loop", "page"} PROVE FreepagetableOK(<<p, "new">>, nsz[p], Undo(p))
    <3>1. /\ <<p, "new">> \in Tables /\ Tab(p) = <<p, "new">>
          /\ a[p] \in Nat /\ base[p] \in Nat /\ nsz[p] \in Nat
      BY <1>3, <1>i, TabTable DEF TypeOK
    <3>2. base[p] <= a[p] /\ base[p] = PGROUNDUP(nsz[p])
      BY <1>3, <1>i, <2>1 DEF Bounds, InLoop
    <3>3. Image(<<p, "new">>, a[p])
      BY <1>i, <2>1, <3>1 DEF Built
    <3>4. Undo(p) = UserPages(<<p, "new">>, base[p], a[p])
      BY <3>1 DEF Undo
    <3> QED BY <3>1, <3>2, <3>3, <3>4, FreeOK
  <2> QED BY <1>3, <2>1, ExecFails
<1> QED BY <1>1, <1>2, <1>3 DEF Fail

----------------------------------------------------------------------------
(* exec() *)

\* Where no page moves and no mapping changes, the tables are what they were.
LEMMA StillTables ==
  ASSUME at' = at, top' = top, NEW t \in Tables, NEW h \in Nat
  PROVE  (Blank(t) => Blank(t)') /\ (Image(t, h) => Image(t, h)')
  BY TableSame DEF Same

\* exec() starts with the arguments in hand and no table.
LEMMA ExecBegins ==
  ASSUME MemInv, NEW p \in Procs, (\E g \in Programs : sys_exec(p, g)) \/ exec(p)
  PROVE  Kept(p)' /\ Built(p)' /\ panicked' = panicked
<1>i. TypeOK /\ Calls /\ Kept(p) /\ Built(p)
  BY DEF MemInv
<1>t. <<p, "cur">> \in Tables /\ <<p, "new">> \in Tables
  BY <1>i, TabTable
<1>1. CASE \E g \in Programs : sys_exec(p, g)
  <2>1. /\ pc[p] = "user" /\ pc'[p] = "args" /\ op'[p] = "exec" /\ at' = at /\ top' = top
        /\ sz' = sz /\ panicked' = panicked
    BY <1>1, <1>i DEF sys_exec, TypeOK
  <2>2. op[p] = "none" /\ Alive(p)
    BY <1>i, <2>1 DEF Calls, Alive
  <2>3. \A h \in Nat : h = PGROUNDUP(sz[p]) => Image(<<p, "cur">>, h)'
    BY <1>i, <1>t, <2>1, <2>2, StillTables DEF Kept
  <2>4. Kept(p)'
    BY <1>i, <2>1, <2>2, <2>3 DEF Kept, Alive
  <2>5. Blank(<<p, "new">>)'
    <3>1. Blank(<<p, "new">>)
      BY <1>i, <2>2 DEF Kept
    <3> QED BY <1>t, <2>1, <3>1, StillTables
  <2>6. Tab(p)' = <<p, "new">>
    BY <2>1 DEF Tab
  <2>7. Built(p)'
    BY <2>1, <2>5, <2>6 DEF Built
  <2> QED BY <2>1, <2>4, <2>7
<1>2. CASE exec(p)
  <2>1. /\ pc[p] = "args" /\ pc'[p] = "create" /\ op' = op /\ np' = np /\ at' = at /\ top' = top
        /\ sz' = sz /\ panicked' = panicked
    BY <1>2, <1>i DEF exec, loop, TypeOK
  <2>2. op[p] = "exec" /\ Alive(p) /\ Alive(p)'
    BY <1>i, <2>1 DEF Calls, Alive
  <2>3. \A k : Same(p, k)
    BY <2>1 DEF Same
  <2>4. at'[Mem(p)] = NoPage
    BY <1>i, <2>1 DEF Kept
  <2>5. Kept(p)'
    BY <1>i, <2>1, <2>2, <2>3, <2>4, KeptGoing
  <2>6. Tab(p)' = Tab(p) /\ Tab(p) = <<p, "new">>
    BY <1>i, <2>1, <2>2, TabTable DEF Tab
  <2>7. Blank(<<p, "new">>)'
    <3>1. Blank(<<p, "new">>)
      BY <1>i, <1>t, <2>1, <2>6 DEF Built
    <3> QED BY <1>t, <2>1, <3>1, StillTables
  <2>8. Built(p)'
    BY <2>1, <2>6, <2>7 DEF Built
  <2> QED BY <2>1, <2>5, <2>8
<1> QED BY <1>1, <1>2

\* Between two segments: the image holds all that was loaded, and loadseg() finds each
\* page of its segment mapped.
LEMMA ExecLoads ==
  ASSUME MemInv, NEW p \in Procs, next_segment(p) \/ (loadseg(p) /\ end[p] # 0)
  PROVE  Kept(p)' /\ Built(p)' /\ panicked' = panicked
<1>i. TypeOK /\ Calls /\ Bounds(p) /\ Kept(p) /\ Built(p)
  BY DEF MemInv
<1>1. /\ op' = op /\ np' = np /\ at' = at /\ top' = top /\ sz' = sz
      /\ \/ pc[p] = "load" /\ pc'[p] = "loop" /\ a'[p] = PGROUNDUP(nsz[p]) /\ panicked' = panicked
         \/ /\ pc[p] = "loop" /\ op[p] = "exec" /\ prog[p] # << >> /\ a[p] * PGSIZE >= end[p]
            /\ pc'[p] = "load" /\ nsz'[p] = end[p]
            /\ panicked' = (panicked \/ ~Mapped(Tab(p), Seg(p).vaddr \div PGSIZE,
                                                 PGROUNDUP(Seg(p).vaddr + Seg(p).memsz)))
  <2>1. CASE next_segment(p)
    BY <1>i, <2>1 DEF next_segment, TypeOK
  <2>2. CASE loadseg(p) /\ end[p] # 0
    BY <1>i, <2>2 DEF loadseg, TypeOK
  <2> QED BY <2>1, <2>2
<1>2. op[p] = "exec" /\ Alive(p) /\ Alive(p)' /\ pc[p] # "page" /\ pc'[p] # "page"
  BY <1>i, <1>1 DEF Calls, Alive
<1>3. \A k : Same(p, k)
  BY <1>1 DEF Same
<1>4. at'[Mem(p)] = NoPage
  BY <1>i, <1>1, <1>2 DEF Kept
<1>5. Kept(p)'
  BY <1>i, <1>1, <1>2, <1>3, <1>4, KeptGoing
<1>6. Tab(p)' = Tab(p) /\ Tab(p) = <<p, "new">> /\ <<p, "new">> \in Tables
  BY <1>i, <1>1, <1>2, TabTable DEF Tab
<1>n. nsz[p] \in Nat /\ end[p] \in Nat /\ a[p] \in Nat /\ PGROUNDUP(nsz[p]) \in Nat
  BY <1>i, RoundUp DEF TypeOK
<1>7. CASE pc[p] = "load"
  <2>1. PICK h \in Nat : h = PGROUNDUP(nsz[p])
    BY <1>n
  <2>2. Image(<<p, "new">>, h)
    BY <1>i, <1>6, <1>7, <2>1 DEF Built
  <2>3. Image(<<p, "new">>, h)'
    BY <1>1, <1>6, <2>2, StillTables
  <2>4. pc'[p] = "loop" /\ a'[p] = h /\ panicked' = panicked
    BY <1>1, <1>7, <2>1
  <2>5. Built(p)'
    BY <1>6, <2>3, <2>4 DEF Built
  <2> QED BY <1>5, <2>4, <2>5
<1>8. CASE pc[p] = "loop"
  <2>1. PICK h \in Nat : h = a[p]
    BY <1>n
  <2>2. h = PGROUNDUP(end[p]) /\ PGROUNDUP(end[p]) <= UPAGES
    BY <1>i, <1>1, <1>8, <2>1, LoopEnd DEF Bounds, InLoop
  <2>3. Image(<<p, "new">>, h)
    BY <1>i, <1>6, <1>8, <2>1 DEF Built
  <2>4. Image(<<p, "new">>, h)'
    BY <1>1, <1>6, <2>3, StillTables
  <2>5. Built(p)'
    BY <1>1, <1>6, <1>8, <2>2, <2>4 DEF Built
  <2>6. Seg(p).vaddr \in Nat /\ Seg(p).memsz \in Nat
    <3> DEFINE S == [vaddr : Nat, memsz : Nat]
    <3>1. prog[p] \in Seq(S) /\ prog[p] # << >>
      BY <1>i, <1>1, <1>8 DEF TypeOK
    <3> HIDE DEF S
    <3>2. Seg(p) \in S
      BY SMTT(30), <3>1 DEF Seg
    <3> QED BY <3>2 DEF S
  <2>7. Seg(p).vaddr + Seg(p).memsz <= end[p]
    BY <1>i, <1>1, <1>8 DEF Bounds, InLoop
  <2>8. PGROUNDUP(Seg(p).vaddr + Seg(p).memsz) <= h /\ PGROUNDUP(Seg(p).vaddr + Seg(p).memsz) \in Nat
    <3>1. Seg(p).vaddr + Seg(p).memsz \in Nat
      BY SMTT(30), <2>6
    <3>2. PGROUNDUP(Seg(p).vaddr + Seg(p).memsz) \in Nat
      BY <3>1, RoundUp
    <3> QED BY <1>n, <2>2, <2>7, <3>1, <3>2, RoundUpMonotone
  <2>9. Seg(p).vaddr \div PGSIZE \in Nat
    <3>1. PGSIZE \in Nat \ {0}
      BY MemoryAssumption
    <3> QED BY SMTT(30), <2>6, <3>1
  <2>10. Mapped(Tab(p), Seg(p).vaddr \div PGSIZE, PGROUNDUP(Seg(p).vaddr + Seg(p).memsz))
    BY <1>6, <2>2, <2>3, <2>8, <2>9, ImageMapped
  <2>11. panicked' = panicked
    BY <1>1, <1>8, <1>i, <2>10 DEF TypeOK
  <2> QED BY <1>5, <2>5, <2>11
<1> QED BY <1>1, <1>7, <1>8

\* exec() fails after an allocation has succeeded: the table it drops is whole.
LEMMA ExecGivesUp ==
  ASSUME MemInv, NEW p \in Procs, exec_bad(p) \/ push_fails(p) \/ (loadseg(p) /\ end[p] = 0)
  PROVE  Kept(p)' /\ Built(p)' /\ panicked' = panicked
<1>i. TypeOK /\ Calls /\ Bounds(p) /\ Built(p)
  BY DEF MemInv
<1>n. nsz[p] \in Nat /\ end[p] \in Nat /\ a[p] \in Nat /\ PGROUNDUP(nsz[p]) \in Nat
  BY <1>i, RoundUp DEF TypeOK
<1>1. CASE exec_bad(p)
  <2>1. /\ pc[p] \in {"args", "load"} /\ exec_fails(p, nsz[p], {}) /\ Ret(p) /\ UNCHANGED sz
    BY <1>1 DEF exec_bad
  <2>2. op[p] = "exec" /\ Tab(p) = <<p, "new">> /\ <<p, "new">> \in Tables
    BY <1>i, <2>1, TabTable DEF Calls
  <2>3. ASSUME pc[p] = "load" PROVE FreepagetableOK(<<p, "new">>, nsz[p], {})
    <3>1. Image(<<p, "new">>, PGROUNDUP(nsz[p]))
      BY <1>i, <1>n, <2>2, <2>3 DEF Built
    <3> QED BY <1>n, <2>2, <3>1, FreeImage
  <2> QED BY <2>1, <2>2, <2>3, ExecFails
<1>2. CASE push_fails(p) \/ (loadseg(p) /\ end[p] = 0)
  <2>1. PICK s \in Nat :
          /\ exec_fails(p, s, {}) /\ Ret(p) /\ UNCHANGED sz /\ pc[p] = "loop" /\ op[p] = "exec"
          /\ a[p] * PGSIZE >= end[p] /\ (s = end[p] \/ (end[p] = 0 /\ s = nsz[p]))
    BY <1>2, <1>n DEF push_fails, loadseg, StackReady
  <2>2. Tab(p) = <<p, "new">> /\ <<p, "new">> \in Tables
    BY <1>i, <2>1, TabTable
  <2>3. nsz[p] <= end[p]
    BY <1>i, <2>1 DEF Bounds, InLoop
  <2>4. s = end[p]
    <3>1. s = end[p] \/ (end[p] = 0 /\ s = nsz[p])
      BY <2>1
    <3> QED BY SMTT(30), <1>n, <2>3, <3>1
  <2>5. a[p] = PGROUNDUP(s)
    BY <1>i, <2>1, <2>4, LoopEnd
  <2>6. Image(<<p, "new">>, a[p])
    BY <1>i, <1>n, <2>1, <2>2 DEF Built
  <2>7. FreepagetableOK(<<p, "new">>, s, {})
    BY <1>n, <2>2, <2>5, <2>6, FreeImage
  <2> QED BY <2>1, <2>7, ExecFails
<1> QED BY <1>1, <1>2

\* exec() commits: the new image becomes the image, and the old one is freed whole.
LEMMA ExecCommits ==
  ASSUME MemInv, NEW p \in Procs, exec_commit(p)
  PROVE  Kept(p)' /\ Built(p)' /\ panicked' = panicked
<1>i. TypeOK /\ Calls /\ Bounds(p) /\ Kept(p) /\ Built(p)
  BY DEF MemInv
<1> DEFINE t == <<p, "cur">>
           n == <<p, "new">>
<1>1. /\ StackReady(p) /\ top' = [top EXCEPT ![t] = top[n], ![n] = {}] /\ Ret(p)
      /\ panicked' = (panicked \/ ~FreepagetableOK(t, sz[p], {})
                               \/ ~Mapped(n, PGROUNDUP(end[p]) - USERSTACK - 1, PGROUNDUP(end[p])))
      /\ sz' = [sz EXCEPT ![p] = end[p]] /\ pc' = [pc EXCEPT ![p] = "user"]
  BY DEF exec_commit
<1>2. /\ pc[p] = "loop" /\ op[p] = "exec" /\ prog[p] = << >> /\ a[p] * PGSIZE >= end[p]
      /\ pc'[p] = "user" /\ op'[p] = "none" /\ sz'[p] = end[p]
  BY <1>1, <1>i DEF StackReady, Ret, TypeOK
<1>3. Tab(p) = n /\ n \in Tables /\ t \in Tables /\ t # n
  BY <1>2, <1>i, TabTable
<1>4. PICK h \in Nat : h = PGROUNDUP(end[p]) /\ h = a[p] /\ h <= UPAGES
  BY <1>2, <1>i, LoopEnd DEF Bounds, InLoop
<1>5. Image(n, h)
  BY <1>2, <1>3, <1>4, <1>i DEF Built
<1>6. top'[t] = top[n] /\ top'[n] = {}
  BY <1>1, <1>3, <1>i DEF TypeOK
<1>7. /\ \A x \in TablePlaces(t) : at'[x] = at[Twin(p, x)]
      /\ \A x \in TablePlaces(n) \cup Args(p) : at'[x] = NoPage
      /\ \A x \in Places : x \notin TablePlaces(t) \cup TablePlaces(n) \cup Args(p) => at'[x] = at[x]
  BY <1>i, CommitMoves
<1>8. /\ \A v \in UserVA : Twin(p, UserPage(t, v)) = UserPage(n, v)
      /\ \A v \in 0..(MAXVA - 1) : /\ Twin(p, Path(t, v)[1]) = Path(n, v)[1]
                                   /\ Twin(p, Path(t, v)[2]) = Path(n, v)[2]
  BY Twins
<1>9. /\ \A v \in UserVA : UserPage(t, v) \in TablePlaces(t)
      /\ \A v \in 0..(MAXVA - 1) : Path(t, v)[1] \in TablePlaces(t) /\ Path(t, v)[2] \in TablePlaces(t)
  BY <1>3, TableParts
<1>10. /\ Trapframe(p) \in Places /\ Mem(p) \in Places
       /\ Trapframe(p) \notin TablePlaces(t) \cup TablePlaces(n) \cup Args(p)
       /\ Mem(p) \notin TablePlaces(t) \cup TablePlaces(n) \cup Args(p)
  <2>1. /\ Trapframe(p) \in Places /\ Trapframe(p)[2] = "trapframe"
        /\ Mem(p) \in Places /\ Mem(p)[2] = "mem"
        /\ \A x \in Args(p) : x[2] = "arg"
    BY ProcPlace
  <2>2. (\A x \in TablePlaces(t) : x[2] = "cur") /\ (\A x \in TablePlaces(n) : x[2] = "new")
    BY <1>3, TablePlace
  <2> QED BY <2>1, <2>2
<1> HIDE DEF t, n
<1>11. \A v \in 0..(MAXVA - 1) : Present(n, v) => Present(t, v)'
  BY <1>7, <1>8, <1>9 DEF Present
<1>12. Image(t, h)'
  <2>1. top'[t] = {TRAMPOLINE, TRAPFRAME} /\ Present(t, TRAMPOLINE)' /\ Present(t, TRAPFRAME)'
    BY <1>5, <1>6, <1>11, Indexes DEF Image
  <2>2. ASSUME NEW v \in UserVA
        PROVE  (at'[UserPage(t, v)] # NoPage <=> v < h) /\ (v < h => Present(t, v)')
    <3>1. at'[UserPage(t, v)] = at[UserPage(n, v)] /\ v \in 0..(MAXVA - 1)
      BY <1>7, <1>8, <1>9, Indexes
    <3>2. (at[UserPage(n, v)] # NoPage <=> v < h) /\ (v < h => Present(n, v))
      BY <1>5 DEF Image
    <3> QED BY <1>11, <3>1, <3>2
  <2> QED BY <2>1, <2>2 DEF Image
<1>13. Kept(p)' /\ Built(p)'
  <2>1. at'[Trapframe(p)] # NoPage /\ at'[Mem(p)] = NoPage
    <3>1. at[Trapframe(p)] # NoPage /\ at[Mem(p)] = NoPage
      BY <1>2, <1>i DEF Kept, Alive
    <3> QED BY <1>7, <1>10, <3>1
  <2>2. Blank(n)' /\ \A x \in Args(p) : at'[x] = NoPage
    BY <1>6, <1>7 DEF Blank
  <2>3. \A k \in Nat : k = PGROUNDUP(sz'[p]) => Image(t, k)'
    BY <1>2, <1>4, <1>12
  <2> QED BY <1>2, <2>1, <2>2, <2>3, UserKept DEF t, n
<1>14. panicked' = panicked
  <2>1. PICK k \in Nat : k = PGROUNDUP(sz[p])
    BY <1>i, RoundUp DEF TypeOK
  <2>2. Image(t, k)
    BY <1>2, <1>i, <2>1 DEF Kept, Alive, t
  <2>3. sz[p] \in Nat
    BY <1>i DEF TypeOK
  <2>4. FreepagetableOK(t, sz[p], {})
    BY <1>3, <2>1, <2>2, <2>3, FreeImage
  <2>5. h - USERSTACK - 1 \in Nat
    <3>1. h = base[p] + USERSTACK + 1 /\ base[p] \in Nat /\ USERSTACK \in Nat
      BY <1>2, <1>4, <1>i, MemoryAssumption DEF Bounds, InLoop, TypeOK
    <3> QED BY SMTT(30), <3>1
  <2>6. Mapped(n, h - USERSTACK - 1, h)
    <3>1. h <= h /\ h <= UPAGES
      BY SMTT(30), <1>4
    <3> QED BY <1>3, <1>5, <2>5, <3>1, ImageMapped
  <2> QED BY <1>1, <1>4, <1>i, <2>4, <2>6 DEF TypeOK
<1> QED BY <1>13, <1>14

=============================================================================
