--------------------------- MODULE MemoryInvariance ---------------------------
(***************************************************************************)
(* Proofs about Memory, concluded: every step keeps the invariant of       *)
(* MemoryProofs, and so pages have one owner, images match their sizes and *)
(* no panic of vm.c is reached.                                            *)
(***************************************************************************)
EXTENDS MemorySteps

\* Leaves that name no prover are for Zenon.
USE ZenonT(60)

----------------------------------------------------------------------------
(* fork(), exit(), wait() and sbrk() *)

\* allocproc(): the child has no page yet, and the parent keeps its image.
LEMMA ForkBegins ==
  ASSUME MemInv, NEW p \in Procs, NEW c \in Procs, fork(p, c)
  PROVE  /\ Kept(p)' /\ Built(p)' /\ panicked' = panicked
         /\ Bounds(c)' /\ Kept(c)' /\ Built(c)'
<1>i. TypeOK /\ Calls /\ Kept(p) /\ Kept(c) /\ Bounds(c)
  BY DEF MemInv
<1>1. /\ pc[p] = "user" /\ pc[c] = "unused" /\ p # c
      /\ pc'[p] = "trapframe" /\ pc'[c] = "embryo" /\ op'[p] = "fork" /\ np'[p] = c
      /\ op'[c] = op[c] /\ at' = at /\ top' = top /\ sz' = sz /\ a' = a /\ base' = base
      /\ nsz' = nsz /\ prog' = prog /\ panicked' = panicked
  BY <1>i DEF fork, TypeOK
<1>2. op[p] = "none" /\ op[c] = "none" /\ Alive(p) /\ Alive(p)' /\ ~Alive(c)'
  BY <1>i, <1>1 DEF Calls, Alive
<1>3. /\ <<p, "cur">> \in Tables /\ <<p, "new">> \in Tables
      /\ <<c, "cur">> \in Tables /\ <<c, "new">> \in Tables
  BY DEF Tables
<1>s. \A i, k : Same(i, k)
  BY <1>1 DEF Same
<1>4. Blank(<<c, "cur">>)' /\ at'[Trapframe(c)] = NoPage
  <2>1. Blank(<<c, "cur">>) /\ at[Trapframe(c)] = NoPage
    BY <1>i, <1>1 DEF Kept
  <2> QED BY <1>1, <1>3, <2>1, StillTables
<1>5. Kept(p)'
  <2>1. at'[Trapframe(p)] # NoPage
    BY <1>i, <1>2, <1>s, OwnFrame
  <2>2. ASSUME NEW h \in Nat, h = PGROUNDUP(sz'[p]) PROVE Image(<<p, "cur">>, h)'
    BY <1>i, <1>1, <1>2, <1>s, <2>2, OwnImage
  <2>3. Blank(<<p, "new">>)' /\ \A x \in Args(p) : at'[x] = NoPage
    BY <1>i, <1>1, <1>2, <1>s, NoNew
  <2>4. at'[Mem(p)] = NoPage
    BY <1>i, <1>1 DEF Kept
  <2> QED BY <1>1, <1>4, <2>1, <2>2, <2>3, <2>4 DEF Kept
<1>6. Kept(c)' /\ Built(c)'
  <2>1. Blank(<<c, "new">>)' /\ \A x \in Args(c) : at'[x] = NoPage
    BY <1>i, <1>1, <1>2, <1>s, NoNew
  <2>2. at'[Mem(c)] = NoPage
    BY <1>i, <1>1 DEF Kept
  <2>3. Kept(c)'
    BY <1>1, <1>2, <2>1, <2>2 DEF Kept
  <2> QED BY <1>1, <2>3, UserBuilt
<1>7. Bounds(c)'
  BY <1>i, <1>1 DEF Bounds, Fits, Alive
<1>8. Built(p)'
  <2>1. Tab(p)' = <<c, "cur">>
    BY <1>1 DEF Tab
  <2> QED BY <1>1, <1>4, <2>1 DEF Built
<1> QED BY <1>1, <1>5, <1>6, <1>7, <1>8

\* fork() returns: the image of the child is that of the parent, page for page.
LEMMA ForkEnds ==
  ASSUME MemInv, NEW p \in Procs, NEW c \in Procs, fork_done(p), c = np[p]
  PROVE  /\ Kept(p)' /\ Built(p)' /\ panicked' = panicked
         /\ Bounds(c)' /\ Kept(c)' /\ Built(c)'
<1>i. TypeOK /\ Calls /\ Kept(p) /\ Kept(c) /\ Bounds(c) /\ Bounds(p) /\ Built(p)
  BY DEF MemInv
<1>1. op[p] = "fork" /\ pc[p] = "loop" /\ c # p /\ pc[c] = "embryo" /\ op[c] = "none" /\ Tab(p) = <<c, "cur">>
  BY <1>i, TabTable DEF fork_done
<1>2. /\ pc'[p] = "user" /\ pc'[c] = "user" /\ sz'[p] = sz[p] /\ sz'[c] = sz[p] /\ op'[p] = "none"
      /\ op'[c] = "none" /\ at' = at /\ top' = top /\ panicked' = panicked
      /\ a'[c] = a[c] /\ base'[c] = base[c] /\ nsz'[c] = nsz[c] /\ prog'[c] = prog[c]
  BY <1>i, <1>1 DEF fork_done, Ret, TypeOK
<1>3. /\ <<p, "cur">> \in Tables /\ <<p, "new">> \in Tables
      /\ <<c, "cur">> \in Tables /\ <<c, "new">> \in Tables
  BY DEF Tables
<1>s. \A i, k : Same(i, k)
  BY <1>2 DEF Same
<1>a. Alive(p)
  BY <1>1 DEF Alive
<1>4. Kept(p)' /\ Built(p)'
  <2>1. at'[Trapframe(p)] # NoPage
    BY <1>i, <1>a, <1>s, OwnFrame
  <2>2. ASSUME NEW h \in Nat, h = PGROUNDUP(sz'[p]) PROVE Image(<<p, "cur">>, h)'
    BY <1>i, <1>a, <1>1, <1>2, <1>s, <2>2, OwnImage
  <2>3. Blank(<<p, "new">>)' /\ \A x \in Args(p) : at'[x] = NoPage
    BY <1>i, <1>1, <1>2, <1>s, NoNew
  <2>4. at'[Mem(p)] = NoPage
    BY <1>i, <1>1, <1>2 DEF Kept
  <2> QED BY <1>2, <2>1, <2>2, <2>3, <2>4, UserKept
<1>5. Kept(c)' /\ Built(c)'
  <2>1. at'[Trapframe(c)] # NoPage
    BY <1>i, <1>1, <1>2 DEF Kept
  <2>2. ASSUME NEW h \in Nat, h = PGROUNDUP(sz'[c]) PROVE Image(<<c, "cur">>, h)'
    <3>1. h = a[p]
      <4>1. a[p] = PGROUNDUP(end[p])
        BY <1>i, <1>1, LoopEnd DEF fork_done
      <4>2. end[p] = sz[p]
        BY <1>i, <1>1 DEF Bounds, InLoop
      <4> QED BY <1>2, <2>2, <4>1, <4>2
    <3>2. Image(<<c, "cur">>, h)
      BY <1>i, <1>1, <1>3, <3>1 DEF Built
    <3> QED BY <1>2, <1>3, <3>2, StillTables
  <2>3. Blank(<<c, "new">>)' /\ \A x \in Args(c) : at'[x] = NoPage
    BY <1>i, <1>1, <1>2, <1>s, NoNew
  <2>4. at'[Mem(c)] = NoPage
    BY <1>i, <1>1, <1>2 DEF Kept
  <2> QED BY <1>2, <2>1, <2>2, <2>3, <2>4, UserKept
<1>6. Bounds(c)'
  BY <1>i, <1>1, <1>2 DEF Bounds, Fits, Alive
<1> QED BY <1>2, <1>4, <1>5, <1>6

\* exit() leaves the image to wait(), whose freeproc() finds it whole.
LEMMA ExitStep ==
  ASSUME MemInv, NEW p \in Procs, exit(p) \/ freeproc(p)
  PROVE  Kept(p)' /\ Built(p)' /\ panicked' = panicked
<1>i. TypeOK /\ Calls /\ Kept(p) /\ Bounds(p)
  BY DEF MemInv
<1>t. <<p, "cur">> \in Tables /\ <<p, "new">> \in Tables /\ <<p, "cur">> # <<p, "new">>
  BY DEF Tables
<1>1. CASE exit(p)
  <2>1. /\ pc[p] = "user" /\ pc'[p] = "zombie" /\ op' = op /\ at' = at /\ top' = top /\ sz' = sz
        /\ panicked' = panicked
    BY <1>1, <1>i DEF exit, TypeOK
  <2>2. op[p] = "none" /\ Alive(p)
    BY <1>i, <2>1 DEF Calls, Alive
  <2>3. \A i, k : Same(i, k)
    BY <2>1 DEF Same
  <2>4. at'[Trapframe(p)] # NoPage
    BY <1>i, <2>2, <2>3, OwnFrame
  <2>5. ASSUME NEW h \in Nat, h = PGROUNDUP(sz'[p]) PROVE Image(<<p, "cur">>, h)'
    BY <1>i, <2>1, <2>2, <2>3, <2>5, OwnImage
  <2>6. Blank(<<p, "new">>)' /\ \A x \in Args(p) : at'[x] = NoPage
    BY <1>i, <2>1, <2>2, <2>3, NoNew
  <2>7. at'[Mem(p)] = NoPage
    BY <1>i, <2>1 DEF Kept
  <2> QED BY <2>1, <2>2, <2>4, <2>5, <2>6, <2>7, UserKept
<1>2. CASE freeproc(p)
  <2> DEFINE t == <<p, "cur">>
             X == {Trapframe(p)} \cup TablePlaces(t)
  <2>1. /\ pc[p] = "zombie" /\ kfree(X) /\ top' = [top EXCEPT ![t] = {}]
        /\ panicked' = (panicked \/ ~FreepagetableOK(t, sz[p], {}))
        /\ pc'[p] = "unused" /\ op' = op
    BY <1>2, <1>i DEF freeproc, TypeOK
  <2>2. op[p] = "none" /\ Alive(p)
    BY <1>i, <2>1 DEF Calls, Alive
  <2>3. /\ \A x \in TablePlaces(t) : x \in Places /\ x[2] = "cur"
        /\ Trapframe(p) \in Places /\ Trapframe(p)[2] = "trapframe"
    BY SMTT(30), <1>t, TablePlace, ProcPlace
  <2>4. X \subseteq Places /\ \A x \in X : x[2] \in {"cur", "trapframe"}
    BY <2>3
  <2>5. (\A x \in X : at'[x] = NoPage) /\ (\A y \in Places : y \notin X => at'[y] = at[y])
    BY <1>i, <2>1, <2>4, Kfree
  <2>6. Same(p, "new") /\ Same(p, "arg") /\ Same(p, "mem")
    BY <2>4, <2>5 DEF Same
  <2>7. top'[t] = {} /\ top'[<<p, "new">>] = top[<<p, "new">>]
    BY <1>i, <1>t, <2>1 DEF TypeOK
  <2>8. Blank(<<p, "new">>)' /\ \A x \in Args(p) : at'[x] = NoPage
    BY <1>i, <2>2, <2>6, <2>7, NoNew
  <2>9. at'[Mem(p)] = NoPage
    BY <1>i, <2>1, <2>6, ProcPlace DEF Kept, Same
  <2>10. Blank(t)' /\ at'[Trapframe(p)] = NoPage
    BY <2>5, <2>7 DEF Blank
  <2>11. Kept(p)' /\ Built(p)'
    <3>1. ~Alive(p)' /\ op'[p] = "none"
      BY <2>1, <2>2 DEF Alive
    <3>2. Kept(p)'
      BY <2>1, <2>8, <2>9, <2>10, <3>1 DEF Kept
    <3> QED BY <2>1, <3>2, UserBuilt
  <2>12. PICK h \in Nat : h = PGROUNDUP(sz[p])
    BY <1>i, RoundUp DEF TypeOK
  <2>13. Image(t, h) /\ sz[p] \in Nat
    BY <1>i, <2>2, <2>12 DEF Kept, TypeOK
  <2>14. FreepagetableOK(t, sz[p], {})
    BY SMTT(30), <1>t, <2>12, <2>13, FreeOK
  <2>15. panicked' = panicked
    BY <1>i, <2>1, <2>14 DEF TypeOK
  <2> QED BY <2>11, <2>15
<1> QED BY <1>1, <1>2

\* growproc() with n > 0: from the old image to the new one, page by page.
LEMMA SbrkStep ==
  ASSUME MemInv, NEW p \in Procs, (\E n \in Deltas : grow(p, n)) \/ grow_done(p)
  PROVE  Kept(p)' /\ Built(p)' /\ panicked' = panicked
<1>i. TypeOK /\ Calls /\ Kept(p) /\ Bounds(p) /\ Built(p)
  BY DEF MemInv
<1>t. <<p, "cur">> \in Tables /\ <<p, "new">> \in Tables
  BY DEF Tables
<1>0. at' = at /\ top' = top /\ panicked' = panicked
  BY DEF grow, grow_done
<1>s. \A i, k : Same(i, k)
  BY <1>0 DEF Same
<1>1. CASE \E n \in Deltas : grow(p, n)
  <2>1. /\ pc[p] = "user" /\ pc'[p] = "loop" /\ op'[p] = "sbrk" /\ sz' = sz
        /\ a'[p] = PGROUNDUP(sz[p])
    BY <1>1, <1>i DEF grow, TypeOK
  <2>2. op[p] = "none" /\ Alive(p)
    BY <1>i, <2>1 DEF Calls, Alive
  <2>3. at'[Trapframe(p)] # NoPage
    BY <1>i, <1>s, <2>2, OwnFrame
  <2>4. ASSUME NEW h \in Nat, h = PGROUNDUP(sz[p]) PROVE Image(<<p, "cur">>, h)'
    BY <1>i, <1>0, <1>s, <2>2, <2>4, OwnImage
  <2>5. Blank(<<p, "new">>)' /\ \A x \in Args(p) : at'[x] = NoPage
    BY <1>i, <1>0, <1>s, <2>2, NoNew
  <2>6. at'[Mem(p)] = NoPage
    BY <1>i, <1>0, <2>1 DEF Kept
  <2>7. Kept(p)'
    BY <2>1, <2>3, <2>5, <2>6 DEF Kept
  <2>8. Built(p)'
    <3>1. Tab(p)' = <<p, "cur">>
      BY <2>1 DEF Tab
    <3> QED BY <2>1, <2>4, <3>1 DEF Built
  <2> QED BY <1>0, <2>7, <2>8
<1>2. CASE grow_done(p)
  <2>1. /\ pc[p] = "loop" /\ op[p] = "sbrk" /\ a[p] * PGSIZE >= end[p]
        /\ pc'[p] = "user" /\ op'[p] = "none" /\ sz'[p] = end[p]
    BY <1>2, <1>i DEF grow_done, Ret, TypeOK
  <2>2. Alive(p) /\ Tab(p) = <<p, "cur">>
    BY <1>i, <2>1, TabTable DEF Alive
  <2>3. at'[Trapframe(p)] # NoPage
    BY <1>i, <1>s, <2>2, OwnFrame
  <2>4. ASSUME NEW h \in Nat, h = PGROUNDUP(sz'[p]) PROVE Image(<<p, "cur">>, h)'
    <3>1. h = a[p]
      BY <1>i, <2>1, <2>4, LoopEnd
    <3>2. Image(<<p, "cur">>, h)
      BY <1>i, <1>t, <2>1, <2>2, <3>1 DEF Built
    <3> QED BY <1>0, <1>t, <3>2, StillTables
  <2>5. Blank(<<p, "new">>)' /\ \A x \in Args(p) : at'[x] = NoPage
    BY <1>i, <1>0, <1>s, <2>1, NoNew
  <2>6. at'[Mem(p)] = NoPage
    BY <1>i, <1>0, <2>1 DEF Kept
  <2> QED BY <1>0, <2>1, <2>3, <2>4, <2>5, <2>6, UserKept
<1> QED BY <1>1, <1>2

\* growproc() with n < 0: the pages above the new size go, and no other.
LEMMA ShrinkStep ==
  ASSUME MemInv, NEW p \in Procs, NEW n \in Deltas, shrink(p, n)
  PROVE  Kept(p)' /\ Built(p)' /\ panicked' = panicked
<1>i. TypeOK /\ Calls /\ Kept(p) /\ Bounds(p)
  BY DEF MemInv
<1> DEFINE t == <<p, "cur">>
<1>1. /\ pc[p] = "user" /\ n < 0 /\ sz[p] + n >= 0 /\ sz'[p] = sz[p] + n
      /\ top' = top /\ pc' = pc /\ op' = op
      /\ kfree(UserPages(t, PGROUNDUP(sz[p] + n), PGROUNDUP(sz[p])))
      /\ panicked' = (panicked \/ ~Mapped(t, PGROUNDUP(sz[p] + n), PGROUNDUP(sz[p])))
  BY <1>i DEF shrink, TypeOK
<1>2. op[p] = "none" /\ Alive(p)
  BY <1>i, <1>1 DEF Calls, Alive
<1>3. t \in Tables
  BY DEF Tables
<1>4. sz[p] \in Nat /\ sz[p] + n \in Nat /\ sz[p] + n <= sz[p]
  <2>1. sz[p] \in Nat /\ n \in Int
    BY <1>i, MemoryAssumption DEF TypeOK
  <2> QED BY SMTT(30), <1>1, <2>1
<1>5. PICK lo \in Nat, hi \in Nat : lo = PGROUNDUP(sz[p] + n) /\ hi = PGROUNDUP(sz[p]) /\ lo <= hi
  BY <1>4, RoundUp, RoundUpMonotone
<1> DEFINE X == UserPages(t, lo, hi)
<1>6. Image(t, hi) /\ hi <= UPAGES
  BY <1>i, <1>2, <1>5 DEF Kept, Bounds
<1>7. \A x \in X : x \in TablePlaces(t) /\ x \in Places /\ x[2] = "cur"
  BY <1>3, UserPlaces, TablePlace
<1> HIDE DEF X
<1>8. (\A x \in X : at'[x] = NoPage) /\ (\A y \in Places : y \notin X => at'[y] = at[y])
  <2>1. kfree(X) /\ X \subseteq Places
    BY <1>1, <1>5, <1>7 DEF X
  <2> QED BY <1>i, <2>1, Kfree
<1>9. Same(p, "trapframe") /\ Same(p, "new") /\ Same(p, "arg") /\ Same(p, "mem")
  BY <1>7, <1>8 DEF Same
<1>10. at'[Trapframe(p)] # NoPage
  BY <1>i, <1>2, <1>9, OwnFrame
<1>11. Blank(<<p, "new">>)' /\ \A x \in Args(p) : at'[x] = NoPage
  BY <1>i, <1>1, <1>2, <1>9, NoNew
<1>12. at'[Mem(p)] = NoPage
  BY SMTT(30), <1>i, <1>1, <1>9, ProcPlace DEF Kept, Same
<1>13. Image(t, lo)'
  <2>1. \A x \in TablePlaces(t) : x \in Places
    BY <1>3, TablePlace
  <2>2. \A x \in TablePlaces(t) : x \notin X => at'[x] = at[x]
    BY <1>8, <2>1
  <2> QED BY <1>1, <1>3, <1>5, <1>6, <1>8, <2>2, ImageCut DEF X
<1>14. Mapped(t, lo, hi)
  BY SMTT(30), <1>3, <1>6, ImageMapped
<1>15. panicked' = panicked
  BY <1>i, <1>1, <1>5, <1>14 DEF TypeOK
<1> QED BY <1>1, <1>2, <1>5, <1>10, <1>11, <1>12, <1>13, <1>15, UserKept

----------------------------------------------------------------------------
(* The process that takes a step, and the child that it makes *)

\* A step keeps the invariant of the process that takes it, and of the child that it
\* begins or ends with.
LEMMA OwnStep ==
  ASSUME MemInv, NEW p \in Procs, Step(p)
  PROVE  /\ Kept(p)' /\ Built(p)' /\ panicked' = panicked
         /\ \A c \in Procs :
              \/ op[p] = "fork" /\ op'[p] # "fork" /\ c = np[p]
              \/ op[p] # "fork" /\ op'[p] = "fork" /\ c = np'[p]
              => Bounds(c)' /\ Kept(c)' /\ Built(c)'
<1> DEFINE G == Kept(p)' /\ Built(p)' /\ panicked' = panicked
           Q == op[p] = "fork" <=> op'[p] = "fork"
           C == \A c \in Procs :
                  \/ op[p] = "fork" /\ op'[p] # "fork" /\ c = np[p]
                  \/ op[p] # "fork" /\ op'[p] = "fork" /\ c = np'[p]
                  => Bounds(c)' /\ Kept(c)' /\ Built(c)'
<1>s. SUFFICES G /\ (Q \/ C)
  OBVIOUS
<1>i. TypeOK /\ Calls /\ op \in [Procs -> {"none", "fork", "exec", "sbrk"}]
  BY DEF MemInv, TypeOK
<1>r. Ret(p) => op'[p] = "none"
  BY <1>i DEF Ret
<1>f. ASSUME Fail(p), pc[p] # "load" PROVE G /\ (Q \/ C)
  <2>1. op'[p] = "none"
    BY <1>f, <1>r DEF Fail
  <2>2. /\ G
        /\ \A c \in Procs : op[p] = "fork" /\ c = np[p] => Bounds(c)' /\ Kept(c)' /\ Built(c)'
    BY <1>f, FailStep
  <2> QED BY <2>1, <2>2
<1> HIDE DEF G
<1>1. CASE alloc_trapframe(p) \/ uvmcreate(p) \/ walk(p) \/ alloc_page(p)
           \/ \E i \in 1..MAXARG : fetch_arg(p, i)
  <2>1. CASE Fail(p)
    <3>1. pc[p] # "load"
      BY <1>1 DEF alloc_trapframe, uvmcreate, walk, alloc_page, fetch_arg
    <3> QED BY <1>f, <2>1, <3>1
  <2>2. CASE ~Fail(p)
    <3>1. op' = op
      BY <1>1, <2>2 DEF alloc_trapframe, uvmcreate, walk, alloc_page, fetch_arg, Alloc
    <3> QED BY <1>1, <2>2, <3>1, AllocStep DEF G
  <2> QED BY <2>1, <2>2
<1>2. CASE map_top(p) \/ map_page(p)
  <2>1. op' = op
    BY <1>2 DEF map_top, map_page
  <2> QED BY <1>2, <2>1, MapTopStep, MapPageStep DEF G
<1>3. CASE (\E g \in Programs : sys_exec(p, g)) \/ exec(p)
  <2>1. Q
    <3>1. CASE exec(p)
      BY <3>1 DEF exec
    <3>2. ASSUME NEW g \in Programs, sys_exec(p, g) PROVE Q
      <4>1. pc[p] = "user" /\ op'[p] = "exec"
        BY <1>i, <3>2 DEF sys_exec
      <4> QED BY <1>i, <4>1 DEF Calls
    <3> QED BY <1>3, <3>1, <3>2
  <2> QED BY <1>3, <2>1, ExecBegins DEF G
<1>4. CASE next_segment(p) \/ (loadseg(p) /\ end[p] # 0)
  <2>1. op' = op
    BY <1>4 DEF next_segment, loadseg
  <2> QED BY <1>4, <2>1, ExecLoads DEF G
<1>5. CASE exec_bad(p) \/ push_fails(p) \/ (loadseg(p) /\ end[p] = 0) \/ exec_commit(p)
  <2>1. op'[p] = "none"
    BY <1>5, <1>r DEF exec_bad, push_fails, loadseg, exec_commit
  <2>2. op[p] = "exec"
    BY <1>5, <1>i DEF exec_bad, push_fails, loadseg, exec_commit, StackReady, Calls
  <2> QED BY <1>5, <2>1, <2>2, ExecGivesUp, ExecCommits DEF G
<1>6. ASSUME NEW c \in Procs, fork(p, c) PROVE G /\ C
  <2>1. pc[p] = "user" /\ np'[p] = c
    BY <1>6, <1>i DEF fork, TypeOK
  <2>2. op[p] # "fork"
    BY <1>i, <2>1 DEF Calls
  <2> QED BY <1>6, <2>1, <2>2, ForkBegins DEF G
<1>7. CASE fork_done(p)
  <2>1. op[p] = "fork" /\ op'[p] = "none" /\ np[p] \in Procs
    BY <1>7, <1>i, <1>r DEF fork_done, Calls
  <2> QED BY <1>7, <2>1, ForkEnds DEF G
<1>8. CASE exit(p) \/ freeproc(p)
  <2>1. op' = op
    BY <1>8 DEF exit, freeproc
  <2> QED BY <1>8, <2>1, ExitStep DEF G
<1>9. CASE (\E n \in Deltas : grow(p, n)) \/ grow_done(p)
  <2>1. Q
    <3>1. CASE grow_done(p)
      BY <1>r, <3>1 DEF grow_done
    <3>2. ASSUME NEW n \in Deltas, grow(p, n) PROVE Q
      <4>1. pc[p] = "user" /\ op'[p] = "sbrk"
        BY <1>i, <3>2 DEF grow
      <4> QED BY <1>i, <4>1 DEF Calls
    <3> QED BY <1>9, <3>1, <3>2
  <2> QED BY <1>9, <2>1, SbrkStep DEF G
<1>10. ASSUME NEW n \in Deltas, shrink(p, n) PROVE G /\ Q
  <2>1. op' = op
    BY <1>10 DEF shrink
  <2> QED BY <1>10, <2>1, ShrinkStep DEF G
<1> HIDE DEF Q, C
<1> QED
  BY <1>1, <1>2, <1>3, <1>4, <1>5, <1>6, <1>7, <1>8, <1>9, <1>10 DEF Step, Build, Exec

----------------------------------------------------------------------------
(* The other processes *)

\* Only a process that has an image makes a step.
LEMMA StepAlive ==
  ASSUME Calls, NEW p \in Procs, Step(p)
  PROVE  Alive(p)
<1>1. Build(p) => Alive(p)
  BY DEF Build, alloc_trapframe, uvmcreate, walk, map_top, alloc_page, map_page, Alive
<1>2. Exec(p) => Alive(p)
  BY DEF Exec, sys_exec, fetch_arg, exec, exec_bad, next_segment, loadseg, push_fails, exec_commit,
         StackReady, Alive
<1>3. (\E q \in Procs : fork(p, q)) \/ fork_done(p) \/ exit(p) \/ freeproc(p) => Alive(p)
  BY DEF fork, fork_done, exit, freeproc, Alive
<1>4. (\E n \in Deltas : grow(p, n) \/ shrink(p, n)) \/ grow_done(p) => Alive(p)
  BY DEF grow, shrink, grow_done, Alive
<1> QED BY <1>1, <1>2, <1>3, <1>4 DEF Step

\* A step keeps the invariant of every other process.
LEMMA OthersStep ==
  ASSUME MemInv, NEW p \in Procs, Step(p), NEW q \in Procs, q # p
  PROVE  Bounds(q)' /\ Kept(q)' /\ Built(q)'
<1>i. TypeOK /\ Calls /\ Bounds(q) /\ Kept(q) /\ Built(q)
  BY DEF MemInv
<1>1. \A x \in Places : ~Near(p, x) => at'[x] = at[x]
  BY OwnedStep
\* A process that is neither p nor its child keeps its pages.
<1>2. ASSUME NEW d \in Procs, d # p, ~(op[p] = "fork" /\ d = np[p]) PROVE AllSame(d)
  <2>1. \A x \in Places : x[1] = d => at'[x] = at[x]
    BY <1>1, <1>2 DEF Near
  <2>2. <<d, "cur">> \in Tables /\ <<d, "new">> \in Tables
    BY DEF Tables
  <2>3. top'[<<d, "cur">>] = top[<<d, "cur">>] /\ top'[<<d, "new">>] = top[<<d, "new">>]
    BY <1>2, <1>i, <2>2, TopFrame
  <2> QED BY <2>1, <2>3 DEF AllSame
<1>3. CASE op[p] = "fork" /\ q = np[p] /\ op'[p] # "fork"
  BY <1>3, OwnStep
<1>4. CASE op[p] # "fork" /\ op'[p] = "fork" /\ q = np'[p]
  BY <1>4, OwnStep
<1>5. CASE op[p] = "fork" /\ q = np[p] /\ op'[p] = "fork"
  <2>1. pc[q] = "embryo" /\ Still(q)
    BY SMTT(30), <1>5, <1>i, LocalFrame DEF Calls, Still
  <2>2. Same(q, "new") /\ Same(q, "arg") /\ Same(q, "mem")
    BY <1>1 DEF Near, Same
  <2>3. <<q, "new">> \in Tables /\ <<q, "new">>[1] # p /\ <<q, "new">> # <<np[p], "cur">>
    BY DEF Tables
  <2>4. top'[<<q, "new">>] = top[<<q, "new">>]
    BY <1>i, <2>3, TopFrame
  <2> QED BY <1>i, <2>1, <2>2, <2>4, EmbryoKeeps
<1>6. CASE /\ ~(op[p] = "fork" /\ q = np[p])
           /\ ~(op[p] # "fork" /\ op'[p] = "fork" /\ q = np'[p])
  <2>1. ~(op'[p] = "fork" /\ q = np'[p])
    <3>1. op[p] = "fork" /\ op'[p] = "fork" => np'[p] = np[p]
      BY <1>i, LocalFrame
    <3> QED BY <1>6, <3>1
  <2>2. Still(q)
    BY <1>6, <1>i, <2>1, LocalFrame DEF Still
  <2>3. op[q] = "fork" => AllSame(np[q])
    <3> HAVE op[q] = "fork"
    <3>1. np[q] \in Procs /\ pc[np[q]] = "embryo"
      BY <1>i DEF Calls
    <3>2. np[q] # p
      BY <1>i, <3>1, StepAlive DEF Alive
    <3>3. ~(op[p] = "fork" /\ np[q] = np[p])
      BY SMTT(30), <1>i DEF Calls
    <3> QED BY <1>2, <3>1, <3>2, <3>3
  <2>4. AllSame(q)
    BY <1>2, <1>6
  <2> QED BY <1>i, <2>2, <2>3, <2>4, OtherKeeps
<1> QED BY <1>3, <1>4, <1>5, <1>6

----------------------------------------------------------------------------
(* Where each call is *)

\* The places in the code where a call may be.
Legal(l, o) ==
  /\ o = "none" <=> l \in {"unused", "embryo", "user", "zombie"}
  /\ l = "trapframe" => o = "fork"
  /\ l \in {"args", "load"} => o = "exec"
  /\ l \in {"create", "tramp", "tfmap"} => o \in {"fork", "exec"}

\* A step goes on with its call, ends it, or begins one.
LEMMA CallMoves ==
  ASSUME TypeOK, Calls, NEW p \in Procs, Step(p)
  PROVE  /\ Legal(pc'[p], op'[p])
         /\ \/ op'[p] = op[p] /\ np'[p] = np[p]
            \/ op'[p] = "none" /\ np'[p] = 0
            \/ op[p] = "none" /\ op'[p] # "fork" /\ np'[p] = 0
            \/ \E c \in Procs : /\ op[p] = "none" /\ op'[p] = "fork" /\ np'[p] = c
                                /\ pc[c] = "unused" /\ pc'[c] = "embryo"
         /\ op[p] = "fork" /\ op'[p] # "fork" => pc'[np[p]] \in {"user", "unused"}
<1>p. /\ pc = [i \in Procs |-> pc[i]] /\ op = [i \in Procs |-> op[i]] /\ np = [i \in Procs |-> np[i]]
      /\ DOMAIN pc = Procs /\ DOMAIN op = Procs /\ DOMAIN np = Procs
  BY DEF TypeOK
<1>c. /\ Legal(pc[p], op[p]) /\ (op[p] # "fork" => np[p] = 0)
      /\ op[p] \in {"none", "fork", "exec", "sbrk"}
      /\ op[p] = "fork" => np[p] \in Procs /\ np[p] # p
  BY SMTT(30), TabTable DEF Calls, Legal, TypeOK
<1> DEFINE Goes == op'[p] = op[p] /\ np'[p] = np[p] /\ Legal(pc'[p], op[p])
           Ends == /\ op'[p] = "none" /\ np'[p] = 0 /\ pc'[p] = "user"
                   /\ op[p] = "fork" => pc'[np[p]] \in {"user", "unused"}
           Starts == op[p] = "none" /\ op'[p] # "fork" /\ np'[p] = 0 /\ Legal(pc'[p], op'[p])
           Forks == \E c \in Procs : /\ op[p] = "none" /\ op'[p] = "fork" /\ np'[p] = c
                                     /\ pc[c] = "unused" /\ pc'[c] = "embryo"
                                     /\ pc'[p] = "trapframe"
<1>s. SUFFICES Goes \/ Ends \/ Starts \/ Forks
  BY DEF Legal
<1>r. Ret(p) => op'[p] = "none" /\ np'[p] = 0
  BY <1>p DEF Ret
<1>e. ASSUME NEW s, NEW g, exec_fails(p, s, g), Ret(p), op[p] = "exec" PROVE Ends
  BY <1>e, <1>p, <1>r DEF exec_fails
<1>f. Fail(p) => Ends
  <2>1. CASE op[p] = "sbrk" /\ sbrk_fails(p, Undo(p)) /\ Ret(p)
    BY <1>p, <1>r, <2>1 DEF sbrk_fails
  <2>2. CASE op[p] = "fork" /\ fork_fails(p, Undo(p)) /\ Ret(p)
    <3>1. pc' = [pc EXCEPT ![p] = "user", ![np[p]] = "unused"]
      BY <2>2 DEF fork_fails
    <3> QED BY <1>c, <1>p, <1>r, <2>2, <3>1
  <2>3. CASE op[p] = "exec" /\ exec_fails(p, nsz[p], Undo(p)) /\ Ret(p)
    BY <1>e, <2>3
  <2> QED BY <2>1, <2>2, <2>3 DEF Fail
<1>g. ASSUME NEW l, pc' = [pc EXCEPT ![p] = l], UNCHANGED <<op, np>>, Legal(l, op[p]) PROVE Goes
  BY <1>g, <1>p
<1>1. CASE alloc_trapframe(p) \/ uvmcreate(p) \/ walk(p) \/ alloc_page(p)
           \/ \E i \in 1..MAXARG : fetch_arg(p, i)
  <2>1. CASE Fail(p)
    BY <1>f, <2>1
  <2>2. CASE ~Fail(p)
    <3>1. PICK l : /\ pc' = [pc EXCEPT ![p] = l] /\ UNCHANGED <<op, np>>
                   /\ \/ l = pc[p]
                      \/ pc[p] = "trapframe" /\ l = "create"
                      \/ pc[p] = "create" /\ l = "tramp"
                      \/ pc[p] = "loop" /\ l = "page"
      <4>1. CASE alloc_trapframe(p) \/ uvmcreate(p)
        BY <2>2, <4>1 DEF alloc_trapframe, uvmcreate, Alloc, loop
      <4>2. CASE walk(p) \/ (\E i \in 1..MAXARG : fetch_arg(p, i))
        BY <2>2, <4>2 DEF walk, fetch_arg, Alloc, loop
      <4>3. CASE alloc_page(p)
        BY <2>2, <4>3 DEF alloc_page, loop
      <4> QED BY <1>1, <4>1, <4>2, <4>3
    <3>2. Legal(l, op[p])
      BY <1>c, <3>1 DEF Legal
    <3> QED BY <1>g, <3>1, <3>2
  <2> QED BY <2>1, <2>2
<1>2. CASE map_top(p)
  <2>1. /\ pc[p] \in {"tramp", "tfmap"} /\ UNCHANGED <<op, np>>
        /\ pc' = [pc EXCEPT ![p] = IF pc[p] = "tramp" THEN "tfmap"
                                   ELSE IF op[p] = "fork" THEN "loop" ELSE "load"]
    BY <1>2 DEF map_top
  <2>2. Legal(IF pc[p] = "tramp" THEN "tfmap" ELSE IF op[p] = "fork" THEN "loop" ELSE "load", op[p])
    BY <1>c, <2>1 DEF Legal
  <2> QED BY <1>g, <2>1, <2>2
<1>3. CASE map_page(p)
  <2>1. Legal("loop", op[p])
    BY <1>3, <1>c DEF map_page, Legal
  <2> QED BY <1>3, <1>g, <2>1 DEF map_page
<1>4. CASE exec(p) \/ next_segment(p)
  <2>3. CASE exec(p)
    <3>1. Legal("create", op[p])
      BY <1>c, <2>3 DEF exec, Legal
    <3> QED BY <1>g, <2>3, <3>1 DEF exec, loop
  <2>4. CASE next_segment(p)
    <3>1. Legal("loop", op[p])
      BY <1>c, <2>4 DEF next_segment, Legal
    <3> QED BY <1>g, <2>4, <3>1 DEF next_segment
  <2> QED BY <1>4, <2>3, <2>4
<1>5. CASE exec_bad(p) \/ push_fails(p)
  <2>1. op[p] = "exec"
    BY <1>5, <1>c DEF exec_bad, push_fails, StackReady, Legal
  <2> QED BY <1>5, <1>e, <2>1 DEF exec_bad, push_fails
<1>6. CASE loadseg(p)
  <2>1. CASE exec_fails(p, nsz[p], {}) /\ Ret(p)
    BY <1>6, <1>e, <2>1 DEF loadseg
  <2>2. CASE end[p] # 0
    <3>1. Legal("load", op[p])
      BY <1>6, <1>c DEF loadseg, Legal
    <3> QED BY <1>6, <1>g, <2>2, <3>1 DEF loadseg
  <2> QED BY <1>6, <2>1, <2>2 DEF loadseg
<1>7. CASE exec_commit(p)
  <2>1. op[p] = "exec" /\ Ret(p) /\ pc' = [pc EXCEPT ![p] = "user"]
    BY <1>7 DEF exec_commit, StackReady
  <2> QED BY <1>p, <1>r, <2>1
<1>8. ASSUME NEW g \in Programs, sys_exec(p, g) PROVE Starts
  <2>1. pc[p] = "user" /\ pc'[p] = "args" /\ op'[p] = "exec" /\ np' = np
    BY <1>8, <1>p DEF sys_exec
  <2>2. op[p] = "none" /\ Legal("args", "exec")
    BY <1>c, <2>1 DEF Legal
  <2> QED BY <1>c, <2>1, <2>2
<1>9. ASSUME NEW n \in Deltas, grow(p, n) PROVE Starts
  <2>1. pc[p] = "user" /\ pc'[p] = "loop" /\ op'[p] = "sbrk" /\ np' = np
    BY <1>9, <1>p DEF grow
  <2>2. op[p] = "none" /\ Legal("loop", "sbrk")
    BY <1>c, <2>1 DEF Legal
  <2> QED BY <1>c, <2>1, <2>2
<1>10. ASSUME NEW q \in Procs, fork(p, q) PROVE Forks
  <2>1. /\ pc[p] = "user" /\ pc[q] = "unused" /\ op'[p] = "fork" /\ np'[p] = q
        /\ pc' = [pc EXCEPT ![p] = "trapframe", ![q] = "embryo"]
    BY <1>10, <1>p DEF fork
  <2>2. p # q /\ op[p] = "none"
    BY <1>c, <2>1 DEF Legal
  <2> QED BY <1>p, <2>1, <2>2
<1>11. CASE fork_done(p)
  <2>1. op[p] = "fork" /\ Ret(p) /\ pc' = [pc EXCEPT ![p] = "user", ![np[p]] = "user"]
    BY <1>11 DEF fork_done
  <2> QED BY <1>c, <1>p, <1>r, <2>1
<1>12. CASE exit(p) \/ freeproc(p)
  <2>1. PICK l \in {"zombie", "unused"} : pc' = [pc EXCEPT ![p] = l] /\ UNCHANGED <<op, np>>
    BY <1>12 DEF exit, freeproc, loop
  <2>2. Legal(l, op[p])
    BY <1>12, <1>c DEF exit, freeproc, Legal
  <2> QED BY <1>g, <2>1, <2>2
<1>13. ASSUME NEW n \in Deltas, shrink(p, n) PROVE Goes
  BY <1>13, <1>c DEF shrink, loop
<1>14. CASE grow_done(p)
  <2>1. op[p] = "sbrk" /\ Ret(p) /\ pc' = [pc EXCEPT ![p] = "user"]
    BY <1>14 DEF grow_done
  <2> QED BY <1>p, <1>r, <2>1
<1> HIDE DEF Goes, Ends, Starts, Forks
<1> QED
  BY <1>1, <1>2, <1>3, <1>4, <1>5, <1>6, <1>7, <1>8, <1>9, <1>10, <1>11, <1>12, <1>13, <1>14
  DEF Step, Build, Exec

\* A step leaves every call where it may be, and two calls of fork() with two children.
LEMMA CallsStep ==
  ASSUME TypeOK, Calls, NEW p \in Procs, Step(p)
  PROVE  Calls'
<1>1. /\ Legal(pc'[p], op'[p])
      /\ \/ op'[p] = op[p] /\ np'[p] = np[p]
         \/ op'[p] = "none" /\ np'[p] = 0
         \/ op[p] = "none" /\ op'[p] # "fork" /\ np'[p] = 0
         \/ \E c \in Procs : /\ op[p] = "none" /\ op'[p] = "fork" /\ np'[p] = c
                             /\ pc[c] = "unused" /\ pc'[c] = "embryo"
      /\ op[p] = "fork" /\ op'[p] # "fork" => pc'[np[p]] \in {"user", "unused"}
  BY CallMoves
<1>2. ASSUME NEW r \in Procs
      PROVE  /\ Legal(pc[r], op[r]) /\ (op[r] # "fork" => np[r] = 0)
             /\ op[r] = "fork" => np[r] \in Procs /\ pc[np[r]] = "embryo"
             /\ \A q \in Procs : op[r] = "fork" /\ op[q] = "fork" /\ np[r] = np[q] => r = q
  BY DEF Calls, Legal
<1>3. ASSUME NEW q \in Procs, q # p
      PROVE  /\ op'[q] = op[q] /\ np'[q] = np[q]
             /\ ~(op[p] = "fork" /\ q = np[p]) /\ ~(op'[p] = "fork" /\ q = np'[p]) => pc'[q] = pc[q]
             /\ op[p] = "fork" /\ op'[p] = "fork" => np'[p] = np[p] /\ (q = np[p] => pc'[q] = pc[q])
  BY <1>3, LocalFrame
<1>4. pc[p] # "embryo"
  BY StepAlive DEF Alive
\* An embryo stays one until its parent is done.
<1>5. ASSUME NEW q \in Procs, pc[q] = "embryo", op[p] = "fork" /\ q = np[p] => op'[p] = "fork"
      PROVE  pc'[q] = "embryo"
  <2>1. q # p
    BY <1>4, <1>5
  <2>2. CASE op[p] = "fork" /\ q = np[p]
    BY <1>3, <1>5, <2>1, <2>2
  <2>3. CASE ~(op[p] = "fork" /\ q = np[p])
    <3>1. CASE op'[p] = "fork" /\ q = np'[p]
      BY <1>1, <2>3, <3>1
    <3>2. CASE ~(op'[p] = "fork" /\ q = np'[p])
      BY <1>3, <1>5, <2>1, <2>3, <3>2
    <3> QED BY <3>1, <3>2
  <2> QED BY <2>2, <2>3
<1>6. ASSUME NEW r \in Procs PROVE Legal(pc'[r], op'[r])
  <2>1. CASE r = p
    BY <1>1, <2>1
  <2>2. CASE r # p /\ pc'[r] = pc[r]
    BY <1>2, <1>3, <2>2
  <2>3. CASE r # p /\ op[p] = "fork" /\ r = np[p] /\ op'[p] # "fork"
    <3>1. op[r] = "none" /\ op'[r] = "none"
      BY SMTT(30), <1>2, <1>3, <2>3 DEF Legal
    <3>2. pc'[r] \in {"user", "unused"}
      BY <1>1, <2>3
    <3> QED BY <3>1, <3>2 DEF Legal
  <2>4. CASE r # p /\ op'[p] = "fork" /\ r = np'[p] /\ op[p] # "fork"
    <3>1. pc[r] = "unused" /\ pc'[r] = "embryo"
      BY <1>1, <2>4
    <3>2. op'[r] = "none"
      BY SMTT(30), <1>2, <1>3, <2>4, <3>1 DEF Legal
    <3> QED BY <3>1, <3>2 DEF Legal
  <2> QED BY <1>3, <2>1, <2>2, <2>3, <2>4
<1>7. ASSUME NEW r \in Procs PROVE op'[r] # "fork" => np'[r] = 0
  BY <1>1, <1>2, <1>3
<1>8. ASSUME NEW r \in Procs, op'[r] = "fork" PROVE np'[r] \in Procs /\ pc'[np'[r]] = "embryo"
  <2>1. CASE r # p
    <3>1. op[r] = "fork" /\ np'[r] = np[r] /\ np[r] \in Procs /\ pc[np[r]] = "embryo"
      BY <1>2, <1>3, <1>8, <2>1
    <3>2. ~(op[p] = "fork" /\ np[r] = np[p])
      BY <1>2, <2>1, <3>1
    <3> QED BY <1>5, <3>1, <3>2
  <2>2. CASE r = p /\ op[p] = "fork"
    <3>1. np'[p] = np[p] /\ np[p] \in Procs /\ pc[np[p]] = "embryo"
      BY <1>1, <1>2, <1>8, <2>2
    <3> QED BY <1>5, <1>8, <2>2, <3>1
  <2>3. CASE r = p /\ op[p] # "fork"
    BY <1>1, <1>8, <2>3
  <2> QED BY <2>1, <2>2, <2>3
<1>9. ASSUME NEW r \in Procs, NEW q \in Procs, op'[r] = "fork", op'[q] = "fork", np'[r] = np'[q]
      PROVE  r = q
  \* A new child was unused, and so nobody's.
  <2>1. ASSUME NEW s \in Procs, s # p, op'[s] = "fork", op'[p] = "fork", np'[s] = np'[p] PROVE FALSE
    <3>1. op[s] = "fork" /\ np'[s] = np[s] /\ pc[np[s]] = "embryo"
      BY <1>2, <1>3, <2>1
    <3>2. CASE op[p] = "fork"
      BY <1>1, <1>2, <2>1, <3>1, <3>2
    <3>3. CASE op[p] # "fork"
      BY <1>1, <2>1, <3>1, <3>3
    <3> QED BY <3>2, <3>3
  <2>2. CASE r # p /\ q # p
    BY SMTT(30), <1>2, <1>3, <1>9, <2>2
  <2> QED BY <1>9, <2>1, <2>2
<1> QED BY SMTT(30), <1>6, <1>7, <1>8, <1>9 DEF Calls, Legal

----------------------------------------------------------------------------
(* Types *)

\* A step keeps the types.
LEMMA TypeOKStep ==
  ASSUME MemInv, NEW p \in Procs, Step(p)
  PROVE  TypeOK'
<1>i. TypeOK /\ Calls
  BY DEF MemInv
<1>1. free' \subseteq Pages /\ at' \in [Places -> Pages \cup {NoPage}] /\ panicked' \in BOOLEAN
  BY <1>i, OwnedStep, OwnStep DEF TypeOK
<1>2. <<p, "cur">> \in Tables /\ <<p, "new">> \in Tables /\ Tab(p) \in Tables
  BY <1>i, TabTable
<1> DEFINE Labels == {"unused", "embryo", "user", "zombie", "trapframe", "create", "tramp",
                      "tfmap", "loop", "page", "args", "load"}
           Segs == Seq([vaddr : Nat, memsz : Nat])
           T == /\ top' \in [Tables -> SUBSET {TRAMPOLINE, TRAPFRAME}]
                /\ sz' \in [Procs -> Nat] /\ pc' \in [Procs -> Labels]
                /\ op' \in [Procs -> {"none", "fork", "exec", "sbrk"}]
                /\ np' \in [Procs -> Procs \cup {0}]
                /\ a' \in [Procs -> Nat] /\ base' \in [Procs -> Nat] /\ end' \in [Procs -> Nat]
                /\ nsz' \in [Procs -> Nat] /\ prog' \in [Procs -> Segs]
<1>3. SUFFICES T
  BY <1>1 DEF TypeOK
<1>4. /\ top \in [Tables -> SUBSET {TRAMPOLINE, TRAPFRAME}]
      /\ sz \in [Procs -> Nat] /\ pc \in [Procs -> Labels]
      /\ op \in [Procs -> {"none", "fork", "exec", "sbrk"}]
      /\ np \in [Procs -> Procs \cup {0}]
      /\ a \in [Procs -> Nat] /\ base \in [Procs -> Nat] /\ end \in [Procs -> Nat]
      /\ nsz \in [Procs -> Nat] /\ prog \in [Procs -> Segs]
  BY <1>i DEF TypeOK
<1>5. << >> \in Segs
  BY SMTT(30)
<1>6. \A s \in Segs : s # << >> => Tail(s) \in Segs
  BY SMTT(30)
<1>7. \A g \in Programs : g \in Segs
  BY MemoryAssumption
<1> HIDE DEF Segs
<1>r. Ret(p) => /\ op' \in [Procs -> {"none", "fork", "exec", "sbrk"}]
                /\ np' \in [Procs -> Procs \cup {0}]
                /\ a' \in [Procs -> Nat] /\ base' \in [Procs -> Nat] /\ end' \in [Procs -> Nat]
                /\ nsz' \in [Procs -> Nat] /\ prog' \in [Procs -> Segs]
  BY SMTT(30), <1>4, <1>5 DEF Ret
<1>e. ASSUME NEW s, NEW g, exec_fails(p, s, g), Ret(p), UNCHANGED sz PROVE T
  <2>1. top' \in [Tables -> SUBSET {TRAMPOLINE, TRAPFRAME}] /\ pc' \in [Procs -> Labels]
    BY <1>e, <1>4 DEF exec_fails
  <2> QED BY <1>e, <1>4, <1>r, <2>1
<1>f. Fail(p) => T
  <2>1. CASE sbrk_fails(p, Undo(p)) /\ Ret(p) /\ UNCHANGED sz
    <3>1. top' \in [Tables -> SUBSET {TRAMPOLINE, TRAPFRAME}] /\ pc' \in [Procs -> Labels]
      BY <1>4, <2>1 DEF sbrk_fails
    <3> QED BY <1>4, <1>r, <2>1, <3>1
  <2>2. CASE fork_fails(p, Undo(p)) /\ Ret(p) /\ UNCHANGED sz
    <3>1. top' \in [Tables -> SUBSET {TRAMPOLINE, TRAPFRAME}] /\ pc' \in [Procs -> Labels]
      BY <1>4, <2>2 DEF fork_fails
    <3> QED BY <1>4, <1>r, <2>2, <3>1
  <2>3. CASE exec_fails(p, nsz[p], Undo(p)) /\ Ret(p) /\ UNCHANGED sz
    BY <1>e, <2>3
  <2> QED BY <2>1, <2>2, <2>3 DEF Fail
<1>g. ASSUME NEW l \in Labels, pc' = [pc EXCEPT ![p] = l], UNCHANGED <<top, sz, op, loop>> PROVE T
  BY <1>g, <1>4 DEF loop
<1>l. pc[p] \in Labels
  BY <1>4
<1>8. CASE alloc_trapframe(p) \/ uvmcreate(p) \/ walk(p) \/ alloc_page(p)
           \/ \E i \in 1..MAXARG : fetch_arg(p, i)
  <2>1. Fail(p) \/ \E l \in Labels : pc' = [pc EXCEPT ![p] = l] /\ UNCHANGED <<top, sz, op, loop>>
    BY <1>8, <1>l DEF alloc_trapframe, uvmcreate, walk, alloc_page, fetch_arg, Alloc
  <2> QED BY <1>f, <1>g, <2>1
<1>9. CASE map_top(p)
  <2>1. Here(p) \in {TRAMPOLINE, TRAPFRAME}
    BY <1>9 DEF map_top, Here
  <2>2. top' \in [Tables -> SUBSET {TRAMPOLINE, TRAPFRAME}]
    BY <1>9, <1>2, <1>4, <2>1 DEF map_top
  <2>3. pc' \in [Procs -> Labels] /\ end' \in [Procs -> Nat]
    BY <1>9, <1>4 DEF map_top
  <2> QED BY <1>9, <1>4, <2>2, <2>3 DEF map_top
<1>10. CASE map_page(p)
  <2>1. pc' \in [Procs -> Labels] /\ a' \in [Procs -> Nat]
    BY SMTT(30), <1>10, <1>4 DEF map_page
  <2> QED BY <1>10, <1>4, <2>1 DEF map_page
<1>11. ASSUME NEW g \in Programs, sys_exec(p, g) PROVE T
  <2>1. pc' \in [Procs -> Labels] /\ op' \in [Procs -> {"none", "fork", "exec", "sbrk"}]
    BY <1>11, <1>4 DEF sys_exec
  <2>2. prog' \in [Procs -> Segs]
    BY <1>11, <1>4, <1>7 DEF sys_exec
  <2> QED BY <1>11, <1>4, <2>1, <2>2 DEF sys_exec
<1>12. CASE exec(p) \/ exit(p)
  BY <1>12, <1>g DEF exec, exit
<1>13. CASE exec_bad(p) \/ push_fails(p)
  BY <1>13, <1>e DEF exec_bad, push_fails
<1>14. CASE next_segment(p)
  <2> DEFINE first == PGROUNDUP(nsz[p])
             newsz == IF prog[p] # << >> THEN Seg(p).vaddr + Seg(p).memsz
                      ELSE (first + USERSTACK + 1) * PGSIZE
  <2>1. nsz[p] \in Nat /\ first \in Nat /\ USERSTACK \in Nat /\ PGSIZE \in Nat /\ prog[p] \in Segs
    BY <1>4, RoundUp, MemoryAssumption
  <2>2. newsz \in Nat
    <3>1. CASE prog[p] # << >>
      <4> DEFINE S == [vaddr : Nat, memsz : Nat]
      <4>1. prog[p] \in Seq(S)
        BY <2>1 DEF Segs
      <4> HIDE DEF S
      <4>2. Seg(p) \in S
        BY SMTT(30), <3>1, <4>1 DEF Seg
      <4>3. Seg(p).vaddr \in Nat /\ Seg(p).memsz \in Nat
        BY <4>2 DEF S
      <4> QED BY SMTT(30), <3>1, <4>3
    <3>2. CASE prog[p] = << >>
      BY SMTT(30), <2>1, <3>2
    <3> QED BY <3>1, <3>2
  <2>3. /\ nsz' = [nsz EXCEPT ![p] = IF prog[p] # << >> THEN @ ELSE first * PGSIZE]
        /\ base' = [base EXCEPT ![p] = first] /\ a' = [a EXCEPT ![p] = first]
        /\ end' = [end EXCEPT ![p] = IF newsz < nsz[p] THEN nsz[p] ELSE newsz]
        /\ pc' = [pc EXCEPT ![p] = "loop"]
        /\ UNCHANGED <<top, sz, op, np, prog>>
    BY <1>14 DEF next_segment
  <2>4. first * PGSIZE \in Nat
    BY SMTT(30), <2>1
  <2> HIDE DEF first, newsz
  <2>5. nsz' \in [Procs -> Nat] /\ base' \in [Procs -> Nat] /\ a' \in [Procs -> Nat]
    BY <1>4, <2>1, <2>3, <2>4
  <2>6. end' \in [Procs -> Nat] /\ pc' \in [Procs -> Labels]
    BY <1>4, <2>1, <2>2, <2>3
  <2> QED BY <1>4, <2>3, <2>5, <2>6
<1>15. CASE loadseg(p)
  <2>1. CASE exec_fails(p, nsz[p], {}) /\ Ret(p) /\ UNCHANGED sz
    BY <1>e, <2>1
  <2>2. CASE end[p] # 0
    <3>1. /\ nsz' = [nsz EXCEPT ![p] = end[p]] /\ prog' = [prog EXCEPT ![p] = Tail(@)]
          /\ prog[p] # << >> /\ pc' = [pc EXCEPT ![p] = "load"]
          /\ UNCHANGED <<top, sz, op, np, a, base, end>>
      BY <1>15, <2>2 DEF loadseg
    <3>2. nsz' \in [Procs -> Nat] /\ pc' \in [Procs -> Labels]
      BY <1>4, <3>1
    <3>3. prog' \in [Procs -> Segs]
      BY <1>4, <1>6, <3>1
    <3> QED BY <1>4, <3>1, <3>2, <3>3
  <2> QED BY <1>15, <2>1, <2>2 DEF loadseg
<1>16. CASE exec_commit(p)
  <2>1. Ret(p) /\ sz' \in [Procs -> Nat] /\ pc' \in [Procs -> Labels]
    BY <1>16, <1>4 DEF exec_commit
  <2>2. top' \in [Tables -> SUBSET {TRAMPOLINE, TRAPFRAME}]
    BY <1>16, <1>2, <1>4 DEF exec_commit
  <2> QED BY <1>r, <2>1, <2>2
<1>17. ASSUME NEW q \in Procs, fork(p, q) PROVE T
  <2>1. pc' \in [Procs -> Labels] /\ op' \in [Procs -> {"none", "fork", "exec", "sbrk"}]
        /\ np' \in [Procs -> Procs \cup {0}]
    BY <1>17, <1>4 DEF fork
  <2> QED BY <1>17, <1>4, <2>1 DEF fork
<1>18. CASE fork_done(p)
  <2>1. Ret(p) /\ sz' \in [Procs -> Nat] /\ pc' \in [Procs -> Labels] /\ top' = top
    BY <1>18, <1>4 DEF fork_done
  <2> QED BY <1>4, <1>r, <2>1
<1>19. CASE freeproc(p)
  <2>1. /\ sz' \in [Procs -> Nat] /\ pc' \in [Procs -> Labels]
        /\ top' \in [Tables -> SUBSET {TRAMPOLINE, TRAPFRAME}]
    BY <1>19, <1>4 DEF freeproc
  <2> QED BY <1>19, <1>4, <2>1 DEF freeproc, loop
<1>20. ASSUME NEW n \in Deltas, grow(p, n) PROVE T
  <2>1. sz[p] \in Nat /\ n \in Int /\ n > 0 /\ PGROUNDUP(sz[p]) \in Nat
    BY <1>20, <1>4, RoundUp, MemoryAssumption DEF grow
  <2>2. sz[p] + n \in Nat
    BY SMTT(30), <2>1
  <2>3. /\ op' = [op EXCEPT ![p] = "sbrk"] /\ pc' = [pc EXCEPT ![p] = "loop"]
        /\ base' = [base EXCEPT ![p] = PGROUNDUP(sz[p])]
        /\ a' = [a EXCEPT ![p] = PGROUNDUP(sz[p])]
        /\ end' = [end EXCEPT ![p] = sz[p] + n]
        /\ UNCHANGED <<top, sz, np, prog, nsz>>
    BY <1>20 DEF grow
  <2>4. op' \in [Procs -> {"none", "fork", "exec", "sbrk"}] /\ pc' \in [Procs -> Labels]
    BY <1>4, <2>3
  <2>5. base' \in [Procs -> Nat] /\ a' \in [Procs -> Nat] /\ end' \in [Procs -> Nat]
    BY <1>4, <2>1, <2>2, <2>3
  <2> QED BY <1>4, <2>3, <2>4, <2>5
<1>21. ASSUME NEW n \in Deltas, shrink(p, n) PROVE T
  <2>1. sz[p] + n \in Nat
    <3>1. sz[p] \in Nat /\ n \in Int
      BY <1>4, MemoryAssumption
    <3>2. sz[p] + n >= 0
      BY <1>21 DEF shrink
    <3> QED BY SMTT(30), <3>1, <3>2
  <2>2. sz' \in [Procs -> Nat]
    BY <1>21, <1>4, <2>1 DEF shrink
  <2> QED BY <1>21, <1>4, <2>2 DEF shrink, loop
<1>22. CASE grow_done(p)
  <2>1. Ret(p) /\ sz' \in [Procs -> Nat] /\ pc' \in [Procs -> Labels] /\ top' = top
    BY <1>22, <1>4 DEF grow_done
  <2> QED BY <1>4, <1>r, <2>1
<1> HIDE DEF T
<1> QED
  BY <1>8, <1>9, <1>10, <1>11, <1>12, <1>13, <1>14, <1>15, <1>16, <1>17, <1>18, <1>19, <1>20,
     <1>21, <1>22 DEF Step, Build, Exec

----------------------------------------------------------------------------
(* The invariant *)

\* The invariant is inductive.
LEMMA NextMemInv ==
  ASSUME MemInv, [Next]_vars
  PROVE  MemInv'
<1>1. ASSUME NEW p \in Procs, Step(p) PROVE MemInv'
  <2>1. TypeOK /\ Calls /\ NoPanic /\ Bounds(p)
    BY DEF MemInv
  <2>2. TypeOK' /\ Owned'
    BY <1>1, OwnedStep, TypeOKStep
  <2>3. Calls'
    BY <1>1, <2>1, CallsStep
  <2>4. NoPanic' /\ Bounds(p)' /\ Kept(p)' /\ Built(p)'
    BY <1>1, <2>1, OwnStep, BoundsStep DEF NoPanic
  <2>5. \A q \in Procs : Bounds(q)' /\ Kept(q)' /\ Built(q)'
    BY <1>1, <2>4, OthersStep
  <2> QED BY <2>2, <2>3, <2>4, <2>5 DEF MemInv
<1>2. CASE UNCHANGED vars
  <2>1. TypeOK' /\ NoPanic' /\ Owned'
    BY <1>2 DEF MemInv, TypeOK, NoPanic, Owned, vars, loop
  <2>2. Calls' /\ Calls
    BY SMTT(30), <1>2 DEF MemInv, Calls, vars, loop
  <2>3. ASSUME NEW q \in Procs PROVE Bounds(q)' /\ Kept(q)' /\ Built(q)'
    <3>1. Bounds(q) /\ Kept(q) /\ Built(q)
      BY DEF MemInv
    <3>2. Still(q) /\ \A r : AllSame(r)
      BY <1>2 DEF vars, loop, Still, AllSame
    <3> QED BY <2>2, <3>1, <3>2, OtherKeeps
  <2> QED BY <2>1, <2>2, <2>3 DEF MemInv
<1> QED BY <1>1, <1>2 DEF Next

\* Init: the places of Boot are different, and hold the pages 1 to 7.
LEMMA BootPages ==
  ASSUME Init
  PROVE  /\ \A i \in 1..7 : Boot[i] \in Places /\ at[Boot[i]] = i
         /\ \A x \in Places : at[x] # NoPage => at[x] \in 1..7 /\ x = Boot[at[x]]
         /\ \A v \in {0, TRAMPOLINE, TRAPFRAME} : Present(<<initproc, "cur">>, v)
<1> DEFINE t == <<initproc, "cur">>
<1>1. initproc \in Procs /\ t \in Tables /\ t[1] = initproc /\ t[2] = "cur"
  BY SMTT(30), MemoryAssumption DEF Procs, initproc, Tables
<1>2. 0 \in UserVA /\ 0 \in 0..(MAXVA - 1) /\ TRAMPOLINE \in 0..(MAXVA - 1)
  <2>1. 0 \in UserVA
    BY SMTT(30), MemoryAssumption DEF UserVA
  <2> QED BY <2>1, Indexes
<1>3. /\ 0 \div (FAN * FAN) = 0 /\ 0 \div FAN = 0
      /\ FAN - 1 # 0 /\ FAN * FAN - 1 # 0
  <2>1. FAN \in Nat /\ FAN >= 2
    BY MemoryAssumption
  <2>2. FAN * FAN \in Nat /\ FAN * FAN >= 2
    BY SMTT(30), <2>1
  <2> QED BY SMTT(30), <2>1, <2>2
<1>4. /\ Path(t, TRAMPOLINE) = <<<<initproc, "cur", 1, FAN - 1>>, <<initproc, "cur", 0, FAN * FAN - 1>>>>
      /\ Path(t, TRAPFRAME) = Path(t, TRAMPOLINE)
      /\ Path(t, 0) = <<<<initproc, "cur", 1, 0>>, <<initproc, "cur", 0, 0>>>>
  BY <1>1, <1>3, Indexes DEF Path
<1>5. Boot = <<Trapframe(initproc), Root(t), <<initproc, "cur", 1, FAN - 1>>,
               <<initproc, "cur", 0, FAN * FAN - 1>>, <<initproc, "cur", 1, 0>>,
               <<initproc, "cur", 0, 0>>, UserPage(t, 0)>>
  BY SMTT(30), <1>4 DEF Boot
<1>6. \A i \in 1..7 : Boot[i] \in Places
  <2>1. Trapframe(initproc) \in Places
    BY <1>1, ProcPlace
  <2>2. Root(t) \in Places /\ UserPage(t, 0) \in Places
    BY <1>1, <1>2, TablePlace, TableParts
  <2>3. \A v \in {0, TRAMPOLINE} : Path(t, v)[1] \in Places /\ Path(t, v)[2] \in Places
    BY SMTT(30), <1>1, <1>2, TablePlace, TableParts
  <2>4. Boot = <<Trapframe(initproc), Root(t), Path(t, TRAMPOLINE)[1], Path(t, TRAMPOLINE)[2],
                 Path(t, 0)[1], Path(t, 0)[2], UserPage(t, 0)>>
    BY DEF Boot
  <2> QED BY SMTT(30), <2>1, <2>2, <2>3, <2>4
<1>7. \A i, j \in 1..7 : Boot[i] = Boot[j] => i = j
  <2>1. Boot[1][2] = "trapframe" /\ \A i \in 2..7 : Boot[i][2] = "cur"
    BY SMTT(30), <1>1, <1>5 DEF Trapframe, Root, UserPage
  <2>2. /\ Boot[2][3] = 2 /\ Boot[3][3] = 1 /\ Boot[4][3] = 0 /\ Boot[5][3] = 1 /\ Boot[6][3] = 0
        /\ Boot[7][3] = -1 /\ Boot[3][4] # Boot[5][4] /\ Boot[4][4] # Boot[6][4]
    BY <1>1, <1>3, <1>5 DEF Root, UserPage
  <2> QED BY SMTT(30), <2>1, <2>2
<1>8. at = [x \in Places |-> IF \E i \in 1..7 : Boot[i] = x
                             THEN CHOOSE i \in 1..7 : Boot[i] = x ELSE NoPage]
  BY DEF Init
<1> HIDE DEF t
<1>9. \A i \in 1..7 : at[Boot[i]] = i
  BY <1>6, <1>7, <1>8
<1>10. ASSUME NEW x \in Places, at[x] # NoPage PROVE at[x] \in 1..7 /\ x = Boot[at[x]]
  BY <1>8, <1>10
<1>11. \A v \in {0, TRAMPOLINE, TRAPFRAME} : Present(t, v)
  <2>1. at[Boot[3]] # NoPage /\ at[Boot[4]] # NoPage /\ at[Boot[5]] # NoPage /\ at[Boot[6]] # NoPage
    BY SMTT(30), <1>9 DEF NoPage
  <2>2. /\ Path(t, TRAMPOLINE)[1] = Boot[3] /\ Path(t, TRAMPOLINE)[2] = Boot[4]
        /\ Path(t, 0)[1] = Boot[5] /\ Path(t, 0)[2] = Boot[6]
    BY SMTT(30), <1>4, <1>5
  <2> QED BY <1>4, <2>1, <2>2 DEF Present
<1> QED BY <1>6, <1>9, <1>10, <1>11 DEF t

\* The invariant holds of the state that userinit() leaves.
LEMMA InitMemInv == Init => MemInv
<1> SUFFICES ASSUME Init PROVE MemInv
  OBVIOUS
<1> DEFINE t == <<initproc, "cur">>
<1>1. initproc \in Procs /\ t \in Tables /\ \A p \in Procs : <<p, "cur">> \in Tables /\ <<p, "new">> \in Tables
  BY SMTT(30), MemoryAssumption DEF Procs, initproc, Tables
<1>2. /\ \A i \in 1..7 : Boot[i] \in Places /\ at[Boot[i]] = i
      /\ \A x \in Places : at[x] # NoPage => at[x] \in 1..7 /\ x = Boot[at[x]]
      /\ \A v \in {0, TRAMPOLINE, TRAPFRAME} : Present(t, v)
  BY BootPages
<1>3. 1..7 \subseteq Pages /\ NPAGE \in Nat /\ NoPage = 0 /\ Pages = 1..NPAGE
  BY SMTT(30), MemoryAssumption DEF Pages, NoPage
<1>4. free = 8..NPAGE /\ DOMAIN at = Places
  BY DEF Init
<1>5. at \in [Places -> Pages \cup {NoPage}]
  <2>1. at = [x \in Places |-> at[x]]
    BY DEF Init
  <2>2. \A x \in Places : at[x] \in Pages \cup {NoPage}
    BY <1>2, <1>3
  <2> QED BY <2>1, <2>2
<1>6. /\ sz = [p \in Procs |-> IF p = initproc THEN PGSIZE ELSE 0]
      /\ pc = [p \in Procs |-> IF p = initproc THEN "user" ELSE "unused"]
      /\ op = [p \in Procs |-> "none"]
      /\ np = [p \in Procs |-> 0] /\ a = np /\ base = np /\ end = np /\ nsz = np
      /\ prog = [p \in Procs |-> << >>]
      /\ top = [u \in Tables |-> IF u = t THEN {TRAMPOLINE, TRAPFRAME} ELSE {}]
      /\ panicked = FALSE
  BY DEF Init
<1>7. TypeOK
  <2>1. free \subseteq Pages /\ top \in [Tables -> SUBSET {TRAMPOLINE, TRAPFRAME}]
    BY SMTT(30), <1>3, <1>4, <1>6
  <2>2. sz \in [Procs -> Nat] /\ np \in [Procs -> Procs \cup {0}] /\ np \in [Procs -> Nat]
    BY <1>6, MemoryAssumption
  <2>3. << >> \in Seq([vaddr : Nat, memsz : Nat])
    BY SMTT(30)
  <2> HIDE DEF t
  <2> QED BY <1>5, <1>6, <2>1, <2>2, <2>3 DEF TypeOK
<1>8. Owned
  <2>1. ASSUME NEW x \in Places, NEW y \in Places, at[x] = at[y], at[x] # NoPage PROVE x = y
    BY <1>2, <2>1
  <2>2. ASSUME NEW g \in Pages PROVE g \in free <=> \A x \in Places : at[x] # g
    <3>1. CASE g \in 1..7
      BY SMTT(30), <1>2, <1>4, <3>1
    <3>2. CASE g \notin 1..7
      BY SMTT(30), <1>2, <1>3, <1>4, <3>2
    <3> QED BY <3>1, <3>2
  <2> QED BY <2>1, <2>2 DEF Owned
<1>9. Calls
  BY <1>6 DEF Calls
<1>s. PGROUNDUP(PGSIZE) = 1 /\ PGROUNDUP(0) = 0 /\ UPAGES \in Nat /\ UPAGES >= 1 /\ 0 \in UserVA
  <2>1. PGROUNDUP(1 * PGSIZE) = 1 /\ 1 * PGSIZE = PGSIZE
    BY SMTT(30), RoundUpPages, MemoryAssumption
  <2> QED BY SMTT(30), <2>1, RoundUpZero, MemoryAssumption DEF UserVA
<1>b. \A i \in 1..7 : Boot[i][1] = initproc /\ Boot[i][2] \in {"cur", "trapframe"}
  BY SMTT(30) DEF Boot, Trapframe, Root, UserPage, Path
<1>n. \A x \in Places : x[1] # initproc \/ x[2] \notin {"cur", "trapframe"} => at[x] = NoPage
  BY SMTT(30), <1>2, <1>b
<1>k. \A u \in Tables : u # t => Blank(u)
  <2> SUFFICES ASSUME NEW u \in Tables, u # t PROVE Blank(u)
    OBVIOUS
  <2>1. top[u] = {}
    BY <1>6
  <2>2. u = <<u[1], u[2]>> /\ \A x \in TablePlaces(u) : x \in Places /\ x[1] = u[1] /\ x[2] = u[2]
    BY TablePlace
  <2>3. u[1] # initproc \/ u[2] # "cur"
    BY <2>2
  <2>4. u[2] # "trapframe"
    BY TablePlace
  <2> HIDE DEF t
  <2>5. \A x \in TablePlaces(u) : at[x] = NoPage
    BY <1>n, <2>2, <2>3, <2>4
  <2> QED BY <2>1, <2>5 DEF Blank
<1>m. Image(t, 1)
  <2>1. top[t] = {TRAMPOLINE, TRAPFRAME} /\ Present(t, TRAMPOLINE) /\ Present(t, TRAPFRAME)
    BY <1>1, <1>2, <1>6
  <2>2. at[UserPage(t, 0)] # NoPage /\ Present(t, 0)
    <3>1. Boot[7] = UserPage(t, 0)
      BY DEF Boot
    <3>2. at[Boot[7]] = 7 /\ Present(t, 0)
      BY SMTT(30), <1>2
    <3> QED BY SMTT(30), <3>1, <3>2 DEF NoPage
  <2>3. ASSUME NEW v \in UserVA, v # 0 PROVE at[UserPage(t, v)] = NoPage
    <3>1. UserPage(t, v) \in Places
      BY <1>1, TablePlace, TableParts
    <3>2. UserPage(t, v) = <<initproc, "cur", -1, v>>
      BY DEF UserPage
    <3>3. \A i \in 1..7 : Boot[i] # UserPage(t, v)
      BY SMTT(30), <2>3, <3>2 DEF Boot, Trapframe, Root, UserPage, Path
    <3> QED BY <1>2, <3>1, <3>3
  <2>4. \A v \in UserVA : v \in Nat /\ (v < 1 <=> v = 0)
    BY SMTT(30) DEF UserVA
  <2> HIDE DEF t
  <2> QED BY <2>1, <2>2, <2>3, <2>4 DEF Image
<1>10. ASSUME NEW p \in Procs PROVE Bounds(p)
  <2>1. PGROUNDUP(sz[p]) <= UPAGES /\ (~Alive(p) => sz[p] = 0)
    BY SMTT(30), <1>6, <1>s DEF Alive
  <2>2. pc[p] \notin {"load", "loop", "page"} /\ a[p] = 0 /\ base[p] = 0 /\ nsz[p] = 0 /\ prog[p] = << >>
    BY <1>6
  <2>3. 1..Len(prog[p]) = {} /\ pc[p] # "load" /\ pc[p] # "page" /\ pc[p] \notin {"loop", "page"}
    BY SMTT(30), <2>2
  <2> QED BY <2>1, <2>2, <2>3 DEF Bounds, Fits
<1>11. ASSUME NEW p \in Procs PROVE Kept(p)
  <2>1. p # initproc => Blank(<<p, "cur">>) /\ at[Trapframe(p)] = NoPage
    BY <1>1, <1>k, <1>n, ProcPlace
  <2>2. at[Trapframe(initproc)] # NoPage
    <3>1. Boot[1] = Trapframe(initproc)
      BY DEF Boot
    <3>2. at[Boot[1]] = 1
      BY SMTT(30), <1>2
    <3> QED BY SMTT(30), <3>1, <3>2 DEF NoPage
  <2>3. Blank(<<p, "new">>) /\ at[Mem(p)] = NoPage /\ \A x \in Args(p) : at[x] = NoPage
    BY <1>1, <1>k, <1>n, ProcPlace
  <2>4. op[p] = "none" /\ pc[p] # "page" /\ (pc[p] = "unused" <=> p # initproc)
        /\ (Alive(p) <=> p = initproc) /\ (p = initproc => PGROUNDUP(sz[p]) = 1)
    BY <1>6, <1>s DEF Alive
  <2> QED BY <1>m, <2>1, <2>2, <2>3, <2>4 DEF Kept
<1>12. ASSUME NEW p \in Procs PROVE Built(p)
  BY <1>6 DEF Built
<1>13. NoPanic
  BY <1>6 DEF NoPanic
<1> QED BY <1>7, <1>8, <1>9, <1>10, <1>11, <1>12, <1>13 DEF MemInv

\* The invariant holds in every state.
LEMMA Invariance == Spec => []MemInv
<1>1. MemInv /\ [Next]_vars => MemInv'
  BY NextMemInv
<1> QED BY InitMemInv, <1>1, PTL DEF Spec

----------------------------------------------------------------------------
(* What follows from it *)

\* Every page is on the free list or held by exactly one pointer, whatever
\* kalloc() fails and whatever calls compete for the last page: no error path of
\* fork(), exec() or sbrk() loses a page or frees one twice.
THEOREM PagesHaveOneOwner == Spec => []Ownership
<1>1. MemInv => Ownership
  <2> SUFFICES ASSUME MemInv PROVE Ownership
    OBVIOUS
  <2>1. TypeOK /\ Owned
    BY DEF MemInv
  <2>2. \A x \in Places : at[x] \in Pages \cup {NoPage}
    BY <2>1 DEF TypeOK
  <2>3. NoPage \notin Pages /\ free \subseteq Pages
    BY SMTT(30), <2>1, MemoryAssumption DEF TypeOK, NoPage, Pages
  <2>4. {at[x] : x \in Places} \ {NoPage} = Pages \ free
    BY SMTT(30), <2>1, <2>2, <2>3 DEF Owned
  <2> QED BY <2>1, <2>4 DEF Ownership, Owned
<1> QED BY <1>1, Invariance, PTL

\* In user mode and as a zombie a process has its trapframe, the two fixed
\* mappings and exactly the pages of its size, so that a call that failed half
\* way has left the image as it was.
THEOREM ImagesMatchSizes == Spec => []ImageMatchesSize
<1>1. MemInv => ImageMatchesSize
  <2> SUFFICES ASSUME MemInv, NEW p \in Procs, pc[p] \in {"user", "zombie"}
               PROVE  /\ at[Trapframe(p)] # NoPage
                      /\ FreepagetableOK(<<p, "cur">>, sz[p], {})
                      /\ \A v \in UserVA \cup {TRAPFRAME, TRAMPOLINE} :
                           v < PGROUNDUP(sz[p]) \/ v \notin UserVA => Present(<<p, "cur">>, v)
    BY DEF ImageMatchesSize
  <2>1. TypeOK /\ Calls /\ Kept(p)
    BY DEF MemInv
  <2>2. Alive(p) /\ op[p] = "none"
    BY <2>1 DEF Calls, Alive
  <2>3. PGROUNDUP(sz[p]) \in Nat
    <3>1. sz[p] \in Nat
      BY <2>1 DEF TypeOK
    <3> QED BY <3>1, RoundUp
  <2>4. at[Trapframe(p)] # NoPage /\ Image(<<p, "cur">>, PGROUNDUP(sz[p]))
    BY <2>1, <2>2, <2>3 DEF Kept
  <2> QED BY <2>4 DEF Image, FreepagetableOK
<1> QED BY <1>1, Invariance, PTL

\* fork, exec, exit, wait and sbrk reach none of kernel/vm.c's panics about what a
\* page table holds: no page is mapped twice, no page that uvmunmap(), uvmcopy(), loadseg() or uvmclear() looks for is missing,
\* and freewalk() finds no leaf.
THEOREM VmNeverPanics == Spec => []NoPanic
<1>1. MemInv => NoPanic
  BY DEF MemInv
<1> QED BY <1>1, Invariance, PTL

=============================================================================
