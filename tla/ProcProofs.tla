------------------------------ MODULE ProcProofs ------------------------------
(***************************************************************************)
(* Proofs about Proc, for every number of CPUs and of slots: switches are  *)
(* safe, every process has a live parent, and nobody sleeps in wait() over *)
(* a child that has exited.                                                *)
(***************************************************************************)
EXTENDS Proc, TLAPS

\* Leaves that name no prover are for Zenon.
USE ZenonT(60)

\* Where the process on a CPU has p->lock: from the switch to resume(), and from
\* sleep() or yield() to the switch.
Switching == {"resume", "sched", "sleep2", "sleep3"}

\* Where it has wait_lock.
Waiting == {"reparent", "wake_init", "wake_parent", "exit_zombie", "wait_scan",
            "sleep1", "sleep2"}

\* Locks and CPUs.  A process is on one CPU at most; whoever is on one is
\* RUNNING or holds p->lock on the way out, and has the locks of its place in the
\* code.
Running ==
  /\ \A c, d \in CPUs : proc[c] # None /\ proc[c] = proc[d] => c = d
  /\ \A c \in CPUs, p \in Slots : On(c, p) =>
       /\ pc[p] # "unused"
       /\ IF pc[p] = "sched" THEN state[p] \in {"RUNNABLE", "SLEEPING", "ZOMBIE"}
                             ELSE state[p] = "RUNNING"
       /\ pc[p] \in Switching => plock[p] = c
       /\ pc[p] \in Waiting => wait_lock = c
       /\ pc[p] = "fork_copy" => plock[np[p]] = c

\* A process on no CPU is at its switch, and a free slot nowhere.
Resting ==
  \A p \in Slots :
    /\ (\A c \in CPUs : ~On(c, p)) =>
         pc[p] \in {"unused", "resume"} /\ state[p] # "RUNNING"
    /\ state[p] = "UNUSED" => pc[p] = "unused"
    /\ pc[p] = "unused" => state[p] \in {"UNUSED", "USED"}

\* Every lock that is held is held by a process on that CPU, at a place in the
\* code that has it.
Held ==
  /\ \A c \in CPUs, p \in Slots : plock[p] = c =>
       \/ On(c, p) /\ pc[p] \in Switching
       \/ \E r \in Slots : On(c, r) /\ pc[r] = "fork_copy" /\ np[r] = p
  /\ \A c \in CPUs : wait_lock = c => \E p \in Slots : On(c, p) /\ pc[p] \in Waiting

\* r is in fork(), perhaps preempted.
Forking(r) ==
  \/ pc[r] \in InFork
  \/ pc[r] \in {"resume", "sched"} /\ state[r] \in {"RUNNABLE", "RUNNING"}
     /\ ret[r] \in InFork

\* fork()'s child belongs to one parent, which alone can make it runnable.
Forks ==
  \A r \in Slots :
    /\ np[r] # None <=> Forking(r)
    /\ np[r] # None =>
         /\ state[np[r]] = "USED"
         /\ \A s \in Slots : np[s] = np[r] => s = r
         /\ IF pc[r] = "fork_copy" THEN pc[np[r]] = "unused"
            ELSE pc[np[r]] = "resume" /\ ret[np[r]] = "user"

\* A sleeper sleeps on its own address, and in wait() only.
OwnChannel ==
  \A p \in Slots : state[p] = "SLEEPING" => chan[p] = p /\ ret[p] = "wait"

LockInv == TypeOK /\ Running /\ Resting /\ Held /\ Forks /\ OwnChannel

----------------------------------------------------------------------------
(* Lemmas *)

\* The disjuncts of Next for one CPU and one process.
Step(c, p) ==
  \/ scheduler(c, p) \/ Kernel(c, p) \/ yield(c, p)
  \/ fork(c, p) \/ exit(c, p) \/ wait(c, p) \/ setkilled(c, p)
  \/ \E q \in Killable : kill(c, p, q)

\* What the proofs use about the constants: None is neither a CPU nor a slot.
LEMMA ConstantFacts ==
  /\ None \notin CPUs /\ None \notin Slots /\ initproc \in Slots
  /\ Killable \subseteq Slots
  /\ \A s \in Slots : s \in Int /\ 1 <= s /\ s <= NSLOT
  /\ NSLOT \in Int
BY SMTT(30), ProcAssumption DEF Slots, None, initproc

USE ConstantFacts
USE DEF On, Goto, locals, PCs, InFork, InExit, InWait, InSleep, Preemptible,
        Switching, Waiting

\* wait() looks at a child that it has not passed, and at the first of them.
LEMMA ScanChild ==
  ASSUME NEW c \in CPUs, NEW p \in Slots, wait_scan(c, p)
  PROVE  \E q \in ToScan(p) : wait_child(p, q) /\ \A y \in ToScan(p) : q <= y
BY DEF wait_scan, First

\* reparent() gives one child to initproc and goes on to wake it.
LEMMA ReparentChild ==
  ASSUME NEW c \in CPUs, NEW p \in Slots, reparent(c, p), Children(p) # {}
  PROVE  \E q \in Children(p) :
            /\ parent' = [parent EXCEPT ![q] = initproc]
            /\ pc' = [pc EXCEPT ![p] = "wake_init"]
BY DEF reparent, First

\* What becomes of fork()'s children is in four variables.
LEMMA ForksSame ==
  ASSUME LockInv, UNCHANGED <<state, pc, ret, np>>
  PROVE  Forks'
BY SMTT(30) DEF LockInv, Forks, Forking

\* fork()'s children do not see a process go from one place to another, when
\* both are outside fork() and away from the switch.
LEMMA ForksMove ==
  ASSUME LockInv, NEW p \in Slots, NEW m,
         pc[p] \notin InFork \cup {"unused", "resume", "sched"},
         m \notin InFork \cup {"unused", "resume", "sched"},
         pc' = [pc EXCEPT ![p] = m], UNCHANGED <<state, ret, np>>
  PROVE  Forks'
<1>1. pc'[p] = m /\ \A s \in Slots : s # p => pc'[s] = pc[s]
  BY DEF LockInv, TypeOK
<1>2. \A r \in Slots : np[r] = None \/ np[r] \in Slots
  BY DEF LockInv, TypeOK
<1>3. \A r \in Slots : Forking(r)' <=> Forking(r)
  BY <1>1 DEF Forking
<1>4. \A r \in Slots : np[r] # None => r # p /\ np[r] # p
  BY SMTT(30) DEF LockInv, Forks, Forking
<1> SUFFICES ASSUME NEW r \in Slots
             PROVE  /\ np[r] # None <=> Forking(r)
                    /\ np[r] # None =>
                         /\ state[np[r]] = "USED"
                         /\ \A s \in Slots : np[s] = np[r] => s = r
                         /\ IF pc'[r] = "fork_copy" THEN pc'[np[r]] = "unused"
                            ELSE pc'[np[r]] = "resume" /\ ret[np[r]] = "user"
  BY <1>3 DEF Forks
<1>5. np[r] # None => pc'[r] = pc[r] /\ pc'[np[r]] = pc[np[r]]
  BY <1>1, <1>2, <1>4
<1> QED BY <1>5 DEF LockInv, Forks

\* Nor do they see a sleeper made runnable.
LEMMA ForksWake ==
  ASSUME LockInv, NEW q \in Slots, state[q] = "SLEEPING",
         state' = [state EXCEPT ![q] = "RUNNABLE"], UNCHANGED <<pc, ret, np>>
  PROVE  Forks'
<1>1. state'[q] = "RUNNABLE" /\ \A s \in Slots : s # q => state'[s] = state[s]
  BY DEF LockInv, TypeOK
<1>2. \A r \in Slots : np[r] = None \/ np[r] \in Slots
  BY DEF LockInv, TypeOK
<1>3. \A r \in Slots : Forking(r)' <=> Forking(r)
  BY <1>1 DEF Forking, LockInv, OwnChannel
<1>4. \A r \in Slots : np[r] # None => state'[np[r]] = "USED"
  BY SMTT(30), <1>1, <1>2 DEF LockInv, Forks
<1> QED BY SMTT(30), <1>3, <1>4 DEF LockInv, Forks

----------------------------------------------------------------------------
(* The invariant is inductive *)

\* Steps keep the types: fork()'s child and the child that wait() frees are slots.
LEMMA TypeOKStep ==
  ASSUME LockInv, NEW c \in CPUs, NEW p \in Slots, Step(c, p)
  PROVE  TypeOK'
<1>1. CASE scheduler(c, p)
  BY <1>1 DEF scheduler, LockInv, TypeOK
<1>2. CASE resume(c, p)
  BY <1>2 DEF resume, LockInv, TypeOK
<1>3. CASE sched(c, p)
  BY <1>3 DEF sched, LockInv, TypeOK
<1>4. CASE yield(c, p)
  BY <1>4 DEF yield, LockInv, TypeOK
<1>5. CASE sleep1(c, p)
  BY <1>5 DEF sleep1, LockInv, TypeOK
<1>6. CASE sleep2(c, p)
  BY <1>6 DEF sleep2, LockInv, TypeOK
<1>7. CASE sleep3(c, p)
  BY <1>7 DEF sleep3, LockInv, TypeOK
<1>8. CASE fork(c, p)
  BY SMTT(30), <1>8 DEF fork, LockInv, TypeOK
<1>9. CASE fork_fails(c, p)
  BY <1>9 DEF fork_fails, Free, LockInv, TypeOK
<1>10. CASE fork_copy(c, p)
  BY <1>10 DEF fork_copy, LockInv, TypeOK
<1>11. CASE fork_parent(c, p)
  BY SMTT(30), <1>11 DEF fork_parent, LockInv, TypeOK, Forks, Forking
<1>12. CASE fork_run(c, p)
  BY <1>12 DEF fork_run, LockInv, TypeOK
<1>13. CASE exit(c, p)
  BY <1>13 DEF exit, LockInv, TypeOK
<1>14. CASE exit_acquire(c, p)
  BY <1>14 DEF exit_acquire, LockInv, TypeOK
<1>15. CASE reparent(c, p)
  <2>1. /\ On(c, p) /\ pc[p] = "reparent" /\ i' = [i EXCEPT ![p] = 1]
        /\ UNCHANGED <<state, chan, killed, plock, wait_lock, proc, ret, np>>
    BY <1>15 DEF reparent
  <2>2. CASE Children(p) = {}
    <3>1. pc' = [pc EXCEPT ![p] = "wake_parent"] /\ parent' = parent
      BY <1>15, <2>2 DEF reparent
    <3> QED BY SMTT(30), <2>1, <2>2, <3>1 DEF Children, LockInv, TypeOK
  <2>3. CASE Children(p) # {}
    <3>1. PICK q \in Children(p) :
            /\ parent' = [parent EXCEPT ![q] = initproc]
            /\ pc' = [pc EXCEPT ![p] = "wake_init"]
      BY <1>15, <2>3, ReparentChild
    <3> QED BY SMTT(30), <2>1, <3>1 DEF Children, LockInv, TypeOK
  <2> QED BY <2>2, <2>3
<1>16. CASE exit_wakeup(c, p)
  BY SMTT(30), <1>16 DEF exit_wakeup, wakeup, LockInv, TypeOK
<1>17. CASE exit_zombie(c, p)
  BY <1>17 DEF exit_zombie, LockInv, TypeOK
<1>18. CASE wait(c, p)
  BY <1>18 DEF wait, LockInv, TypeOK
<1>19. CASE wait_acquire(c, p)
  BY SMTT(30), <1>19 DEF wait_acquire, LockInv, TypeOK
<1>20. CASE wait_scan(c, p)
  <2>1. PICK q \in ToScan(p) : wait_child(p, q)
    BY <1>20, ScanChild
  <2>2. On(c, p) /\ pc[p] = "wait_scan" /\ UNCHANGED <<plock, proc, ret, np>>
    BY <1>20 DEF wait_scan
  <2>3. q \in Slots
    BY <2>1 DEF ToScan, Children
  <2>4. i' \in [Slots -> 0..(NSLOT + 1)]
    BY SMTT(30), <2>1, <2>3 DEF wait_child, LockInv, TypeOK
  <2>5. CASE UNCHANGED <<state, parent, chan, killed>>
    BY <2>1, <2>2, <2>3, <2>4, <2>5 DEF wait_child, LockInv, TypeOK
  <2>6. CASE Free(q)
    BY SMTT(30), <2>1, <2>2, <2>3, <2>4, <2>6 DEF wait_child, Free, LockInv, TypeOK
  <2> QED BY <2>1, <2>5, <2>6 DEF wait_child
<1>21. CASE wait_check(c, p)
  BY SMTT(30), <1>21 DEF wait_check, LockInv, TypeOK
<1>22. CASE setkilled(c, p)
  BY <1>22 DEF setkilled, LockInv, TypeOK
<1>23. ASSUME NEW q \in Killable, kill(c, p, q) PROVE TypeOK'
  BY <1>23 DEF kill, LockInv, TypeOK
<1> QED BY <1>1, <1>2, <1>3, <1>4, <1>5, <1>6, <1>7, <1>8, <1>9, <1>10, <1>11,
   <1>12, <1>13, <1>14, <1>15, <1>16, <1>17, <1>18, <1>19, <1>20, <1>21,
   <1>22, <1>23 DEF Step, Kernel

\* Steps keep what a process on a CPU is and holds; scheduler() takes a process
\* whose lock is free, and so on no CPU.
LEMMA RunningStep ==
  ASSUME LockInv, NEW c \in CPUs, NEW p \in Slots, Step(c, p)
  PROVE  Running'
<1>1. CASE scheduler(c, p)
  BY SMTT(30), <1>1 DEF scheduler, LockInv, TypeOK, Running, Resting, Held, Forks,
     Forking
<1>2. CASE resume(c, p)
  BY SMTT(30), <1>2 DEF resume, LockInv, TypeOK, Running
<1>3. CASE sched(c, p)
  BY SMTT(30), <1>3 DEF sched, LockInv, TypeOK, Running
<1>4. CASE yield(c, p)
  BY SMTT(30), <1>4 DEF yield, LockInv, TypeOK, Running
<1>5. CASE sleep1(c, p)
  BY SMTT(30), <1>5 DEF sleep1, LockInv, TypeOK, Running
<1>6. CASE sleep2(c, p)
  BY SMTT(30), <1>6 DEF sleep2, LockInv, TypeOK, Running
<1>7. CASE sleep3(c, p)
  BY SMTT(30), <1>7 DEF sleep3, LockInv, TypeOK, Running
<1>8. CASE fork(c, p)
  BY SMTT(30), <1>8 DEF fork, LockInv, TypeOK, Running
<1>9. CASE fork_fails(c, p)
  BY SMTT(30), <1>9 DEF fork_fails, Free, LockInv, TypeOK, Running, Forks, Forking
<1>10. CASE fork_copy(c, p)
  BY SMTT(30), <1>10 DEF fork_copy, LockInv, TypeOK, Running, Forks, Forking
<1>11. CASE fork_parent(c, p)
  BY SMTT(30), <1>11 DEF fork_parent, LockInv, TypeOK, Running
<1>12. CASE fork_run(c, p)
  BY SMTT(30), <1>12 DEF fork_run, LockInv, TypeOK, Running, Forks, Forking
<1>13. CASE exit(c, p)
  BY SMTT(30), <1>13 DEF exit, LockInv, TypeOK, Running
<1>14. CASE exit_acquire(c, p)
  BY SMTT(30), <1>14 DEF exit_acquire, LockInv, TypeOK, Running
<1>15. CASE reparent(c, p)
  <2>1. /\ On(c, p) /\ pc[p] = "reparent" /\ i' = [i EXCEPT ![p] = 1]
        /\ UNCHANGED <<state, chan, killed, plock, wait_lock, proc, ret, np>>
    BY <1>15 DEF reparent
  <2>2. CASE Children(p) = {}
    <3>1. pc' = [pc EXCEPT ![p] = "wake_parent"] /\ parent' = parent
      BY <1>15, <2>2 DEF reparent
    <3> QED BY SMTT(30), <2>1, <2>2, <3>1 DEF Children, LockInv, TypeOK, Running
  <2>3. CASE Children(p) # {}
    <3>1. PICK q \in Children(p) :
            /\ parent' = [parent EXCEPT ![q] = initproc]
            /\ pc' = [pc EXCEPT ![p] = "wake_init"]
      BY <1>15, <2>3, ReparentChild
    <3> QED BY SMTT(30), <2>1, <3>1 DEF Children, LockInv, TypeOK, Running
  <2> QED BY <2>2, <2>3
<1>16. CASE exit_wakeup(c, p)
  BY SMTT(30), <1>16 DEF exit_wakeup, wakeup, LockInv, TypeOK, Running
<1>17. CASE exit_zombie(c, p)
  BY SMTT(30), <1>17 DEF exit_zombie, LockInv, TypeOK, Running
<1>18. CASE wait(c, p)
  BY SMTT(30), <1>18 DEF wait, LockInv, TypeOK, Running
<1>19. CASE wait_acquire(c, p)
  BY SMTT(30), <1>19 DEF wait_acquire, LockInv, TypeOK, Running
<1>20. CASE wait_scan(c, p)
  <2>1. PICK q \in ToScan(p) : wait_child(p, q) /\ \A y \in ToScan(p) : q <= y
    BY <1>20, ScanChild
  <2>2. On(c, p) /\ pc[p] = "wait_scan" /\ UNCHANGED <<plock, proc, ret, np>>
    BY <1>20 DEF wait_scan
  <2> QED BY SMTT(30), <2>1, <2>2 DEF LockInv, TypeOK, Running,
       wait_child, ToScan, Children, Free
<1>21. CASE wait_check(c, p)
  BY SMTT(30), <1>21 DEF wait_check, LockInv, TypeOK, Running
<1>22. CASE setkilled(c, p)
  BY SMTT(30), <1>22 DEF setkilled, LockInv, TypeOK, Running
<1>23. ASSUME NEW q \in Killable, kill(c, p, q) PROVE Running'
  BY SMTT(30), <1>23 DEF kill, LockInv, TypeOK, Running
<1> QED BY <1>1, <1>2, <1>3, <1>4, <1>5, <1>6, <1>7, <1>8, <1>9, <1>10, <1>11,
   <1>12, <1>13, <1>14, <1>15, <1>16, <1>17, <1>18, <1>19, <1>20, <1>21,
   <1>22, <1>23 DEF Step, Kernel

\* Steps keep that a process off the CPUs is at its switch, or its slot is free.
LEMMA RestingStep ==
  ASSUME LockInv, NEW c \in CPUs, NEW p \in Slots, Step(c, p)
  PROVE  Resting'
<1>1. CASE scheduler(c, p)
  BY SMTT(30), <1>1 DEF scheduler, LockInv, TypeOK, Resting
<1>2. CASE resume(c, p)
  BY <1>2 DEF resume, LockInv, TypeOK, Resting
<1>3. CASE sched(c, p)
  BY SMTT(30), <1>3 DEF sched, LockInv, TypeOK, Running, Resting
<1>4. CASE yield(c, p)
  BY <1>4 DEF yield, LockInv, TypeOK, Resting
<1>5. CASE sleep1(c, p)
  BY <1>5 DEF sleep1, LockInv, TypeOK, Resting
<1>6. CASE sleep2(c, p)
  BY <1>6 DEF sleep2, LockInv, TypeOK, Resting
<1>7. CASE sleep3(c, p)
  BY <1>7 DEF sleep3, LockInv, TypeOK, Resting
<1>8. CASE fork(c, p)
  BY SMTT(30), <1>8 DEF fork, LockInv, TypeOK, Resting
<1>9. CASE fork_fails(c, p)
  BY SMTT(30), <1>9 DEF fork_fails, Free, LockInv, TypeOK, Resting, Forks, Forking
<1>10. CASE fork_copy(c, p)
  BY SMTT(30), <1>10 DEF fork_copy, LockInv, TypeOK, Resting, Forks, Forking
<1>11. CASE fork_parent(c, p)
  BY <1>11 DEF fork_parent, LockInv, TypeOK, Resting
<1>12. CASE fork_run(c, p)
  BY SMTT(30), <1>12 DEF fork_run, LockInv, TypeOK, Resting, Forks, Forking
<1>13. CASE exit(c, p)
  BY <1>13 DEF exit, LockInv, TypeOK, Resting
<1>14. CASE exit_acquire(c, p)
  BY <1>14 DEF exit_acquire, LockInv, TypeOK, Resting
<1>15. CASE reparent(c, p)
  <2>1. /\ On(c, p) /\ pc[p] = "reparent" /\ i' = [i EXCEPT ![p] = 1]
        /\ UNCHANGED <<state, chan, killed, plock, wait_lock, proc, ret, np>>
    BY <1>15 DEF reparent
  <2>2. CASE Children(p) = {}
    <3>1. pc' = [pc EXCEPT ![p] = "wake_parent"] /\ parent' = parent
      BY <1>15, <2>2 DEF reparent
    <3> QED BY <2>1, <2>2, <3>1 DEF Children, LockInv, TypeOK, Resting
  <2>3. CASE Children(p) # {}
    <3>1. PICK q \in Children(p) :
            /\ parent' = [parent EXCEPT ![q] = initproc]
            /\ pc' = [pc EXCEPT ![p] = "wake_init"]
      BY <1>15, <2>3, ReparentChild
    <3> QED BY <2>1, <3>1 DEF Children, LockInv, TypeOK, Resting
  <2> QED BY <2>2, <2>3
<1>16. CASE exit_wakeup(c, p)
  BY SMTT(30), <1>16 DEF exit_wakeup, wakeup, LockInv, TypeOK, Resting
<1>17. CASE exit_zombie(c, p)
  BY <1>17 DEF exit_zombie, LockInv, TypeOK, Resting
<1>18. CASE wait(c, p)
  BY <1>18 DEF wait, LockInv, TypeOK, Resting
<1>19. CASE wait_acquire(c, p)
  BY <1>19 DEF wait_acquire, LockInv, TypeOK, Resting
<1>20. CASE wait_scan(c, p)
  <2>1. PICK q \in ToScan(p) : wait_child(p, q) /\ \A y \in ToScan(p) : q <= y
    BY <1>20, ScanChild
  <2>2. On(c, p) /\ pc[p] = "wait_scan" /\ UNCHANGED <<plock, proc, ret, np>>
    BY <1>20 DEF wait_scan
  <2> QED BY SMTT(30), <2>1, <2>2 DEF LockInv, TypeOK, Resting,
       wait_child, ToScan, Children, Free
<1>21. CASE wait_check(c, p)
  BY SMTT(30), <1>21 DEF wait_check, LockInv, TypeOK, Resting
<1>22. CASE setkilled(c, p)
  BY <1>22 DEF setkilled, LockInv, TypeOK, Resting
<1>23. ASSUME NEW q \in Killable, kill(c, p, q) PROVE Resting'
  BY <1>23 DEF kill, LockInv, TypeOK, Resting
<1> QED BY <1>1, <1>2, <1>3, <1>4, <1>5, <1>6, <1>7, <1>8, <1>9, <1>10, <1>11,
   <1>12, <1>13, <1>14, <1>15, <1>16, <1>17, <1>18, <1>19, <1>20, <1>21,
   <1>22, <1>23 DEF Step, Kernel

\* Steps keep that every lock has its holder.
LEMMA HeldStep ==
  ASSUME LockInv, NEW c \in CPUs, NEW p \in Slots, Step(c, p)
  PROVE  Held'
<1>1. CASE scheduler(c, p)
  BY SMTT(30), <1>1 DEF scheduler, LockInv, TypeOK, Running, Resting, Held, Forks,
     Forking
<1>2. CASE resume(c, p)
  BY SMTT(30), <1>2 DEF resume, LockInv, TypeOK, Held
<1>3. CASE sched(c, p)
  BY SMTT(30), <1>3 DEF sched, LockInv, TypeOK, Held
<1>4. CASE yield(c, p)
  BY SMTT(30), <1>4 DEF yield, LockInv, TypeOK, Held
<1>5. CASE sleep1(c, p)
  BY SMTT(30), <1>5 DEF sleep1, LockInv, TypeOK, Held
<1>6. CASE sleep2(c, p)
  BY SMTT(30), <1>6 DEF sleep2, LockInv, TypeOK, Held
<1>7. CASE sleep3(c, p)
  BY SMTT(30), <1>7 DEF sleep3, LockInv, TypeOK, Held
<1>8. CASE fork(c, p)
  BY SMTT(30), <1>8 DEF fork, LockInv, TypeOK, Held
<1>9. CASE fork_fails(c, p)
  BY SMTT(30), <1>9 DEF fork_fails, Free, LockInv, TypeOK, Held
<1>10. CASE fork_copy(c, p)
  BY SMTT(30), <1>10 DEF fork_copy, LockInv, TypeOK, Held, Forks, Forking
<1>11. CASE fork_parent(c, p)
  BY SMTT(30), <1>11 DEF fork_parent, LockInv, TypeOK, Held
<1>12. CASE fork_run(c, p)
  BY SMTT(30), <1>12 DEF fork_run, LockInv, TypeOK, Held
<1>13. CASE exit(c, p)
  BY SMTT(30), <1>13 DEF exit, LockInv, TypeOK, Held
<1>14. CASE exit_acquire(c, p)
  BY SMTT(30), <1>14 DEF exit_acquire, LockInv, TypeOK, Held
<1>15. CASE reparent(c, p)
  <2>1. /\ On(c, p) /\ pc[p] = "reparent" /\ i' = [i EXCEPT ![p] = 1]
        /\ UNCHANGED <<state, chan, killed, plock, wait_lock, proc, ret, np>>
    BY <1>15 DEF reparent
  <2>2. CASE Children(p) = {}
    <3>1. pc' = [pc EXCEPT ![p] = "wake_parent"] /\ parent' = parent
      BY <1>15, <2>2 DEF reparent
    <3> QED BY SMTT(30), <2>1, <2>2, <3>1 DEF Children, LockInv, TypeOK, Held
  <2>3. CASE Children(p) # {}
    <3>1. PICK q \in Children(p) :
            /\ parent' = [parent EXCEPT ![q] = initproc]
            /\ pc' = [pc EXCEPT ![p] = "wake_init"]
      BY <1>15, <2>3, ReparentChild
    <3> QED BY SMTT(30), <2>1, <3>1 DEF Children, LockInv, TypeOK, Held
  <2> QED BY <2>2, <2>3
<1>16. CASE exit_wakeup(c, p)
  BY SMTT(30), <1>16 DEF exit_wakeup, wakeup, LockInv, TypeOK, Held
<1>17. CASE exit_zombie(c, p)
  BY SMTT(30), <1>17 DEF exit_zombie, LockInv, TypeOK, Held
<1>18. CASE wait(c, p)
  BY SMTT(30), <1>18 DEF wait, LockInv, TypeOK, Held
<1>19. CASE wait_acquire(c, p)
  BY SMTT(30), <1>19 DEF wait_acquire, LockInv, TypeOK, Held
<1>20. CASE wait_scan(c, p)
  <2>1. PICK q \in ToScan(p) : wait_child(p, q) /\ \A y \in ToScan(p) : q <= y
    BY <1>20, ScanChild
  <2>2. On(c, p) /\ pc[p] = "wait_scan" /\ UNCHANGED <<plock, proc, ret, np>>
    BY <1>20 DEF wait_scan
  <2> QED BY SMTT(30), <2>1, <2>2 DEF LockInv, TypeOK, Running, Held,
       wait_child, ToScan, Children, Free
<1>21. CASE wait_check(c, p)
  BY SMTT(30), <1>21 DEF wait_check, LockInv, TypeOK, Held
<1>22. CASE setkilled(c, p)
  BY SMTT(30), <1>22 DEF setkilled, LockInv, TypeOK, Held
<1>23. ASSUME NEW q \in Killable, kill(c, p, q) PROVE Held'
  BY SMTT(30), <1>23 DEF kill, LockInv, TypeOK, Held
<1> QED BY <1>1, <1>2, <1>3, <1>4, <1>5, <1>6, <1>7, <1>8, <1>9, <1>10, <1>11,
   <1>12, <1>13, <1>14, <1>15, <1>16, <1>17, <1>18, <1>19, <1>20, <1>21,
   <1>22, <1>23 DEF Step, Kernel

\* Steps keep that fork()'s child stays USED until its parent makes it runnable.
LEMMA ForksStep ==
  ASSUME LockInv, NEW c \in CPUs, NEW p \in Slots, Step(c, p)
  PROVE  Forks'
<1>1. CASE scheduler(c, p)
  BY SMTT(30), <1>1 DEF scheduler, LockInv, TypeOK, Forks, Forking
<1>2. CASE resume(c, p)
  BY SMTT(30), <1>2 DEF resume, LockInv, TypeOK, Running, Forks, Forking
<1>3. CASE sched(c, p)
  BY SMTT(30), <1>3 DEF sched, LockInv, TypeOK, Forks, Forking
<1>4. CASE yield(c, p)
  BY SMTT(30), <1>4 DEF yield, LockInv, TypeOK, Forks, Forking
<1>5. CASE sleep1(c, p)
  BY <1>5, ForksMove DEF sleep1
<1>6. CASE sleep2(c, p)
  BY <1>6, ForksMove DEF sleep2
<1>7. CASE sleep3(c, p)
  BY SMTT(30), <1>7 DEF sleep3, LockInv, TypeOK, Forks, Forking
<1>8. CASE fork(c, p)
  BY SMTT(30), <1>8 DEF fork, LockInv, TypeOK, Running, Resting, Held, Forks, Forking
<1>9. CASE fork_fails(c, p)
  BY SMTT(30), <1>9 DEF fork_fails, Free, LockInv, TypeOK, Forks, Forking
<1>10. CASE fork_copy(c, p)
  BY SMTT(30), <1>10 DEF fork_copy, LockInv, TypeOK, Forks, Forking
<1>11. CASE fork_parent(c, p)
  BY SMTT(30), <1>11 DEF fork_parent, LockInv, TypeOK, Forks, Forking
<1>12. CASE fork_run(c, p)
  BY SMTT(30), <1>12 DEF fork_run, LockInv, TypeOK, Forks, Forking
<1>13. CASE exit(c, p)
  BY <1>13, ForksMove DEF exit
<1>14. CASE exit_acquire(c, p)
  BY <1>14, ForksMove DEF exit_acquire
<1>15. CASE reparent(c, p)
  BY <1>15, ForksMove DEF reparent
<1>16. CASE exit_wakeup(c, p)
  <2>1. CASE UNCHANGED <<pc, state>>
    BY <1>16, <2>1, ForksSame DEF exit_wakeup
  <2>2. CASE UNCHANGED state /\ \E m \in {"reparent", "exit_zombie"} : Goto(p, m)
    BY <1>16, <2>2, ForksMove DEF exit_wakeup
  <2>3. CASE /\ UNCHANGED pc /\ i[p] \in Slots /\ state[i[p]] = "SLEEPING"
             /\ state' = [state EXCEPT ![i[p]] = "RUNNABLE"]
    BY <1>16, <2>3, ForksWake DEF exit_wakeup
  <2> QED BY <1>16, <2>1, <2>2, <2>3 DEF exit_wakeup, wakeup
<1>17. CASE exit_zombie(c, p)
  BY SMTT(30), <1>17 DEF exit_zombie, LockInv, TypeOK, Forks, Forking
<1>18. CASE wait(c, p)
  BY <1>18, ForksMove DEF wait
<1>19. CASE wait_acquire(c, p)
  BY <1>19, ForksMove DEF wait_acquire
<1>20. CASE wait_scan(c, p)
  <2>1. PICK q \in ToScan(p) : wait_child(p, q)
    BY <1>20, ScanChild
  <2>2. On(c, p) /\ pc[p] = "wait_scan" /\ UNCHANGED <<plock, proc, ret, np>>
    BY <1>20 DEF wait_scan
  <2>3. q \in Slots
    BY <2>1 DEF ToScan, Children
  <2>4. CASE UNCHANGED <<state, pc>>
    BY <2>2, <2>4, ForksSame
  <2>5. CASE UNCHANGED state /\ Goto(p, "user")
    BY <2>2, <2>5, ForksMove
  <2>6. CASE Free(q) /\ state[q] = "ZOMBIE" /\ pc' = [pc EXCEPT ![p] = "user", ![q] = "unused"]
    <3>1. pc[q] \notin InFork
      BY <2>3, <2>6 DEF LockInv, Running, Resting
    <3>2. p # q /\ np[p] = None /\ np[q] = None
      BY <2>2, <2>3, <2>6, <3>1 DEF LockInv, Running, Forks, Forking
    <3>3. \A r \in Slots : np[r] # None =>
            /\ r \notin {p, q} /\ np[r] \notin {p, q}
            /\ np[r] \in Slots
      BY SMTT(30), <2>2, <2>6, <3>2 DEF LockInv, TypeOK, Forks
    <3>4. /\ pc'[p] = "user" /\ pc'[q] = "unused"
          /\ \A s \in Slots : s \notin {p, q} => pc'[s] = pc[s] /\ state'[s] = state[s]
      BY <2>3, <2>6, <3>2 DEF Free, LockInv, TypeOK
    <3>5. \A r \in Slots : Forking(r)' <=> Forking(r)
      BY <2>2, <2>3, <3>2, <3>4 DEF Forking, LockInv, Forks
    <3>6. \A r \in Slots : np[r] # None =>
            pc'[r] = pc[r] /\ pc'[np[r]] = pc[np[r]] /\ state'[np[r]] = state[np[r]]
      BY <3>3, <3>4
    <3>7. UNCHANGED <<np, ret>>
      BY <2>2
    <3>8. \A r \in Slots : np[r] # None <=> Forking(r)'
      BY <3>5 DEF LockInv, Forks
    <3>9. \A r \in Slots : np[r] # None =>
            /\ state'[np[r]] = "USED"
            /\ \A s \in Slots : np[s] = np[r] => s = r
            /\ IF pc'[r] = "fork_copy" THEN pc'[np[r]] = "unused"
               ELSE pc'[np[r]] = "resume" /\ ret[np[r]] = "user"
      BY SMTT(30), <3>6 DEF LockInv, Forks
    <3> QED BY <3>7, <3>8, <3>9 DEF Forks
  <2> QED BY <2>1, <2>4, <2>5, <2>6 DEF wait_child
<1>21. CASE wait_check(c, p)
  BY <1>21, ForksMove DEF wait_check
<1>22. CASE setkilled(c, p)
  BY <1>22, ForksSame DEF setkilled
<1>23. ASSUME NEW q \in Killable, kill(c, p, q) PROVE Forks'
  BY <1>23, ForksSame, ForksWake DEF kill
<1> QED BY <1>1, <1>2, <1>3, <1>4, <1>5, <1>6, <1>7, <1>8, <1>9, <1>10, <1>11,
   <1>12, <1>13, <1>14, <1>15, <1>16, <1>17, <1>18, <1>19, <1>20, <1>21,
   <1>22, <1>23 DEF Step, Kernel

\* Steps keep what a sleeper sleeps on.
LEMMA OwnChannelStep ==
  ASSUME LockInv, NEW c \in CPUs, NEW p \in Slots, Step(c, p)
  PROVE  OwnChannel'
<1>1. CASE scheduler(c, p)
  BY <1>1 DEF scheduler, LockInv, TypeOK, OwnChannel
<1>2. CASE resume(c, p)
  BY SMTT(30), <1>2 DEF resume, LockInv, TypeOK, Running, OwnChannel
<1>3. CASE sched(c, p)
  BY <1>3 DEF sched, LockInv, TypeOK, OwnChannel
<1>4. CASE yield(c, p)
  BY <1>4 DEF yield, LockInv, TypeOK, OwnChannel
<1>5. CASE sleep1(c, p)
  BY <1>5 DEF sleep1, LockInv, TypeOK, OwnChannel
<1>6. CASE sleep2(c, p)
  BY <1>6 DEF sleep2, LockInv, TypeOK, OwnChannel
<1>7. CASE sleep3(c, p)
  BY <1>7 DEF sleep3, LockInv, TypeOK, OwnChannel
<1>8. CASE fork(c, p)
  BY SMTT(30), <1>8 DEF fork, LockInv, TypeOK, OwnChannel
<1>9. CASE fork_fails(c, p)
  BY <1>9 DEF fork_fails, Free, LockInv, TypeOK, OwnChannel
<1>10. CASE fork_copy(c, p)
  BY SMTT(30), <1>10 DEF fork_copy, LockInv, TypeOK, Forks, Forking, OwnChannel
<1>11. CASE fork_parent(c, p)
  BY <1>11 DEF fork_parent, LockInv, TypeOK, OwnChannel
<1>12. CASE fork_run(c, p)
  BY <1>12 DEF fork_run, LockInv, TypeOK, OwnChannel
<1>13. CASE exit(c, p)
  BY <1>13 DEF exit, LockInv, TypeOK, OwnChannel
<1>14. CASE exit_acquire(c, p)
  BY <1>14 DEF exit_acquire, LockInv, TypeOK, OwnChannel
<1>15. CASE reparent(c, p)
  <2>1. /\ On(c, p) /\ pc[p] = "reparent" /\ i' = [i EXCEPT ![p] = 1]
        /\ UNCHANGED <<state, chan, killed, plock, wait_lock, proc, ret, np>>
    BY <1>15 DEF reparent
  <2>2. CASE Children(p) = {}
    <3>1. pc' = [pc EXCEPT ![p] = "wake_parent"] /\ parent' = parent
      BY <1>15, <2>2 DEF reparent
    <3> QED BY <2>1, <2>2, <3>1 DEF Children, LockInv, TypeOK, OwnChannel
  <2>3. CASE Children(p) # {}
    <3>1. PICK q \in Children(p) :
            /\ parent' = [parent EXCEPT ![q] = initproc]
            /\ pc' = [pc EXCEPT ![p] = "wake_init"]
      BY <1>15, <2>3, ReparentChild
    <3> QED BY <2>1, <3>1 DEF Children, LockInv, TypeOK, OwnChannel
  <2> QED BY <2>2, <2>3
<1>16. CASE exit_wakeup(c, p)
  BY SMTT(30), <1>16 DEF exit_wakeup, wakeup, LockInv, TypeOK, OwnChannel
<1>17. CASE exit_zombie(c, p)
  BY <1>17 DEF exit_zombie, LockInv, TypeOK, OwnChannel
<1>18. CASE wait(c, p)
  BY <1>18 DEF wait, LockInv, TypeOK, OwnChannel
<1>19. CASE wait_acquire(c, p)
  BY <1>19 DEF wait_acquire, LockInv, TypeOK, OwnChannel
<1>20. CASE wait_scan(c, p)
  <2>1. PICK q \in ToScan(p) : wait_child(p, q) /\ \A y \in ToScan(p) : q <= y
    BY <1>20, ScanChild
  <2>2. On(c, p) /\ pc[p] = "wait_scan" /\ UNCHANGED <<plock, proc, ret, np>>
    BY <1>20 DEF wait_scan
  <2> QED BY SMTT(30), <2>1, <2>2 DEF LockInv, TypeOK, OwnChannel,
       wait_child, ToScan, Children, Free
<1>21. CASE wait_check(c, p)
  BY <1>21 DEF wait_check, LockInv, TypeOK, OwnChannel
<1>22. CASE setkilled(c, p)
  BY <1>22 DEF setkilled, LockInv, TypeOK, OwnChannel
<1>23. ASSUME NEW q \in Killable, kill(c, p, q) PROVE OwnChannel'
  BY <1>23 DEF kill, LockInv, TypeOK, OwnChannel
<1> QED BY <1>1, <1>2, <1>3, <1>4, <1>5, <1>6, <1>7, <1>8, <1>9, <1>10, <1>11,
   <1>12, <1>13, <1>14, <1>15, <1>16, <1>17, <1>18, <1>19, <1>20, <1>21,
   <1>22, <1>23 DEF Step, Kernel

\* The invariant holds when userinit() is done and the CPUs start to schedule.
LEMMA InitLockInv == Init => LockInv
<1> SUFFICES ASSUME Init PROVE LockInv
  OBVIOUS
<1>1. TypeOK
  BY SMTT(30), ProcAssumption DEF Init, TypeOK, Slots, None, initproc
<1>2. Running /\ Resting /\ Held
  BY DEF Init, Running, Resting, Held
<1>3. Forks
  BY DEF Init, Forks, Forking
<1>4. OwnChannel
  BY DEF Init, OwnChannel
<1> QED BY <1>1, <1>2, <1>3, <1>4 DEF LockInv

\* A step of Next is a step of one process, on one CPU.
LEMMA NextIsStep == Next => \E c \in CPUs, p \in Slots : Step(c, p)
BY DEF Next, Step

\* Every step keeps the invariant.
LEMMA NextLockInv == LockInv /\ [Next]_vars => LockInv'
<1> SUFFICES ASSUME LockInv, [Next]_vars PROVE LockInv'
  OBVIOUS
<1>1. ASSUME Next PROVE LockInv'
  <2>1. PICK c \in CPUs, p \in Slots : Step(c, p)
    BY <1>1, NextIsStep
  <2> QED BY <2>1, TypeOKStep, RunningStep, RestingStep, HeldStep, ForksStep,
             OwnChannelStep DEF LockInv
<1>2. CASE UNCHANGED vars
  <2>1. TypeOK' /\ OwnChannel'
    BY <1>2 DEF vars, LockInv, TypeOK, OwnChannel
  <2>2. Running' /\ Resting' /\ Held'
    BY SMTT(30), <1>2 DEF vars, LockInv, Running, Resting, Held
  <2>3. Forks'
    BY SMTT(30), <1>2 DEF vars, LockInv, Forks, Forking
  <2> QED BY <2>1, <2>2, <2>3 DEF LockInv
<1> QED BY <1>1, <1>2

\* The invariant of the locks holds in every reachable state.
THEOREM LockInvariance == Spec => []LockInv
<1> QED BY InitLockInv, NextLockInv, PTL DEF Spec

----------------------------------------------------------------------------
(* Theorems *)

\* The locks of a CPU are those that the place of its process in the code says.
LEMMA LocksFollowCode == LockInv => SwitchesSafe
<1> SUFFICES ASSUME LockInv PROVE SwitchesSafe
  OBVIOUS
<1>1. OneStack
  BY SMTT(30) DEF LockInv, TypeOK, Running, OneStack
<1>2. ASSUME NEW c \in CPUs, NEW p \in Slots, On(c, p), pc[p] = "sched"
      PROVE  LocksOf(c) = {<<"plock", p>>} /\ state[p] # "RUNNING"
  <2>1. plock[p] = c /\ state[p] # "RUNNING"
    BY SMTT(30), <1>2 DEF LockInv, Running
  <2>2. \A q \in Slots : plock[q] = c => q = p
    BY <1>2 DEF LockInv, Held
  <2>3. wait_lock # c
    BY <1>2 DEF LockInv, Held
  <2> QED BY <2>1, <2>2, <2>3 DEF LocksOf
<1>3. ASSUME NEW c \in CPUs, proc[c] = None
      PROVE  LocksOf(c) = {}
  <2>1. wait_lock # c /\ \A q \in Slots : plock[q] # c
    BY SMTT(30), <1>3 DEF LockInv, Held
  <2> QED BY <2>1 DEF LocksOf
<1> QED BY <1>1, <1>2, <1>3 DEF SwitchesSafe, SchedChecks

\* Switches are safe, for every number of CPUs and of slots: a kernel stack has
\* one CPU at a time, and sched() is called with p->lock and no other lock.
THEOREM SwitchesAreSafe == Spec => []SwitchesSafe
<1> QED BY LockInvariance, LocksFollowCode, PTL

----------------------------------------------------------------------------
(* wait() and exit() *)

\* Who has a parent, and which parents there are.
Family ==
  /\ state[initproc] \notin {"UNUSED", "USED", "ZOMBIE"} /\ pc[initproc] \notin InExit
  /\ \A q \in Slots :
       /\ parent[q] # None =>
            /\ state[parent[q]] \notin {"UNUSED", "USED", "ZOMBIE"}
            /\ pc[parent[q]] \notin {"wake_parent", "exit_zombie"}
       /\ state[q] \notin {"UNUSED", "USED"} /\ q # initproc => parent[q] # None
       /\ /\ np[q] # None
          /\ pc[q] = "fork_run" \/ (pc[q] \in {"resume", "sched"} /\ ret[q] = "fork_run")
          => parent[np[q]] # None

\* p is asleep in wait(), or has decided to be.
Asleep(p) == pc[p] \in InSleep \/ state[p] = "SLEEPING"

\* The loops of wakeup() start at the first slot.
InLoop ==
  \A p \in Slots : pc[p] \in {"wake_init", "wake_parent"} => i[p] # 0

\* An exited child of a sleeper is one that reparent() has just given to
\* initproc, whose wakeup is still to come.
NoneMissed ==
  \A p, q \in Slots :
    parent[q] = p /\ state[q] = "ZOMBIE" /\ Asleep(p) =>
      p = initproc /\ \E e \in Slots : pc[e] = "wake_init" /\ i[e] = 1

\* A process about to be a zombie, that has woken its parent, has a parent that
\* is awake.
ParentAwake ==
  \A p, q \in Slots :
    /\ parent[q] = p
    /\ pc[q] = "exit_zombie" \/ (pc[q] = "wake_parent" /\ i[q] > p)
    => ~Asleep(p)

\* wait() has passed no zombie among the children it has looked at.
NonePassed ==
  \A p, q \in Slots :
    parent[q] = p /\ pc[p] = "wait_scan" /\ q < i[p] => state[q] # "ZOMBIE"

WaitInv == Family /\ InLoop /\ NoneMissed /\ ParentAwake /\ NonePassed

----------------------------------------------------------------------------
(* Lemmas *)


\* wait_lock excludes: one process at a time is at a place that has it.
LEMMA OneWaiting ==
  ASSUME LockInv, NEW p \in Slots, NEW q \in Slots, pc[p] \in Waiting, pc[q] \in Waiting
  PROVE  p = q
<1>1. PICK c \in CPUs : On(c, p)
  BY DEF LockInv, Resting
<1>2. PICK d \in CPUs : On(d, q)
  BY DEF LockInv, Resting
<1> QED BY SMTT(30), <1>1, <1>2 DEF LockInv, Running

\* A process whose lock is free, while somebody else has wait_lock, is asleep
\* only if it is SLEEPING, on its own channel.
LEMMA FreeSleeper ==
  ASSUME LockInv, NEW p \in Slots, NEW q \in Slots, q # p, pc[q] \in Waiting,
         plock[p] = None, Asleep(p)
  PROVE  state[p] = "SLEEPING" /\ chan[p] = p
<1>1. pc[p] # "sleep1"
  BY OneWaiting
<1>2. pc[p] \notin {"sleep2", "sleep3"}
  <2>1. SUFFICES ASSUME pc[p] \in {"sleep2", "sleep3"} PROVE FALSE
    OBVIOUS
  <2>2. PICK c \in CPUs : On(c, p)
    BY <2>1 DEF LockInv, Resting
  <2> QED BY SMTT(30), <2>1, <2>2 DEF LockInv, Running
<1> QED BY <1>1, <1>2 DEF LockInv, OwnChannel, Asleep

\* A sleeper is at the switch.
LEMMA SleeperPlace ==
  ASSUME LockInv, NEW p \in Slots, state[p] = "SLEEPING"
  PROVE  pc[p] \in {"sched", "resume", "unused"}
BY DEF LockInv, Running, Resting

\* Families do not see a process go to a place away from the switch that is
\* neither the end of fork() nor the end of exit().
LEMMA FamilyMove ==
  ASSUME LockInv, WaitInv, NEW p \in Slots, NEW m,
         m \notin {"resume", "sched", "fork_run", "wake_parent", "exit_zombie"},
         m \in InExit => p # initproc,
         pc' = [pc EXCEPT ![p] = m], UNCHANGED <<state, parent, ret, np>>
  PROVE  Family'
<1>1. pc'[p] = m /\ \A s \in Slots : s # p => pc'[s] = pc[s]
  BY DEF LockInv, TypeOK
<1>2. \A q \in Slots : parent[q] # None => parent[q] \in Slots
  BY DEF LockInv, TypeOK
<1>3. pc'[initproc] \notin InExit
  BY <1>1 DEF WaitInv, Family
<1>4. \A q \in Slots : parent[q] # None => pc'[parent[q]] \notin {"wake_parent", "exit_zombie"}
  BY <1>1, <1>2 DEF WaitInv, Family
<1>5. \A q \in Slots : pc'[q] \in {"fork_run", "resume", "sched"} => pc'[q] = pc[q]
  BY <1>1
<1> QED BY <1>3, <1>4, <1>5 DEF WaitInv, Family

\* Nor do they see a live process go to another state.
LEMMA FamilyLive ==
  ASSUME LockInv, WaitInv, NEW p \in Slots, NEW s,
         state[p] \notin {"UNUSED", "USED", "ZOMBIE"}, s \notin {"UNUSED", "USED", "ZOMBIE"},
         state' = [state EXCEPT ![p] = s], UNCHANGED <<pc, parent, ret, np>>
  PROVE  Family'
<1>1. state'[p] = s /\ \A q \in Slots : q # p => state'[q] = state[q]
  BY DEF LockInv, TypeOK
<1>2. \A q \in Slots : parent[q] # None => parent[q] \in Slots
  BY DEF LockInv, TypeOK
<1>3. state'[initproc] \notin {"UNUSED", "USED", "ZOMBIE"}
  BY <1>1 DEF WaitInv, Family
<1>4. \A q \in Slots : parent[q] # None => state'[parent[q]] \notin {"UNUSED", "USED", "ZOMBIE"}
  BY <1>1, <1>2 DEF WaitInv, Family
<1>5. \A q \in Slots : state'[q] \notin {"UNUSED", "USED"} => state[q] \notin {"UNUSED", "USED"}
  BY <1>1
<1> QED BY <1>3, <1>4, <1>5 DEF WaitInv, Family

\* Freeing a slot that nobody has for a parent is as harmless: one that is not
\* RUNNABLE yet, or that has exited.
LEMMA FamilyFree ==
  ASSUME LockInv, WaitInv, NEW p \in Slots, NEW q \in Slots,
         state[q] \in {"USED", "ZOMBIE"}, Free(q), UNCHANGED ret,
         pc'[p] = "user", pc'[q] = "unused",
         \A s \in Slots : s # p /\ s # q => pc'[s] = pc[s],
         \A s \in Slots : np'[s] \in {np[s], None} /\ np'[s] # q
  PROVE  Family'
<1>1. /\ state'[q] = "UNUSED" /\ parent'[q] = None
      /\ \A s \in Slots : s # q => state'[s] = state[s] /\ parent'[s] = parent[s]
  BY DEF Free, LockInv, TypeOK
<1>2. Family /\ q # initproc
  BY DEF WaitInv, Family
<1>3. ASSUME NEW x \in Slots, parent[x] # None
      PROVE  parent[x] \in Slots /\ parent[x] # q
  <2>1. parent[x] \in Slots
    BY <1>3 DEF LockInv, TypeOK
  <2>2. state[parent[x]] \notin {"USED", "ZOMBIE"}
    BY <1>2, <1>3 DEF Family
  <2> QED BY <2>1, <2>2
<1>4. state'[initproc] \notin {"UNUSED", "USED", "ZOMBIE"} /\ pc'[initproc] \notin InExit
  BY <1>1, <1>2 DEF Family
<1>5. ASSUME NEW x \in Slots
      PROVE  /\ parent'[x] # None =>
                  /\ state'[parent'[x]] \notin {"UNUSED", "USED", "ZOMBIE"}
                  /\ pc'[parent'[x]] \notin {"wake_parent", "exit_zombie"}
             /\ state'[x] \notin {"UNUSED", "USED"} /\ x # initproc => parent'[x] # None
  <2>1. ASSUME parent'[x] # None
        PROVE  /\ state'[parent'[x]] \notin {"UNUSED", "USED", "ZOMBIE"}
               /\ pc'[parent'[x]] \notin {"wake_parent", "exit_zombie"}
    <3>1. parent'[x] = parent[x] /\ parent[x] \in Slots /\ parent[x] # q
      BY <1>1, <1>3, <2>1
    <3>2. /\ state[parent[x]] \notin {"UNUSED", "USED", "ZOMBIE"}
          /\ pc[parent[x]] \notin {"wake_parent", "exit_zombie"}
      BY <1>2, <2>1, <3>1 DEF Family
    <3>3. state'[parent[x]] = state[parent[x]]
      BY <1>1, <3>1
    <3>4. pc'[parent[x]] \in {"user", pc[parent[x]]}
      BY <3>1
    <3> QED BY <3>1, <3>2, <3>3, <3>4
  <2>2. ASSUME state'[x] \notin {"UNUSED", "USED"}, x # initproc
        PROVE  parent'[x] # None
    <3>1. state'[x] = state[x] /\ parent'[x] = parent[x]
      BY <1>1, <2>2
    <3> QED BY <1>2, <2>2, <3>1 DEF Family
  <2> QED BY <2>1, <2>2
<1>6. ASSUME NEW x \in Slots, np'[x] # None,
             pc'[x] = "fork_run" \/ (pc'[x] \in {"resume", "sched"} /\ ret'[x] = "fork_run")
      PROVE  parent'[np'[x]] # None
  <2>1. x # p /\ x # q /\ pc'[x] = pc[x] /\ ret'[x] = ret[x]
    BY <1>6
  <2>2. np'[x] = np[x] /\ np[x] # q /\ np[x] \in Slots
    BY <1>6 DEF LockInv, TypeOK
  <2>3. parent[np[x]] # None
    BY <1>2, <1>6, <2>1, <2>2 DEF Family
  <2> QED BY <1>1, <2>2, <2>3
<1> QED BY <1>4, <1>5, <1>6 DEF Family

----------------------------------------------------------------------------
(* The invariant is inductive *)

\* Steps keep that parents live: exit() is a zombie only when it has no child.
LEMMA FamilyStep ==
  ASSUME LockInv, WaitInv, NEW c \in CPUs, NEW p \in Slots, Step(c, p)
  PROVE  Family'
<1>1. CASE scheduler(c, p)
  BY <1>1, FamilyLive DEF scheduler
<1>2. CASE resume(c, p)
  BY SMTT(30), <1>2 DEF resume, LockInv, WaitInv, TypeOK, Family
<1>3. CASE sched(c, p)
  BY SMTT(30), <1>3 DEF sched, LockInv, WaitInv, TypeOK, Family
<1>4. CASE yield(c, p)
  BY SMTT(30), <1>4 DEF yield, LockInv, WaitInv, TypeOK, Running, Family
<1>5. CASE sleep1(c, p)
  BY <1>5, FamilyMove DEF sleep1
<1>6. CASE sleep2(c, p)
  BY <1>6, FamilyMove DEF sleep2
<1>7. CASE sleep3(c, p)
  BY SMTT(30), <1>7 DEF sleep3, LockInv, WaitInv, TypeOK, Running, Family
<1>8. CASE fork(c, p)
  BY SMTT(30), <1>8 DEF fork, LockInv, WaitInv, TypeOK, Family
<1>9. CASE fork_fails(c, p)
  <2>1. pc[p] = "fork_copy" /\ np[p] # None
    BY <1>9 DEF fork_fails, LockInv, Forks, Forking
  <2>2. /\ np[p] \in Slots /\ state[np[p]] = "USED" /\ pc[np[p]] = "unused"
        /\ \A s \in Slots : np[s] = np[p] => s = p
    BY <2>1 DEF LockInv, TypeOK, Forks
  <2>3. /\ pc'[p] = "user" /\ \A s \in Slots : s # p => pc'[s] = pc[s]
        /\ np'[p] = None /\ \A s \in Slots : s # p => np'[s] = np[s]
    BY <1>9 DEF fork_fails, LockInv, TypeOK
  <2>4. Free(np[p]) /\ UNCHANGED ret
    BY <1>9 DEF fork_fails
  <2>5. np[p] # p
    BY <2>1, <2>2
  <2>6. pc'[np[p]] = "unused"
    BY <2>2, <2>3, <2>5
  <2>7. \A s \in Slots : np'[s] \in {np[s], None} /\ np'[s] # np[p]
    BY <2>2, <2>3
  <2> QED BY <2>2, <2>3, <2>4, <2>6, <2>7, FamilyFree
<1>10. CASE fork_copy(c, p)
  BY SMTT(30), <1>10 DEF fork_copy, LockInv, WaitInv, TypeOK, Family
<1>11. CASE fork_parent(c, p)
  BY SMTT(30), <1>11 DEF fork_parent, LockInv, WaitInv, TypeOK, Running, Family
<1>12. CASE fork_run(c, p)
  BY SMTT(30), <1>12 DEF fork_run, LockInv, WaitInv, TypeOK, Family
<1>13. CASE exit(c, p)
  BY <1>13, FamilyMove DEF exit
<1>14. CASE exit_acquire(c, p)
  BY <1>14, FamilyMove DEF exit_acquire, WaitInv, Family
<1>15. CASE reparent(c, p)
  <2>1. /\ On(c, p) /\ pc[p] = "reparent" /\ i' = [i EXCEPT ![p] = 1]
        /\ UNCHANGED <<state, chan, killed, plock, wait_lock, proc, ret, np>>
    BY <1>15 DEF reparent
  <2>2. CASE Children(p) = {}
    <3>1. pc' = [pc EXCEPT ![p] = "wake_parent"] /\ parent' = parent
      BY <1>15, <2>2 DEF reparent
    <3> QED BY SMTT(30), <2>1, <2>2, <3>1 DEF Children, LockInv, WaitInv, TypeOK, Family
  <2>3. CASE Children(p) # {}
    <3>1. PICK q \in Children(p) :
            /\ parent' = [parent EXCEPT ![q] = initproc]
            /\ pc' = [pc EXCEPT ![p] = "wake_init"]
      BY <1>15, <2>3, ReparentChild
    <3> QED BY SMTT(30), <2>1, <3>1 DEF Children, LockInv, WaitInv, TypeOK, Family
  <2> QED BY <2>2, <2>3
<1>16. CASE exit_wakeup(c, p)
  <2>1. p # initproc
    BY <1>16 DEF exit_wakeup, WaitInv, Family
  <2>2. CASE UNCHANGED <<pc, state>>
    BY <1>16, <2>2 DEF exit_wakeup, WaitInv, Family
  <2>3. CASE UNCHANGED state /\ Goto(p, "reparent")
    BY <1>16, <2>1, <2>3, FamilyMove DEF exit_wakeup
  <2>4. CASE UNCHANGED state /\ pc[p] = "wake_parent" /\ Goto(p, "exit_zombie")
    BY SMTT(30), <1>16, <2>4 DEF exit_wakeup, LockInv, WaitInv, TypeOK, Family
  <2>5. CASE /\ UNCHANGED pc /\ i[p] \in Slots /\ state[i[p]] = "SLEEPING"
             /\ state' = [state EXCEPT ![i[p]] = "RUNNABLE"]
    BY <1>16, <2>5, FamilyLive DEF exit_wakeup
  <2> QED BY <1>16, <2>2, <2>3, <2>4, <2>5 DEF exit_wakeup, wakeup
<1>17. CASE exit_zombie(c, p)
  <2>1. pc[p] = "exit_zombie" /\ UNCHANGED <<parent, ret, np>>
    BY <1>17 DEF exit_zombie, locals
  <2>2. /\ state'[p] = "ZOMBIE" /\ \A s \in Slots : s # p => state'[s] = state[s]
        /\ pc'[p] = "sched" /\ \A s \in Slots : s # p => pc'[s] = pc[s]
    BY <1>17 DEF exit_zombie, LockInv, TypeOK
  <2>3. np[p] = None
    BY <2>1 DEF LockInv, Forks, Forking
  <2>4. state[p] = "RUNNING"
    BY <1>17 DEF exit_zombie, LockInv, Running
  <2>5. Family /\ p # initproc
    BY <2>1 DEF WaitInv, Family
  <2>6. ASSUME NEW x \in Slots, parent[x] # None
        PROVE  parent[x] \in Slots /\ parent[x] # p
    <3>1. parent[x] \in Slots
      BY <2>6 DEF LockInv, TypeOK
    <3> QED BY <2>1, <2>5, <2>6, <3>1 DEF Family
  <2>7. ASSUME NEW x \in Slots
        PROVE  /\ parent[x] # None =>
                    /\ state'[parent[x]] \notin {"UNUSED", "USED", "ZOMBIE"}
                    /\ pc'[parent[x]] \notin {"wake_parent", "exit_zombie"}
               /\ state'[x] \notin {"UNUSED", "USED"} /\ x # initproc => parent[x] # None
    BY <2>2, <2>4, <2>5, <2>6 DEF Family
  <2>8. ASSUME NEW x \in Slots, np[x] # None,
               pc'[x] = "fork_run" \/ (pc'[x] \in {"resume", "sched"} /\ ret[x] = "fork_run")
        PROVE  parent[np[x]] # None
    BY <2>2, <2>3, <2>5, <2>8 DEF Family
  <2>9. state'[initproc] \notin {"UNUSED", "USED", "ZOMBIE"} /\ pc'[initproc] \notin InExit
    BY <2>2, <2>5 DEF Family
  <2> QED BY <2>1, <2>7, <2>8, <2>9 DEF Family
<1>18. CASE wait(c, p)
  BY <1>18, FamilyMove DEF wait
<1>19. CASE wait_acquire(c, p)
  BY <1>19, FamilyMove DEF wait_acquire
<1>20. CASE wait_scan(c, p)
  <2>1. PICK q \in ToScan(p) : wait_child(p, q)
    BY <1>20, ScanChild
  <2>2. On(c, p) /\ pc[p] = "wait_scan" /\ UNCHANGED <<plock, proc, ret, np>>
    BY <1>20 DEF wait_scan
  <2>3. q \in Slots /\ parent[q] = p
    BY <2>1 DEF ToScan, Children
  <2>4. CASE UNCHANGED <<state, parent, pc>>
    BY <2>2, <2>4 DEF WaitInv, Family
  <2>5. CASE UNCHANGED <<state, parent>> /\ Goto(p, "user")
    BY <2>2, <2>5, FamilyMove
  <2>6. CASE Free(q) /\ state[q] = "ZOMBIE" /\ pc' = [pc EXCEPT ![p] = "user", ![q] = "unused"]
    <3>1. p # q
      BY <2>3, <2>6 DEF WaitInv, Family
    <3>2. pc'[p] = "user" /\ pc'[q] = "unused"
          /\ \A s \in Slots : s # p /\ s # q => pc'[s] = pc[s]
      BY <2>3, <2>6, <3>1 DEF LockInv, TypeOK
    <3>3. \A s \in Slots : np[s] # q
      BY <2>3, <2>6 DEF LockInv, Forks
    <3> QED BY <2>2, <2>3, <2>6, <3>2, <3>3, FamilyFree
  <2> QED BY <2>1, <2>4, <2>5, <2>6 DEF wait_child
<1>21. CASE wait_check(c, p)
  BY <1>21, FamilyMove DEF wait_check
<1>22. CASE setkilled(c, p)
  BY <1>22 DEF setkilled, WaitInv, Family
<1>23. ASSUME NEW q \in Killable, kill(c, p, q) PROVE Family'
  BY <1>23, FamilyLive DEF kill, WaitInv, Family
<1> QED BY <1>1, <1>2, <1>3, <1>4, <1>5, <1>6, <1>7, <1>8, <1>9, <1>10, <1>11,
   <1>12, <1>13, <1>14, <1>15, <1>16, <1>17, <1>18, <1>19, <1>20, <1>21,
   <1>22, <1>23 DEF Step, Kernel

\* Steps keep the loops' indices.
LEMMA InLoopStep ==
  ASSUME LockInv, WaitInv, NEW c \in CPUs, NEW p \in Slots, Step(c, p)
  PROVE  InLoop'
<1>1. CASE scheduler(c, p)
  BY <1>1 DEF scheduler, LockInv, WaitInv, TypeOK, InLoop
<1>2. CASE resume(c, p)
  BY <1>2 DEF resume, LockInv, WaitInv, TypeOK, InLoop
<1>3. CASE sched(c, p)
  BY <1>3 DEF sched, LockInv, WaitInv, TypeOK, InLoop
<1>4. CASE yield(c, p)
  BY <1>4 DEF yield, LockInv, WaitInv, TypeOK, InLoop
<1>5. CASE sleep1(c, p)
  BY <1>5 DEF sleep1, LockInv, WaitInv, TypeOK, InLoop
<1>6. CASE sleep2(c, p)
  BY <1>6 DEF sleep2, LockInv, WaitInv, TypeOK, InLoop
<1>7. CASE sleep3(c, p)
  BY <1>7 DEF sleep3, LockInv, WaitInv, TypeOK, InLoop
<1>8. CASE fork(c, p)
  BY SMTT(30), <1>8 DEF fork, LockInv, WaitInv, TypeOK, InLoop
<1>9. CASE fork_fails(c, p)
  BY <1>9 DEF fork_fails, Free, LockInv, WaitInv, TypeOK, InLoop
<1>10. CASE fork_copy(c, p)
  BY <1>10 DEF fork_copy, LockInv, WaitInv, TypeOK, InLoop
<1>11. CASE fork_parent(c, p)
  BY <1>11 DEF fork_parent, LockInv, WaitInv, TypeOK, InLoop
<1>12. CASE fork_run(c, p)
  BY <1>12 DEF fork_run, LockInv, WaitInv, TypeOK, InLoop
<1>13. CASE exit(c, p)
  BY <1>13 DEF exit, LockInv, WaitInv, TypeOK, InLoop
<1>14. CASE exit_acquire(c, p)
  BY <1>14 DEF exit_acquire, LockInv, WaitInv, TypeOK, InLoop
<1>15. CASE reparent(c, p)
  <2>1. /\ On(c, p) /\ pc[p] = "reparent" /\ i' = [i EXCEPT ![p] = 1]
        /\ UNCHANGED <<state, chan, killed, plock, wait_lock, proc, ret, np>>
    BY <1>15 DEF reparent
  <2>2. CASE Children(p) = {}
    <3>1. pc' = [pc EXCEPT ![p] = "wake_parent"] /\ parent' = parent
      BY <1>15, <2>2 DEF reparent
    <3> QED BY SMTT(30), <2>1, <2>2, <3>1 DEF Children, LockInv, WaitInv, TypeOK, InLoop
  <2>3. CASE Children(p) # {}
    <3>1. PICK q \in Children(p) :
            /\ parent' = [parent EXCEPT ![q] = initproc]
            /\ pc' = [pc EXCEPT ![p] = "wake_init"]
      BY <1>15, <2>3, ReparentChild
    <3> QED BY SMTT(30), <2>1, <3>1 DEF Children, LockInv, WaitInv, TypeOK, InLoop
  <2> QED BY <2>2, <2>3
<1>16. CASE exit_wakeup(c, p)
  BY SMTT(30), <1>16 DEF exit_wakeup, wakeup, LockInv, WaitInv, TypeOK, InLoop
<1>17. CASE exit_zombie(c, p)
  BY <1>17 DEF exit_zombie, LockInv, WaitInv, TypeOK, InLoop
<1>18. CASE wait(c, p)
  BY <1>18 DEF wait, LockInv, WaitInv, TypeOK, InLoop
<1>19. CASE wait_acquire(c, p)
  BY <1>19 DEF wait_acquire, LockInv, WaitInv, TypeOK, InLoop
<1>20. CASE wait_scan(c, p)
  <2>1. PICK q \in ToScan(p) : wait_child(p, q) /\ \A y \in ToScan(p) : q <= y
    BY <1>20, ScanChild
  <2>2. On(c, p) /\ pc[p] = "wait_scan" /\ UNCHANGED <<plock, proc, ret, np>>
    BY <1>20 DEF wait_scan
  <2> QED BY SMTT(30), <2>1, <2>2 DEF LockInv, WaitInv, TypeOK, InLoop,
       wait_child, ToScan, Children, Free
<1>21. CASE wait_check(c, p)
  BY <1>21 DEF wait_check, LockInv, WaitInv, TypeOK, InLoop
<1>22. CASE setkilled(c, p)
  BY <1>22 DEF setkilled, LockInv, WaitInv, TypeOK, InLoop
<1>23. ASSUME NEW q \in Killable, kill(c, p, q) PROVE InLoop'
  BY <1>23 DEF kill, LockInv, WaitInv, TypeOK, InLoop
<1> QED BY <1>1, <1>2, <1>3, <1>4, <1>5, <1>6, <1>7, <1>8, <1>9, <1>10, <1>11,
   <1>12, <1>13, <1>14, <1>15, <1>16, <1>17, <1>18, <1>19, <1>20, <1>21,
   <1>22, <1>23 DEF Step, Kernel

\* Steps keep that no sleeper has an exited child, but for initproc while its
\* wakeup is under way.
LEMMA NoneMissedStep ==
  ASSUME LockInv, WaitInv, NEW c \in CPUs, NEW p \in Slots, Step(c, p)
  PROVE  NoneMissed'
<1>1. CASE scheduler(c, p)
  BY <1>1 DEF scheduler, LockInv, WaitInv, TypeOK, NoneMissed, Asleep
<1>2. CASE resume(c, p)
  BY <1>2 DEF resume, LockInv, WaitInv, TypeOK, NoneMissed, Asleep
<1>3. CASE sched(c, p)
  BY <1>3 DEF sched, LockInv, WaitInv, TypeOK, NoneMissed, Asleep
<1>4. CASE yield(c, p)
  BY SMTT(30), <1>4 DEF yield, LockInv, WaitInv, TypeOK, NoneMissed, Asleep
<1>5. CASE sleep1(c, p)
  BY SMTT(30), <1>5 DEF sleep1, LockInv, WaitInv, TypeOK, NoneMissed, Asleep
<1>6. CASE sleep2(c, p)
  BY SMTT(30), <1>6 DEF sleep2, LockInv, WaitInv, TypeOK, NoneMissed, Asleep
<1>7. CASE sleep3(c, p)
  BY <1>7 DEF sleep3, LockInv, WaitInv, TypeOK, NoneMissed, Asleep
<1>8. CASE fork(c, p)
  BY SMTT(30), <1>8 DEF fork, LockInv, WaitInv, TypeOK, NoneMissed, Asleep
<1>9. CASE fork_fails(c, p)
  BY <1>9 DEF fork_fails, Free, LockInv, WaitInv, TypeOK, NoneMissed, Asleep
<1>10. CASE fork_copy(c, p)
  BY SMTT(30), <1>10 DEF fork_copy, LockInv, WaitInv, TypeOK, Forks, Forking,
     NoneMissed, Asleep
<1>11. CASE fork_parent(c, p)
  BY SMTT(30), <1>11 DEF fork_parent, LockInv, WaitInv, TypeOK, Running, NoneMissed,
     Asleep
<1>12. CASE fork_run(c, p)
  BY SMTT(30), <1>12 DEF fork_run, LockInv, WaitInv, TypeOK, NoneMissed, Asleep
<1>13. CASE exit(c, p)
  BY <1>13 DEF exit, LockInv, WaitInv, TypeOK, NoneMissed, Asleep
<1>14. CASE exit_acquire(c, p)
  BY <1>14 DEF exit_acquire, LockInv, WaitInv, TypeOK, NoneMissed, Asleep
<1>15. CASE reparent(c, p)
  <2>1. /\ On(c, p) /\ pc[p] = "reparent" /\ i' = [i EXCEPT ![p] = 1]
        /\ UNCHANGED <<state, chan, killed, plock, wait_lock, proc, ret, np>>
    BY <1>15 DEF reparent
  <2>2. CASE Children(p) = {}
    <3>1. pc' = [pc EXCEPT ![p] = "wake_parent"] /\ parent' = parent
      BY <1>15, <2>2 DEF reparent
    <3> QED BY <2>1, <2>2, <3>1 DEF Children, LockInv, WaitInv, TypeOK, NoneMissed, Asleep
  <2>3. CASE Children(p) # {}
    <3>1. PICK q \in Children(p) :
            /\ parent' = [parent EXCEPT ![q] = initproc]
            /\ pc' = [pc EXCEPT ![p] = "wake_init"]
      BY <1>15, <2>3, ReparentChild
    <3> QED BY <2>1, <3>1 DEF Children, LockInv, WaitInv, TypeOK, NoneMissed, Asleep
  <2> QED BY <2>2, <2>3
<1>16. CASE exit_wakeup(c, p)
  <2> SUFFICES ASSUME NEW a \in Slots, NEW b \in Slots,
                      parent'[b] = a, state'[b] = "ZOMBIE", Asleep(a)'
               PROVE  FALSE
    BY DEF NoneMissed
  <2>1. pc[p] \in Waiting /\ p # initproc /\ parent' = parent
    BY <1>16 DEF exit_wakeup, LockInv, WaitInv, Family
  <2>2. parent[b] = a /\ state[b] = "ZOMBIE" /\ Asleep(a)
    BY SMTT(30), <1>16, <2>1 DEF exit_wakeup, wakeup, Asleep, LockInv, WaitInv, TypeOK
  <2>3. a = initproc /\ \E e \in Slots : pc[e] = "wake_init" /\ i[e] = 1
    BY <2>2 DEF LockInv, WaitInv, NoneMissed
  <2>4. pc[p] = "wake_init" /\ i[p] = initproc
    BY <2>1, <2>3, OneWaiting DEF initproc
  <2>5. wakeup(p, initproc) /\ pc' = pc
    BY <1>16, <2>4 DEF exit_wakeup
  <2>6. plock[initproc] = None
    BY <2>1, <2>4, <2>5 DEF wakeup
  <2>7. state[initproc] = "SLEEPING" /\ chan[initproc] = initproc
    BY <2>1, <2>2, <2>3, <2>6, FreeSleeper
  <2>8. state'[initproc] = "RUNNABLE"
    BY <2>1, <2>4, <2>5, <2>7 DEF wakeup, LockInv, WaitInv, TypeOK
  <2>9. pc'[initproc] \notin InSleep
    BY <2>5, <2>7, SleeperPlace
  <2> QED BY <2>3, <2>8, <2>9 DEF Asleep
<1>17. CASE exit_zombie(c, p)
  BY SMTT(30), <1>17 DEF exit_zombie, LockInv, WaitInv, TypeOK, Running, Resting, Held,
     Forks, Forking, Family, OwnChannel, NoneMissed, ParentAwake, Asleep
<1>18. CASE wait(c, p)
  BY <1>18 DEF wait, LockInv, WaitInv, TypeOK, NoneMissed, Asleep
<1>19. CASE wait_acquire(c, p)
  BY <1>19 DEF wait_acquire, LockInv, WaitInv, TypeOK, NoneMissed, Asleep
<1>20. CASE wait_scan(c, p)
  <2>1. PICK q \in ToScan(p) : wait_child(p, q)
    BY <1>20, ScanChild
  <2>2. On(c, p) /\ pc[p] = "wait_scan" /\ q \in Slots
    BY <1>20, <2>1 DEF wait_scan, ToScan, Children
  <2>3. \A e \in Slots : pc[e] # "wake_init"
    BY <2>2, OneWaiting
  <2>4. \A a, b \in Slots : parent[b] = a /\ state[b] = "ZOMBIE" => ~Asleep(a)
    BY <2>3 DEF LockInv, WaitInv, NoneMissed
  <2>5. \A a \in Slots : Asleep(a)' => Asleep(a)
    BY SMTT(30), <2>1, <2>2 DEF wait_child, Free, Asleep, LockInv, WaitInv, TypeOK
  <2>6. \A b \in Slots : state'[b] = "ZOMBIE" => state[b] = "ZOMBIE" /\ parent'[b] = parent[b]
    BY SMTT(30), <2>1, <2>2 DEF wait_child, Free, LockInv, WaitInv, TypeOK
  <2> QED BY <2>4, <2>5, <2>6 DEF NoneMissed
<1>21. CASE wait_check(c, p)
  <2>1. \A q \in Slots : parent[q] = p => state[q] # "ZOMBIE"
    BY SMTT(30), <1>21 DEF wait_check, ToScan, Children, LockInv, WaitInv, TypeOK, NonePassed
  <2>2. \A a \in Slots : Asleep(a)' => a = p \/ Asleep(a)
    BY SMTT(30), <1>21 DEF wait_check, Asleep, LockInv, WaitInv, TypeOK
  <2>3. \A e \in Slots : pc[e] # "wake_init"
    BY <1>21, OneWaiting DEF wait_check
  <2>4. UNCHANGED <<parent, state>>
    BY <1>21 DEF wait_check
  <2> QED BY <2>1, <2>2, <2>3, <2>4 DEF NoneMissed, LockInv, WaitInv
<1>22. CASE setkilled(c, p)
  BY SMTT(30), <1>22 DEF setkilled, LockInv, WaitInv, TypeOK, NoneMissed, Asleep
<1>23. ASSUME NEW q \in Killable, kill(c, p, q) PROVE NoneMissed'
  BY <1>23 DEF kill, LockInv, WaitInv, TypeOK, NoneMissed, Asleep
<1> QED BY <1>1, <1>2, <1>3, <1>4, <1>5, <1>6, <1>7, <1>8, <1>9, <1>10, <1>11,
   <1>12, <1>13, <1>14, <1>15, <1>16, <1>17, <1>18, <1>19, <1>20, <1>21,
   <1>22, <1>23 DEF Step, Kernel

\* Steps keep that the parent of a process about to be a zombie is awake: it can
\* sleep only with wait_lock, which the process has.
LEMMA ParentAwakeStep ==
  ASSUME LockInv, WaitInv, NEW c \in CPUs, NEW p \in Slots, Step(c, p)
  PROVE  ParentAwake'
<1>1. CASE scheduler(c, p)
  BY <1>1 DEF scheduler, LockInv, WaitInv, TypeOK, ParentAwake, Asleep
<1>2. CASE resume(c, p)
  BY <1>2 DEF resume, LockInv, WaitInv, TypeOK, ParentAwake, Asleep
<1>3. CASE sched(c, p)
  BY <1>3 DEF sched, LockInv, WaitInv, TypeOK, ParentAwake, Asleep
<1>4. CASE yield(c, p)
  BY SMTT(30), <1>4 DEF yield, LockInv, WaitInv, TypeOK, ParentAwake, Asleep
<1>5. CASE sleep1(c, p)
  BY SMTT(30), <1>5 DEF sleep1, LockInv, WaitInv, TypeOK, ParentAwake, Asleep
<1>6. CASE sleep2(c, p)
  BY <1>6 DEF sleep2, LockInv, WaitInv, TypeOK, ParentAwake, Asleep
<1>7. CASE sleep3(c, p)
  BY <1>7 DEF sleep3, LockInv, WaitInv, TypeOK, ParentAwake, Asleep
<1>8. CASE fork(c, p)
  BY SMTT(30), <1>8 DEF fork, LockInv, WaitInv, TypeOK, ParentAwake, Asleep
<1>9. CASE fork_fails(c, p)
  BY <1>9 DEF fork_fails, Free, LockInv, WaitInv, TypeOK, ParentAwake, Asleep
<1>10. CASE fork_copy(c, p)
  BY <1>10 DEF fork_copy, LockInv, WaitInv, TypeOK, ParentAwake, Asleep
<1>11. CASE fork_parent(c, p)
  BY SMTT(30), <1>11 DEF fork_parent, LockInv, WaitInv, TypeOK, Running, ParentAwake,
     Asleep
<1>12. CASE fork_run(c, p)
  BY SMTT(30), <1>12 DEF fork_run, LockInv, WaitInv, TypeOK, ParentAwake, Asleep
<1>13. CASE exit(c, p)
  BY <1>13 DEF exit, LockInv, WaitInv, TypeOK, ParentAwake, Asleep
<1>14. CASE exit_acquire(c, p)
  BY <1>14 DEF exit_acquire, LockInv, WaitInv, TypeOK, ParentAwake, Asleep
<1>15. CASE reparent(c, p)
  <2>1. pc[p] \in Waiting /\ p \in Slots
    BY <1>15 DEF reparent
  <2>2. \A b \in Slots : pc[b] \notin {"exit_zombie", "wake_parent"}
    BY <1>15, <2>1, OneWaiting DEF reparent
  <2>3. \A b \in Slots : pc'[b] \in {"exit_zombie", "wake_parent"} =>
          b = p /\ i'[b] = 1 /\ UNCHANGED <<parent, state>> /\ Children(p) = {}
    BY <1>15, <2>2 DEF reparent, LockInv, WaitInv, TypeOK
  <2>4. \A b \in Slots : parent[b] # p \/ Children(p) # {}
    BY DEF Children
  <2>5. pc'[p] \in {"wake_parent", "wake_init"} /\ state[p] = "RUNNING"
    BY SMTT(30), <1>15 DEF reparent, LockInv, WaitInv, TypeOK, Running
  <2>6. ASSUME NEW a \in Slots, NEW b \in Slots, parent'[b] = a,
               (pc[b] = "exit_zombie" \/ (pc[b] = "wake_parent" /\ i[b] > a))'
        PROVE  FALSE
    BY SMTT(30), <2>3, <2>5, <2>6
  <2> QED BY <2>6 DEF ParentAwake
<1>16. CASE exit_wakeup(c, p)
  <2> SUFFICES ASSUME NEW a \in Slots, NEW b \in Slots,
                      parent'[b] = a, Asleep(a)',
                      (pc[b] = "exit_zombie" \/ (pc[b] = "wake_parent" /\ i[b] > a))'
               PROVE  FALSE
    BY DEF ParentAwake
  <2>1. pc[p] \in Waiting /\ parent' = parent /\ state[p] = "RUNNING"
    BY <1>16 DEF exit_wakeup, LockInv, WaitInv, Running
  <2>2. Asleep(a) /\ a # p
    BY SMTT(30), <1>16, <2>1 DEF exit_wakeup, wakeup, Asleep, LockInv, WaitInv, TypeOK
  <2>3. b = p
    <3>1. CASE b # p
      <4>1. pc[b] \in Waiting
        BY <1>16, <3>1 DEF exit_wakeup, LockInv, WaitInv, TypeOK
      <4> QED BY <2>1, <3>1, <4>1, OneWaiting
    <3> QED BY <3>1
  <2>4. pc[p] = "wake_parent" /\ ~(i[p] > a)
    BY <1>16, <2>2, <2>3 DEF exit_wakeup, LockInv, WaitInv, TypeOK, ParentAwake
  <2>5. wakeup(p, a) /\ i[p] = a /\ pc' = pc
    <3>1. parent[p] = a /\ i[p] \in Slots
      BY SMTT(30), <2>1, <2>3, <2>4 DEF LockInv, WaitInv, TypeOK, InLoop, Slots
    <3>2. wakeup(p, a) /\ pc' = pc
      BY <1>16, <2>4, <3>1 DEF exit_wakeup
    <3>3. i'[p] > a /\ i'[p] = i[p] + 1
      BY <2>3, <2>4, <3>2 DEF wakeup, LockInv, WaitInv, TypeOK
    <3> QED BY SMTT(30), <2>4, <3>1, <3>2, <3>3
  <2>6. plock[a] = None
    BY <2>2, <2>5 DEF wakeup
  <2>7. state[a] = "SLEEPING" /\ chan[a] = a
    BY <2>1, <2>2, <2>6, FreeSleeper
  <2>8. state'[a] = "RUNNABLE"
    BY <2>2, <2>5, <2>7 DEF wakeup, LockInv, WaitInv, TypeOK
  <2>9. pc'[a] \notin InSleep
    BY <2>5, <2>7, SleeperPlace
  <2> QED BY <2>8, <2>9 DEF Asleep
<1>17. CASE exit_zombie(c, p)
  BY SMTT(30), <1>17 DEF exit_zombie, LockInv, WaitInv, TypeOK, ParentAwake, Asleep
<1>18. CASE wait(c, p)
  BY <1>18 DEF wait, LockInv, WaitInv, TypeOK, ParentAwake, Asleep
<1>19. CASE wait_acquire(c, p)
  BY <1>19 DEF wait_acquire, LockInv, WaitInv, TypeOK, ParentAwake, Asleep
<1>20. CASE wait_scan(c, p)
  <2>1. PICK q \in ToScan(p) : wait_child(p, q) /\ \A y \in ToScan(p) : q <= y
    BY <1>20, ScanChild
  <2>2. On(c, p) /\ pc[p] = "wait_scan" /\ UNCHANGED <<plock, proc, ret, np>>
    BY <1>20 DEF wait_scan
  <2> QED BY SMTT(30), <2>1, <2>2 DEF LockInv, WaitInv, TypeOK, ParentAwake, Asleep,
       wait_child, ToScan, Children, Free
<1>21. CASE wait_check(c, p)
  <2>1. \A q \in Slots : pc[q] \notin {"exit_zombie", "wake_parent"}
    BY <1>21, OneWaiting DEF wait_check
  <2>2. \A q \in Slots : pc'[q] \notin {"exit_zombie", "wake_parent"}
    BY <1>21, <2>1 DEF wait_check, LockInv, WaitInv, TypeOK
  <2> QED BY <2>2 DEF ParentAwake
<1>22. CASE setkilled(c, p)
  BY <1>22 DEF setkilled, LockInv, WaitInv, TypeOK, ParentAwake, Asleep
<1>23. ASSUME NEW q \in Killable, kill(c, p, q) PROVE ParentAwake'
  BY <1>23 DEF kill, LockInv, WaitInv, TypeOK, ParentAwake, Asleep
<1> QED BY <1>1, <1>2, <1>3, <1>4, <1>5, <1>6, <1>7, <1>8, <1>9, <1>10, <1>11,
   <1>12, <1>13, <1>14, <1>15, <1>16, <1>17, <1>18, <1>19, <1>20, <1>21,
   <1>22, <1>23 DEF Step, Kernel

\* Steps keep that wait() passes no zombie: a child exits with wait_lock only.
LEMMA NonePassedStep ==
  ASSUME LockInv, WaitInv, NEW c \in CPUs, NEW p \in Slots, Step(c, p)
  PROVE  NonePassed'
<1>1. CASE scheduler(c, p)
  BY <1>1 DEF scheduler, LockInv, WaitInv, TypeOK, NonePassed
<1>2. CASE resume(c, p)
  BY <1>2 DEF resume, LockInv, WaitInv, TypeOK, NonePassed
<1>3. CASE sched(c, p)
  BY <1>3 DEF sched, LockInv, WaitInv, TypeOK, NonePassed
<1>4. CASE yield(c, p)
  BY <1>4 DEF yield, LockInv, WaitInv, TypeOK, NonePassed
<1>5. CASE sleep1(c, p)
  BY <1>5 DEF sleep1, LockInv, WaitInv, TypeOK, NonePassed
<1>6. CASE sleep2(c, p)
  BY <1>6 DEF sleep2, LockInv, WaitInv, TypeOK, NonePassed
<1>7. CASE sleep3(c, p)
  BY <1>7 DEF sleep3, LockInv, WaitInv, TypeOK, NonePassed
<1>8. CASE fork(c, p)
  BY SMTT(30), <1>8 DEF fork, LockInv, WaitInv, TypeOK, NonePassed
<1>9. CASE fork_fails(c, p)
  BY <1>9 DEF fork_fails, Free, LockInv, WaitInv, TypeOK, NonePassed
<1>10. CASE fork_copy(c, p)
  BY <1>10 DEF fork_copy, LockInv, WaitInv, TypeOK, NonePassed
<1>11. CASE fork_parent(c, p)
  BY <1>11 DEF fork_parent, LockInv, WaitInv, TypeOK, NonePassed
<1>12. CASE fork_run(c, p)
  BY <1>12 DEF fork_run, LockInv, WaitInv, TypeOK, NonePassed
<1>13. CASE exit(c, p)
  BY <1>13 DEF exit, LockInv, WaitInv, TypeOK, NonePassed
<1>14. CASE exit_acquire(c, p)
  BY <1>14 DEF exit_acquire, LockInv, WaitInv, TypeOK, NonePassed
<1>15. CASE reparent(c, p)
  <2>1. \A a \in Slots : pc[a] # "wait_scan"
    BY <1>15, OneWaiting DEF reparent
  <2>2. \A a \in Slots : pc'[a] # "wait_scan"
    BY <1>15, <2>1 DEF reparent, LockInv, WaitInv, TypeOK
  <2> QED BY <2>2 DEF NonePassed
<1>16. CASE exit_wakeup(c, p)
  BY SMTT(30), <1>16 DEF exit_wakeup, wakeup, LockInv, WaitInv, TypeOK, NonePassed
<1>17. CASE exit_zombie(c, p)
  <2>1. \A a \in Slots : pc[a] # "wait_scan"
    BY <1>17, OneWaiting DEF exit_zombie
  <2>2. \A a \in Slots : pc'[a] # "wait_scan"
    BY <1>17, <2>1 DEF exit_zombie, LockInv, WaitInv, TypeOK
  <2> QED BY <2>2 DEF NonePassed
<1>18. CASE wait(c, p)
  BY <1>18 DEF wait, LockInv, WaitInv, TypeOK, NonePassed
<1>19. CASE wait_acquire(c, p)
  BY SMTT(30), <1>19 DEF wait_acquire, LockInv, WaitInv, TypeOK, NonePassed
<1>20. CASE wait_scan(c, p)
  <2>1. PICK q \in ToScan(p) : wait_child(p, q) /\ \A y \in ToScan(p) : q <= y
    BY <1>20, ScanChild
  <2>2. On(c, p) /\ pc[p] = "wait_scan" /\ q \in Slots
    BY <1>20, <2>1 DEF wait_scan, ToScan, Children
  <2>3. \A a \in Slots : pc[a] = "wait_scan" => a = p
    BY <2>2, OneWaiting
  <2>4. CASE pc'[p] = "user"
    <3>1. \A a \in Slots : pc'[a] # "wait_scan"
      BY SMTT(30), <2>1, <2>2, <2>3, <2>4 DEF wait_child, LockInv, WaitInv, TypeOK
    <3> QED BY <3>1 DEF NonePassed
  <2>5. CASE state[q] # "ZOMBIE"
    <3>1. i'[p] = q + 1 /\ UNCHANGED <<state, parent, pc>>
      BY <2>1, <2>2, <2>5 DEF wait_child, LockInv, WaitInv, TypeOK
    <3>2. \A y \in Slots : parent[y] = p /\ y < q + 1 => y = q \/ y < i[p]
      <4> TAKE y \in Slots
      <4>1. CASE y >= i[p] /\ parent[y] = p
        BY SMTT(30), <2>1, <2>2, <4>1 DEF ToScan, Children
      <4> QED BY SMTT(30), <2>2, <4>1 DEF LockInv, WaitInv, TypeOK
    <3> QED BY <2>2, <2>3, <2>5, <3>1, <3>2 DEF NonePassed, LockInv, WaitInv
  <2> QED BY SMTT(30), <2>1, <2>2, <2>4, <2>5 DEF wait_child, LockInv, WaitInv, TypeOK
<1>21. CASE wait_check(c, p)
  <2>1. pc \in [Slots -> PCs] /\ UNCHANGED <<state, parent>>
    BY <1>21 DEF wait_check, LockInv, TypeOK
  <2>2. \A a \in Slots : pc'[a] = "wait_scan" => a # p /\ pc[a] = "wait_scan"
    BY <1>21, <2>1 DEF wait_check
  <2>3. \A a \in Slots : a # p => i'[a] = i[a]
    BY <1>21 DEF wait_check, LockInv, TypeOK
  <2> QED BY <2>1, <2>2, <2>3 DEF WaitInv, NonePassed
<1>22. CASE setkilled(c, p)
  BY <1>22 DEF setkilled, LockInv, WaitInv, TypeOK, NonePassed
<1>23. ASSUME NEW q \in Killable, kill(c, p, q) PROVE NonePassed'
  BY <1>23 DEF kill, LockInv, WaitInv, TypeOK, NonePassed
<1> QED BY <1>1, <1>2, <1>3, <1>4, <1>5, <1>6, <1>7, <1>8, <1>9, <1>10, <1>11,
   <1>12, <1>13, <1>14, <1>15, <1>16, <1>17, <1>18, <1>19, <1>20, <1>21,
   <1>22, <1>23 DEF Step, Kernel

\* The invariant holds when userinit() is done.
LEMMA InitWaitInv == Init => WaitInv
<1> SUFFICES ASSUME Init PROVE WaitInv
  OBVIOUS
<1>1. Family
  BY DEF Init, Family
<1>2. InLoop /\ NoneMissed /\ ParentAwake /\ NonePassed
  BY DEF Init, InLoop, NoneMissed, ParentAwake, NonePassed
<1> QED BY <1>1, <1>2 DEF WaitInv

\* Every step keeps it, in the states that the invariant of the locks allows.
LEMMA NextWaitInv == LockInv /\ WaitInv /\ [Next]_vars => WaitInv'
<1> SUFFICES ASSUME LockInv, WaitInv, [Next]_vars PROVE WaitInv'
  OBVIOUS
<1>1. ASSUME Next PROVE WaitInv'
  <2>1. PICK c \in CPUs, p \in Slots : Step(c, p)
    BY <1>1, NextIsStep
  <2> QED BY <2>1, FamilyStep, InLoopStep, NoneMissedStep, ParentAwakeStep,
             NonePassedStep DEF WaitInv
<1>2. CASE UNCHANGED vars
  <2>1. Family' /\ InLoop'
    BY <1>2 DEF vars, WaitInv, Family, InLoop
  <2>2. NoneMissed' /\ ParentAwake' /\ NonePassed'
    BY <1>2 DEF vars, WaitInv, NoneMissed, ParentAwake, NonePassed, Asleep
  <2> QED BY <2>1, <2>2 DEF WaitInv
<1> QED BY <1>1, <1>2

\* Both invariants hold in every reachable state.
THEOREM WaitInvariance == Spec => [](LockInv /\ WaitInv)
<1> QED BY LockInvariance, InitWaitInv, NextWaitInv, PTL DEF Spec

----------------------------------------------------------------------------
(* Theorems *)

\* Every process has a live parent, for every number of CPUs and of slots: a
\* fork() and an exit() on two CPUs never leave a child that nobody waits for.
THEOREM ParentsLive == Spec => []LiveParent
<1>1. LockInv /\ WaitInv => LiveParent
  BY DEF WaitInv, Family, LiveParent
<1> QED BY <1>1, WaitInvariance, PTL

\* Nobody sleeps in wait() over an exited child, for every number of CPUs and
\* of slots: the wakeups of exit() and reparent() always come in time.
THEOREM NoExitMissed == Spec => []NoMissedExit
<1>1. LockInv /\ WaitInv => NoMissedExit
  <2> SUFFICES ASSUME LockInv, WaitInv, wait_lock = None,
                      NEW p \in Slots, state[p] = "SLEEPING",
                      NEW q \in Children(p), state[q] = "ZOMBIE"
               PROVE  FALSE
    BY DEF NoMissedExit
  <2>1. PICK e \in Slots : pc[e] = "wake_init"
    BY DEF WaitInv, NoneMissed, Asleep, Children
  <2>2. PICK c \in CPUs : On(c, e)
    BY <2>1 DEF LockInv, Resting
  <2> QED BY SMTT(30), <2>1, <2>2 DEF LockInv, Running
<1> QED BY <1>1, WaitInvariance, PTL

=============================================================================
