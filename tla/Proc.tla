-------------------------------- MODULE Proc --------------------------------
(***************************************************************************)
(* Processes and the scheduler (kernel/proc.c): fork, exit, wait, kill,    *)
(* yield, sleep and wakeup, run by several CPUs over one process table.    *)
(*                                                                         *)
(* Granularity.  Each p->lock and wait_lock are modelled.  What a CPU does *)
(* between two points where another CPU could tell the difference is one   *)
(* step: a section under one lock that takes no second lock, or the        *)
(* stretch from one acquire to the next.  A lock records the CPU that      *)
(* holds it, as lk->cpu does, and swtch() carries p->lock from the process *)
(* to the scheduler and back.                                              *)
(*                                                                         *)
(* A slot of proc[] is a number; pids are left out, since a pid names the  *)
(* slot that kill() finds.  Memory, files and the exit status are left out *)
(* as well; the failures they can cause in fork and wait are not.          *)
(***************************************************************************)
EXTENDS Integers, FiniteSets

CONSTANTS
  NSLOT,     \* NPROC
  CPUs,
  Killable   \* the slots whose processes somebody kills

ASSUME ProcAssumption ==
  /\ NSLOT \in Nat \ {0}
  /\ Killable \subseteq 2..NSLOT     \* without initproc, whose death is a panic
  /\ 0 \notin CPUs /\ CPUs # {}

Slots == 1..NSLOT
initproc == 1
None == 0

VARIABLES
  state, chan, killed, parent,   \* fields of struct proc
  plock,                         \* p->lock: the CPU that holds it, or None
  wait_lock,                     \* likewise
  proc,                          \* c->proc of each CPU
  pc,                            \* where each process is in the kernel
  ret,                           \* where it goes on after sched() returns
  i,                             \* loop index of wakeup() or wait()
  np                             \* fork()'s child

vars == <<state, chan, killed, parent, plock, wait_lock, proc, pc, ret, i, np>>
locals == <<i, np>>

\* pc values.  A process that is not on a CPU is at "resume": its next step is
\* the return of swtch() in sched(), or forkret().
InFork == {"fork_copy", "fork_parent", "fork_run"}
InExit == {"exit", "reparent", "wake_init", "wake_parent", "exit_zombie"}
InWait == {"wait", "wait_scan"}
InSleep == {"sleep1", "sleep2", "sleep3"}
PCs == {"unused", "user", "resume", "sched"} \cup InFork \cup InExit \cup InWait
       \cup InSleep

\* Where an interrupt may make a process yield: it holds no lock there, and
\* does not spin for one.  (A yield in sleep() between the two locks only
\* prolongs the sleep.)
Preemptible == {"user", "fork_parent", "fork_run"}

Children(p) == {q \in Slots : parent[q] = p}
First(S) == {x \in S : \A y \in S : x <= y}
Goto(p, l) == pc' = [pc EXCEPT ![p] = l]
On(c, p) == proc[c] = p

----------------------------------------------------------------------------
(* Scheduling *)

scheduler(c, p) ==
  /\ proc[c] = None /\ plock[p] = None /\ state[p] = "RUNNABLE"
  /\ plock' = [plock EXCEPT ![p] = c]
  /\ state' = [state EXCEPT ![p] = "RUNNING"]
  /\ proc' = [proc EXCEPT ![c] = p]
  /\ UNCHANGED <<chan, killed, parent, wait_lock, pc, ret, locals>>

\* The other end of the switch: sched() returns, or forkret() starts.
resume(c, p) ==
  /\ On(c, p) /\ pc[p] = "resume"
  /\ chan' = [chan EXCEPT ![p] = None]
  /\ plock' = [plock EXCEPT ![p] = None]
  /\ Goto(p, ret[p])
  /\ UNCHANGED <<state, killed, parent, wait_lock, proc, ret, locals>>

\* swtch() to the scheduler, which then releases p->lock.
sched(c, p) ==
  /\ On(c, p) /\ pc[p] = "sched"
  /\ proc' = [proc EXCEPT ![c] = None]
  /\ plock' = [plock EXCEPT ![p] = None]
  /\ Goto(p, "resume")
  /\ UNCHANGED <<state, chan, killed, parent, wait_lock, ret, locals>>

yield(c, p) ==
  /\ On(c, p) /\ pc[p] \in Preemptible /\ plock[p] = None
  /\ pc[p] = "user" => ~killed[p]
  /\ plock' = [plock EXCEPT ![p] = c]
  /\ state' = [state EXCEPT ![p] = "RUNNABLE"]
  /\ ret' = [ret EXCEPT ![p] = pc[p]]
  /\ Goto(p, "sched")
  /\ UNCHANGED <<chan, killed, parent, wait_lock, proc, locals>>

----------------------------------------------------------------------------
(* sleep(p, &wait_lock), and one iteration of wakeup(ch) by process p *)

sleep1(c, p) ==
  /\ On(c, p) /\ pc[p] = "sleep1" /\ plock[p] = None
  /\ plock' = [plock EXCEPT ![p] = c]
  /\ Goto(p, "sleep2")
  /\ UNCHANGED <<state, chan, killed, parent, wait_lock, proc, ret, locals>>

sleep2_keeps_lock(c, p) ==
  /\ On(c, p) /\ pc[p] = "sleep2"
  /\ Goto(p, "sleep3")
  /\ UNCHANGED <<state, chan, killed, parent, plock, wait_lock, proc, ret, locals>>
sleep2(c, p) ==
  /\ On(c, p) /\ pc[p] = "sleep2"
  /\ wait_lock' = None
  /\ Goto(p, "sleep3")
  /\ UNCHANGED <<state, chan, killed, parent, plock, proc, ret, locals>>

sleep3(c, p) ==
  /\ On(c, p) /\ pc[p] = "sleep3"
  /\ chan' = [chan EXCEPT ![p] = p]
  /\ state' = [state EXCEPT ![p] = "SLEEPING"]
  /\ ret' = [ret EXCEPT ![p] = "wait"]
  /\ Goto(p, "sched")
  /\ UNCHANGED <<killed, parent, plock, wait_lock, proc, locals>>

wakeup_unlocked(p, ch) ==
  /\ i[p] \in Slots
  /\ state' = IF i[p] # p /\ state[i[p]] = "SLEEPING" /\ chan[i[p]] = ch
              THEN [state EXCEPT ![i[p]] = "RUNNABLE"] ELSE state
  /\ i' = [i EXCEPT ![p] = @ + 1]
wakeup_sleeping(p, ch) ==
  /\ i[p] \in Slots
  /\ i[p] # p => plock[i[p]] = None
  /\ UNCHANGED state
  /\ i' = [i EXCEPT ![p] = @ + 1]
wakeup(p, ch) ==
  /\ i[p] \in Slots
  /\ i[p] # p => plock[i[p]] = None
  /\ state' = IF i[p] # p /\ state[i[p]] = "SLEEPING" /\ chan[i[p]] = ch
              THEN [state EXCEPT ![i[p]] = "RUNNABLE"] ELSE state
  /\ i' = [i EXCEPT ![p] = @ + 1]

----------------------------------------------------------------------------
(* fork() *)

\* freeproc(), as far as the variables go.
Free(q) ==
  /\ state' = [state EXCEPT ![q] = "UNUSED"]
  /\ parent' = [parent EXCEPT ![q] = None]
  /\ chan' = [chan EXCEPT ![q] = None]
  /\ killed' = [killed EXCEPT ![q] = FALSE]

\* allocproc() returns q with q->lock held.  (With a full table fork() returns
\* at once and changes nothing.)
fork(c, p) ==
  /\ On(c, p) /\ pc[p] = "user" /\ ~killed[p]
  /\ \E q \in Slots :
       /\ state[q] = "UNUSED" /\ plock[q] = None
       /\ state' = [state EXCEPT ![q] = "USED"]
       /\ plock' = [plock EXCEPT ![q] = c]
       /\ np' = [np EXCEPT ![p] = q]
       /\ Goto(p, "fork_copy")
  /\ UNCHANGED <<chan, killed, parent, wait_lock, proc, ret, i>>

\* Memory for the trap frame, the page table or the copy runs out: freeproc().
fork_fails(c, p) ==
  /\ On(c, p) /\ pc[p] = "fork_copy"
  /\ Free(np[p])
  /\ plock' = [plock EXCEPT ![np[p]] = None]
  /\ np' = [np EXCEPT ![p] = None]
  /\ Goto(p, "user")
  /\ UNCHANGED <<wait_lock, proc, ret, i>>

fork_copy(c, p) ==
  /\ On(c, p) /\ pc[p] = "fork_copy"
  /\ plock' = [plock EXCEPT ![np[p]] = None]
  /\ pc' = [pc EXCEPT ![p] = "fork_parent", ![np[p]] = "resume"]
  /\ ret' = [ret EXCEPT ![np[p]] = "user"]
  /\ UNCHANGED <<state, chan, killed, parent, wait_lock, proc, locals>>

fork_parent_skipped(c, p) ==
  /\ On(c, p) /\ pc[p] = "fork_parent" /\ wait_lock = None
  /\ Goto(p, "fork_run")
  /\ UNCHANGED <<state, chan, killed, parent, plock, wait_lock, proc, ret, locals>>
fork_parent(c, p) ==
  /\ On(c, p) /\ pc[p] = "fork_parent" /\ wait_lock = None
  /\ parent' = [parent EXCEPT ![np[p]] = p]
  /\ Goto(p, "fork_run")
  /\ UNCHANGED <<state, chan, killed, plock, wait_lock, proc, ret, locals>>

fork_run(c, p) ==
  /\ On(c, p) /\ pc[p] = "fork_run" /\ plock[np[p]] = None
  /\ state' = [state EXCEPT ![np[p]] = "RUNNABLE"]
  /\ np' = [np EXCEPT ![p] = None]
  /\ Goto(p, "user")
  /\ UNCHANGED <<chan, killed, parent, plock, wait_lock, proc, ret, i>>

----------------------------------------------------------------------------
(* exit() *)

\* A killed process exits at its next trap; initproc never calls exit.
exit(c, p) ==
  /\ On(c, p) /\ pc[p] = "user" /\ p # initproc
  /\ Goto(p, "exit")
  /\ UNCHANGED <<state, chan, killed, parent, plock, wait_lock, proc, ret, locals>>

exit_acquire(c, p) ==
  /\ On(c, p) /\ pc[p] = "exit" /\ wait_lock = None
  /\ wait_lock' = c
  /\ Goto(p, "reparent")
  /\ UNCHANGED <<state, chan, killed, parent, plock, proc, ret, locals>>

reparent(c, p) ==
  /\ On(c, p) /\ pc[p] = "reparent"
  /\ i' = [i EXCEPT ![p] = 1]
  /\ IF Children(p) = {}
     THEN Goto(p, "wake_parent") /\ UNCHANGED parent
     ELSE /\ \E q \in First(Children(p)) : parent' = [parent EXCEPT ![q] = initproc]
          /\ Goto(p, "wake_init")
  /\ UNCHANGED <<state, chan, killed, plock, wait_lock, proc, ret, np>>

exit_wakeup(c, p) ==
  /\ On(c, p) /\ pc[p] \in {"wake_init", "wake_parent"}
  /\ \/ /\ wakeup(p, IF pc[p] = "wake_init" THEN initproc ELSE parent[p])
        /\ UNCHANGED pc
     \/ /\ i[p] \notin Slots
        /\ i' = [i EXCEPT ![p] = 0]
        /\ Goto(p, IF pc[p] = "wake_init" THEN "reparent" ELSE "exit_zombie")
        /\ UNCHANGED state
  /\ UNCHANGED <<chan, killed, parent, plock, wait_lock, proc, ret, np>>

exit_zombie(c, p) ==
  /\ On(c, p) /\ pc[p] = "exit_zombie" /\ plock[p] = None
  /\ plock' = [plock EXCEPT ![p] = c]
  /\ state' = [state EXCEPT ![p] = "ZOMBIE"]
  /\ wait_lock' = None
  /\ Goto(p, "sched")
  /\ UNCHANGED <<chan, killed, parent, proc, ret, locals>>

----------------------------------------------------------------------------
(* wait() *)

wait(c, p) ==
  /\ On(c, p) /\ pc[p] = "user" /\ ~killed[p]
  /\ Goto(p, "wait")
  /\ UNCHANGED <<state, chan, killed, parent, plock, wait_lock, proc, ret, locals>>

\* At the call, or at the end of sleep(); the scan starts.
wait_acquire(c, p) ==
  /\ On(c, p) /\ pc[p] = "wait" /\ wait_lock = None
  /\ wait_lock' = c
  /\ i' = [i EXCEPT ![p] = 1]
  /\ Goto(p, "wait_scan")
  /\ UNCHANGED <<state, chan, killed, parent, plock, proc, ret, np>>

\* The children that the scan has still to look at.
ToScan(p) == {q \in Children(p) : q >= i[p]}

\* One child: free it if it is a zombie, or fail to copy its status out (not
\* in initproc, which calls wait(0)).
wait_child(p, q) ==
  /\ plock[q] = None
  /\ \/ /\ state[q] = "ZOMBIE"
        /\ Free(q) /\ pc' = [pc EXCEPT ![p] = "user", ![q] = "unused"]
        /\ wait_lock' = None /\ i' = [i EXCEPT ![p] = 0]
     \/ /\ state[q] = "ZOMBIE" /\ p # initproc
        /\ wait_lock' = None /\ i' = [i EXCEPT ![p] = 0]
        /\ Goto(p, "user") /\ UNCHANGED <<state, parent, chan, killed>>
     \/ /\ state[q] # "ZOMBIE"
        /\ i' = [i EXCEPT ![p] = q + 1]
        /\ UNCHANGED <<state, parent, chan, killed, wait_lock, pc>>

wait_scan(c, p) ==
  /\ On(c, p) /\ pc[p] = "wait_scan"
  /\ \E q \in First(ToScan(p)) : wait_child(p, q)
  /\ UNCHANGED <<plock, proc, ret, np>>

\* havekids is Children(p) # {}: parent changes under wait_lock only.  The
\* flag is read by killed(p), under p->lock, and only if there are children.
wait_check(c, p) ==
  /\ On(c, p) /\ pc[p] = "wait_scan" /\ ToScan(p) = {}
  /\ i' = [i EXCEPT ![p] = 0]
  /\ \/ /\ Children(p) = {} \/ (plock[p] = None /\ killed[p])
        /\ wait_lock' = None /\ Goto(p, "user")
     \/ /\ Children(p) # {} /\ plock[p] = None /\ ~killed[p]
        /\ Goto(p, "sleep1") /\ UNCHANGED wait_lock
  /\ UNCHANGED <<state, chan, killed, parent, plock, proc, ret, np>>

----------------------------------------------------------------------------
(* kill(pid) finds the slot q under q->lock; setkilled() after a fault *)

\* The pid of a free slot is 0, so kill(0) finds a free slot.
kill(c, p, q) ==
  /\ On(c, p) /\ pc[p] = "user" /\ ~killed[p] /\ plock[q] = None
  /\ killed' = [killed EXCEPT ![q] = TRUE]
  /\ state' = IF state[q] = "SLEEPING" THEN [state EXCEPT ![q] = "RUNNABLE"] ELSE state
  /\ UNCHANGED <<chan, parent, plock, wait_lock, proc, pc, ret, locals>>

setkilled(c, p) ==
  /\ On(c, p) /\ pc[p] = "user" /\ plock[p] = None /\ p \in Killable
  /\ killed' = [killed EXCEPT ![p] = TRUE]
  /\ UNCHANGED <<state, chan, parent, plock, wait_lock, proc, pc, ret, locals>>

----------------------------------------------------------------------------
\* userinit() has made initproc runnable; the CPUs are in scheduler().
Init ==
  /\ state = [p \in Slots |-> IF p = initproc THEN "RUNNABLE" ELSE "UNUSED"]
  /\ chan = [p \in Slots |-> None] /\ killed = [p \in Slots |-> FALSE]
  /\ parent = [p \in Slots |-> None] /\ plock = [p \in Slots |-> None]
  /\ wait_lock = None /\ proc = [c \in CPUs |-> None]
  /\ pc = [p \in Slots |-> IF p = initproc THEN "resume" ELSE "unused"]
  /\ ret = [p \in Slots |-> "user"]
  /\ i = [p \in Slots |-> 0] /\ np = [p \in Slots |-> None]

\* The steps that a process in the kernel takes whether it wants to or not.
Kernel(c, p) ==
  \/ resume(c, p) \/ sched(c, p)
  \/ sleep1(c, p) \/ sleep2(c, p) \/ sleep3(c, p)
  \/ fork_fails(c, p) \/ fork_copy(c, p) \/ fork_parent(c, p) \/ fork_run(c, p)
  \/ exit_acquire(c, p) \/ reparent(c, p) \/ exit_wakeup(c, p) \/ exit_zombie(c, p)
  \/ wait_acquire(c, p) \/ wait_scan(c, p) \/ wait_check(c, p)

Next ==
  \E c \in CPUs, p \in Slots :
    \/ scheduler(c, p) \/ Kernel(c, p) \/ yield(c, p)
    \/ fork(c, p) \/ exit(c, p) \/ wait(c, p) \/ setkilled(c, p)
    \/ \E q \in Killable : kill(c, p, q)

Spec == Init /\ [][Next]_vars

\* What p does next at a point where it may also be interrupted.
Proceed(c, p) ==
  \/ fork_parent(c, p) \/ fork_run(c, p)
  \/ killed[p] /\ exit(c, p)

\* The scheduler scans the whole table, the timer interrupts user code, a lock
\* that becomes free again and again is acquired in the end, a killed process
\* traps, and initproc calls wait() for ever (user/init.c).
Fairness ==
  /\ \A p \in Slots :
       /\ SF_vars(\E c \in CPUs : scheduler(c, p) \/ Kernel(c, p))
       /\ SF_vars(\E c \in CPUs : Proceed(c, p))
       /\ WF_vars(\E c \in CPUs : pc[p] = "user" /\ yield(c, p))
  /\ SF_vars(\E c \in CPUs : wait(c, initproc))

FairSpec == Spec /\ Fairness

----------------------------------------------------------------------------
(* Properties *)

TypeOK ==
  /\ state \in [Slots -> {"UNUSED", "USED", "SLEEPING", "RUNNABLE", "RUNNING", "ZOMBIE"}]
  /\ chan \in [Slots -> Slots \cup {None}]
  /\ killed \in [Slots -> BOOLEAN]
  /\ parent \in [Slots -> Slots \cup {None}]
  /\ plock \in [Slots -> CPUs \cup {None}]
  /\ wait_lock \in CPUs \cup {None}
  /\ proc \in [CPUs -> Slots \cup {None}]
  /\ pc \in [Slots -> PCs]
  /\ ret \in [Slots -> Preemptible \cup {"wait"}]
  /\ i \in [Slots -> 0..(NSLOT + 1)]
  /\ np \in [Slots -> Slots \cup {None}]
  /\ \A p \in Slots : state[p] = "UNUSED" => parent[p] = None /\ chan[p] = None

\* A kernel stack is used by one CPU at a time, and never by a CPU while its
\* slot is free: between the moment a process leaves RUNNING and the moment
\* swtch() has left its stack, p->lock keeps schedulers and wait() away.  (The
\* state is well-typed besides.)
OneStack ==
  /\ TypeOK
  /\ \A c \in CPUs :
       proc[c] # None =>
         /\ \A d \in CPUs : proc[d] = proc[c] => d = c
         /\ state[proc[c]] \notin {"UNUSED", "USED"}
         /\ state[proc[c]] # "RUNNING" => plock[proc[c]] = c

\* The locks CPU c holds: its noff is their number.
LocksOf(c) == {<<"plock", p>> : p \in {q \in Slots : plock[q] = c}}
              \cup {<<"wait_lock", 0>> : x \in {y \in {1} : wait_lock = c}}

\* None of the panics of sched() is reached: its caller holds p->lock, no other
\* lock, and has left RUNNING.  And a CPU in scheduler() holds no lock.
SchedChecks ==
  /\ \A c \in CPUs, p \in Slots :
       On(c, p) /\ pc[p] = "sched" =>
         LocksOf(c) = {<<"plock", p>>} /\ state[p] # "RUNNING"
  /\ \A c \in CPUs : proc[c] = None => LocksOf(c) = {}

\* A switch between processes is safe: one CPU per kernel stack, and only
\* p->lock crosses it (scheduler, sched, sleep and exit in proc.c).
SwitchesSafe == OneStack /\ SchedChecks

\* While wait_lock is free, every process that has a parent has a live one, and
\* everybody but initproc and a child that fork() has not finished has one: no
\* exit leaves a child behind.
LiveParent ==
  wait_lock = None =>
    \A q \in Slots :
      /\ parent[q] # None => state[parent[q]] \notin {"UNUSED", "USED", "ZOMBIE"}
      /\ state[q] \notin {"UNUSED", "USED"} /\ q # initproc => parent[q] # None

\* Nobody sleeps in wait() over a child that has exited: exit() wakes the
\* parent, reparent() wakes initproc, and wait() looks again before it sleeps.
NoMissedExit ==
  wait_lock = None =>
    \A p \in Slots :
      state[p] = "SLEEPING" => \A q \in Children(p) : state[q] # "ZOMBIE"

\* initproc frees the orphans that exit, lowest slot first: wait() takes the
\* first zombie it meets, so children that keep exiting in lower slots can keep
\* it from a higher one, and nothing else can.
OrphansReaped ==
  \A q \in Slots \ {initproc} :
    state[q] = "ZOMBIE" /\ parent[q] = initproc ~>
      \/ state[q] # "ZOMBIE"
      \/ \E r \in Children(initproc) : r < q /\ state[r] = "ZOMBIE"
=============================================================================
