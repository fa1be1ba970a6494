----------------------------- MODULE AtomicDisk -----------------------------
(***************************************************************************)
(* What the logging layer (kernel/log.c) promises to the file system: a    *)
(* disk on which the block writes of the system calls that run between two *)
(* quiescent moments reach the platter all together or not at all.         *)
(*                                                                         *)
(*   committed  what a reboot would find after recovery                    *)
(*   current    what bread() returns now                                   *)
(*   active     the processes between begin_op() and end_op()              *)
(*   logged     the blocks that the calls have written since the commit    *)
(*   loose      the blocks that a failed copy has changed outside the log: *)
(*              they may be as committed again at any moment               *)
(***************************************************************************)
CONSTANTS
  Procs, Blocks, Data,
  FileBlocks    \* those with file contents

VARIABLES committed, current, active, logged, loose

avars == <<committed, current, active, logged, loose>>

AInit ==
  /\ committed \in [Blocks -> Data]
  /\ current = committed
  /\ active = {} /\ logged = {} /\ loose = {}

Begin(p) ==
  /\ p \notin active
  /\ active' = active \cup {p}
  /\ UNCHANGED <<committed, current, logged, loose>>

\* A system call may change a block only between its begin_op and end_op.  The
\* block goes to the log as it is, with what a failed copy left in it before.
Write(p, b, v) ==
  /\ p \in active
  /\ current' = [current EXCEPT ![b] = v]
  /\ logged' = logged \cup {b}
  /\ loose' = loose \ {b}
  /\ UNCHANGED <<committed, active>>

\* A copy into a file's block fails half-way: what it has changed goes with the
\* transaction if the block is in it already, and is seen but not safe if not.
Tear(p, b, v) ==
  /\ p \in active /\ b \in FileBlocks
  /\ current' = [current EXCEPT ![b] = v]
  /\ loose' = loose \cup ({b} \ logged)
  /\ UNCHANGED <<committed, active, logged>>

\* A loose block is read again from the disk.
Forget(b) ==
  /\ b \in loose
  /\ current' = [current EXCEPT ![b] = committed[b]]
  /\ loose' = loose \ {b}
  /\ UNCHANGED <<committed, active, logged>>

End(p) ==
  /\ p \in active
  /\ active' = active \ {p}
  /\ UNCHANGED <<committed, current, logged, loose>>

\* A commit never cuts through a system call ("The logging system only
\* commits when there are no FS system calls active", log.c:13-14), and
\* it publishes every block that they wrote.
Commit ==
  /\ active = {}
  /\ committed' = [b \in Blocks |-> IF b \in logged THEN current[b] ELSE committed[b]]
  /\ logged' = {}
  /\ UNCHANGED <<current, active, loose>>

\* Power failure: uncommitted updates are gone, committed ones are not.
Crash ==
  /\ active' = {} /\ logged' = {} /\ loose' = {}
  /\ current' = committed
  /\ UNCHANGED committed

ANext ==
  \/ \E p \in Procs : Begin(p) \/ End(p)
  \/ \E p \in Procs, b \in Blocks, v \in Data : Write(p, b, v) \/ Tear(p, b, v)
  \/ \E b \in Blocks : Forget(b)
  \/ Commit
  \/ Crash

ASpec == AInit /\ [][ANext]_avars
=============================================================================
