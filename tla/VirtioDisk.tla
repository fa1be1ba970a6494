----------------------------- MODULE VirtioDisk -----------------------------
(***************************************************************************)
(* The disk driver (kernel/virtio_disk.c) against a virtio device that     *)
(* takes requests from the avail ring, finishes them in any order, well or *)
(* with an error, reports them in the used ring and interrupts.            *)
(*                                                                         *)
(* disk.vdisk_lock covers all of the driver, so a stretch of               *)
(* virtio_disk_rw() between two sleeps is one step.  The interrupt handler *)
(* keeps the lock from its acknowledgement to the end of its loop, but the *)
(* device runs in between: its iterations are steps.                       *)
(*                                                                         *)
(* A process has its own buffer, which it holds locked (BufCache), so the  *)
(* process stands for the buffer.                                          *)
(***************************************************************************)
EXTENDS Integers, FiniteSets

CONSTANTS
  NUM,      \* descriptors, and entries of each ring
  LAPS,     \* 2^16 / NUM: the ring indices are uint16
  Procs,
  Nobody

ASSUME DiskAssumption ==
  /\ NUM \in Nat /\ NUM >= 3
  /\ LAPS \in Nat \ {0}
  /\ Nobody \notin Procs

IOERR == 1          \* the status of a request that the device could not do
UINT16 == LAPS * NUM
Descs == 0..(NUM - 1)

VARIABLES
  free,                       \* disk.free[]
  desc,                       \* buffer, F_NEXT flag and next of each descriptor
  avail, avail_idx,           \* disk.avail
  used, used_ring_idx,        \* disk.used
  used_idx,                   \* disk.used_idx
  info,                       \* b and status of disk.info[]
  b_disk,                     \* b->disk
  pc, idx0,                   \* of virtio_disk_rw(); idx[0]
  intr,                       \* virtio_disk_intr() is in its loop, with the lock
  irq,                        \* interrupt status register
  seen, inflight, raise,      \* the device: entries of avail taken, heads being
                              \* worked on, an interrupt not yet raised
  transfer                    \* has the device done what the process asked for?

rings == <<avail, avail_idx, used, used_ring_idx>>
driver == <<free, desc, used_idx, info, b_disk>>
device == <<seen, inflight, raise>>
vars == <<rings, driver, device, pc, idx0, intr, irq, transfer>>

Lowest(S) == CHOOSE d \in S : \A e \in S : d <= e
Free == {d \in Descs : free[d]}

----------------------------------------------------------------------------
(* virtio_disk_rw() *)

rw(p) ==
  /\ pc[p] = "idle"
  /\ pc' = [pc EXCEPT ![p] = "alloc"]
  /\ transfer' = [transfer EXCEPT ![p] = "wanted"]
  /\ UNCHANGED <<rings, driver, device, idx0, intr, irq>>

\* wakeup(&disk.free[0])
Awake(f) == [q \in Procs |-> IF f[q] = "nofree" THEN "alloc" ELSE f[q]]

\* alloc3_desc() takes the three lowest free descriptors; the request is
\* formatted and put in the ring, and the process sleeps on b.
submit_shared(p) ==
  /\ pc[p] = "alloc" /\ ~intr /\ Cardinality(Free) >= 2
  /\ LET i0 == Lowest(Free)
         i1 == Lowest(Free \ {i0})
         i2 == i1
     IN /\ free' = [free EXCEPT ![i0] = FALSE, ![i1] = FALSE, ![i2] = FALSE]
        /\ desc' = [desc EXCEPT ![i0] = [b |-> p, flag |-> TRUE, next |-> i1],
                                ![i1] = [b |-> p, flag |-> TRUE, next |-> i2],
                                ![i2] = [b |-> p, flag |-> FALSE, next |-> 0]]
        /\ info' = [info EXCEPT ![i0] = [b |-> p, status |-> 255]]
        /\ avail' = [avail EXCEPT ![avail_idx % NUM] = i0]
        /\ idx0' = [idx0 EXCEPT ![p] = i0]
  /\ avail_idx' = (avail_idx + 1) % UINT16
  /\ b_disk' = [b_disk EXCEPT ![p] = TRUE]
  /\ pc' = [pc EXCEPT ![p] = "sleeping"]
  /\ UNCHANGED <<used, used_ring_idx, used_idx, device, intr, irq, transfer>>
submit(p) ==
  /\ pc[p] = "alloc" /\ ~intr /\ Cardinality(Free) >= 3
  /\ LET i0 == Lowest(Free)
         i1 == Lowest(Free \ {i0})
         i2 == Lowest(Free \ {i0, i1})
     IN /\ free' = [free EXCEPT ![i0] = FALSE, ![i1] = FALSE, ![i2] = FALSE]
        /\ desc' = [desc EXCEPT ![i0] = [b |-> p, flag |-> TRUE, next |-> i1],
                                ![i1] = [b |-> p, flag |-> TRUE, next |-> i2],
                                ![i2] = [b |-> p, flag |-> FALSE, next |-> 0]]
        /\ info' = [info EXCEPT ![i0] = [b |-> p, status |-> 255]]
        /\ avail' = [avail EXCEPT ![avail_idx % NUM] = i0]
        /\ idx0' = [idx0 EXCEPT ![p] = i0]
  /\ avail_idx' = (avail_idx + 1) % UINT16
  /\ b_disk' = [b_disk EXCEPT ![p] = TRUE]
  /\ pc' = [pc EXCEPT ![p] = "sleeping"]
  /\ UNCHANGED <<used, used_ring_idx, used_idx, device, intr, irq, transfer>>

\* alloc3_desc() gives back the one or two descriptors that it got, and
\* free_desc() then wakes the others that wait for descriptors.
no_desc(p) ==
  /\ pc[p] = "alloc" /\ ~intr /\ Cardinality(Free) < 3
  /\ pc' = [(IF Free = {} THEN pc ELSE Awake(pc)) EXCEPT ![p] = "nofree"]
  /\ desc' = [d \in Descs |-> IF free[d] THEN [b |-> Nobody, flag |-> FALSE, next |-> 0]
                              ELSE desc[d]]
  /\ UNCHANGED <<rings, free, used_idx, info, b_disk, device, idx0, intr, irq, transfer>>

\* free_chain(d): three descriptors at most, as submit() links them.
Chain(d) ==
  LET e == desc[d].next
      f == desc[e].next
  IN {d} \cup (IF desc[d].flag THEN {e} ELSE {})
         \cup (IF desc[d].flag /\ desc[e].flag THEN {f} ELSE {})

finish_untested(p) ==
  /\ pc[p] = "woken" /\ ~intr
  /\ info' = [info EXCEPT ![idx0[p]].b = Nobody]
  /\ free' = [d \in Descs |-> free[d] \/ d \in Chain(idx0[p])]
  /\ desc' = [d \in Descs |-> IF d \in Chain(idx0[p])
                              THEN [b |-> Nobody, flag |-> FALSE, next |-> 0]
                              ELSE desc[d]]
  /\ pc' = [Awake(pc) EXCEPT ![p] = "idle"]
  /\ UNCHANGED <<rings, used_idx, b_disk, device, idx0, intr, irq, transfer>>
\* Woken by virtio_disk_intr() or by kill(): b->disk is tested again, then the
\* request is cleared away.
finish(p) ==
  /\ pc[p] = "woken" /\ ~intr
  /\ IF b_disk[p]
     THEN pc' = [pc EXCEPT ![p] = "sleeping"] /\ UNCHANGED <<free, desc, info>>
     ELSE /\ info' = [info EXCEPT ![idx0[p]].b = Nobody]
          /\ free' = [d \in Descs |-> free[d] \/ d \in Chain(idx0[p])]
          /\ desc' = [d \in Descs |-> IF d \in Chain(idx0[p])
                                      THEN [b |-> Nobody, flag |-> FALSE, next |-> 0]
                                      ELSE desc[d]]
          /\ pc' = [Awake(pc) EXCEPT ![p] = "idle"]
  /\ UNCHANGED <<rings, used_idx, b_disk, device, idx0, intr, irq, transfer>>

\* kill() makes a sleeping process runnable, whatever it sleeps for.
kill(p) ==
  /\ pc' = [pc EXCEPT ![p] = CASE @ = "sleeping" -> "woken"
                              [] @ = "nofree" -> "alloc"
                              [] OTHER -> @]
  /\ UNCHANGED <<rings, driver, device, idx0, intr, irq, transfer>>

----------------------------------------------------------------------------
(* virtio_disk_intr() *)

intr_start ==
  /\ irq /\ ~intr
  /\ intr' = TRUE
  /\ irq' = FALSE
  /\ UNCHANGED <<rings, driver, device, pc, idx0, transfer>>

\* One entry of the used ring: b->disk = 0 and wakeup(b).
intr_entry(id) ==
  /\ b_disk' = [b_disk EXCEPT ![info[id].b] = FALSE]
  /\ pc' = [pc EXCEPT ![info[id].b] = IF @ = "sleeping" THEN "woken" ELSE @]

intr_loop ==
  /\ intr /\ used_idx # used_ring_idx
  /\ info[used[used_idx % NUM]].status = 0
  /\ intr_entry(used[used_idx % NUM])
  /\ used_idx' = (used_idx + 1) % UINT16
  /\ UNCHANGED <<rings, free, desc, info, device, idx0, intr, irq, transfer>>

\* panic("virtio_disk_intr status"): the handler loops for ever, with the lock.
Panicking == intr /\ used_idx # used_ring_idx /\ info[used[used_idx % NUM]].status # 0
panic == Panicking /\ UNCHANGED vars

intr_end_early ==
  /\ intr
  /\ intr' = FALSE
  /\ UNCHANGED <<rings, driver, device, pc, idx0, irq, transfer>>
intr_end ==
  /\ intr /\ used_idx = used_ring_idx
  /\ intr' = FALSE
  /\ UNCHANGED <<rings, driver, device, pc, idx0, irq, transfer>>

----------------------------------------------------------------------------
(* The device, as the driver uses it *)

dev_fetch ==
  /\ seen # avail_idx
  /\ inflight' = inflight \cup {avail[seen % NUM]}
  /\ seen' = (seen + 1) % UINT16
  /\ UNCHANGED <<rings, driver, raise, pc, idx0, intr, irq, transfer>>

\* Transfer the data of the second descriptor, or fail; set the status, report the
\* head.
dev_complete(h, s) ==
  /\ h \in inflight
  /\ transfer' = [transfer EXCEPT ![desc[desc[h].next].b] = IF s = 0 THEN "done" ELSE "failed"]
  /\ info' = [info EXCEPT ![h].status = s]
  /\ used' = [used EXCEPT ![used_ring_idx % NUM] = h]
  /\ used_ring_idx' = (used_ring_idx + 1) % UINT16
  /\ inflight' = inflight \ {h}
  /\ raise' = TRUE
  /\ UNCHANGED <<avail, avail_idx, free, desc, used_idx, b_disk, seen, pc, idx0, intr, irq>>

dev_interrupt ==
  /\ raise /\ raise' = FALSE /\ irq' = TRUE
  /\ UNCHANGED <<rings, driver, seen, inflight, pc, idx0, intr, transfer>>

----------------------------------------------------------------------------
\* After virtio_disk_init().
Init ==
  /\ free = [d \in Descs |-> TRUE]
  /\ desc = [d \in Descs |-> [b |-> Nobody, flag |-> FALSE, next |-> 0]]
  /\ avail = [d \in Descs |-> 0] /\ avail_idx = 0
  /\ used = [d \in Descs |-> 0] /\ used_ring_idx = 0 /\ used_idx = 0
  /\ info = [d \in Descs |-> [b |-> Nobody, status |-> 0]]
  /\ b_disk = [p \in Procs |-> FALSE]
  /\ pc = [p \in Procs |-> "idle"] /\ idx0 = [p \in Procs |-> 0]
  /\ intr = FALSE /\ irq = FALSE
  /\ seen = 0 /\ inflight = {} /\ raise = FALSE
  /\ transfer = [p \in Procs |-> "none"]

Intr == intr_start \/ intr_loop \/ panic \/ intr_end
Device == dev_fetch \/ dev_interrupt \/ \E h \in Descs, s \in {0, IOERR} : dev_complete(h, s)
Kernel(p) == submit(p) \/ no_desc(p) \/ finish(p) \/ kill(p)

Next == Intr \/ Device \/ \E p \in Procs : rw(p) \/ Kernel(p)

Spec == Init /\ [][Next]_vars

----------------------------------------------------------------------------
(* Properties *)

TypeOK ==
  /\ free \in [Descs -> BOOLEAN]
  /\ desc \in [Descs -> [b : Procs \cup {Nobody}, flag : BOOLEAN, next : Descs]]
  /\ avail \in [Descs -> Descs] /\ used \in [Descs -> Descs]
  /\ {avail_idx, used_ring_idx, used_idx, seen} \subseteq 0..(UINT16 - 1)
  /\ info \in [Descs -> [b : Procs \cup {Nobody}, status : {0, IOERR, 255}]]
  /\ b_disk \in [Procs -> BOOLEAN]
  /\ pc \in [Procs -> {"idle", "alloc", "nofree", "sleeping", "woken"}]
  /\ idx0 \in [Procs -> Descs] /\ intr \in BOOLEAN /\ irq \in BOOLEAN
  /\ inflight \in SUBSET Descs /\ raise \in BOOLEAN
  /\ transfer \in [Procs -> {"none", "wanted", "done", "failed"}]

\* The entries of a ring between two of its indices.
Entries(ring, from, to) == {ring[(from + k) % NUM] : k \in 0..(((to - from) % UINT16) - 1)}
Submitted(p) == pc[p] \in {"sleeping", "woken"}

\* A submitted request is at one place at a time: in the avail ring, with the
\* device, in the used ring, or reported; no ring entry is overwritten before it
\* is read, through every wrap of the 16-bit indices.
RequestsTracked ==
  LET a == Entries(avail, seen, avail_idx)
      u == Entries(used, used_idx, used_ring_idx)
  IN /\ a \cap inflight = {} /\ a \cap u = {} /\ inflight \cap u = {}
     /\ a \cup inflight \cup u = {idx0[p] : p \in {q \in Procs : Submitted(q) /\ b_disk[q]}}
     /\ (avail_idx - seen) % UINT16 = Cardinality(a)
     /\ (used_ring_idx - used_idx) % UINT16 = Cardinality(u)

\* Every descriptor is free or in the chain of one submitted request: none is
\* handed out twice, freed twice (free_desc's panic) or lost, and nobody waits for
\* descriptors while three are free.  (The state is well-typed besides.)
DescsOwned ==
  /\ TypeOK
  /\ \A p, q \in Procs :
       Submitted(p) /\ Submitted(q) /\ p # q => Chain(idx0[p]) \cap Chain(idx0[q]) = {}
  /\ \A p \in Procs : Submitted(p) => Cardinality(Chain(idx0[p])) = 3
                                      /\ \A d \in Chain(idx0[p]) : desc[d].b = p
  /\ Free = Descs \ UNION {Chain(idx0[p]) : p \in {q \in Procs : Submitted(q)}}
  /\ \A p \in Procs : pc[p] = "nofree" => Cardinality(Free) < 3

\* The rings and the descriptors account for every request (virtio_disk_rw,
\* virtio_disk_intr, alloc3_desc and free_chain in virtio_disk.c).
RingsAccounted == RequestsTracked /\ DescsOwned

\* virtio_disk_rw() returns only after the device has done its transfer, whatever
\* wakes it, and the device never works on a buffer that its owner has taken back.
\* virtio_disk_intr() panics (virtio_disk.c:316) only for a transfer that the
\* device has failed, and never lets one pass.
TransferDone ==
  /\ \A p \in Procs : pc[p] = "idle" => transfer[p] \in {"none", "done"}
  /\ \A h \in inflight : b_disk[desc[desc[h].next].b]
  /\ Panicking => transfer[info[used[used_idx % NUM]].b] = "failed"

\* A completion that nobody has looked at has an interrupt coming, the handler
\* still looking, or both: "this may race with the device writing new entries to
\* the used ring ... which is harmless" (virtio_disk.c:299-303).
NoLostCompletion == used_idx # used_ring_idx => irq \/ raise \/ intr

=============================================================================
