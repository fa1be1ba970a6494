---------------------------- MODULE MCVirtioDisk ----------------------------
(* Instances of VirtioDisk for TLC. *)
EXTENDS VirtioDisk, TLC

CONSTANTS p, q, r, nobody

ProcSymmetry == Permutations({p, q, r})

\* A ring without the entries that its reader has passed, which nothing looks at
\* before they are overwritten.
Unread(ring, from, to) ==
  [k \in Descs |-> IF (k - from) % NUM < (to - from) % UINT16 THEN ring[k] ELSE 0]
LiveView ==
  <<free, desc, info, b_disk, pc, idx0, intr, irq, inflight, raise, transfer,
    avail_idx, seen, used_idx, used_ring_idx,
    Unread(avail, seen, avail_idx), Unread(used, used_idx, used_ring_idx)>>
=============================================================================
