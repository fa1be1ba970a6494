----------------------------- MODULE BlockStore -----------------------------
(***************************************************************************)
(* What the buffer cache promises to the file system: one cell per disk    *)
(* block, that a process uses alone between bread() and brelse() and that  *)
(* always holds what was last put into it.                                 *)
(***************************************************************************)
CONSTANTS Blocks, Procs, Values, Nobody

VARIABLES cell, holder

Init == cell \in [Blocks -> Values] /\ holder = [k \in Blocks |-> Nobody]

Lock(p, k) ==
  /\ holder[k] = Nobody
  /\ holder' = [holder EXCEPT ![k] = p] /\ UNCHANGED cell

Update(p, k, v) ==
  /\ holder[k] = p
  /\ cell' = [cell EXCEPT ![k] = v] /\ UNCHANGED holder

Unlock(p, k) ==
  /\ holder[k] = p
  /\ holder' = [holder EXCEPT ![k] = Nobody] /\ UNCHANGED cell

Next ==
  \E p \in Procs, k \in Blocks :
    Lock(p, k) \/ Unlock(p, k) \/ \E v \in Values : Update(p, k, v)

Spec == Init /\ [][Next]_<<cell, holder>>
=============================================================================
