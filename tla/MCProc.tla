------------------------------- MODULE MCProc -------------------------------
(* Instances of Proc for TLC: two CPUs, initproc and two more slots. *)
EXTENDS Proc, TLC

CONSTANTS c1, c2

CpuSymmetry == Permutations({c1, c2})
=============================================================================
