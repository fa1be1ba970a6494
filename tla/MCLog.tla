------------------------------- MODULE MCLog -------------------------------
(* Small instances of Log for TLC. *)
EXTENDS Log, TLC

CONSTANTS p1, p2, b1, b2, b3, b4

Symmetry == Permutations(Procs) \cup Permutations(Blocks)
=============================================================================
