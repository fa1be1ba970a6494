----------------------------- MODULE MCBufCache -----------------------------
(* Instances of BufCache for TLC. *)
EXTENDS BufCache

CONSTANTS p, q, nobody
=============================================================================
