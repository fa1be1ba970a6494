------------------------------- MODULE MCPipe -------------------------------
(* Instances of Pipe for TLC: a ring of two bytes whose counters wrap at     *)
(* four, filled twice over by one write.                                     *)
EXTENDS Pipe

CONSTANTS sh, a, none
=============================================================================
