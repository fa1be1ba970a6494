------------------------------- MODULE MCUart -------------------------------
(* Instances of Uart for TLC. *)
EXTENDS Uart

CONSTANTS p, q, cpu, echo, none
=============================================================================
