----------------------------- MODULE ByteQueue -----------------------------
(***************************************************************************)
(* What a pipe promises: a bounded queue of bytes.  Each byte put in at    *)
(* one end reaches one reader, in order, or is dropped because the reader  *)
(* gave the kernel a buffer it cannot write to.                            *)
(***************************************************************************)
EXTENDS Naturals, Sequences

CONSTANTS Procs, Bytes, Capacity, NoByte

VARIABLES
  queue,   \* the bytes written and not yet read
  got      \* the last byte that each process received

Init == queue = << >> /\ got = [p \in Procs |-> NoByte]

Put(b) ==
  /\ Len(queue) < Capacity
  /\ queue' = Append(queue, b) /\ UNCHANGED got

Get(p) ==
  /\ queue # << >>
  /\ queue' = Tail(queue) /\ got' = [got EXCEPT ![p] = Head(queue)]

Drop == queue # << >> /\ queue' = Tail(queue) /\ UNCHANGED got

Next == (\E b \in Bytes : Put(b)) \/ (\E p \in Procs : Get(p)) \/ Drop

Spec == Init /\ [][Next]_<<queue, got>>
=============================================================================
