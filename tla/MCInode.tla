------------------------------ MODULE MCInode ------------------------------
(* Instances of Inode for TLC. *)
EXTENDS Inode, TLC

CONSTANTS p1, p2, nobody

ProcSymmetry == Permutations(Procs)

\* A directory with another one in it, or with a file that has a second name, and
\* the way up from a directory that may have been removed.
TreeRequests == {
  <<"mkdir", <<"a">>, << >> >>, <<"mkdir", <<"a", "b">>, << >> >>,
  <<"create", <<"a", "b">>, << >> >>, <<"link", <<"a", "b">>, <<"b">> >>,
  <<"unlink", <<"a">>, << >> >>, <<"unlink", <<"a", "b">>, << >> >>,
  <<"unlink", <<"b">>, << >> >>,
  <<"chdir", <<"a", "b">>, << >> >>, <<"open", <<"..">>, << >> >>}
\* A file that comes and goes.
FileRequests == {<<"create", <<"a">>, << >> >>, <<"unlink", <<"a">>, << >> >>}

\* The state without what nothing reads any more: the locals of a call that has
\* returned, iput()'s return address outside iput(), table entries not in use.
InIput == {"iput", "iput_free", "iput_valid", "iput_dec"}
LiveView ==
  <<din, lk, pc, ip, dp, put, old, cwd, fd,
    [s \in Slots |-> IF tab[s].ref = 0 THEN 0 ELSE tab[s]],
    [p \in Procs |-> IF pc[p] \in InIput THEN ret[p] ELSE ""],
    [p \in Procs |-> IF pc[p] = "user" \/ (pc[p] \in InIput /\ ret[p] = "user")
                     THEN << >> ELSE <<call[p], path[p], newpath[p]>>]>>
=============================================================================
