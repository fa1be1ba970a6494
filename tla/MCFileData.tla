---------------------------- MODULE MCFileData ----------------------------
(***************************************************************************)
(* FileData for TLC: the processes share f, whose file is also open as h;  *)
(* g is another file.                                                      *)
(***************************************************************************)
EXTENDS FileData

MCino == [f \in Files |-> IF f = "g" THEN 2 ELSE 1]
MCfds == <<{"f", "g"}, {"f", "h"}>>
MCCalls == <<2, 1>>
============================================================================
