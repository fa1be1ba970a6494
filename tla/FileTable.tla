----------------------------- MODULE FileTable -----------------------------
(***************************************************************************)
(* Open files: the table of struct file (kernel/file.c), the descriptors   *)
(* of each process (kernel/sysfile.c) and the ends of pipes                *)
(* (kernel/pipe.c).  One step is what happens under one acquire of         *)
(* ftable.lock or of a pipe's lock.                                        *)
(*                                                                         *)
(* Of a pipe only the number of unread writes is kept, and of an inode the *)
(* number of struct files that hold a reference to it.                     *)
(***************************************************************************)
EXTENDS Integers, Sequences, FiniteSets

CONSTANTS Procs, NFILE, NOFILE, NPIPE, Names

ASSUME FileTableAssumption == NFILE \in Nat /\ NOFILE \in Nat \ {0} /\ NPIPE \in Nat

Files == 1..NFILE
Pipes == 1..NPIPE
Fds == 0..(NOFILE - 1)
None == 0

VARIABLES
  file,      \* ftable.file[]
  pipe,      \* the pages of struct pipe
  iref,      \* ip->ref, as far as open files hold it
  ofile,     \* p->ofile[]
  rf,        \* the files of a pipealloc(), sys_pipe() or sys_open() on its way
  bad,       \* it has failed and closes them
  ff         \* fileclose()'s copy of the struct file that it emptied

fvars == <<file, pipe, iref, ofile, rf, bad, ff>>

FreeFile == [ref |-> 0, type |-> "FD_NONE", readable |-> FALSE, writable |-> FALSE,
             pipe |-> None, ip |-> "", off |-> 0]
FreePage == [used |-> FALSE, readopen |-> FALSE, writeopen |-> FALSE, n |-> 0]

FileInit ==
  /\ file = [f \in Files |-> FreeFile]
  /\ pipe = [i \in Pipes |-> FreePage]
  /\ iref = [x \in Names |-> 0]
  /\ ofile = [p \in Procs |-> [fd \in Fds |-> None]]
  /\ rf = [p \in Procs |-> <<>>]
  /\ bad = [p \in Procs |-> FALSE]
  /\ ff = [p \in Procs |-> FreeFile]

FreeFiles == {f \in Files : file[f].ref = 0}
filealloc == CHOOSE f \in FreeFiles : \A g \in FreeFiles : f <= g
FreeFds(p) == {fd \in Fds : ofile[p][fd] = None}
fdalloc(p) == CHOOSE fd \in FreeFds(p) : \A g \in FreeFds(p) : fd <= g
argfd(p, fd) == fd \in Fds /\ ofile[p][fd] # None

\* A process is between two steps of a system call.
InCall(p) == ff[p] # FreeFile \/ rf[p] # <<>> \/ bad[p]

----------------------------------------------------------------------------
(* fileclose() is one step, or two when it drops the last reference: what   *)
(* it closes then is the copy ff, since the slot may have a new owner.      *)

fileclose(p, f) ==
  IF file[f].ref > 1
  THEN file' = [file EXCEPT ![f].ref = @ - 1] /\ UNCHANGED ff
  ELSE /\ file' = [file EXCEPT ![f] = FreeFile]     \* with fields nobody reads again
       /\ ff' = [ff EXCEPT ![p] = file[f]]

pipeclose_early(p) ==
  /\ ff[p].type = "FD_PIPE"
  /\ LET end == IF ff[p].writable THEN [pipe[ff[p].pipe] EXCEPT !.writeopen = FALSE]
                ELSE [pipe[ff[p].pipe] EXCEPT !.readopen = FALSE]
     IN pipe' = [pipe EXCEPT ![ff[p].pipe] =
                   IF ~end.readopen \/ ~end.writeopen THEN FreePage ELSE end]
  /\ ff' = [ff EXCEPT ![p] = FreeFile]
  /\ UNCHANGED <<file, iref, ofile, rf, bad>>
pipeclose(p) ==
  /\ ff[p].type = "FD_PIPE"
  /\ LET end == IF ff[p].writable THEN [pipe[ff[p].pipe] EXCEPT !.writeopen = FALSE]
                ELSE [pipe[ff[p].pipe] EXCEPT !.readopen = FALSE]
     IN pipe' = [pipe EXCEPT ![ff[p].pipe] =
                   IF ~end.readopen /\ ~end.writeopen THEN FreePage ELSE end]
  /\ ff' = [ff EXCEPT ![p] = FreeFile]
  /\ UNCHANGED <<file, iref, ofile, rf, bad>>

iput(p) ==
  /\ ff[p].type \in {"FD_INODE", "FD_DEVICE"}
  /\ iref' = [iref EXCEPT ![ff[p].ip] = @ - 1]
  /\ ff' = [ff EXCEPT ![p] = FreeFile]
  /\ UNCHANGED <<file, pipe, ofile, rf, bad>>

\* A struct file that never got a type: pipealloc() or sys_open() gives up.
close_none(p) ==
  /\ ff[p] # FreeFile /\ ff[p].type = "FD_NONE"
  /\ ff' = [ff EXCEPT ![p] = FreeFile]
  /\ UNCHANGED <<file, pipe, iref, ofile, rf, bad>>

----------------------------------------------------------------------------
(* System calls of process p.  Each X_fails is the case that returns -1.    *)

sys_close(p, fd) ==
  /\ argfd(p, fd)
  /\ ofile' = [ofile EXCEPT ![p][fd] = None]
  /\ fileclose(p, ofile[p][fd])
  /\ UNCHANGED <<pipe, iref, rf, bad>>

\* fdalloc() and filedup()
sys_dup(p, fd) ==
  /\ argfd(p, fd) /\ FreeFds(p) # {}
  /\ ofile' = [ofile EXCEPT ![p][fdalloc(p)] = ofile[p][fd]]
  /\ file' = [file EXCEPT ![ofile[p][fd]].ref = @ + 1]
  /\ UNCHANGED <<pipe, iref, rf, bad, ff>>
sys_dup_fails(p, fd) == ~argfd(p, fd) \/ FreeFds(p) = {}

\* The inode x is what namei() or create() found.
sys_open(p, x, mode, type) ==
  /\ FreeFiles # {} /\ FreeFds(p) # {}
  /\ file' = [file EXCEPT ![filealloc] =
       [ref |-> 1, type |-> type, pipe |-> None, ip |-> x, off |-> 0,
        readable |-> mode \in {"O_RDONLY", "O_RDWR"}, writable |-> mode # "O_RDONLY"]]
  /\ ofile' = [ofile EXCEPT ![p][fdalloc(p)] = filealloc]
  /\ iref' = [iref EXCEPT ![x] = @ + 1]
  /\ UNCHANGED <<pipe, rf, bad, ff>>
sys_open_fails == FreeFiles = {}
\* filealloc() has found a file and fdalloc() no descriptor for it.
sys_open_nofd(p) ==
  /\ FreeFiles # {} /\ FreeFds(p) = {}
  /\ file' = [file EXCEPT ![filealloc] = [FreeFile EXCEPT !.ref = 1]]
  /\ rf' = [rf EXCEPT ![p] = <<filealloc>>]
  /\ bad' = [bad EXCEPT ![p] = TRUE]
  /\ UNCHANGED <<pipe, iref, ofile, ff>>

\* pipealloc() takes the two files one after the other, then the page; sys_pipe()
\* takes the descriptors.  When something is missing, bad is set and the files
\* are closed again one by one.
TwoFds(p) == LET a == fdalloc(p)
                 S == FreeFds(p) \ {a}
             IN <<a, CHOOSE b \in S : \A c \in S : b <= c>>
FreePages == {i \in Pipes : ~pipe[i].used}
End(i, w) == [FreeFile EXCEPT !.ref = 1, !.type = "FD_PIPE", !.pipe = i,
                              !.readable = ~w, !.writable = w]

pipealloc(p) ==
  /\ ~bad[p] /\ Len(rf[p]) < 2
  /\ IF FreeFiles = {} THEN bad' = [bad EXCEPT ![p] = TRUE] /\ UNCHANGED <<file, rf>>
     ELSE /\ file' = [file EXCEPT ![filealloc] = [FreeFile EXCEPT !.ref = 1]]
          /\ rf' = [rf EXCEPT ![p] = Append(@, filealloc)]
          /\ UNCHANGED bad
  /\ UNCHANGED <<pipe, iref, ofile, ff>>

\* kalloc() may find no page, whoever has them; then there may be no two
\* descriptors, or copyout() of their numbers fails and they are taken back.
sys_pipe(p) ==
  /\ ~bad[p] /\ Len(rf[p]) = 2
  /\ \/ bad' = [bad EXCEPT ![p] = TRUE] /\ UNCHANGED <<file, pipe, ofile, rf>>
     \/ \E i \in FreePages :
          /\ \A j \in FreePages : i <= j
          /\ pipe' = [pipe EXCEPT ![i] = [used |-> TRUE, readopen |-> TRUE, writeopen |-> TRUE, n |-> 0]]
          /\ file' = [file EXCEPT ![rf[p][1]] = End(i, FALSE), ![rf[p][2]] = End(i, TRUE)]
          /\ \/ bad' = [bad EXCEPT ![p] = TRUE] /\ UNCHANGED <<ofile, rf>>
             \/ /\ Cardinality(FreeFds(p)) >= 2
                /\ ofile' = [ofile EXCEPT ![p][TwoFds(p)[1]] = rf[p][1], ![p][TwoFds(p)[2]] = rf[p][2]]
                /\ rf' = [rf EXCEPT ![p] = <<>>] /\ UNCHANGED bad
  /\ UNCHANGED <<iref, ff>>

\* A call that failed closes its files, one by one, and returns -1.
give_back(p) ==
  /\ bad[p] /\ rf[p] # <<>>
  /\ fileclose(p, rf[p][1])
  /\ rf' = [rf EXCEPT ![p] = Tail(@)]
  /\ UNCHANGED <<pipe, iref, ofile, bad>>
return_bad(p) ==
  /\ bad[p] /\ rf[p] = <<>>
  /\ bad' = [bad EXCEPT ![p] = FALSE]
  /\ UNCHANGED <<file, pipe, iref, ofile, rf, ff>>

\* fork() copies the descriptors.
Refs(p, f) == Cardinality({fd \in Fds : ofile[p][fd] = f})
fork_files(p, np) ==
  /\ ofile' = [ofile EXCEPT ![np] = ofile[p]]
  /\ file' = [f \in Files |-> [file[f] EXCEPT !.ref = @ + Refs(p, f)]]
  /\ UNCHANGED <<pipe, iref, rf, bad, ff>>

----------------------------------------------------------------------------
(* Reading and writing, as far as a descriptor goes *)

PIPESIZE == 1

Readable(p, fd) == argfd(p, fd) /\ file[ofile[p][fd]].readable
Writable(p, fd) == argfd(p, fd) /\ file[ofile[p][fd]].writable
PipeOf(p, fd) == pipe[file[ofile[p][fd]].pipe]
IsPipe(p, fd) == file[ofile[p][fd]].type = "FD_PIPE"

\* fileread(): one item, when there is one.
fileread(p, fd) ==
  /\ Readable(p, fd)
  /\ IF IsPipe(p, fd)
     THEN /\ PipeOf(p, fd).n > 0
          /\ pipe' = [pipe EXCEPT ![file[ofile[p][fd]].pipe].n = @ - 1]
          /\ UNCHANGED file
     ELSE /\ file[ofile[p][fd]].type = "FD_INODE" /\ file[ofile[p][fd]].off = 0
          /\ file' = [file EXCEPT ![ofile[p][fd]].off = 1]
          /\ UNCHANGED pipe
  /\ UNCHANGED <<iref, ofile, rf, bad, ff>>
\* No more to read, or an error: the pipe has no writer, the file is at its
\* end, the console's reader typed control-D, or the descriptor is no good.
fileread_ends(p, fd) ==
  \/ ~Readable(p, fd)
  \/ IsPipe(p, fd) /\ PipeOf(p, fd).n = 0 /\ ~PipeOf(p, fd).writeopen
  \/ file[ofile[p][fd]].type = "FD_INODE" /\ file[ofile[p][fd]].off = 1
  \/ file[ofile[p][fd]].type = "FD_DEVICE"

filewrite(p, fd) ==
  /\ Writable(p, fd)
  /\ IsPipe(p, fd) => PipeOf(p, fd).n < PIPESIZE /\ PipeOf(p, fd).readopen
  /\ pipe' = IF IsPipe(p, fd) THEN [pipe EXCEPT ![file[ofile[p][fd]].pipe].n = @ + 1] ELSE pipe
  /\ UNCHANGED <<file, iref, ofile, rf, bad, ff>>
filewrite_fails(p, fd) == ~Writable(p, fd) \/ (IsPipe(p, fd) /\ ~PipeOf(p, fd).readopen)

----------------------------------------------------------------------------
(* Invariant *)

Live(f) == file[f].ref > 0
\* Somebody is about to close this end of pipe i.
Closing(i, w) == \E p \in Procs : ff[p].type = "FD_PIPE" /\ ff[p].pipe = i /\ ff[p].writable = w
HasEnd(i, w) == \E f \in Files : Live(f) /\ file[f].type = "FD_PIPE" /\ file[f].pipe = i /\ file[f].writable = w
Opened(x) == {f \in Files : Live(f) /\ file[f].type \in {"FD_INODE", "FD_DEVICE"} /\ file[f].ip = x}
Dropping(x) == {p \in Procs : ff[p].type \in {"FD_INODE", "FD_DEVICE"} /\ ff[p].ip = x}

FileTypeOK ==
  /\ \A f \in Files : file[f].ref \in Nat
  /\ \A p \in Procs : bad[p] \in BOOLEAN /\ \A fd \in Fds : ofile[p][fd] \in Files \cup {None}

\* A struct file is referenced exactly as often as its ref says, by the
\* descriptors of all processes and by a call that has just allocated it; an end of a
\* pipe is open exactly while some struct file stands for it or its fileclose()
\* has not come to pipeclose(); a pipe's page is in use exactly while one of its
\* ends is open; an inode is held once by every struct file open on it.
FileRefs ==
  /\ FileTypeOK
  /\ \A f \in Files : file[f].ref =
       Cardinality({<<p, fd>> \in Procs \X Fds : ofile[p][fd] = f}) + Cardinality({p \in Procs : f \in {rf[p][k] : k \in DOMAIN rf[p]}})
  /\ \A i \in Pipes :
       /\ pipe[i].readopen = (HasEnd(i, FALSE) \/ Closing(i, FALSE))
       /\ pipe[i].writeopen = (HasEnd(i, TRUE) \/ Closing(i, TRUE))
       /\ pipe[i].used = (pipe[i].readopen \/ pipe[i].writeopen)
  /\ \A x \in Names : iref[x] = Cardinality(Opened(x)) + Cardinality(Dropping(x))
============================================================================
