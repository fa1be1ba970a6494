------------------------------- MODULE Shell -------------------------------
(***************************************************************************)
(* init (user/init.c), the shell (user/sh.c) and the commands it runs, as  *)
(* processes over the kernel's file table: who forks whom, which           *)
(* descriptors everybody holds, who waits for whom.                        *)
(*                                                                         *)
(* A process is the sequence of system calls it still has to make, its     *)
(* script; runcmd() and main() are written as the scripts they stand for.  *)
(* A step is one system call, or one locked section of a call that has     *)
(* several.  wait and exit are as module Proc has them, in one step.       *)
(*                                                                         *)
(* where is a history variable: the command line a process works for (a    *)
(* job number and its tree) and the node of the tree it has come to.       *)
(***************************************************************************)
EXTENDS FileTable, ShParse

CONSTANTS NPROC, Lines,
  MAXOLD     \* bound: processes of earlier lines that are still there when a line is typed

ASSUME ShellAssumption == Procs = 1..NPROC /\ NPROC > 1 /\ NOFILE > 3

initproc == 1

VARIABLES
  state,     \* p->state: "UNUSED", "USED" or "ZOMBIE"
  parent,    \* p->parent
  script,    \* what the process has still to do
  pfd,       \* runcmd()'s int p[2]
  console,   \* the file console exists
  where,
  madeBy,    \* history: the node for which each pipe was made
  alone      \* history: jobs in which a fork1() panicked, and may have left a child

pvars == <<state, parent, script, pfd, console, where, madeBy, alone>>
vars == <<fvars, pvars>>

----------------------------------------------------------------------------
(* Scripts *)

close(fd) == [op |-> "close", fd |-> fd]
dup(fd) == [op |-> "dup", fd |-> fd]
fork1(child) == [op |-> "fork", child |-> child]
open(name, mode) == [op |-> "open", name |-> name, mode |-> mode]
exec(argv) == [op |-> "exec", argv |-> argv]
run(cmd, path) == [op |-> "run", cmd |-> cmd, path |-> path]
Call(op) == [op |-> op]
exit == <<Call("exit")>>

\* Descriptors: 0 and 1, and the two ends that pipe(p) put into p[].
fdOf(p, fd) == CASE fd = "0" -> 0 [] fd = "1" -> 1
                 [] fd = "p[0]" -> pfd[p][1] [] fd = "p[1]" -> pfd[p][2]

\* case PIPE of runcmd()
runpipe_forgets(cmd, path) ==
  <<Call("pipe"),
    fork1(<<close("1"), dup("p[1]"), close("p[0]"), close("p[1]"),
            run(cmd.left, Append(path, "from"))>>),
    fork1(<<close("0"), dup("p[0]"), close("p[0]"), close("p[1]"),
            run(cmd.right, Append(path, "to"))>>),
    close("p[0]"), Call("wait"), Call("wait")>> \o exit
runpipe_leaks(cmd, path) ==
  <<Call("pipe"),
    fork1(<<close("1"), dup("p[1]"), close("p[1]"),
            run(cmd.left, Append(path, "from"))>>),
    fork1(<<close("0"), dup("p[0]"), close("p[0]"), close("p[1]"),
            run(cmd.right, Append(path, "to"))>>),
    close("p[0]"), close("p[1]"), Call("wait"), Call("wait")>> \o exit
runpipe_one_wait(cmd, path) ==
  <<Call("pipe"),
    fork1(<<close("1"), dup("p[1]"), close("p[0]"), close("p[1]"),
            run(cmd.left, Append(path, "from"))>>),
    fork1(<<close("0"), dup("p[0]"), close("p[0]"), close("p[1]"),
            run(cmd.right, Append(path, "to"))>>),
    close("p[0]"), close("p[1]"), Call("wait")>> \o exit
runpipe(cmd, path) ==
  <<Call("pipe"),
    fork1(<<close("1"), dup("p[1]"), close("p[0]"), close("p[1]"),
            run(cmd.left, Append(path, "from"))>>),
    fork1(<<close("0"), dup("p[0]"), close("p[0]"), close("p[1]"),
            run(cmd.right, Append(path, "to"))>>),
    close("p[0]"), close("p[1]"), Call("wait"), Call("wait")>> \o exit

runcmd(cmd, path) ==
  CASE cmd.type = "EXEC" -> IF cmd.argv = <<>> THEN exit ELSE <<exec(cmd.argv)>> \o exit
    [] cmd.type = "REDIR" -> <<close(IF cmd.fd = 0 THEN "0" ELSE "1"), open(cmd.file, cmd.mode),
                               run(cmd.cmd, Append(path, "redir"))>>
    [] cmd.type = "LIST" -> <<fork1(<<run(cmd.left, Append(path, "first"))>>), Call("wait"),
                              run(cmd.right, Append(path, "then"))>>
    [] cmd.type = "PIPE" -> runpipe(cmd, path)
    [] cmd.type = "BACK" -> <<fork1(<<run(cmd.cmd, Append(path, "back"))>>)>> \o exit
    [] cmd.type = "panic" -> exit

\* sh's main(): descriptors 0 to 2 first, then one line after the other.
sh == <<Call("three"), Call("getcmd")>>
\* One round of init's outer loop.
startSh == <<fork1(<<exec(<<<<"sh">>>>)>> \o exit), Call("waitsh")>>
init == <<open(<<"console">>, "O_RDWR"), dup("0"), dup("0")>> \o startSh

\* What exec() makes of the process; a name that is no program fails.
cat == <<Call("read")>>
echo == <<Call("write")>> \o exit
\* Any program may use up its descriptors: this one has one or none left when it
\* calls pipe(), dup() or open().
hoard == {<<dup("0"), Call("pipe")>> \o exit, <<dup("0"), dup("0"), Call("pipe")>> \o exit,
          <<dup("0"), dup("0"), dup("0"), open(<<"f">>, "O_RDWR")>> \o exit}
Programs == {<<"sh">>, <<"cat">>, <<"echo">>, <<"hoard">>}
Main(name) == CASE name = <<"sh">> -> {sh} [] name = <<"cat">> -> {cat}
                [] name = <<"echo">> -> {echo} [] name = <<"hoard">> -> hoard

----------------------------------------------------------------------------
Nowhere == [job |-> 0, tree |-> BadSyntax, path |-> <<>>]

Init ==
  /\ FileInit
  /\ state = [p \in Procs |-> IF p = initproc THEN "USED" ELSE "UNUSED"]
  /\ parent = [p \in Procs |-> 0]
  /\ script = [p \in Procs |-> IF p = initproc THEN init ELSE <<>>]
  /\ pfd = [p \in Procs |-> <<0, 0>>]
  /\ console \in BOOLEAN
  /\ where = [p \in Procs |-> Nowhere]
  /\ madeBy = [i \in Pipes |-> Nowhere]
  /\ alone = {}

At(p, op) == state[p] = "USED" /\ ~InCall(p) /\ script[p][1].op = op
Goto(p, s) == script' = [script EXCEPT ![p] = s]
Rest(p) == Tail(script[p])
Children(p) == {q \in Procs : parent[q] = p /\ state[q] # "UNUSED"}
Zombies(p) == {q \in Children(p) : state[q] = "ZOMBIE"}
Lowest(S) == CHOOSE x \in S : \A y \in S : x <= y
keep == <<state, parent, pfd, console, where, madeBy, alone>>

\* The second half of a fileclose(), wherever it was called.
finish_close(p) ==
  /\ pipeclose(p) \/ iput(p) \/ close_none(p)
  /\ madeBy' = [i \in Pipes |-> IF pipe'[i].used THEN madeBy[i] ELSE Nowhere]
  /\ UNCHANGED <<state, parent, script, pfd, console, where, alone>>

sh_close(p) ==
  /\ At(p, "close")
  /\ LET fd == fdOf(p, script[p][1].fd)
     IN IF argfd(p, fd) THEN sys_close(p, fd) ELSE UNCHANGED fvars
  /\ Goto(p, Rest(p)) /\ UNCHANGED keep

sh_dup(p) ==
  /\ At(p, "dup")
  /\ LET fd == fdOf(p, script[p][1].fd)
     IN IF sys_dup_fails(p, fd) THEN UNCHANGED fvars ELSE sys_dup(p, fd)
  /\ Goto(p, Rest(p)) /\ UNCHANGED keep

\* init and main() open the console with a descriptor to spare, and go on without
\* it when there is no struct file.
OpenConsole(p, opened) ==
  IF sys_open_fails THEN Goto(p, Rest(p)) /\ UNCHANGED fvars
  ELSE sys_open(p, "console", "O_RDWR", "FD_DEVICE") /\ Goto(p, opened)

\* sys_open().  The console is a device, made by init when missing; a file that is
\* only to be read may be missing too.
sh_open(p) ==
  /\ At(p, "open")
  /\ LET name == script[p][1].name[1]
         mode == script[p][1].mode
     IN \/ /\ name = "console" /\ console
           /\ OpenConsole(p, Rest(p)) /\ UNCHANGED console
        \/ /\ name = "console" /\ ~console        \* mknod() and open() again
           /\ console' = TRUE
           /\ UNCHANGED <<script, fvars>>
        \/ /\ name # "console"
           /\ \/ sys_open(p, name, mode, "FD_INODE") /\ Goto(p, Rest(p))
              \/ sys_open_nofd(p) /\ UNCHANGED script
              \/ sys_open_fails /\ Goto(p, exit) /\ UNCHANGED fvars
              \/ mode = "O_RDONLY" /\ Goto(p, exit) /\ UNCHANGED fvars
           /\ UNCHANGED console
  /\ UNCHANGED <<state, parent, pfd, where, madeBy, alone>>

sh_pipe(p) ==
  /\ state[p] = "USED" /\ ff[p] = FreeFile /\ script[p][1].op = "pipe"
  /\ \/ pipealloc(p) /\ UNCHANGED pvars
     \/ /\ sys_pipe(p)
        /\ IF bad'[p] THEN UNCHANGED <<script, pfd, madeBy>>
           ELSE /\ pfd' = [pfd EXCEPT ![p] = TwoFds(p)]
                /\ madeBy' = [madeBy EXCEPT ![file'[rf[p][1]].pipe] = where[p]]
                /\ Goto(p, Rest(p))
        /\ UNCHANGED <<state, parent, console, where, alone>>

\* A pipe() or an open() fails on its way: panic("pipe"), or "open failed".
sh_bad(p) ==
  /\ state[p] = "USED" /\ ff[p] = FreeFile
  /\ \/ give_back(p) /\ UNCHANGED pvars
     \/ return_bad(p) /\ Goto(p, exit) /\ UNCHANGED keep

sh_fork(p) ==
  /\ At(p, "fork")
  /\ \A q \in Procs : state[q] # "UNUSED"       \* panic("fork")
  /\ Goto(p, exit)
  /\ alone' = alone \cup {where[p].job}
  /\ UNCHANGED <<fvars, state, parent, pfd, console, where, madeBy>>

\* The node that the child is for, if it is for one.
Begins(child, path) == LET last == child[Len(child)]
                       IN IF last.op = "run" THEN last.path ELSE path
sh_forked(p) ==
  /\ At(p, "fork")
  /\ \E q \in Procs :
       /\ state[q] = "UNUSED" /\ \A r \in 1..(q - 1) : state[r] # "UNUSED"
       /\ fork_files(p, q)
       /\ state' = [state EXCEPT ![q] = "USED"]
       /\ parent' = [parent EXCEPT ![q] = p]
       /\ script' = [script EXCEPT ![q] = script[p][1].child, ![p] = Rest(p)]
       /\ pfd' = [pfd EXCEPT ![q] = pfd[p]]
       /\ where' = [where EXCEPT ![q] = [where[p] EXCEPT !.path = Begins(script[p][1].child, @)]]
  /\ UNCHANGED <<console, madeBy, alone>>

\* wait() frees a child that has exited; without children it returns -1.
Reap(q) ==
  /\ state' = [state EXCEPT ![q] = "UNUSED"]
  /\ parent' = [parent EXCEPT ![q] = 0]
  /\ pfd' = [pfd EXCEPT ![q] = <<0, 0>>]
  /\ where' = [where EXCEPT ![q] = Nowhere]

sh_wait(p) ==
  /\ At(p, "wait")
  /\ \/ Zombies(p) # {} /\ Reap(Lowest(Zombies(p))) /\ UNCHANGED <<console, madeBy, alone>>
     \/ Children(p) = {} /\ UNCHANGED keep
  /\ Goto(p, Rest(p)) /\ UNCHANGED fvars

\* init waits until the shell that it started is gone.
init_wait(p) ==
  /\ At(p, "waitsh") /\ Zombies(p) # {}
  /\ LET q == Lowest(Zombies(p))
     IN /\ Reap(q)
        /\ Goto(p, IF where[q] = Nowhere THEN startSh ELSE script[p])
  /\ UNCHANGED <<fvars, console, madeBy, alone>>

sh_exit(p) ==
  /\ At(p, "exit") /\ p # initproc
  /\ IF \E fd \in Fds : ofile[p][fd] # None
     THEN /\ sys_close(p, Lowest({fd \in Fds : ofile[p][fd] # None}))
          /\ UNCHANGED pvars
     ELSE /\ state' = [state EXCEPT ![p] = "ZOMBIE"]
          /\ parent' = [q \in Procs |-> IF q \in Children(p) THEN initproc ELSE parent[q]]
          /\ Goto(p, <<>>)
          /\ UNCHANGED <<fvars, pfd, console, where, madeBy, alone>>

sh_exec(p) ==
  /\ At(p, "exec")
  /\ LET name == script[p][1].argv[1]
     IN \/ name \in Programs /\ \E main \in Main(name) : Goto(p, main)
        \/ name \notin Programs /\ Goto(p, Rest(p))
  /\ UNCHANGED <<fvars, keep>>

sh_run(p) ==
  /\ At(p, "run")
  /\ Goto(p, runcmd(script[p][1].cmd, script[p][1].path))
  /\ where' = [where EXCEPT ![p].path = script[p][1].path]
  /\ UNCHANGED <<fvars, state, parent, pfd, console, madeBy, alone>>

\* Before the first line sh opens the console until it gets a descriptor
\* above 2, which it closes again.
sh_three(p) ==
  /\ At(p, "three")
  /\ OpenConsole(p, IF fdalloc(p) < 3 THEN script[p] ELSE <<Call("unthree")>> \o Rest(p))
  /\ UNCHANGED keep
sh_unthree(p) ==
  /\ At(p, "unthree")
  /\ sys_close(p, 3)
  /\ Goto(p, Rest(p)) /\ UNCHANGED keep

\* One round of main()'s loop: a line, or the end of the input.
getcmd(p) ==
  /\ At(p, "getcmd")
  /\ Cardinality({q \in Procs : where[q] # Nowhere}) <= MAXOLD
  /\ \/ \E l \in Lines :
          Goto(p, <<fork1(<<[op |-> "parse", tree |-> parsecmd(l)]>>), Call("wait"), Call("getcmd")>>)
     \/ Goto(p, exit)
  /\ UNCHANGED <<fvars, keep>>

\* The child begins with the tree of its line (it is computed above, with the
\* line that it is a function of).
sh_parse(p) ==
  /\ At(p, "parse")
  /\ LET tree == script[p][1].tree
         job == Lowest((1..NPROC) \ {where[q].job : q \in Procs})
     IN /\ Goto(p, <<run(tree, <<>>)>>)
        /\ where' = [where EXCEPT ![p] =
             [job |-> job, tree |-> tree, path |-> <<>>]]
        /\ alone' = alone \ {job}
  /\ UNCHANGED <<fvars, state, parent, pfd, console, madeBy>>

\* cat copies its input to its output; echo writes once.
cat_read(p) ==
  /\ At(p, "read")
  /\ \/ fileread(p, 0) /\ Goto(p, <<Call("write"), Call("read")>>)
     \/ fileread_ends(p, 0) /\ Goto(p, exit) /\ UNCHANGED fvars
  /\ UNCHANGED keep
cat_write(p) ==
  /\ At(p, "write")
  /\ \/ filewrite(p, 1) /\ Goto(p, Rest(p))
     \/ filewrite_fails(p, 1) /\ Goto(p, exit) /\ UNCHANGED fvars
  /\ UNCHANGED keep

Step(p) ==
  \/ finish_close(p) \/ sh_close(p) \/ sh_dup(p) \/ sh_open(p) \/ sh_pipe(p) \/ sh_bad(p)
  \/ sh_fork(p) \/ sh_forked(p) \/ sh_wait(p) \/ init_wait(p) \/ sh_exit(p)
  \/ sh_exec(p) \/ sh_run(p) \/ sh_three(p) \/ sh_unthree(p) \/ sh_parse(p)
  \/ cat_read(p) \/ cat_write(p)

Next == \E p \in Procs : Step(p) \/ getcmd(p)

Spec == Init /\ [][Next]_vars
\* The processors do not stop while some process can go on.  (That each one gets
\* its turn is not needed: only the shell's loop makes a script go on for ever,
\* and nobody makes the user type a line.)
FairSpec == Spec /\ WF_vars(\E p \in Procs : Step(p))

----------------------------------------------------------------------------
(* Properties *)

\* Where the command at a path of the tree has to read and write: the pipe or
\* file that stands closest to it, else the console.  n nodes are behind us.
RECURSIVE Wanted(_, _, _, _)
Wanted(cmd, path, n, env) ==
  LET made == <<"pipe", SubSeq(path, 1, n)>>
  IN CASE cmd.type = "EXEC" -> env
       [] cmd.type = "REDIR" -> Wanted(cmd.cmd, path, n + 1, [env EXCEPT ![cmd.fd] = <<"file", cmd.file[1]>>])
       [] cmd.type = "BACK" -> Wanted(cmd.cmd, path, n + 1, env)
       [] cmd.type = "LIST" ->
            Wanted(IF path[n + 1] = "first" THEN cmd.left ELSE cmd.right, path, n + 1, env)
       [] cmd.type = "PIPE" ->
            IF path[n + 1] = "from" THEN Wanted(cmd.left, path, n + 1, [env EXCEPT ![1] = made])
            ELSE Wanted(cmd.right, path, n + 1, [env EXCEPT ![0] = made])

Target(p, fd) ==
  LET f == file[ofile[p][fd]]
  IN IF ofile[p][fd] = None THEN <<"none", "">>
     ELSE IF f.type # "FD_PIPE" THEN <<"file", f.ip>>
     ELSE IF madeBy[f.pipe].job # where[p].job THEN <<"stranger", "">>
     ELSE <<"pipe", madeBy[f.pipe].path>>

Terminal == <<"file", "console">>

\* runcmd() hands every program the descriptors its place on the command line
\* asks for: when a process comes to exec(), descriptors 0 and 1 are the file or
\* the end of the pipe written closest to it, 2 is the console, and no other
\* descriptor is open, so that no end of a pipe outlives the programs that use it.
RightFiles ==
  \A p \in Procs : At(p, "exec") /\ where[p] # Nowhere =>
    LET want == Wanted(where[p].tree, where[p].path, 0, [fd \in 0..1 |-> Terminal])
    IN \A fd \in Fds : Target(p, fd) =
         CASE fd \in 0..1 -> want[fd] [] fd = 2 -> Terminal [] OTHER -> <<"none", "">>

\* runcmd()'s bare wait(0) waits for the right children: nothing of what is right
\* of a semicolon has started while a process left of it is there, unless that was
\* put in the background or a failing fork1() ended its parent early.
InOrder ==
  \A p, q \in Procs :
    /\ state[p] = "USED" /\ state[q] = "USED" /\ p # q
    /\ where[p] # Nowhere /\ where[p].job = where[q].job /\ where[p].job \notin alone
    => \A k \in DOMAIN where[p].path \cap DOMAIN where[q].path :
         /\ SubSeq(where[p].path, 1, k - 1) = SubSeq(where[q].path, 1, k - 1)
         /\ where[p].path[k] = "first" /\ where[q].path[k] = "then"
         => \E j \in (k + 1)..Len(where[p].path) : where[p].path[j] = "back"

\* main() comes back for the next line: every command line is done with, since no
\* process of a pipeline waits for an end of file that a leftover descriptor keeps
\* from coming.
Busy == \E p \in Procs : state[p] = "USED" /\ Len(script[p]) = 2 /\ script[p][2].op = "getcmd"
                         /\ script[p][1].op = "wait"
PromptReturns == Busy ~> ~Busy
============================================================================
