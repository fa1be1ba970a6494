------------------------------ MODULE Console ------------------------------
(***************************************************************************)
(* Console input (kernel/console.c): the interrupt handler edits lines in  *)
(* a ring that processes read.  The indices r, w and e are uint and wrap   *)
(* at UINT.                                                                *)
(*                                                                         *)
(* consoleintr() is one step, under cons.lock.  consoleread() keeps the    *)
(* lock between its sleeps; its steps are the iterations of its loop, so   *)
(* that kill(), which does not take cons.lock, can come between the test   *)
(* of p->killed and the sleep.  Echoing is in Uart.                        *)
(***************************************************************************)
EXTENDS Integers, Sequences, FiniteSets

CONSTANTS
  SIZE,       \* INPUT_BUF_SIZE
  WRAPS,      \* 2^32 / SIZE
  Procs,
  Letters,    \* characters without a meaning of their own
  MAXN,       \* bound on the size of a read
  Killable, BadBuf,
  NoChar

ASSUME ConsoleAssumption ==
  /\ SIZE \in Nat \ {0} /\ WRAPS \in Nat /\ WRAPS >= 2 /\ MAXN \in Nat
  /\ Letters \cap {"\n", "\r", "^D", "^U", "^H"} = {}

UINT == WRAPS * SIZE
Keys == Letters \cup {"\n", "\r", "^D", "^U", "^H"}

VARIABLES
  buf, r, w, e,        \* cons
  lock,                \* cons.lock
  pc, n, target,       \* of consoleread()
  killed,
  ubuf                 \* the last character copied to a process

cons == <<buf, r, w, e>>
vars == <<cons, lock, pc, n, target, killed, ubuf>>

Minus(x, y) == (x - y) % UINT
At(x) == buf[x % SIZE]
Goto(p, l) == pc' = [pc EXCEPT ![p] = l]

----------------------------------------------------------------------------
(* consoleintr(c) *)

\* How far control-U takes e back: to w, or to after a newline.
KillLineTo ==
  LET stops == {k \in 0..Minus(e, w) : k = Minus(e, w) \/ At(Minus(e, k + 1)) = "\n"}
  IN Minus(e, CHOOSE k \in stops : \A j \in stops : k <= j)

Stored(c) == IF c = "\r" THEN "\n" ELSE c

\* wakeup(&cons.r)
Wake(f) == [p \in Procs |-> IF f[p] = "sleeping" THEN "call" ELSE f[p]]

type_unwoken(c) ==
  /\ c \notin {"^U", "^H"} /\ Minus(e, r) < SIZE
  /\ buf' = [buf EXCEPT ![e % SIZE] = Stored(c)]
  /\ e' = (e + 1) % UINT
  /\ w' = IF Stored(c) \in {"\n", "^D"} \/ Minus(e', r) = SIZE THEN e' ELSE w
  /\ UNCHANGED pc
type_lines_only(c) ==
  /\ c \notin {"^U", "^H"} /\ Minus(e, r) < SIZE
  /\ buf' = [buf EXCEPT ![e % SIZE] = Stored(c)]
  /\ e' = (e + 1) % UINT
  /\ IF Stored(c) \in {"\n", "^D"}
     THEN w' = e' /\ pc' = Wake(pc)
     ELSE UNCHANGED <<w, pc>>
type(c) ==
  /\ c \notin {"^U", "^H"} /\ Minus(e, r) < SIZE
  /\ buf' = [buf EXCEPT ![e % SIZE] = Stored(c)]
  /\ e' = (e + 1) % UINT
  /\ IF Stored(c) \in {"\n", "^D"} \/ Minus(e', r) = SIZE
     THEN w' = e' /\ pc' = Wake(pc)
     ELSE UNCHANGED <<w, pc>>

erase_finished(c) ==
  /\ c \in {"^U", "^H"} /\ e # r
  /\ e' = IF c = "^U" THEN KillLineTo ELSE Minus(e, 1)
  /\ UNCHANGED <<buf, w, pc>>
erase(c) ==
  /\ c \in {"^U", "^H"} /\ e # w
  /\ e' = IF c = "^U" THEN KillLineTo ELSE Minus(e, 1)
  /\ UNCHANGED <<buf, w, pc>>

\* No room for the character, or nothing to erase.
ignore(c) ==
  /\ IF c \in {"^U", "^H"} THEN e = w ELSE Minus(e, r) >= SIZE
  /\ UNCHANGED <<buf, w, e, pc>>

consoleintr(c) ==
  /\ lock = {}
  /\ type(c) \/ erase(c) \/ ignore(c)
  /\ UNCHANGED <<r, lock, n, target, killed, ubuf>>

----------------------------------------------------------------------------
(* consoleread() *)

read(p, k) ==
  /\ pc[p] = "user" /\ ~killed[p]
  /\ n' = [n EXCEPT ![p] = k] /\ target' = [target EXCEPT ![p] = k]
  /\ Goto(p, "call")
  /\ UNCHANGED <<cons, lock, killed, ubuf>>

acquire(p) ==
  /\ pc[p] = "call" /\ lock = {}
  /\ lock' = {p} /\ Goto(p, "loop")
  /\ UNCHANGED <<cons, n, target, killed, ubuf>>

Return(p) ==
  /\ lock' = {} /\ Goto(p, "user")
  /\ n' = [n EXCEPT ![p] = 0] /\ target' = [target EXCEPT ![p] = 0]

wait_if_none(p) ==
  /\ pc[p] = "loop" /\ n[p] > 0 /\ r = w
  /\ IF killed[p] THEN Return(p)
                  ELSE Goto(p, "sleep") /\ UNCHANGED <<lock, n, target>>
  /\ UNCHANGED <<cons, killed, ubuf>>

sleep(p) ==
  /\ pc[p] = "sleep"
  /\ lock' = {} /\ Goto(p, "sleeping")
  /\ UNCHANGED <<cons, n, target, killed, ubuf>>

\* A whole line, n characters, or no buffer to copy to: the call returns.
read_char(p) ==
  /\ pc[p] = "loop" /\ n[p] > 0 /\ r # w /\ At(r) # "^D"
  /\ r' = (r + 1) % UINT
  /\ \/ p \in BadBuf /\ Return(p) /\ UNCHANGED ubuf
     \/ /\ ubuf' = At(r)
        /\ IF At(r) = "\n" \/ n[p] = 1 THEN Return(p)
           ELSE n' = [n EXCEPT ![p] = @ - 1] /\ UNCHANGED <<lock, pc, target>>
  /\ UNCHANGED <<buf, w, e, killed>>

\* Control-D stays for the next call if this one has characters to return.
read_eof(p) ==
  /\ pc[p] = "loop" /\ n[p] > 0 /\ r # w /\ At(r) = "^D"
  /\ r' = IF n[p] < target[p] THEN r ELSE (r + 1) % UINT
  /\ Return(p)
  /\ UNCHANGED <<buf, w, e, killed, ubuf>>

read_nothing(p) ==
  /\ pc[p] = "loop" /\ n[p] = 0
  /\ Return(p)
  /\ UNCHANGED <<cons, killed, ubuf>>

kill(p) ==
  /\ ~killed[p]
  /\ killed' = [killed EXCEPT ![p] = TRUE]
  /\ Goto(p, IF pc[p] = "sleeping" THEN "call" ELSE pc[p])
  /\ UNCHANGED <<cons, lock, n, target, ubuf>>

----------------------------------------------------------------------------
Init ==
  /\ buf = [x \in 0..(SIZE - 1) |-> NoChar] /\ r = 0 /\ w = 0 /\ e = 0
  /\ lock = {} /\ pc = [p \in Procs |-> "user"]
  /\ n = [p \in Procs |-> 0] /\ target = [p \in Procs |-> 0]
  /\ killed = [p \in Procs |-> FALSE] /\ ubuf = NoChar

Kernel(p) ==
  \/ acquire(p) \/ wait_if_none(p) \/ sleep(p)
  \/ read_char(p) \/ read_eof(p) \/ read_nothing(p)

Next ==
  \/ \E c \in Keys : consoleintr(c)
  \/ \E p \in Procs : Kernel(p) \/ (\E k \in 0..MAXN : read(p, k)) \/ (p \in Killable /\ kill(p))

Spec == Init /\ [][Next]_vars
FairSpec == Spec /\ \A p \in Procs : SF_vars(Kernel(p))

----------------------------------------------------------------------------
(* Properties *)

TypeOK ==
  /\ buf \in [0..(SIZE - 1) -> Keys \cup {NoChar}]
  /\ {r, w, e} \subseteq 0..(UINT - 1)
  /\ lock \in SUBSET Procs
  /\ pc \in [Procs -> {"user", "call", "loop", "sleep", "sleeping"}]
  /\ n \in [Procs -> 0..MAXN] /\ target \in [Procs -> 0..MAXN]
  /\ killed \in [Procs -> BOOLEAN] /\ ubuf \in Keys \cup {NoChar}

\* The characters between two indices.
Between(x, y) == [k \in 1..Minus(y, x) |-> At(x + k - 1)]

Lines == INSTANCE LineInput WITH Chars <- Keys, Capacity <- SIZE,
           ready <- Between(r, w), edit <- Between(w, e), got <- ubuf

\* Through every wrap of the ring and of the indices, editing touches only the
\* line being typed, and finished characters reach the readers once and in order.
Discipline == Lines!Spec

\* The indices keep their order: r, then w, then e, at most SIZE apart.  And a full
\* buffer is readable: typing more than fits never leaves the console waiting for
\* a newline that it would not accept.  (The state is well-typed besides.)
NeverStuck ==
  /\ TypeOK
  /\ Minus(w, r) + Minus(e, w) = Minus(e, r) /\ Minus(e, r) <= SIZE
  /\ Minus(e, r) = SIZE => w = e

\* Control-D is taken from the buffer only by a call that then returns 0: it is
\* kept "for next time, to make sure caller gets a 0-byte result" (console.c:106).
EofReturnsZero ==
  [][\A p \in Procs :
       r' # r /\ At(r) = "^D" /\ lock = {p} => n[p] = target[p] /\ pc'[p] = "user"]_vars

\* What readers get is what was typed, cut where control-D was (consoleintr and
\* consoleread in console.c).
InputInOrder == Discipline /\ EofReturnsZero

\* A process in read() returns when a line has come, or another has taken it.
LineWakesReader ==
  \A p \in Procs : pc[p] # "user" /\ r # w ~> pc[p] = "user" \/ r = w
=============================================================================
