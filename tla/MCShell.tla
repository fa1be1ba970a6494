------------------------------ MODULE MCShell ------------------------------
(* Shell for TLC. *)
EXTENDS Shell

MCProcs == 1..NPROC

\* Lexemes of length up to N in which no two words touch.
CONSTANT LINELEN
ShortLines ==
  {l \in UNION {[1..n -> {"a", " "} \cup symbols] : n \in 0..LINELEN} :
     \A i \in 2..Len(l) : ~(l[i] = "a" /\ l[i - 1] = "a")}

\* parsecmd() accepts exactly the lines of the language and builds the tree that
\* cutting the line at its separators gives, and the strings that nulterminate()
\* leaves in the tree are the words of the line.  The property is about no
\* variable, and is looked at in the first state only.
ParseAgrees == script[initproc] = init => \A l \in ShortLines : parsecmd(l) = Language(Lexemes(l))

\* A heap that holds a few blocks, for six calls.
Heap == INSTANCE Umalloc WITH
  HEADER <- 2, CORE <- 5, LIMIT <- 18, Requests <- {1, 3, 9}, CALLS <- 6

\* The malloc() that the shell builds its commands with keeps its free list in
\* order and merged, gives no unit of memory to two blocks and loses none, and
\* fails only when there is no room (user/umalloc.c).  In the first state only.
HeapSound == script[initproc] = init => Heap!Agrees

SomeLines ==
  { <<"echo", "|", "cat", "|", "cat">>,
    <<"cat", "<", "f", ">", "g", "&", ";", "echo", "|", "cat">>,
    <<"(", "echo", ";", "cat", ">", ">", "f", ")", "|", "cat", "<", "g">>,
    <<"echo", "|", "cat", ";", "nope", ">", "f", ">", "g">>,
    <<"hoard", "|", "hoard">>,
    <<"echo", "(">> }
============================================================================
