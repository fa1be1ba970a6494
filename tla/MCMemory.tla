------------------------------ MODULE MCMemory ------------------------------
(* Instances of Memory for TLC. *)
EXTENDS Memory

seg(v, m) == [vaddr |-> v, memsz |-> m]
\* One segment that ends inside a page, two that are out of order, an empty one.
SomePrograms == {<<seg(0, 1)>>, <<seg(2, 1), seg(0, 2)>>, <<seg(0, 0)>>}
SomeDeltas == {3, -2}

HeldBy == {x \in Places : at[x] # NoPage}
\* Which page a place holds does not matter, as long as no page has two owners.
Shape == <<HeldBy, Cardinality({at[x] : x \in HeldBy}), Cardinality(free), top, sz, pc, op, loop, panicked>>

\* Copies to and from an address space of three pages, a mask of two.
Copy == INSTANCE UserCopy WITH PGSIZE <- 2, NVPAGE <- 3, WORD <- 2, MASKBITS <- 2

\* copyout(), copyin(), copyinstr() and fetchaddr() do to every byte what they
\* should, whatever the page table, the address and the length: they stop at the
\* first page the user may not touch, strings end at the first zero byte, and no
\* address arithmetic lets a byte outside through (kernel/vm.c, syscall.c).
\* pgaccess() (sysproc.c) reports the accessed pages of a range, folded onto the
\* bits of its mask, if the range is below MAXVA; it panics in walk() if it is not.
\* It does not depend on the state.
CopyAgrees == Init => Copy!Agrees
=============================================================================
