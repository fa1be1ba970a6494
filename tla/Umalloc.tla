------------------------------ MODULE Umalloc ------------------------------
(***************************************************************************)
(* The allocator of user programs (user/umalloc.c), checked on all short   *)
(* sequences of malloc(), free() and sbrk().  Addresses are counted in     *)
(* units of a Header; a block is its header and the units after it.        *)
(***************************************************************************)
EXTENDS Integers, Sequences, FiniteSets, FiniteSetsExt

CONSTANTS
  HEADER,     \* sizeof(Header)
  CORE,       \* units that morecore() asks for at least
  LIMIT,      \* bound: the end of the heap
  Requests,   \* arguments of malloc()
  CALLS       \* bound: calls in a sequence

NULL == -1
base == 0                             \* the static Header lies below the heap
start == 2
Units == base..LIMIT

\* A heap: the headers' fields, the free list's entry and the break; and, as a
\* record of what was done, the blocks in use and the units that the program
\* got from sbrk() for itself.
Fresh == [ptr |-> [u \in Units |-> NULL], size |-> [u \in Units |-> 0], freep |-> NULL,
          brk |-> start, used |-> {}, other |-> {}]
Heaps == [ptr : [Units -> Units \cup {NULL}], size : [Units -> Nat],
          freep : Units \cup {NULL}, brk : Nat, used : SUBSET Units, other : SUBSET Units]

----------------------------------------------------------------------------
\* free()'s search: the last free block before bp, or the list's end when bp is
\* beyond either end.
Place(h, bp) ==
  LET Loop[p \in Units] ==
        LET q == h.ptr[p]
        IN IF (bp > p /\ bp < q) \/ (p >= q /\ (bp > p \/ bp < q)) THEN p ELSE Loop[q]
  IN Loop[h.freep]

Put_upper_only(h, p, bp) ==
  LET q == h.ptr[p]
      upper == bp + h.size[bp] = q
      size1 == IF upper THEN h.size[bp] + h.size[q] ELSE h.size[bp]
      ptr1 == IF upper THEN h.ptr[q] ELSE q
  IN [h EXCEPT !.ptr = [@ EXCEPT ![bp] = ptr1, ![p] = bp], !.size[bp] = size1, !.freep = p]
\* The block is merged with its upper neighbour, then with its lower one.
Put(h, p, bp) ==
  LET q == h.ptr[p]
      upper == bp + h.size[bp] = q
      size1 == IF upper THEN h.size[bp] + h.size[q] ELSE h.size[bp]
      ptr1 == IF upper THEN h.ptr[q] ELSE q
  IN IF p + h.size[p] = bp
     THEN [h EXCEPT !.ptr = [@ EXCEPT ![bp] = ptr1, ![p] = ptr1],
                    !.size = [@ EXCEPT ![bp] = size1, ![p] = @ + size1], !.freep = p]
     ELSE [h EXCEPT !.ptr = [@ EXCEPT ![bp] = ptr1, ![p] = bp], !.size[bp] = size1, !.freep = p]

free(h, bp) == [Put(h, Place(h, bp), bp) EXCEPT !.used = @ \ {bp}]

Core(nu) == Max({nu, CORE})
CanGrow(h, n) == h.brk + n <= LIMIT
morecore(h, nu) ==
  free([h EXCEPT !.size[h.brk] = Core(nu), !.brk = @ + Core(nu)], h.brk)

nunits(nbytes) == (nbytes + HEADER - 1) \div HEADER + 1

\* The block that fits, whole, or the upper end of a larger one.
Take(h, prevp, p, n) ==
  LET at == p + h.size[p] - n
  IN [[h EXCEPT !.freep = prevp, !.used = @ \cup {at}] EXCEPT
        !.ptr[prevp] = IF h.size[p] = n THEN h.ptr[p] ELSE @,
        !.size = IF h.size[p] = n THEN @ ELSE [@ EXCEPT ![p] = @ - n, ![at] = n]]

\* A heap, or NULL when there is no memory.
malloc(h0, nbytes) ==
  LET n == nunits(nbytes)
      Loop[h \in Heaps, prevp \in Units, p \in Units] ==
        IF h.size[p] >= n THEN Take(h, prevp, p, n)
        ELSE IF p # h.freep THEN Loop[h, p, h.ptr[p]]
        ELSE IF ~CanGrow(h, Core(n)) THEN [h EXCEPT !.brk = NULL]
        ELSE LET g == morecore(h, n) IN Loop[g, g.freep, g.ptr[g.freep]]
      h1 == IF h0.freep # NULL THEN h0 ELSE [h0 EXCEPT !.ptr[base] = base, !.size[base] = 0, !.freep = base]
  IN Loop[h1, h1.freep, h1.ptr[h1.freep]]
Failed(h) == h.brk = NULL

\* The program takes memory itself: the next core is not adjacent to the last.
sbrk(h) == [h EXCEPT !.brk = @ + 1, !.other = @ \cup {h.brk}]

----------------------------------------------------------------------------
(* What holds between calls *)

\* The free list from the block at p on, up to base.
FreeList(h) ==
  LET List[p \in Units, k \in 0..LIMIT] ==
        IF p = base \/ k = 0 THEN << >> ELSE <<p>> \o List[h.ptr[p], k - 1]
  IN IF h.freep = NULL THEN << >> ELSE List[h.ptr[base], LIMIT]
Extent(h, u) == u..(u + h.size[u] - 1)

\* The free list is in the order of addresses and no two of its blocks touch; the
\* free blocks, those in use and the program's own memory share the heap out
\* among them, so that nothing is in two blocks and nothing is lost.
Sound(h) ==
  LET L == FreeList(h)
      blocks == {L[k] : k \in DOMAIN L} \cup h.used
  IN /\ \A k \in 1..(Len(L) - 1) : L[k] + h.size[L[k]] < L[k + 1]
     /\ h.freep \in {NULL, base} \cup {L[k] : k \in DOMAIN L}
     /\ \A u, v \in blocks : u # v => Extent(h, u) \cap Extent(h, v) = {}
     /\ UNION {Extent(h, u) : u \in blocks} = (start..(h.brk - 1)) \ h.other

\* malloc() gives a new block of the size asked for, and fails only when no free
\* block is large enough and the heap cannot grow.
MallocOK(h, nbytes) ==
  LET g == malloc(h, nbytes)
      n == nunits(nbytes)
      L == FreeList(h)
  IN IF Failed(g) THEN ~CanGrow(h, Core(n)) /\ \A k \in DOMAIN L : h.size[L[k]] < n
     ELSE /\ Sound(g)
          /\ \E u \in g.used \ h.used : g.used = h.used \cup {u} /\ g.size[u] = n
          /\ \A u \in h.used : g.size[u] = h.size[u]

\* From heap h on, all sequences of up to CALLS calls leave it sound.
Agrees ==
  LET All[h \in Heaps, k \in 0..CALLS] ==
        \/ k = 0
        \/ /\ \A n \in Requests :
                LET g == malloc(h, n) IN MallocOK(h, n) /\ (~Failed(g) => All[g, k - 1])
           /\ \A u \in h.used : LET g == free(h, u) IN Sound(g) /\ All[g, k - 1]
           /\ h.other = {} /\ CanGrow(h, 1) => All[sbrk(h), k - 1]
  IN All[Fresh, CALLS]
=============================================================================
