------------------------------ MODULE UserCopy ------------------------------
(***************************************************************************)
(* Copying between kernel and user memory: walkaddr(), copyout(), copyin() *)
(* and copyinstr() (kernel/vm.c), fetchaddr() (kernel/syscall.c) and       *)
(* pgaccess() (kernel/sysproc.c), checked against definitions that look at *)
(* one byte at a time.                                                     *)
(*                                                                         *)
(* A page table pt gives the entry of each page: the flags of a PTE, "none"*)
(* where walk() finds no entry.  Page v is kept at the physical page       *)
(* Frame(v); mem is the physical memory, a byte for each address.          *)
(***************************************************************************)
EXTENDS Integers, Sequences, FiniteSets, FiniteSetsExt

CONSTANTS
  PGSIZE,
  NVPAGE,     \* MAXVA, in pages
  WORD,       \* sizeof(uint64)
  MASKBITS    \* and its bits, as far as pgaccess() uses them

MAXVA == NVPAGE * PGSIZE
UINT == 2 * MAXVA                      \* addresses are counted modulo this
VPages == 0..(NVPAGE - 1)

\* The flags an entry may have: empty, text, data and heap, the stack's guard
\* page (which uvmclear() took PTE_U from), trapframe.
Entries == {"none", "", "VU", "VUW", "VW"}
PTE(pt, va) == IF va < MAXVA THEN pt[va \div PGSIZE] ELSE "none"
Valid(e) == e \in {"VU", "VUW", "VW"}
User(e) == e \in {"VU", "VUW"}
Writable(e) == e \in {"VUW", "VW"}

Frame(v) == NVPAGE - v                 \* any injection into 1..NVPAGE
Addresses == PGSIZE..(MAXVA + PGSIZE - 1)

----------------------------------------------------------------------------
(* vm.c *)

PGROUNDDOWN(va) == va - (va % PGSIZE)
walkaddr(pt, va) ==
  IF va >= MAXVA \/ ~Valid(PTE(pt, va)) \/ ~User(PTE(pt, va)) THEN 0
  ELSE Frame(va \div PGSIZE) * PGSIZE

Chunk(va, len) == Min({PGSIZE - (va - PGROUNDDOWN(va)), len})
NextPage_skips(va) == va + PGSIZE
NextPage(va) == PGROUNDDOWN(va) + PGSIZE
Phys(pt, va) == walkaddr(pt, PGROUNDDOWN(va)) + (va - PGROUNDDOWN(va))

\* The result and the memory after it; src is a sequence of bytes.
copyout(pt, mem0, dst0, src0) ==
  LET Loop[mem \in [Addresses -> Nat], dstva \in Nat, src \in Seq(Nat)] ==
        LET n == Chunk(dstva, Len(src))
        IN IF src = << >> THEN [ret |-> 0, mem |-> mem]
           ELSE IF dstva >= MAXVA \/ ~Writable(PTE(pt, dstva)) \/ walkaddr(pt, PGROUNDDOWN(dstva)) = 0
           THEN [ret |-> -1, mem |-> mem]
           ELSE Loop[[k \in Addresses |->
                        IF k \in Phys(pt, dstva)..(Phys(pt, dstva) + n - 1)
                        THEN src[k - Phys(pt, dstva) + 1] ELSE mem[k]],
                     NextPage(dstva), SubSeq(src, n + 1, Len(src))]
  IN Loop[mem0, dst0, src0]

\* The result and what dst holds then.
copyin(pt, mem, src0, len0) ==
  LET Loop[dst \in Seq(Nat), srcva \in Nat, len \in Nat] ==
        LET n == Chunk(srcva, len)
        IN IF len = 0 THEN [ret |-> 0, dst |-> dst]
           ELSE IF walkaddr(pt, PGROUNDDOWN(srcva)) = 0 THEN [ret |-> -1, dst |-> dst]
           ELSE Loop[dst \o [k \in 1..n |-> mem[Phys(pt, srcva) + k - 1]], NextPage(srcva), len - n]
  IN Loop[<< >>, src0, len0]

\* Up to a zero byte, which is kept, or max.
copyinstr(pt, mem, src0, max0) ==
  LET Loop[dst \in Seq(Nat), srcva \in Nat, max \in Nat] ==
        LET n == Chunk(srcva, max)
            p == Phys(pt, srcva)
            nul == {k \in 0..(n - 1) : mem[p + k] = 0}
        IN IF max = 0 \/ walkaddr(pt, PGROUNDDOWN(srcva)) = 0 THEN [ret |-> -1, dst |-> dst]
           ELSE IF nul # {} THEN [ret |-> 0, dst |-> dst \o [k \in 1..(Min(nul) + 1) |-> mem[p + k - 1]]]
           ELSE Loop[dst \o [k \in 1..n |-> mem[p + k - 1]], NextPage(srcva), max - n]
  IN Loop[<< >>, src0, max0]

----------------------------------------------------------------------------
(* syscall.c and sysproc.c *)

\* addr+sizeof(uint64) may overflow.
fetchaddr(pt, mem, sz, addr) ==
  IF addr >= sz \/ (addr + WORD) % UINT > sz THEN [ret |-> -1, dst |-> << >>]
  ELSE copyin(pt, mem, addr, WORD)

\* The accessed bits are those of the pages in A; the mask is one byte.  walk()
\* panics beyond MAXVA, which nobody has tested, and 1ULL << i shifts by i modulo
\* the word's bits (sll).
pgaccess(pt, mem, A, start, numpages, user) ==
  LET Page(i) == (start + i * PGSIZE) \div PGSIZE
      Loop[i \in Nat, mask \in SUBSET Nat, acc \in SUBSET VPages] ==
        IF i = numpages THEN [panics |-> FALSE, mask |-> mask, acc |-> acc]
        ELSE IF start + i * PGSIZE >= MAXVA
        THEN [panics |-> TRUE, mask |-> mask, acc |-> acc]
        ELSE IF pt[Page(i)] # "none" /\ Page(i) \in acc
        THEN Loop[i + 1, mask \cup {i % MASKBITS}, acc \ {Page(i)}]
        ELSE Loop[i + 1, mask, acc]
      r == Loop[0, {}, A]
      out == copyout(pt, mem, user, <<SumSet({2^b : b \in r.mask})>>)
  IN [panics |-> r.panics, ret |-> out.ret, mem |-> out.mem, acc |-> r.acc]

----------------------------------------------------------------------------
(* What they should do, byte by byte *)

Readable(pt, va) == va < MAXVA /\ pt[va \div PGSIZE] \in {"VU", "VUW"}
Writeable(pt, va) == va < MAXVA /\ pt[va \div PGSIZE] = "VUW"
At(va) == Frame(va \div PGSIZE) * PGSIZE + (va % PGSIZE)

PageTables == [VPages -> Entries]
VAs == 0..(MAXVA + 1)
Lens == {0, 1, PGSIZE, PGSIZE + 1, 2 * PGSIZE + 1}
Distinct == [k \in Addresses |-> k]

\* The bytes that come before the first page that is no good are written, the
\* others are as they were.
CopyoutOK(pt, va, len) ==
  LET src == [k \in 1..len |-> 100 + k]
      r == copyout(pt, Distinct, va, src)
      ok == \A k \in 0..(len - 1) : Writeable(pt, va + k)
      done(k) == \A j \in 0..k : Writeable(pt, va + j)
  IN /\ r.ret = IF ok THEN 0 ELSE -1
     /\ \A k \in 0..(len - 1) : done(k) => r.mem[At(va + k)] = 100 + k + 1
     /\ \A x \in Addresses : (\A k \in 0..(len - 1) : done(k) => x # At(va + k)) => r.mem[x] = x

CopyinOK(pt, va, len) ==
  LET r == copyin(pt, Distinct, va, len)
      ok == \A k \in 0..(len - 1) : Readable(pt, va + k)
  IN /\ r.ret = IF ok THEN 0 ELSE -1
     /\ ok => r.dst = [k \in 1..len |-> At(va + k - 1)]

\* The string is the bytes up to the first zero, when that comes within max
\* bytes and nothing before it is unreadable.
CopyinstrOK(pt, va, max, zeros) ==
  LET mem == [k \in Addresses |-> IF k \in zeros THEN 0 ELSE k]
      r == copyinstr(pt, mem, va, max)
      ends == {k \in 0..(max - 1) : /\ \A j \in 0..k : Readable(pt, va + j)
                                    /\ At(va + k) \in zeros}
  IN IF ends = {} THEN r.ret = -1
     ELSE r.ret = 0 /\ r.dst = [k \in 1..(Min(ends) + 1) |-> mem[At(va + k - 1)]]

FetchaddrOK(pt, sz, addr) ==
  (fetchaddr(pt, Distinct, sz, addr).ret = 0) =
    (\A k \in 0..(WORD - 1) : addr + k < sz /\ Readable(pt, addr + k))

\* pgaccess() panics if the range leaves the address space, and only then.
\* Otherwise bit b is set if page b, or one that many words' bits further on, was
\* accessed; and a page is reported once, also to a caller that asks again with
\* nothing accessed in between.
PgaccessOK(pt, A, start, n, user) ==
  LET r == pgaccess(pt, Distinct, A, start, n, user)
      again == pgaccess(pt, r.mem, r.acc, start, n, user)
      first == start \div PGSIZE
  IN /\ r.panics = (n > 0 /\ first + n > NVPAGE)
     /\ ~r.panics =>
          /\ r.ret = IF Writeable(pt, user) THEN 0 ELSE -1
          /\ r.acc = A \ (first..(first + n - 1))
          /\ r.ret = 0 =>
               /\ \A b \in 0..(MASKBITS - 1) :
                    ((r.mem[At(user)] \div 2^b) % 2 = 1)
                      = (\E i \in 0..(n - 1) : i % MASKBITS = b /\ first + i \in A)
               /\ again.mem[At(user)] = 0

Present(pt) == {v \in VPages : Valid(pt[v])}

\* copyout(), copyin(), copyinstr(), fetchaddr() and pgaccess() do what the
\* definitions above say, for every page table, address and length.
Agrees ==
  \A pt \in PageTables :
    /\ \A va \in VAs, len \in Lens : CopyoutOK(pt, va, len) /\ CopyinOK(pt, va, len)
    /\ \A va \in VAs, max \in Lens, z \in SUBSET {PGSIZE, PGSIZE + 1, 2 * PGSIZE} :
         CopyinstrOK(pt, va, max, z)
    /\ \A sz \in 0..MAXVA, addr \in 0..(UINT - 1) : FetchaddrOK(pt, sz, addr)
    /\ \A A \in SUBSET Present(pt), v \in 0..NVPAGE, user \in VAs, n \in 0..(NVPAGE + 1) :
         PgaccessOK(pt, A, v * PGSIZE + 1, n, user)
=============================================================================
