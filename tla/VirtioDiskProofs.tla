-------------------------- MODULE VirtioDiskProofs --------------------------
(***************************************************************************)
(* Proofs about the disk driver, for any number of descriptors, processes  *)
(* and laps of the ring indices: RingsAccounted, TransferDone and          *)
(* NoLostCompletion, from one inductive invariant.                         *)
(***************************************************************************)
EXTENDS VirtioDisk, FiniteSetTheorems, WellFoundedInduction, TLAPS

\* Leaves that name no prover are for Zenon.
USE ZenonT(60)

----------------------------------------------------------------------------
(* The inductive invariant *)

Second(p) == desc[idx0[p]].next
Third(p) == desc[Second(p)].next
Own(p) == {idx0[p], Second(p), Third(p)}

\* The request of p is three descriptors that carry its buffer.
Linked(p) ==
  /\ info[idx0[p]].b = p
  /\ desc[idx0[p]].b = p /\ desc[Second(p)].b = p /\ desc[Third(p)].b = p
  /\ desc[idx0[p]].flag /\ desc[Second(p)].flag /\ ~desc[Third(p)].flag
  /\ idx0[p] # Second(p) /\ idx0[p] # Third(p) /\ Second(p) # Third(p)

\* A descriptor names the request that it belongs to, or is free.
Chained ==
  /\ \A p \in Procs : Submitted(p) => Linked(p)
  /\ \A d \in Descs : free[d] => desc[d].b = Nobody
  /\ \A d \in Descs : ~free[d] => \E p \in Procs : Submitted(p) /\ d \in Own(p)

\* Who waits, and what for.
Waiting ==
  /\ \A p \in Procs : b_disk[p] => Submitted(p)
  /\ \A p \in Procs : pc[p] = "sleeping" => b_disk[p]
  /\ \A p \in Procs : pc[p] = "nofree" => Cardinality(Free) < 3

Count(from, to) == (to - from) % UINT16

\* The entries of a ring between two indices differ from each other.
Distinct(ring, from, to) ==
  \A j, k \in 0..(Count(from, to) - 1) :
    ring[(from + j) % NUM] = ring[(from + k) % NUM] => j = k

Asked == Entries(avail, seen, avail_idx)
Reported == Entries(used, used_idx, used_ring_idx)
Heads == {idx0[p] : p \in {q \in Procs : b_disk[q]}}

Tracked ==
  /\ Distinct(avail, seen, avail_idx) /\ Distinct(used, used_idx, used_ring_idx)
  /\ Asked \cap inflight = {} /\ Asked \cap Reported = {} /\ inflight \cap Reported = {}
  /\ Asked \cup inflight \cup Reported = Heads

\* The status of a reported request tells what became of its transfer.
Outcome(s) == IF s = 0 THEN "done" ELSE "failed"
Result(d) ==
  info[d].status \in {0, IOERR} /\ transfer[desc[d].b] = Outcome(info[d].status)

\* What has been seen to be over has been done.
Done ==
  /\ \A p \in Procs : pc[p] = "idle" => transfer[p] \in {"none", "done"}
  /\ \A p \in Procs : pc[p] = "woken" /\ ~b_disk[p] => transfer[p] = "done"
  /\ \A d \in Reported : Result(d)

DiskInv == TypeOK /\ Chained /\ Waiting /\ Tracked /\ Done

USE DiskAssumption

----------------------------------------------------------------------------
(* The arithmetic of the rings *)

\* The constants of the rings.
LEMMA Sizes == NUM \in Nat /\ NUM >= 3 /\ UINT16 \in Nat /\ NUM <= UINT16
BY SMTT(30) DEF UINT16

\* Sums and differences of uint16 indices wrap at most once.
LEMMA Wraps ==
  ASSUME NEW z \in Int
  PROVE  /\ 0 <= z /\ z < UINT16 => z % UINT16 = z
         /\ UINT16 <= z /\ z < 2 * UINT16 => z % UINT16 = z - UINT16
         /\ z < 0 /\ z >= -UINT16 => z % UINT16 = z + UINT16
BY SMTT(30), Sizes

\* No multiple of NUM lies strictly between 0 and NUM.
LEMMA NoMultiple ==
  ASSUME NEW m \in Int, NEW d \in 1..(NUM - 1)
  PROVE  m * NUM # d
<1>1. CASE m <= 0
  BY SMTT(30), <1>1
<1>2. CASE m >= 1
  BY SMTT(30), <1>2
<1> QED BY SMTT(30), <1>1, <1>2

\* A number is its quotient by NUM and its remainder.
LEMMA Division ==
  ASSUME NEW z \in Nat
  PROVE  z % NUM \in Descs /\ \E m \in Int : z = m * NUM + (z % NUM)
<1>1. z % NUM \in Descs
  BY SMTT(30) DEF Descs
<1>2. z = (z \div NUM) * NUM + (z % NUM) /\ z \div NUM \in Int
  BY SMTT(30)
<1> QED BY <1>1, <1>2

\* Numbers closer than NUM have different remainders.
LEMMA PlacesDiffer ==
  ASSUME NEW x \in Nat, NEW j \in 0..(NUM - 1), NEW k \in 0..(NUM - 1),
         (x + j) % NUM = (x + k) % NUM
  PROVE  j = k
<1> DEFINE r == (x + j) % NUM
<1>1. x + j \in Nat /\ x + k \in Nat
  BY SMTT(30)
<1>2. PICK m \in Int : x + j = m * NUM + r
  BY <1>1, Division
<1>3. PICK l \in Int : x + k = l * NUM + r
  BY <1>1, Division
<1>4. r \in Int
  BY SMTT(30), <1>1
<1> HIDE DEF r
<1>5. k - j = (l - m) * NUM /\ j - k = (m - l) * NUM
  BY SMTT(30), <1>2, <1>3, <1>4
<1>6. l - m \in Int /\ m - l \in Int
  BY SMTT(30)
<1>7. k - j \notin 1..(NUM - 1) /\ j - k \notin 1..(NUM - 1)
  BY <1>5, <1>6, NoMultiple
<1> QED BY SMTT(30), <1>7

\* Numbers that differ by a multiple of NUM have the same remainder.
LEMMA Congruent ==
  ASSUME NEW z \in Nat, NEW y \in Nat, NEW m \in Int, z = y + m * NUM
  PROVE  z % NUM = y % NUM
<1>1. PICK l \in Int : z = l * NUM + (z % NUM)
  BY Division
<1>2. PICK n \in Int : y = n * NUM + (y % NUM)
  BY Division
<1> DEFINE r == z % NUM
           s == y % NUM
<1>3. r \in 0..(NUM - 1) /\ s \in 0..(NUM - 1)
  BY Division DEF Descs
<1>4. z = l * NUM + r /\ y = n * NUM + s
  BY <1>1, <1>2
<1> HIDE DEF r, s
<1>5. r - s = (n + m - l) * NUM /\ s - r = (l - n - m) * NUM
  BY SMTT(30), <1>3, <1>4
<1>6. n + m - l \in Int /\ l - n - m \in Int
  BY SMTT(30)
<1>7. r - s \notin 1..(NUM - 1) /\ s - r \notin 1..(NUM - 1)
  BY <1>5, <1>6, NoMultiple
<1>8. r = s
  BY SMTT(30), <1>3, <1>7
<1> QED BY <1>8 DEF r, s

Indices == 0..(UINT16 - 1)

\* The second entry after an index is the first after its successor.
LEMMA PlaceNext ==
  ASSUME NEW x \in Indices, NEW k \in Nat
  PROVE  (((x + 1) % UINT16) + k) % NUM = (x + (k + 1)) % NUM
<1>1. CASE x + 1 < UINT16
  <2>1. ((x + 1) % UINT16) + k = x + (k + 1)
    BY SMTT(30), <1>1, Sizes, Wraps DEF Indices
  <2> QED BY <2>1
<1>2. CASE x + 1 = UINT16
  <2>1. ((x + 1) % UINT16) + k = k /\ x + (k + 1) = k + UINT16
    BY SMTT(30), <1>2, Sizes, Wraps DEF Indices
  <2>2. x + (k + 1) \in Nat /\ LAPS \in Int
    BY SMTT(30), Sizes DEF Indices
  <2> QED BY <2>1, <2>2, Congruent DEF UINT16
<1> QED BY SMTT(30), <1>1, <1>2, Sizes DEF Indices

\* How the number of entries changes with the indices.
LEMMA Counting ==
  ASSUME NEW from \in Indices, NEW to \in Indices
  PROVE  /\ Count(from, to) \in Nat /\ Count(from, to) < UINT16
         /\ Count(from, to) = to - from \/ Count(from, to) = to - from + UINT16
         /\ (from + 1) % UINT16 \in Indices
         /\ Count(from, to) + 1 < UINT16 =>
              Count(from, (to + 1) % UINT16) = Count(from, to) + 1
         /\ from # to => /\ Count(from, to) > 0
                         /\ Count((from + 1) % UINT16, to) = Count(from, to) - 1
<1>1. \A z \in Int : /\ 0 <= z /\ z < UINT16 => z % UINT16 = z
                     /\ UINT16 <= z /\ z < 2 * UINT16 => z % UINT16 = z - UINT16
                     /\ z < 0 /\ z >= -UINT16 => z % UINT16 = z + UINT16
  BY Wraps
<1>2. (from + 1) % UINT16 = IF from + 1 < UINT16 THEN from + 1 ELSE 0
  BY SMTT(30), <1>1, Sizes DEF Indices
<1>3. (to + 1) % UINT16 = IF to + 1 < UINT16 THEN to + 1 ELSE 0
  BY SMTT(30), <1>1, Sizes DEF Indices
<1>4. Count(from, to) = IF from <= to THEN to - from ELSE to - from + UINT16
  BY SMTT(30), <1>1, Sizes DEF Indices, Count
<1>5. Count(from, to) + 1 < UINT16 => Count(from, (to + 1) % UINT16) = Count(from, to) + 1
  BY SMTT(30), <1>1, <1>3, <1>4, Sizes DEF Indices, Count
<1>6. from # to => Count((from + 1) % UINT16, to) = Count(from, to) - 1
  BY SMTT(30), <1>1, <1>2, <1>4, Sizes DEF Indices, Count
<1> QED BY SMTT(30), <1>2, <1>4, <1>5, <1>6, Sizes DEF Indices

\* The entry after the last is the one that the writer's index names.
LEMMA PlaceEnd ==
  ASSUME NEW from \in Indices, NEW to \in Indices
  PROVE  (from + Count(from, to)) % NUM = to % NUM
<1>1. Count(from, to) = to - from \/ Count(from, to) = to - from + UINT16
  BY Counting
<1>2. from + Count(from, to) = to \/ from + Count(from, to) = to + UINT16
  BY SMTT(30), <1>1, Sizes DEF Indices
<1>3. to \in Nat /\ to + UINT16 \in Nat /\ LAPS \in Int
  BY SMTT(30), Sizes DEF Indices
<1> QED BY <1>2, <1>3, Congruent DEF UINT16

----------------------------------------------------------------------------
(* The rings *)

\* The entry h goes into a ring with room for two, after the entries before to.
Push(ring, new, h, from, to) ==
  /\ ring \in [Descs -> Descs] /\ h \in Descs /\ from \in Indices /\ to \in Indices
  /\ Count(from, to) + 2 <= NUM /\ Distinct(ring, from, to)
  /\ h \notin Entries(ring, from, to)
  /\ new[to % NUM] = h /\ \A d \in Descs : d # to % NUM => new[d] = ring[d]

\* The writer of a ring adds an entry to it.
LEMMA PushEntry ==
  ASSUME NEW ring, NEW new, NEW h, NEW from, NEW to, Push(ring, new, h, from, to)
  PROVE  /\ Entries(new, from, (to + 1) % UINT16) = Entries(ring, from, to) \cup {h}
         /\ Distinct(new, from, (to + 1) % UINT16)
<1>0. /\ ring \in [Descs -> Descs] /\ h \in Descs /\ from \in Indices /\ to \in Indices
      /\ Count(from, to) + 2 <= NUM /\ Distinct(ring, from, to)
      /\ h \notin Entries(ring, from, to)
      /\ new[to % NUM] = h /\ \A d \in Descs : d # to % NUM => new[d] = ring[d]
  BY DEF Push
<1> DEFINE n == Count(from, to)
           E(k) == ring[(from + k) % NUM]
           F(k) == new[(from + k) % NUM]
<1>1. n \in Nat /\ from \in Nat /\ n + 1 < UINT16 /\ n \in 0..(NUM - 1)
  <2>1. n \in Nat
    BY <1>0, Counting
  <2> HIDE DEF n
  <2>2. n + 2 <= NUM
    BY <1>0 DEF n
  <2> QED BY SMTT(30), <1>0, <2>1, <2>2, Sizes DEF Indices
<1>2. Count(from, (to + 1) % UINT16) = n + 1
  BY <1>0, <1>1, Counting
<1>3. F(n) = h
  <2>1. (from + n) % NUM = to % NUM /\ to % NUM \in Descs
    BY SMTT(30), <1>0, PlaceEnd, Division DEF Indices
  <2> QED BY <1>0, <2>1
<1>4. ASSUME NEW k \in 0..(n - 1) PROVE F(k) = E(k)
  <2>1. k \in 0..(NUM - 1) /\ k # n /\ from + k \in Nat
    BY SMTT(30), <1>1
  <2>2. (from + k) % NUM # to % NUM
    <3>1. (from + k) % NUM # (from + n) % NUM
      BY <1>1, <2>1, PlacesDiffer
    <3> QED BY <1>0, <3>1, PlaceEnd
  <2>3. (from + k) % NUM \in Descs
    BY <2>1, Division
  <2> QED BY <1>0, <2>2, <2>3
<1>5. 0..((n + 1) - 1) = 0..(n - 1) \cup {n} /\ n \notin 0..(n - 1)
  BY SMTT(30), <1>1
<1>6. Entries(ring, from, to) = {E(k) : k \in 0..(n - 1)}
  BY DEF Entries, Count
<1>7. Entries(new, from, (to + 1) % UINT16) = {F(k) : k \in 0..((n + 1) - 1)}
  BY <1>2 DEF Entries, Count
<1>8. \A j, k \in 0..(n - 1) : E(j) = E(k) => j = k
  BY <1>0 DEF Distinct
<1> HIDE DEF n, E, F
<1>9. \A k \in 0..(n - 1) : E(k) # h
  BY <1>0, <1>6
<1>10. {F(k) : k \in 0..((n + 1) - 1)} = {E(k) : k \in 0..(n - 1)} \cup {h}
  BY <1>3, <1>4, <1>5
<1>11. \A j, k \in 0..((n + 1) - 1) : F(j) = F(k) => j = k
  BY <1>3, <1>4, <1>5, <1>8, <1>9
<1>12. Distinct(new, from, (to + 1) % UINT16)
  BY <1>2, <1>11 DEF Distinct, F
<1> QED BY <1>6, <1>7, <1>10, <1>12

\* The reader of a ring takes its first entry.
LEMMA PopEntry ==
  ASSUME NEW ring \in [Descs -> Descs], NEW from \in Indices, NEW to \in Indices,
         from # to, Distinct(ring, from, to)
  PROVE  /\ ring[from % NUM] \in Entries(ring, from, to)
         /\ Entries(ring, (from + 1) % UINT16, to)
              = Entries(ring, from, to) \ {ring[from % NUM]}
         /\ Distinct(ring, (from + 1) % UINT16, to)
<1> DEFINE n == Count(from, to)
           next == (from + 1) % UINT16
           E(k) == ring[(from + k) % NUM]
           F(k) == ring[(next + k) % NUM]
<1>1. n \in Nat /\ n > 0 /\ Count(next, to) = n - 1
  BY Counting
<1>2. from + 0 = from
  BY SMTT(30) DEF Indices
<1>3. ring[from % NUM] = E(0)
  BY <1>2
<1>4. ASSUME NEW k \in 0..(n - 1 - 1) PROVE F(k) = E(k + 1) /\ k + 1 \in 0..(n - 1) /\ k + 1 # 0
  <2>1. k \in Nat /\ k + 1 \in 0..(n - 1) /\ k + 1 # 0
    BY SMTT(30), <1>1
  <2> QED BY <2>1, PlaceNext
<1>5. ASSUME NEW k \in 0..(n - 1), k # 0 PROVE \E i \in 0..(n - 1 - 1) : k = i + 1
  <2>1. k - 1 \in 0..(n - 1 - 1) /\ k = (k - 1) + 1
    BY SMTT(30), <1>1, <1>5
  <2> QED BY <2>1
<1>6. Entries(ring, from, to) = {E(k) : k \in 0..(n - 1)}
  BY DEF Entries, Count
<1>7. Entries(ring, next, to) = {F(k) : k \in 0..(n - 1 - 1)}
  BY <1>1 DEF Entries, Count
<1>8. \A j, k \in 0..(n - 1) : E(j) = E(k) => j = k
  BY DEF Distinct
<1>9. 0 \in 0..(n - 1)
  BY SMTT(30), <1>1
<1>10. \A j, k \in 0..(n - 1 - 1) : j + 1 = k + 1 => j = k
  BY SMTT(30), <1>1
<1> HIDE DEF n, E, F
<1>11. {F(k) : k \in 0..(n - 1 - 1)} = {E(k) : k \in 0..(n - 1)} \ {E(0)}
  <2>1. \A k \in 0..(n - 1 - 1) : F(k) \in {E(i) : i \in 0..(n - 1)} \ {E(0)}
    BY <1>4, <1>8, <1>9
  <2>2. \A k \in 0..(n - 1) : E(k) # E(0) => E(k) \in {F(i) : i \in 0..(n - 1 - 1)}
    BY <1>4, <1>5
  <2> QED BY <2>1, <2>2
<1>12. \A j, k \in 0..(n - 1 - 1) : F(j) = F(k) => j = k
  BY <1>4, <1>8, <1>10
<1>13. Distinct(ring, next, to)
  BY <1>1, <1>12 DEF Distinct, F
<1> QED BY <1>3, <1>6, <1>7, <1>9, <1>11, <1>13

\* Entries that differ are as many as the indices say.
LEMMA EntriesCount ==
  ASSUME NEW ring \in [Descs -> Descs], NEW from \in Indices, NEW to \in Indices,
         Distinct(ring, from, to)
  PROVE  /\ Entries(ring, from, to) \subseteq Descs
         /\ IsFiniteSet(Entries(ring, from, to))
         /\ Cardinality(Entries(ring, from, to)) = Count(from, to)
<1> DEFINE n == Count(from, to)
           E == Entries(ring, from, to)
           f == [k \in 0..(n - 1) |-> ring[(from + k) % NUM]]
<1>1. n \in Nat
  BY Counting
<1>2. \A k \in 0..(n - 1) : (from + k) % NUM \in Descs
  <2>1. \A k \in 0..(n - 1) : from + k \in Nat
    BY SMTT(30), <1>1 DEF Indices
  <2> QED BY <2>1, Division
<1>3. E = {ring[(from + k) % NUM] : k \in 0..(n - 1)}
  BY DEF Entries, Count
<1>4. E \subseteq Descs
  BY <1>2, <1>3
<1>5. f \in Bijection(0..(n - 1), E)
  <2>1. \A j, k \in 0..(n - 1) : f[j] = f[k] => j = k
    BY DEF Distinct
  <2>2. \A e \in E : \E k \in 0..(n - 1) : f[k] = e
    BY <1>3
  <2>3. f \in [0..(n - 1) -> E]
    BY <1>3
  <2> DEFINE I == 0..(n - 1)
  <2>4. /\ f \in [I -> E] /\ \A j, k \in I : f[j] = f[k] => j = k
        /\ \A e \in E : \E k \in I : f[k] = e
    BY <2>1, <2>2, <2>3
  <2> HIDE DEF f, E, I
  <2>5. DOMAIN f = I
    BY <2>4
  <2>6. f \in Injection(I, E)
    BY <2>4, <2>5 DEF Injection, IsInjective
  <2>7. f \in Surjection(I, E)
    BY <2>4 DEF Surjection
  <2>8. f \in Bijection(I, E)
    BY <2>6, <2>7 DEF Bijection
  <2> QED BY <2>8 DEF I
<1>6. IsFiniteSet(0..(n - 1)) /\ Cardinality(0..(n - 1)) = n
  <2>1. 0 \in Int /\ n - 1 \in Int
    BY SMTT(30), <1>1
  <2>2. /\ IsFiniteSet(0..(n - 1))
        /\ Cardinality(0..(n - 1)) = IF 0 > n - 1 THEN 0 ELSE (n - 1) - 0 + 1
    BY <2>1, FS_Interval
  <2> QED BY SMTT(30), <1>1, <2>2
<1>7. IsFiniteSet(E) /\ Cardinality(E) = n
  <2> DEFINE I == 0..(n - 1)
  <2>1. f \in Bijection(I, E) /\ IsFiniteSet(I) /\ Cardinality(I) = n
    BY <1>5, <1>6
  <2> HIDE DEF f, E, n, I
  <2>2. ExistsBijection(I, E)
    BY <2>1 DEF ExistsBijection
  <2> QED BY <2>1, <2>2, FS_Bijection
<1> QED BY <1>4, <1>7

\* The descriptors are finitely many.
LEMMA DescsFinite == IsFiniteSet(Descs) /\ Cardinality(Descs) = NUM
<1>1. 0 \in Int /\ NUM - 1 \in Int
  BY SMTT(30)
<1>2. /\ IsFiniteSet(Descs)
      /\ Cardinality(Descs) = IF 0 > NUM - 1 THEN 0 ELSE (NUM - 1) - 0 + 1
  BY <1>1, FS_Interval DEF Descs
<1> QED BY SMTT(30), <1>2

\* Two descriptors that are not in a ring leave room in it.
LEMMA RoomInRing ==
  ASSUME NEW ring \in [Descs -> Descs], NEW from \in Indices, NEW to \in Indices,
         Distinct(ring, from, to),
         NEW c \in Descs \ Entries(ring, from, to),
         NEW d \in Descs \ Entries(ring, from, to), c # d
  PROVE  Count(from, to) + 2 <= NUM
<1> DEFINE E == Entries(ring, from, to)
<1>1. E \subseteq Descs /\ IsFiniteSet(E) /\ Cardinality(E) = Count(from, to)
  BY EntriesCount
<1>2. IsFiniteSet(E \cup {c}) /\ Cardinality(E \cup {c}) = Cardinality(E) + 1
  BY <1>1, FS_AddElement
<1>3. d \notin E \cup {c}
  OBVIOUS
<1>4. Cardinality((E \cup {c}) \cup {d}) = Cardinality(E \cup {c}) + 1
  BY <1>2, <1>3, FS_AddElement
<1>5. (E \cup {c}) \cup {d} \subseteq Descs
  BY <1>1
<1>6. Cardinality((E \cup {c}) \cup {d}) <= NUM
  BY <1>5, DescsFinite, FS_Subset
<1>7. Count(from, to) \in Nat
  BY Counting
<1> QED BY SMTT(30), <1>1, <1>2, <1>4, <1>6, <1>7

----------------------------------------------------------------------------
(* The descriptors *)

\* alloc_desc() finds a descriptor where there is one.
LEMMA LowestIn ==
  ASSUME NEW S \in SUBSET Descs, S # {}
  PROVE  Lowest(S) \in S
<1>1. S \subseteq Nat
  BY SMTT(30) DEF Descs
<1>2. PICK d \in S : \A e \in S : ~(<<e, d>> \in OpToRel(<, Nat))
  BY <1>1, NatLessThanWellFounded, WFMin
<1>3. \A e \in S : d <= e
  <2> SUFFICES ASSUME NEW e \in S PROVE ~(e < d)
    BY SMTT(30), <1>1
  <2>1. <<e, d>> \in Nat \X Nat /\ <<e, d>>[1] = e /\ <<e, d>>[2] = d
    BY <1>1
  <2> QED BY <1>2, <2>1 DEF OpToRel
<1> QED BY <1>3 DEF Lowest

\* alloc3_desc() gets three different free descriptors.
LEMMA ThreeFree ==
  ASSUME TypeOK, Cardinality(Free) >= 3
  PROVE  LET i0 == Lowest(Free)
             i1 == Lowest(Free \ {i0})
             i2 == Lowest(Free \ {i0, i1})
         IN  i0 \in Free /\ i1 \in Free \ {i0} /\ i2 \in Free \ {i0, i1}
<1> DEFINE i0 == Lowest(Free)
           i1 == Lowest(Free \ {i0})
           i2 == Lowest(Free \ {i0, i1})
<1>1. Free \subseteq Descs /\ IsFiniteSet(Free) /\ Cardinality(Free) \in Nat
  BY DescsFinite, FS_Subset, FS_CardinalityType DEF Free
<1>2. Free # {}
  BY SMTT(30), FS_EmptySet
<1>3. i0 \in Free
  BY <1>1, <1>2, LowestIn
<1> HIDE DEF i0
<1>4. IsFiniteSet(Free \ {i0}) /\ Cardinality(Free \ {i0}) = Cardinality(Free) - 1
  BY <1>1, <1>3, FS_RemoveElement
<1>5. Free \ {i0} # {}
  <2>1. Cardinality(Free \ {i0}) # 0
    BY SMTT(30), <1>1, <1>4
  <2> QED BY <2>1, FS_EmptySet
<1>6. i1 \in Free \ {i0}
  BY <1>1, <1>5, LowestIn
<1> HIDE DEF i1
<1>7. Cardinality((Free \ {i0}) \ {i1}) = Cardinality(Free \ {i0}) - 1
  BY <1>4, <1>6, FS_RemoveElement
<1>8. (Free \ {i0}) \ {i1} # {}
  <2>1. Cardinality((Free \ {i0}) \ {i1}) # 0
    BY SMTT(30), <1>1, <1>4, <1>7
  <2> QED BY <2>1, FS_EmptySet
<1>9. (Free \ {i0}) \ {i1} = Free \ {i0, i1}
  OBVIOUS
<1>10. i2 \in Free \ {i0, i1}
  BY <1>1, <1>8, <1>9, LowestIn
<1> QED BY <1>3, <1>6, <1>10 DEF i0, i1, i2

\* free_chain() frees the three descriptors of a request.
LEMMA ChainOwn ==
  ASSUME NEW p \in Procs, Linked(p)
  PROVE  Chain(idx0[p]) = Own(p)
BY DEF Linked, Chain, Own, Second, Third

\* The descriptors of a request are descriptors in use.
LEMMA OwnInUse ==
  ASSUME TypeOK, Chained, NEW p \in Procs, Submitted(p)
  PROVE  /\ Linked(p) /\ Own(p) \subseteq Descs
         /\ \A d \in Own(p) : desc[d].b = p /\ ~free[d]
<1>1. Linked(p)
  BY DEF Chained
<1>2. idx0[p] \in Descs /\ Second(p) \in Descs /\ Third(p) \in Descs
  <2>1. \A d \in Descs : desc[d].next \in Descs
    BY DEF TypeOK
  <2>2. idx0[p] \in Descs
    BY DEF TypeOK
  <2> QED BY <2>1, <2>2 DEF Second, Third
<1>3. p # Nobody
  OBVIOUS
<1>4. Own(p) \subseteq Descs /\ \A d \in Own(p) : desc[d].b = p
  BY <1>1, <1>2 DEF Linked, Own
<1>5. \A d \in Descs : free[d] => desc[d].b = Nobody
  BY DEF Chained
<1> QED BY <1>1, <1>3, <1>4, <1>5

\* What leaves the descriptors of a request alone keeps the request.
LEMMA LinkedFrame ==
  ASSUME NEW p \in Procs, Linked(p), idx0'[p] = idx0[p],
         \A d \in Own(p) : desc'[d] = desc[d], info'[idx0[p]].b = info[idx0[p]].b
  PROVE  Linked(p)' /\ Own(p)' = Own(p)
<1>1. Second(p)' = Second(p) /\ Third(p)' = Third(p)
  BY DEF Own, Second, Third
<1>2. /\ desc'[idx0[p]] = desc[idx0[p]] /\ desc'[Second(p)] = desc[Second(p)]
      /\ desc'[Third(p)] = desc[Third(p)]
  BY DEF Own
<1> QED BY <1>1, <1>2 DEF Linked, Own


----------------------------------------------------------------------------
(* What the larger steps do *)

\* submit(p) with the descriptors that it takes.
Submits(p, c, d, e) ==
  /\ free[c] /\ free[d] /\ free[e] /\ c # d /\ c # e /\ d # e
  /\ pc[p] = "alloc" /\ pc' = [pc EXCEPT ![p] = "sleeping"]
  /\ idx0' = [idx0 EXCEPT ![p] = c] /\ b_disk' = [b_disk EXCEPT ![p] = TRUE]
  /\ free' = [free EXCEPT ![c] = FALSE, ![d] = FALSE, ![e] = FALSE]
  /\ desc' = [desc EXCEPT ![c] = [b |-> p, flag |-> TRUE, next |-> d],
                          ![d] = [b |-> p, flag |-> TRUE, next |-> e],
                          ![e] = [b |-> p, flag |-> FALSE, next |-> 0]]
  /\ info' = [info EXCEPT ![c] = [b |-> p, status |-> 255]]
  /\ avail' = [avail EXCEPT ![avail_idx % NUM] = c]
  /\ avail_idx' = (avail_idx + 1) % UINT16
  /\ UNCHANGED <<used, used_ring_idx, used_idx, seen, inflight, raise, intr, irq, transfer>>

\* alloc3_desc() succeeds and the request is put in the ring.
LEMMA SubmitTakes ==
  ASSUME TypeOK, NEW p \in Procs, submit(p)
  PROVE  \E c, d, e \in Descs : Submits(p, c, d, e)
<1> DEFINE i0 == Lowest(Free)
           i1 == Lowest(Free \ {i0})
           i2 == Lowest(Free \ {i0, i1})
<1>1. i0 \in Free /\ i1 \in Free \ {i0} /\ i2 \in Free \ {i0, i1}
  BY ThreeFree DEF submit
<1>2. /\ pc[p] = "alloc" /\ pc' = [pc EXCEPT ![p] = "sleeping"]
      /\ idx0' = [idx0 EXCEPT ![p] = i0] /\ b_disk' = [b_disk EXCEPT ![p] = TRUE]
      /\ free' = [free EXCEPT ![i0] = FALSE, ![i1] = FALSE, ![i2] = FALSE]
      /\ desc' = [desc EXCEPT ![i0] = [b |-> p, flag |-> TRUE, next |-> i1],
                              ![i1] = [b |-> p, flag |-> TRUE, next |-> i2],
                              ![i2] = [b |-> p, flag |-> FALSE, next |-> 0]]
      /\ info' = [info EXCEPT ![i0] = [b |-> p, status |-> 255]]
      /\ avail' = [avail EXCEPT ![avail_idx % NUM] = i0]
      /\ avail_idx' = (avail_idx + 1) % UINT16
      /\ UNCHANGED <<used, used_ring_idx, used_idx, seen, inflight, raise, intr, irq, transfer>>
  BY DEF submit, device
<1> HIDE DEF i0, i1, i2
<1>3. Submits(p, i0, i1, i2)
  BY <1>1, <1>2 DEF Submits, Free
<1> QED BY <1>1, <1>3 DEF Free

\* finish(p), for a request that has been reported.
Finishes(p) ==
  /\ pc[p] = "woken" /\ ~b_disk[p]
  /\ pc' = [Awake(pc) EXCEPT ![p] = "idle"]
  /\ info' = [info EXCEPT ![idx0[p]].b = Nobody]
  /\ free' = [d \in Descs |-> free[d] \/ d \in Own(p)]
  /\ desc' = [d \in Descs |-> IF d \in Own(p) THEN [b |-> Nobody, flag |-> FALSE, next |-> 0]
                              ELSE desc[d]]
  /\ UNCHANGED <<rings, used_idx, b_disk, device, idx0, intr, irq, transfer>>

\* A woken process that finds b->disk clear frees its descriptors.
LEMMA FinishFrees ==
  ASSUME DiskInv, NEW p \in Procs, finish(p), ~b_disk[p]
  PROVE  Finishes(p)
<1>1. pc[p] = "woken"
  BY DEF finish
<1>2. Chain(idx0[p]) = Own(p)
  BY <1>1, OwnInUse, ChainOwn DEF DiskInv, Submitted
<1> QED BY <1>1, <1>2 DEF finish, Finishes

\* The steps that move a request.
Main ==
  \/ intr_start \/ intr_loop \/ intr_end \/ Device
  \/ \E p \in Procs : rw(p) \/ submit(p) \/ no_desc(p) \/ Finishes(p)

\* A request in the rings or with the device is the one of a process that waits.
LEMMA HeadOf ==
  ASSUME DiskInv, NEW h \in Asked \cup inflight \cup Reported
  PROVE  \E p \in Procs : /\ b_disk[p] /\ h = idx0[p] /\ Submitted(p) /\ Linked(p)
                          /\ info[h].b = p /\ desc[h].b = p /\ desc[desc[h].next].b = p
                          /\ h \in Descs /\ desc[h].next \in Descs /\ desc[h].next \notin Heads
<1>1. h \in Heads
  BY DEF DiskInv, Tracked
<1>2. PICK p \in Procs : b_disk[p] /\ h = idx0[p]
  BY <1>1 DEF Heads
<1>3. Submitted(p)
  BY <1>2 DEF DiskInv, Waiting
<1>4. /\ Linked(p) /\ Own(p) \subseteq Descs
      /\ \A d \in Own(p) : desc[d].b = p /\ ~free[d]
  BY <1>3, OwnInUse DEF DiskInv
<1>5. desc[h].next = Second(p)
  BY <1>2 DEF Second
<1>6. desc[h].next \notin Heads
  <2>1. SUFFICES ASSUME NEW q \in Procs, b_disk[q], Second(p) = idx0[q] PROVE FALSE
    BY <1>5 DEF Heads
  <2>2. desc[idx0[q]].b = q
    BY <2>1, OwnInUse DEF DiskInv, Waiting, Own
  <2>3. desc[Second(p)].b = p /\ Second(p) # idx0[p]
    BY <1>4 DEF Linked
  <2> QED BY <2>1, <2>2, <2>3
<1> QED BY <1>2, <1>3, <1>4, <1>5, <1>6 DEF Linked, Own

\* Different processes have different requests.
LEMMA HeadsDiffer ==
  ASSUME TypeOK, Chained, NEW p \in Procs, NEW q \in Procs, Submitted(p), Submitted(q),
         idx0[p] = idx0[q]
  PROVE  p = q
<1>1. Linked(p) /\ Linked(q)
  BY OwnInUse
<1> QED BY <1>1 DEF Linked

\* The heads are not free.
LEMMA HeadsInUse ==
  ASSUME DiskInv, NEW d \in Heads
  PROVE  d \in Descs /\ ~free[d]
<1>1. PICK p \in Procs : b_disk[p] /\ d = idx0[p]
  BY DEF Heads
<1> QED BY <1>1, OwnInUse DEF DiskInv, Waiting, Own

----------------------------------------------------------------------------
(* Types *)

DescType == [b : Procs \cup {Nobody}, flag : BOOLEAN, next : Descs]
InfoType == [b : Procs \cup {Nobody}, status : {0, IOERR, 255}]
PCs == {"idle", "alloc", "nofree", "sleeping", "woken"}

\* TypeOK, one variable at a time.
Types ==
  /\ free \in [Descs -> BOOLEAN] /\ desc \in [Descs -> DescType] /\ info \in [Descs -> InfoType]
  /\ avail \in [Descs -> Descs] /\ used \in [Descs -> Descs]
  /\ avail_idx \in Indices /\ used_ring_idx \in Indices
  /\ used_idx \in Indices /\ seen \in Indices
  /\ b_disk \in [Procs -> BOOLEAN] /\ pc \in [Procs -> PCs] /\ idx0 \in [Procs -> Descs]
  /\ intr \in BOOLEAN /\ irq \in BOOLEAN
  /\ inflight \in SUBSET Descs /\ raise \in BOOLEAN
  /\ transfer \in [Procs -> {"none", "wanted", "done", "failed"}]

\* The two forms of the type invariant are one.
LEMMA TypesOK == TypeOK <=> Types
BY DEF TypeOK, Types, Indices, DescType, InfoType, PCs

\* They are one in the next state, too.
LEMMA TypesOKNext == Types' => TypeOK'
BY DEF TypeOK, Types, Indices, DescType, InfoType, PCs

\* The successor of an index is an index, and every index has a place in a ring.
LEMMA NextIndex ==
  ASSUME NEW x \in Indices
  PROVE  (x + 1) % UINT16 \in Indices /\ x % NUM \in Descs
BY SMTT(30), Sizes DEF Indices, Descs

\* Every step of driver and device keeps the types.
LEMMA TypeOKStep == DiskInv /\ Main => TypeOK'
<1> SUFFICES ASSUME DiskInv, Main PROVE Types'
  BY TypesOKNext
<1>t. Types
  BY TypesOK DEF DiskInv
<1>r. 0 \in Descs
  BY SMTT(30) DEF Descs
<1> DEFINE blank == [b |-> Nobody, flag |-> FALSE, next |-> 0]
<1>b. blank \in DescType
  BY SMTT(30), <1>r DEF DescType
<1>1. ASSUME NEW p \in Procs, rw(p) PROVE Types'
  <2>1. /\ pc' \in [Procs -> PCs]
        /\ transfer' \in [Procs -> {"none", "wanted", "done", "failed"}]
    BY <1>t, <1>1 DEF rw, Types, PCs
  <2> QED BY <1>t, <1>1, <2>1 DEF rw, rings, driver, device, Types
<1>2. ASSUME NEW p \in Procs, submit(p) PROVE Types'
  <2>1. PICK c, d, e \in Descs : Submits(p, c, d, e)
    BY <1>2, SubmitTakes DEF DiskInv
  <2>2. /\ pc' = [pc EXCEPT ![p] = "sleeping"]
        /\ idx0' = [idx0 EXCEPT ![p] = c] /\ b_disk' = [b_disk EXCEPT ![p] = TRUE]
        /\ avail' = [avail EXCEPT ![avail_idx % NUM] = c]
        /\ free' = [free EXCEPT ![c] = FALSE, ![d] = FALSE, ![e] = FALSE]
        /\ avail_idx' = (avail_idx + 1) % UINT16
    BY <2>1 DEF Submits
  <2>3. UNCHANGED <<used, used_ring_idx, used_idx, seen, inflight, raise, intr, irq, transfer>>
    BY <2>1 DEF Submits
  <2>4. /\ b_disk' \in [Procs -> BOOLEAN]
        /\ pc' \in [Procs -> PCs]
        /\ idx0' \in [Procs -> Descs] /\ avail' \in [Descs -> Descs]
    BY <1>t, <2>2 DEF Types, PCs
  <2>5. free' \in [Descs -> BOOLEAN]
    <3>1. free \in [Descs -> BOOLEAN]
      BY <1>t DEF Types
    <3> QED BY <2>2, <3>1
  <2>6. desc' \in [Descs -> DescType]
    <3> DEFINE x == [b |-> p, flag |-> TRUE, next |-> d]
               y == [b |-> p, flag |-> TRUE, next |-> e]
               z == [b |-> p, flag |-> FALSE, next |-> 0]
    <3>1. x \in DescType /\ y \in DescType /\ z \in DescType
      BY SMTT(30), <1>r DEF DescType
    <3>2. desc' = [desc EXCEPT ![c] = x, ![d] = y, ![e] = z]
      BY <2>1 DEF Submits
    <3> HIDE DEF x, y, z
    <3> QED BY SMTT(30), <1>t, <3>1, <3>2 DEF Types
  <2>7. info' \in [Descs -> InfoType]
    <3> DEFINE x == [b |-> p, status |-> 255]
    <3>1. x \in InfoType
      BY SMTT(30) DEF InfoType
    <3>2. info' = [info EXCEPT ![c] = x]
      BY <2>1 DEF Submits
    <3> HIDE DEF x
    <3> QED BY <1>t, <3>1, <3>2 DEF Types
  <2>8. avail_idx' \in Indices
    BY <1>t, <2>2, NextIndex DEF Types
  <2> QED BY <1>t, <2>3, <2>4, <2>5, <2>6, <2>7, <2>8 DEF Types
<1>3. ASSUME NEW p \in Procs, no_desc(p) PROVE Types'
  <2>1. Awake(pc) \in [Procs -> PCs]
    BY <1>t DEF Awake, Types, PCs
  <2>2. pc' \in [Procs -> PCs]
    BY <1>t, <1>3, <2>1 DEF no_desc, Types, PCs
  <2>3. desc' \in [Descs -> DescType]
    <3> HIDE DEF blank
    <3>1. desc' = [d \in Descs |-> IF free[d] THEN blank ELSE desc[d]]
      BY <1>3 DEF no_desc, blank
    <3> QED BY <1>t, <1>b, <3>1 DEF Types
  <2> QED BY <1>t, <1>3, <2>2, <2>3 DEF no_desc, rings, device, Types
<1>4. ASSUME NEW p \in Procs, Finishes(p) PROVE Types'
  <2>1. Finishes(p)
    BY <1>4
  <2>2. Awake(pc) \in [Procs -> PCs]
    BY <1>t DEF Awake, Types, PCs
  <2>3. pc' \in [Procs -> PCs]
    BY <2>1, <2>2 DEF Finishes, PCs
  <2>4. info' \in [Descs -> InfoType]
    <3>1. info[idx0[p]] \in InfoType
      BY <1>t DEF Types
    <3> DEFINE x == [info[idx0[p]] EXCEPT !.b = Nobody]
    <3>2. x \in InfoType
      BY SMTT(30), <3>1 DEF InfoType
    <3>3. info' = [info EXCEPT ![idx0[p]] = x]
      BY <2>1 DEF Finishes
    <3> HIDE DEF x
    <3> QED BY <1>t, <3>2, <3>3 DEF Types
  <2>5. free' \in [Descs -> BOOLEAN]
    BY SMTT(30), <1>t, <2>1 DEF Finishes, Types
  <2>6. desc' \in [Descs -> DescType]
    <3> HIDE DEF blank
    <3>1. desc' = [d \in Descs |-> IF d \in Own(p) THEN blank ELSE desc[d]]
      BY <2>1 DEF Finishes, blank
    <3> QED BY <1>t, <1>b, <3>1 DEF Types
  <2>7. UNCHANGED <<avail, avail_idx, used, used_ring_idx, used_idx, b_disk, seen, inflight, raise,
                    idx0, intr, irq, transfer>>
    BY <2>1 DEF Finishes, rings, device
  <2> QED BY <1>t, <2>3, <2>4, <2>5, <2>6, <2>7 DEF Types
<1>5. CASE intr_start
  BY <1>t, <1>5 DEF intr_start, rings, driver, device, Types
<1>6. CASE intr_loop
  <2>1. /\ b_disk' \in [Procs -> BOOLEAN]
        /\ pc' \in [Procs -> PCs]
    <3> DEFINE q == info[used[used_idx % NUM]].b
    <3>1. /\ b_disk' = [b_disk EXCEPT ![q] = FALSE]
          /\ pc' = [pc EXCEPT ![q] = IF pc[q] = "sleeping" THEN "woken" ELSE pc[q]]
      BY <1>6 DEF intr_loop, intr_entry
    <3> HIDE DEF q
    <3>2. b_disk \in [Procs -> BOOLEAN] /\ pc \in [Procs -> PCs]
      BY <1>t DEF Types
    <3> QED BY <3>1, <3>2 DEF PCs
  <2>2. used_idx' \in Indices
    BY <1>t, <1>6, NextIndex DEF intr_loop, Types
  <2> QED BY <1>t, <1>6, <2>1, <2>2 DEF intr_loop, rings, device, Types
<1>7. CASE intr_end
  BY <1>t, <1>7 DEF intr_end, rings, driver, device, Types
<1>8. CASE dev_fetch
  <2>1. seen' \in Indices /\ seen % NUM \in Descs
    BY <1>t, <1>8, NextIndex DEF dev_fetch, Types
  <2>2. inflight' \in SUBSET Descs
    <3>1. inflight' = inflight \cup {avail[seen % NUM]} /\ avail[seen % NUM] \in Descs
      BY <1>t, <1>8, <2>1 DEF dev_fetch, Types
    <3> QED BY <1>t, <3>1 DEF Types
  <2> QED BY <1>t, <1>8, <2>1, <2>2 DEF dev_fetch, rings, driver, Types
<1>9. ASSUME NEW h \in Descs, NEW s \in {0, IOERR}, dev_complete(h, s) PROVE Types'
  <2>1. transfer' \in [Procs -> {"none", "wanted", "done", "failed"}] /\ used' \in [Descs -> Descs]
    <3> DEFINE q == desc[desc[h].next].b
    <3>1. /\ transfer' = [transfer EXCEPT ![q] = Outcome(s)]
          /\ used' = [used EXCEPT ![used_ring_idx % NUM] = h]
      BY <1>9 DEF dev_complete, Outcome
    <3>2. Outcome(s) \in {"done", "failed"}
      BY DEF Outcome
    <3> HIDE DEF q
    <3> QED BY <1>t, <3>1, <3>2 DEF Types
  <2>2. info' \in [Descs -> InfoType]
    <3>1. info[h] \in InfoType
      BY <1>t DEF Types
    <3> DEFINE x == [info[h] EXCEPT !.status = s]
    <3>2. x \in InfoType
      BY SMTT(30), <3>1 DEF InfoType
    <3>3. info' = [info EXCEPT ![h] = x]
      BY <1>9 DEF dev_complete
    <3> HIDE DEF x
    <3> QED BY <1>t, <3>2, <3>3 DEF Types
  <2>3. used_ring_idx' \in Indices
    BY <1>t, <1>9, NextIndex DEF dev_complete, Types
  <2>4. inflight' \in SUBSET Descs /\ raise' \in BOOLEAN
    BY <1>t, <1>9 DEF dev_complete, Types
  <2>5. UNCHANGED <<avail, avail_idx, free, desc, used_idx, b_disk, seen, pc, idx0, intr, irq>>
    BY <1>9 DEF dev_complete
  <2> QED BY <1>t, <2>1, <2>2, <2>3, <2>4, <2>5 DEF Types
<1>10. CASE dev_interrupt
  BY <1>t, <1>10 DEF dev_interrupt, rings, driver, Types
<1> QED BY <1>1, <1>2, <1>3, <1>4, <1>5, <1>6, <1>7, <1>8, <1>9, <1>10
        DEF Main, Device

----------------------------------------------------------------------------
(* Who is where *)

\* rw(p), no_desc(p) and finish(p) leave the sleeping processes asleep, and only
\* finish(p) ends a request.
LEMMA PcSteps ==
  ASSUME Types, NEW p \in Procs
  PROVE  /\ rw(p) => /\ pc[p] = "idle" /\ pc' = [pc EXCEPT ![p] = "alloc"]
                     /\ \A q \in Procs : Submitted(q)' <=> Submitted(q)
         /\ no_desc(p) => /\ pc'[p] = "nofree"
                          /\ \A q \in Procs : pc'[q] # pc[q] =>
                               pc[q] \in {"alloc", "nofree"} /\ pc'[q] \in {"alloc", "nofree"}
         /\ Finishes(p) => /\ pc[p] = "woken" /\ pc'[p] = "idle"
                           /\ \A q \in Procs \ {p} :
                                pc'[q] = IF pc[q] = "nofree" THEN "alloc" ELSE pc[q]
<1>1. pc \in [Procs -> PCs]
  BY DEF Types
<1>2. rw(p) => /\ pc[p] = "idle" /\ pc' = [pc EXCEPT ![p] = "alloc"]
               /\ \A q \in Procs : Submitted(q)' <=> Submitted(q)
  BY <1>1 DEF rw, Submitted
<1>3. DOMAIN Awake(pc) = Procs /\ \A q \in Procs : Awake(pc)[q] = IF pc[q] = "nofree" THEN "alloc" ELSE pc[q]
  BY DEF Awake
<1>4. no_desc(p) => /\ pc'[p] = "nofree"
                    /\ \A q \in Procs : pc'[q] # pc[q] =>
                         pc[q] \in {"alloc", "nofree"} /\ pc'[q] \in {"alloc", "nofree"}
  <2> SUFFICES ASSUME no_desc(p) PROVE /\ pc'[p] = "nofree"
                    /\ \A q \in Procs : pc'[q] # pc[q] =>
                         pc[q] \in {"alloc", "nofree"} /\ pc'[q] \in {"alloc", "nofree"}
    OBVIOUS
  <2>1. pc[p] = "alloc" /\ pc' = [(IF Free = {} THEN pc ELSE Awake(pc)) EXCEPT ![p] = "nofree"]
    BY DEF no_desc
  <2>2. CASE Free = {}
    BY <1>1, <2>1, <2>2
  <2>3. CASE Free # {}
    BY <1>3, <2>1, <2>3
  <2> QED BY <2>2, <2>3
<1>5. Finishes(p) => /\ pc[p] = "woken" /\ pc'[p] = "idle"
                     /\ \A q \in Procs \ {p} :
                          pc'[q] = IF pc[q] = "nofree" THEN "alloc" ELSE pc[q]
  BY <1>3 DEF Finishes
<1> QED BY <1>2, <1>4, <1>5

\* virtio_disk_intr() looks at an entry of the used ring: it is the request of a
\* process that waits, which wakes up unless it has been woken before.
IntrWakes(p) ==
  /\ b_disk[p] /\ Submitted(p) /\ pc' = [pc EXCEPT ![p] = "woken"]
  /\ b_disk' = [b_disk EXCEPT ![p] = FALSE]
  /\ idx0[p] \in Reported /\ desc[idx0[p]].b = p /\ info[idx0[p]].status = 0
  /\ Reported' = Reported \ {idx0[p]} /\ Distinct(used, used_idx, used_ring_idx)'
  /\ UNCHANGED <<avail, avail_idx, seen, inflight, free, desc, info, idx0, transfer>>

\* Every iteration of the loop wakes a process.
LEMMA IntrTakes ==
  ASSUME DiskInv, intr_loop
  PROVE  \E p \in Procs : IntrWakes(p)
<1> DEFINE id == used[used_idx % NUM]
<1>1. Types
  BY TypesOK DEF DiskInv
<1>2. /\ used_idx # used_ring_idx /\ used_idx' = (used_idx + 1) % UINT16
      /\ info[id].status = 0
      /\ b_disk' = [b_disk EXCEPT ![info[id].b] = FALSE]
      /\ pc' = [pc EXCEPT ![info[id].b] = IF pc[info[id].b] = "sleeping" THEN "woken"
                                          ELSE pc[info[id].b]]
      /\ UNCHANGED <<avail, avail_idx, used, used_ring_idx, free, desc, info, seen, inflight,
                     idx0, transfer>>
  BY DEF intr_loop, intr_entry, rings, device
<1>3. /\ id \in Reported
      /\ Reported' = Reported \ {id} /\ Distinct(used, used_idx, used_ring_idx)'
  <2>1. /\ used \in [Descs -> Descs] /\ used_idx \in Indices /\ used_ring_idx \in Indices
        /\ Distinct(used, used_idx, used_ring_idx)
    BY <1>1 DEF Types, DiskInv, Tracked
  <2>2. /\ id \in Reported
        /\ Entries(used, used_idx', used_ring_idx) = Reported \ {id}
        /\ Distinct(used, used_idx', used_ring_idx)
    BY <1>2, <2>1, PopEntry DEF Reported
  <2>3. Reported' = Entries(used, used_idx', used_ring_idx)
    BY <1>2 DEF Reported
  <2>4. Distinct(used, used_idx, used_ring_idx)' <=> Distinct(used, used_idx', used_ring_idx)
    <3>1. used' = used /\ used_ring_idx' = used_ring_idx
      BY <1>2
    <3> QED BY <3>1 DEF Distinct, Count
  <2> QED BY <2>2, <2>3, <2>4
<1> HIDE DEF id
<1>4. PICK p \in Procs : /\ b_disk[p] /\ Submitted(p)
                         /\ id = idx0[p] /\ info[id].b = p /\ desc[id].b = p
  BY <1>3, HeadOf
<1>5. pc' = [pc EXCEPT ![p] = "woken"]
  <2>1. (IF pc[p] = "sleeping" THEN "woken" ELSE pc[p]) = "woken"
    BY <1>4 DEF Submitted
  <2> QED BY <1>2, <1>4, <2>1
<1> QED BY <1>2, <1>3, <1>4, <1>5 DEF IntrWakes

----------------------------------------------------------------------------
(* Chained *)

\* What leaves the descriptors and the submitted requests alone.
LEMMA ChainedFrame ==
  ASSUME DiskInv, UNCHANGED <<free, desc, idx0>>,
         \A p \in Procs : Submitted(p)' <=> Submitted(p),
         \A d \in Descs : info'[d].b = info[d].b
  PROVE  Chained'
<1>1. ASSUME NEW p \in Procs, Submitted(p)' PROVE Linked(p)'
  <2>1. Submitted(p)
    BY <1>1
  <2>2. Linked(p) /\ Own(p) \subseteq Descs /\ idx0[p] \in Own(p)
    BY <2>1, OwnInUse DEF DiskInv, Own
  <2>3. info'[idx0[p]].b = info[idx0[p]].b
    BY <2>2
  <2> QED BY <2>2, <2>3, LinkedFrame
<1>2. \A p : Own(p)' = Own(p)
  BY DEF Own, Second, Third
<1>3. /\ \A d \in Descs : free[d] => desc[d].b = Nobody
      /\ \A d \in Descs : ~free[d] => \E p \in Procs : Submitted(p) /\ d \in Own(p)
  BY DEF DiskInv, Chained
<1>4. \A d \in Descs : free'[d] => desc'[d].b = Nobody
  BY <1>3
<1>5. \A d \in Descs : ~free'[d] => \E p \in Procs : Submitted(p)' /\ d \in Own(p)'
  BY <1>2, <1>3
<1> QED BY <1>1, <1>4, <1>5 DEF Chained

\* Every step keeps the descriptors in order.
LEMMA ChainedStep == DiskInv /\ Main => Chained'
<1> SUFFICES ASSUME DiskInv, Main PROVE Chained'
  OBVIOUS
<1>t. Types /\ TypeOK /\ Chained
  BY TypesOK DEF DiskInv
<1>f. /\ \A d \in Descs : free[d] => desc[d].b = Nobody
      /\ \A d \in Descs : ~free[d] => \E p \in Procs : Submitted(p) /\ d \in Own(p)
  BY <1>t DEF Chained
<1>u. \A p \in Procs : Submitted(p) => /\ Linked(p) /\ Own(p) \subseteq Descs
                                       /\ \A d \in Own(p) : desc[d].b = p /\ ~free[d]
  BY <1>t, OwnInUse
<1>1. ASSUME NEW p \in Procs, rw(p) PROVE Chained'
  <2>1. UNCHANGED <<free, desc, idx0, info>>
    BY <1>1 DEF rw, driver
  <2> QED BY <1>t, <1>1, <2>1, PcSteps, ChainedFrame
<1>2. ASSUME NEW p \in Procs, submit(p) PROVE Chained'
  <2>1. PICK c, d, e \in Descs : Submits(p, c, d, e)
    BY <1>2, <1>t, SubmitTakes
  <2>2. /\ ~Submitted(p) /\ Submitted(p)'
        /\ \A q \in Procs \ {p} : (Submitted(q)' <=> Submitted(q)) /\ idx0'[q] = idx0[q]
        /\ idx0'[p] = c
    BY <1>t, <2>1 DEF Submits, Submitted, Types
  <2>3. /\ free[c] /\ free[d] /\ free[e] /\ c # d /\ c # e /\ d # e
        /\ \A x \in Descs : free'[x] = (free[x] /\ x \notin {c, d, e})
    BY <1>t, <2>1 DEF Submits, Types
  <2>4. /\ desc'[c] = [b |-> p, flag |-> TRUE, next |-> d]
        /\ desc'[d] = [b |-> p, flag |-> TRUE, next |-> e]
        /\ desc'[e] = [b |-> p, flag |-> FALSE, next |-> 0]
        /\ \A x \in Descs \ {c, d, e} : desc'[x] = desc[x]
    BY <1>t, <2>1 DEF Submits, Types
  <2>5. info'[c].b = p /\ \A x \in Descs \ {c} : info'[x] = info[x]
    BY <1>t, <2>1 DEF Submits, Types
  <2>6. /\ desc'[c].b = p /\ desc'[d].b = p /\ desc'[e].b = p
        /\ desc'[c].flag /\ desc'[d].flag /\ ~desc'[e].flag
        /\ desc'[c].next = d /\ desc'[d].next = e
    BY SMTT(30), <2>4
  <2>7. Second(p)' = d /\ Third(p)' = e
    BY <2>2, <2>6 DEF Second, Third
  <2>8. Linked(p)' /\ Own(p)' = {c, d, e}
    BY <2>2, <2>3, <2>5, <2>6, <2>7 DEF Linked, Own
  <2>9. ASSUME NEW q \in Procs \ {p}, Submitted(q) PROVE Linked(q)' /\ Own(q)' = Own(q)
    <3>1. \A x \in Own(q) : x \in Descs \ {c, d, e}
      BY <1>u, <2>3, <2>9
    <3>2. idx0[q] \in Own(q)
      BY DEF Own
    <3> QED BY <1>u, <2>2, <2>4, <2>5, <2>9, <3>1, <3>2, LinkedFrame
  <2>10. \A q \in Procs : Submitted(q)' => Linked(q)'
    BY <2>2, <2>8, <2>9
  <2>11. \A x \in Descs : free'[x] => desc'[x].b = Nobody
    BY <1>f, <2>3, <2>4
  <2>12. ASSUME NEW x \in Descs, ~free'[x]
         PROVE  \E q \in Procs : Submitted(q)' /\ x \in Own(q)'
    <3>1. CASE x \in {c, d, e}
      BY <2>2, <2>8, <3>1
    <3>2. CASE x \notin {c, d, e}
      <4>1. ~free[x]
        BY <2>3, <2>12, <3>2
      <4>2. PICK q \in Procs : Submitted(q) /\ x \in Own(q)
        BY <1>f, <4>1
      <4>3. q \in Procs \ {p}
        BY <2>2, <4>2
      <4>4. Submitted(q)' /\ Own(q)' = Own(q)
        BY <2>2, <2>9, <4>2, <4>3
      <4> QED BY <4>2, <4>4
    <3> QED BY <3>1, <3>2
  <2> QED BY <2>10, <2>11, <2>12 DEF Chained
<1>3. ASSUME NEW p \in Procs, no_desc(p) PROVE Chained'
  <2>1. UNCHANGED <<free, info, idx0>>
        /\ \A x \in Descs : /\ ~free[x] => desc'[x] = desc[x]
                            /\ free[x] => desc'[x] = [b |-> Nobody, flag |-> FALSE, next |-> 0]
    BY <1>3 DEF no_desc
  <2>2. \A q \in Procs : Submitted(q)' <=> Submitted(q)
    BY <1>t, <1>3, PcSteps DEF Submitted
  <2>3. ASSUME NEW q \in Procs, Submitted(q) PROVE Linked(q)' /\ Own(q)' = Own(q)
    BY <1>u, <2>1, <2>3, LinkedFrame
  <2>4. \A x \in Descs : free'[x] => desc'[x].b = Nobody
    <3>1. [b |-> Nobody, flag |-> FALSE, next |-> 0].b = Nobody
      OBVIOUS
    <3> QED BY <2>1, <3>1
  <2>5. \A x \in Descs : ~free'[x] => \E q \in Procs : Submitted(q)' /\ x \in Own(q)'
    BY <1>f, <2>1, <2>2, <2>3
  <2> QED BY <2>2, <2>3, <2>4, <2>5 DEF Chained
<1>4. ASSUME NEW p \in Procs, Finishes(p) PROVE Chained'
  <2>1. Finishes(p)
    BY <1>4
  <2>2. /\ Submitted(p) /\ ~Submitted(p)'
        /\ \A q \in Procs \ {p} : Submitted(q)' <=> Submitted(q)
    BY <1>t, <2>1, PcSteps DEF Submitted
  <2>3. /\ UNCHANGED idx0
        /\ \A x \in Descs : free'[x] = (free[x] \/ x \in Own(p))
        /\ \A x \in Descs \ Own(p) : desc'[x] = desc[x]
        /\ \A x \in Own(p) \cap Descs : desc'[x] = [b |-> Nobody, flag |-> FALSE, next |-> 0]
    BY <2>1 DEF Finishes
  <2>4. \A x \in Descs : x # idx0[p] => info'[x] = info[x]
    BY <1>t, <2>1 DEF Finishes, Types
  <2>5. ASSUME NEW q \in Procs \ {p}, Submitted(q) PROVE Linked(q)' /\ Own(q)' = Own(q)
    <3>1. \A x \in Own(q) : x \in Descs /\ desc[x].b = q
      BY <1>u, <2>5
    <3>0. \A x \in Own(p) : desc[x].b = p
      BY <1>u, <2>2
    <3>2. idx0[q] \in Own(q) /\ idx0[p] \in Own(p)
      BY DEF Own
    <3>3. ASSUME NEW x \in Own(q) PROVE x \in Descs \ Own(p)
      <4>1. x \in Descs /\ desc[x].b # p
        BY <3>1
      <4> QED BY <3>0, <4>1
    <3> QED BY <1>u, <2>3, <2>4, <2>5, <3>2, <3>3, LinkedFrame
  <2>6. \A x \in Descs : free'[x] => desc'[x].b = Nobody
    <3>1. [b |-> Nobody, flag |-> FALSE, next |-> 0].b = Nobody
      OBVIOUS
    <3> QED BY <1>f, <2>3, <3>1
  <2>7. ASSUME NEW x \in Descs, ~free'[x]
        PROVE  \E q \in Procs : Submitted(q)' /\ x \in Own(q)'
    <3>1. ~free[x] /\ x \notin Own(p)
      BY <2>3, <2>7
    <3>2. PICK q \in Procs : Submitted(q) /\ x \in Own(q)
      BY <1>f, <3>1
    <3>3. q \in Procs \ {p}
      BY <3>1, <3>2
    <3> QED BY <2>2, <2>5, <3>2, <3>3
  <2> QED BY <2>2, <2>5, <2>6, <2>7 DEF Chained
<1>5. CASE intr_start \/ intr_end \/ dev_fetch \/ dev_interrupt
  <2>1. UNCHANGED <<free, desc, idx0, info, pc>>
    BY <1>5 DEF intr_start, intr_end, dev_fetch, dev_interrupt, driver
  <2> QED BY <2>1, ChainedFrame DEF Submitted
<1>6. CASE intr_loop
  <2>1. PICK p \in Procs : IntrWakes(p)
    BY <1>6, IntrTakes
  <2>2. \A q \in Procs : Submitted(q)' <=> Submitted(q)
    BY <1>t, <2>1 DEF IntrWakes, Submitted, Types
  <2> QED BY <2>1, <2>2, ChainedFrame DEF IntrWakes
<1>7. ASSUME NEW h \in Descs, NEW s \in {0, IOERR}, dev_complete(h, s) PROVE Chained'
  <2>1. UNCHANGED <<free, desc, idx0, pc>> /\ info' = [info EXCEPT ![h].status = s]
    BY <1>7 DEF dev_complete
  <2>2. info \in [Descs -> InfoType]
    BY <1>t DEF Types
  <2>3. \A d \in Descs : info'[d].b = info[d].b
    BY SMTT(30), <2>1, <2>2 DEF InfoType
  <2> QED BY <2>1, <2>3, ChainedFrame DEF Submitted
<1> QED BY <1>1, <1>2, <1>3, <1>4, <1>5, <1>6, <1>7 DEF Main, Device

----------------------------------------------------------------------------
(* Waiting *)

\* Who waits for descriptors goes on waiting rightly when none comes free.
LEMMA FreeFrame ==
  ASSUME DiskInv, \A d \in Descs : free'[d] => free[d],
         \A p \in Procs : pc'[p] = "nofree" => pc[p] = "nofree"
  PROVE  \A p \in Procs : pc'[p] = "nofree" => Cardinality(Free') < 3
<1>1. Free' \subseteq Free /\ IsFiniteSet(Free)
  BY DescsFinite, FS_Subset DEF Free
<1>2. /\ Cardinality(Free') <= Cardinality(Free)
      /\ Cardinality(Free') \in Nat /\ Cardinality(Free) \in Nat
  BY <1>1, FS_Subset, FS_CardinalityType
<1>3. ASSUME NEW p \in Procs, pc'[p] = "nofree" PROVE Cardinality(Free') < 3
  <2>1. Cardinality(Free) < 3
    BY <1>3 DEF DiskInv, Waiting
  <2> QED BY SMTT(30), <1>2, <2>1
<1> QED BY <1>3

\* Every step keeps b->disk and the waiting processes in order.
LEMMA WaitingStep == DiskInv /\ Main => Waiting'
<1> SUFFICES ASSUME DiskInv, Main PROVE Waiting'
  OBVIOUS
<1>t. Types /\ TypeOK
  BY TypesOK DEF DiskInv
<1>w. \A p \in Procs : (b_disk[p] => Submitted(p)) /\ (pc[p] = "sleeping" => b_disk[p])
  BY DEF DiskInv, Waiting
<1>1. ASSUME NEW p \in Procs, rw(p) PROVE Waiting'
  <2>1. UNCHANGED <<free, b_disk>> /\ pc[p] = "idle" /\ pc' = [pc EXCEPT ![p] = "alloc"]
    BY <1>1 DEF rw, driver
  <2>2. \A q \in Procs : pc'[q] = IF q = p THEN "alloc" ELSE pc[q]
    BY <1>t, <2>1 DEF Types
  <2>3. \A q \in Procs : pc'[q] = "nofree" => Cardinality(Free') < 3
    <3>1. \A q \in Procs : pc'[q] = "nofree" => pc[q] = "nofree"
      BY <2>2
    <3> QED BY <2>1, <3>1, FreeFrame
  <2>4. \A q \in Procs : Submitted(q)' <=> Submitted(q)
    BY <1>t, <1>1, PcSteps
  <2>5. \A q \in Procs : pc'[q] = "sleeping" => pc[q] = "sleeping"
    BY <2>2
  <2> QED BY <1>w, <2>1, <2>3, <2>4, <2>5 DEF Waiting
<1>2. ASSUME NEW p \in Procs, submit(p) PROVE Waiting'
  <2>1. PICK c, d, e \in Descs : Submits(p, c, d, e)
    BY <1>2, <1>t, SubmitTakes
  <2>2. \A q \in Procs : /\ pc'[q] = IF q = p THEN "sleeping" ELSE pc[q]
                         /\ b_disk'[q] = IF q = p THEN TRUE ELSE b_disk[q]
    BY <1>t, <2>1 DEF Submits, Types
  <2>3. \A x \in Descs : free'[x] => free[x]
    BY <1>t, <2>1 DEF Submits, Types
  <2>4. \A q \in Procs : pc'[q] = "nofree" => Cardinality(Free') < 3
    BY <2>2, <2>3, FreeFrame
  <2> QED BY <1>w, <2>2, <2>4 DEF Waiting, Submitted
<1>3. ASSUME NEW p \in Procs, no_desc(p) PROVE Waiting'
  <2>1. UNCHANGED <<free, b_disk>> /\ Cardinality(Free) < 3
    BY <1>3 DEF no_desc
  <2>2. Free' = Free
    BY <2>1 DEF Free
  <2>3. \A q \in Procs : /\ Submitted(q) => Submitted(q)'
                         /\ pc'[q] = "sleeping" => pc[q] = "sleeping"
    BY <1>t, <1>3, PcSteps DEF Submitted
  <2> QED BY <1>w, <2>1, <2>2, <2>3 DEF Waiting
<1>4. ASSUME NEW p \in Procs, Finishes(p) PROVE Waiting'
  <2>1. Finishes(p)
    BY <1>4
  <2>2. /\ pc[p] = "woken" /\ pc'[p] = "idle"
        /\ \A q \in Procs \ {p} : pc'[q] = IF pc[q] = "nofree" THEN "alloc" ELSE pc[q]
    BY <1>t, <2>1, PcSteps
  <2>3. UNCHANGED b_disk /\ ~b_disk[p]
    BY <2>1 DEF Finishes
  <2>4. \A q \in Procs : /\ pc'[q] # "nofree" /\ (pc'[q] = "sleeping" => pc[q] = "sleeping")
                         /\ q # p => (Submitted(q) => Submitted(q)')
    BY <2>2 DEF Submitted
  <2> QED BY <1>w, <2>3, <2>4 DEF Waiting
<1>5. CASE intr_start \/ intr_end \/ dev_fetch \/ dev_interrupt \/ \E h \in Descs, s \in {0, IOERR} : dev_complete(h, s)
  <2>1. UNCHANGED <<free, b_disk, pc>>
    BY <1>5 DEF intr_start, intr_end, dev_fetch, dev_interrupt, dev_complete, driver
  <2>2. Free' = Free
    BY <2>1 DEF Free
  <2> QED BY <2>1, <2>2 DEF DiskInv, Waiting, Submitted
<1>6. CASE intr_loop
  <2>1. PICK p \in Procs : IntrWakes(p)
    BY <1>6, IntrTakes
  <2>2. \A q \in Procs : /\ pc'[q] = IF q = p THEN "woken" ELSE pc[q]
                         /\ b_disk'[q] = IF q = p THEN FALSE ELSE b_disk[q]
    BY <1>t, <2>1 DEF IntrWakes, Types
  <2>3. \A q \in Procs : pc'[q] = "nofree" => Cardinality(Free') < 3
    <3>1. \A q \in Procs : pc'[q] = "nofree" => pc[q] = "nofree"
      BY <2>2
    <3>2. UNCHANGED free
      BY <2>1 DEF IntrWakes
    <3> QED BY <3>1, <3>2, FreeFrame
  <2> QED BY <1>w, <2>2, <2>3 DEF Waiting, Submitted
<1> QED BY <1>1, <1>2, <1>3, <1>4, <1>5, <1>6 DEF Main, Device

----------------------------------------------------------------------------
(* Tracked *)

\* No request is made or seen to be over.
LEMMA HeadsFrame ==
  ASSUME UNCHANGED <<idx0, b_disk>>
  PROVE  Heads' = Heads
BY DEF Heads

\* The avail ring is left alone.
LEMMA AskedFrame ==
  ASSUME UNCHANGED <<avail, seen, avail_idx>>
  PROVE  Asked' = Asked /\ (Distinct(avail, seen, avail_idx)' <=> Distinct(avail, seen, avail_idx))
<1>1. Asked' = Asked
  BY DEF Asked, Entries, Count
<1>2. Distinct(avail, seen, avail_idx)' <=> Distinct(avail, seen, avail_idx)
  BY DEF Distinct, Count
<1> QED BY <1>1, <1>2

\* The used ring is left alone.
LEMMA ReportedFrame ==
  ASSUME UNCHANGED <<used, used_idx, used_ring_idx>>
  PROVE  /\ Reported' = Reported
         /\ Distinct(used, used_idx, used_ring_idx)' <=> Distinct(used, used_idx, used_ring_idx)
<1>1. Reported' = Reported
  BY DEF Reported, Entries, Count
<1>2. Distinct(used, used_idx, used_ring_idx)' <=> Distinct(used, used_idx, used_ring_idx)
  BY DEF Distinct, Count
<1> QED BY <1>1, <1>2

\* The rings and the heads are left alone.
LEMMA TrackedFrame ==
  ASSUME DiskInv,
         UNCHANGED <<avail, seen, avail_idx, used, used_idx, used_ring_idx, inflight, idx0, b_disk>>
  PROVE  Tracked' /\ Reported' = Reported
<1>1. Heads' = Heads
  BY HeadsFrame
<1> QED BY <1>1, AskedFrame, ReportedFrame DEF DiskInv, Tracked

\* The device reports a request: its head joins the used ring.
LEMMA CompletionReported ==
  ASSUME DiskInv, NEW h \in Descs, NEW s, dev_complete(h, s)
  PROVE  Reported' = Reported \cup {h} /\ Distinct(used, used_idx, used_ring_idx)'
<1>1. /\ used \in [Descs -> Descs] /\ used_idx \in Indices /\ used_ring_idx \in Indices
  BY TypesOK DEF DiskInv, Types
<1>2. /\ Distinct(used, used_idx, used_ring_idx) /\ inflight \cap Reported = {}
      /\ Asked \cup inflight \cup Reported = Heads
  BY DEF DiskInv, Tracked
<1>3. /\ h \in inflight /\ used_idx' = used_idx
      /\ used' = [used EXCEPT ![used_ring_idx % NUM] = h]
      /\ used_ring_idx' = (used_ring_idx + 1) % UINT16
  BY DEF dev_complete
<1>4. desc[h].next \in Descs /\ desc[h].next \notin Heads /\ h \in Heads
  BY <1>2, <1>3, HeadOf
<1>5. h \in Descs \ Reported /\ desc[h].next \in Descs \ Reported /\ h # desc[h].next
  BY <1>2, <1>3, <1>4
<1>6. Count(used_idx, used_ring_idx) + 2 <= NUM
  BY <1>1, <1>2, <1>5, RoomInRing DEF Reported
<1>7. h \notin Entries(used, used_idx, used_ring_idx)
  BY <1>5 DEF Reported
<1>8. /\ used'[used_ring_idx % NUM] = h
      /\ \A x \in Descs : x # used_ring_idx % NUM => used'[x] = used[x]
  BY <1>1, <1>3, NextIndex
<1>9. Push(used, used', h, used_idx, used_ring_idx)
  BY <1>1, <1>2, <1>6, <1>7, <1>8 DEF Push
<1>10. /\ Entries(used', used_idx, (used_ring_idx + 1) % UINT16) = Reported \cup {h}
       /\ Distinct(used', used_idx, (used_ring_idx + 1) % UINT16)
  BY <1>9, PushEntry DEF Reported
<1>11. used_idx' = used_idx /\ used_ring_idx' = (used_ring_idx + 1) % UINT16
  BY <1>3
<1> QED BY <1>10, <1>11 DEF Reported, Distinct, Count

\* Every step keeps every request in one place.
LEMMA TrackedStep == DiskInv /\ Main => Tracked'
<1> SUFFICES ASSUME DiskInv, Main PROVE Tracked'
  OBVIOUS
<1>t. Types /\ TypeOK /\ Chained
  BY TypesOK DEF DiskInv
<1>k. /\ Distinct(avail, seen, avail_idx) /\ Distinct(used, used_idx, used_ring_idx)
      /\ Asked \cap inflight = {} /\ Asked \cap Reported = {} /\ inflight \cap Reported = {}
      /\ Asked \cup inflight \cup Reported = Heads
  BY DEF DiskInv, Tracked
<1>i. /\ avail \in [Descs -> Descs] /\ used \in [Descs -> Descs]
      /\ avail_idx \in Indices /\ used_ring_idx \in Indices
      /\ used_idx \in Indices /\ seen \in Indices
  BY <1>t DEF Types
<1>1. ASSUME NEW p \in Procs, rw(p) PROVE Tracked'
  <2>1. UNCHANGED <<avail, seen, avail_idx, used, used_idx, used_ring_idx, inflight, idx0, b_disk>>
    BY <1>1 DEF rw, rings, driver, device
  <2> QED BY <2>1, TrackedFrame
<1>2. ASSUME NEW p \in Procs, submit(p) PROVE Tracked'
  <2>1. PICK c, d, e \in Descs : Submits(p, c, d, e)
    BY <1>2, <1>t, SubmitTakes
  <2>2. /\ c # d /\ free[c] /\ free[d] /\ pc[p] = "alloc"
        /\ avail' = [avail EXCEPT ![avail_idx % NUM] = c] /\ avail_idx' = (avail_idx + 1) % UINT16
        /\ UNCHANGED <<seen, inflight, used, used_idx, used_ring_idx>>
    BY <2>1 DEF Submits
  <2>3. \A q \in Procs : /\ b_disk'[q] = IF q = p THEN TRUE ELSE b_disk[q]
                         /\ idx0'[q] = IF q = p THEN c ELSE idx0[q]
    BY <1>t, <2>1 DEF Submits, Types
  <2>4. c \notin Heads /\ d \notin Heads
    BY <2>2, HeadsInUse
  <2>5. Heads' = Heads \cup {c}
    <3>1. b_disk'[p] /\ idx0'[p] = c /\ ~b_disk[p]
      BY <2>2, <2>3 DEF DiskInv, Waiting, Submitted
    <3>2. \A q \in Procs \ {p} : b_disk'[q] = b_disk[q] /\ idx0'[q] = idx0[q]
      BY <2>3
    <3> QED BY <3>1, <3>2 DEF Heads
  <2>6. c \in Descs \ Asked /\ d \in Descs \ Asked
    BY <1>k, <2>4
  <2>7. Count(seen, avail_idx) + 2 <= NUM
    BY <1>i, <1>k, <2>2, <2>6, RoomInRing DEF Asked
  <2>8. /\ Entries(avail', seen, (avail_idx + 1) % UINT16) = Asked \cup {c}
        /\ Distinct(avail', seen, (avail_idx + 1) % UINT16)
    <3>1. Distinct(avail, seen, avail_idx) /\ c \notin Entries(avail, seen, avail_idx)
      BY <1>k, <2>6 DEF Asked
    <3>2. /\ avail'[avail_idx % NUM] = c
          /\ \A x \in Descs : x # avail_idx % NUM => avail'[x] = avail[x]
      BY <1>i, <2>2, NextIndex
    <3>3. Push(avail, avail', c, seen, avail_idx)
      BY <1>i, <2>7, <3>1, <3>2 DEF Push
    <3> QED BY <3>3, PushEntry DEF Asked
  <2>9. Asked' = Asked \cup {c} /\ Distinct(avail, seen, avail_idx)'
    <3>1. seen' = seen /\ avail_idx' = (avail_idx + 1) % UINT16
      BY <2>2
    <3> QED BY <2>8, <3>1 DEF Asked, Distinct, Count
  <2> QED BY <1>k, <2>2, <2>4, <2>5, <2>9, ReportedFrame DEF Tracked
<1>3. ASSUME NEW p \in Procs, no_desc(p) PROVE Tracked'
  <2>1. UNCHANGED <<avail, seen, avail_idx, used, used_idx, used_ring_idx, inflight, idx0, b_disk>>
    BY <1>3 DEF no_desc, rings, device
  <2> QED BY <2>1, TrackedFrame
<1>4. ASSUME NEW p \in Procs, Finishes(p) PROVE Tracked'
  <2>1. Finishes(p)
    BY <1>4
  <2>2. UNCHANGED <<avail, seen, avail_idx, used, used_idx, used_ring_idx, inflight, idx0, b_disk>>
    BY <2>1 DEF Finishes, rings, device
  <2> QED BY <2>2, TrackedFrame
<1>5. CASE intr_start \/ intr_end \/ dev_interrupt
  <2>1. UNCHANGED <<avail, seen, avail_idx, used, used_idx, used_ring_idx, inflight, idx0, b_disk>>
    BY <1>5 DEF intr_start, intr_end, dev_interrupt, rings, driver, device
  <2> QED BY <2>1, TrackedFrame
<1>6. CASE intr_loop
  <2>1. PICK p \in Procs : IntrWakes(p)
    BY <1>6, IntrTakes
  <2>2. /\ b_disk[p] /\ Submitted(p) /\ idx0[p] \in Reported
        /\ Reported' = Reported \ {idx0[p]} /\ Distinct(used, used_idx, used_ring_idx)'
        /\ UNCHANGED <<avail, avail_idx, seen, inflight, idx0>>
    BY <2>1 DEF IntrWakes
  <2>3. \A q \in Procs : b_disk'[q] = IF q = p THEN FALSE ELSE b_disk[q]
    BY <1>t, <2>1 DEF IntrWakes, Types
  <2>4. \A q \in Procs : b_disk[q] /\ idx0[q] = idx0[p] => q = p
    BY <1>t, <2>2, HeadsDiffer DEF DiskInv, Waiting
  <2>5. Heads' = Heads \ {idx0[p]}
    BY <2>2, <2>3, <2>4 DEF Heads
  <2> QED BY <1>k, <2>2, <2>5, AskedFrame DEF Tracked
<1>7. CASE dev_fetch
  <2> DEFINE h == avail[seen % NUM]
  <2>1. /\ seen # avail_idx /\ seen' = (seen + 1) % UINT16 /\ inflight' = inflight \cup {h}
        /\ UNCHANGED <<avail, avail_idx, used, used_idx, used_ring_idx, idx0, b_disk>>
    BY <1>7 DEF dev_fetch, rings, driver
  <2>2. /\ h \in Asked /\ Entries(avail, seen', avail_idx) = Asked \ {h}
        /\ Distinct(avail, seen', avail_idx)
    BY <1>i, <1>k, <2>1, PopEntry DEF Asked
  <2> HIDE DEF h
  <2>3. Asked' = Asked \ {h} /\ Distinct(avail, seen, avail_idx)'
    BY <2>1, <2>2 DEF Asked, Distinct, Count
  <2>4. Heads' = Heads
    BY <2>1, HeadsFrame
  <2> QED BY <1>k, <2>1, <2>2, <2>3, <2>4, ReportedFrame DEF Tracked
<1>8. ASSUME NEW h \in Descs, NEW s \in {0, IOERR}, dev_complete(h, s) PROVE Tracked'
  <2>1. /\ h \in inflight /\ inflight' = inflight \ {h}
        /\ used' = [used EXCEPT ![used_ring_idx % NUM] = h]
        /\ used_ring_idx' = (used_ring_idx + 1) % UINT16
        /\ UNCHANGED <<avail, avail_idx, seen, used_idx, idx0, b_disk>>
    BY <1>8 DEF dev_complete
  <2>6. Reported' = Reported \cup {h} /\ Distinct(used, used_idx, used_ring_idx)'
    BY <1>8, CompletionReported
  <2>7. Heads' = Heads
    BY <2>1, HeadsFrame
  <2> QED BY <1>k, <2>1, <2>6, <2>7, AskedFrame DEF Tracked
<1> QED BY <1>1, <1>2, <1>3, <1>4, <1>5, <1>6, <1>7, <1>8 DEF Main, Device

----------------------------------------------------------------------------
(* Done *)

\* What is known of a reported request.
LEMMA ReportedFacts ==
  ASSUME DiskInv, NEW d \in Reported
  PROVE  /\ d \in Descs /\ ~free[d]
         /\ \E p \in Procs : b_disk[p] /\ Submitted(p) /\ d = idx0[p] /\ desc[d].b = p
<1>1. PICK p \in Procs : b_disk[p] /\ Submitted(p) /\ d = idx0[p] /\ desc[d].b = p /\ d \in Descs
  BY HeadOf
<1>2. ~free[d]
  <2>1. d \in Heads
    BY <1>1 DEF Heads
  <2> QED BY <2>1, HeadsInUse
<1> QED BY <1>1, <1>2

\* Every step keeps what has been reported done.
LEMMA DoneStep == DiskInv /\ Main => Done'
<1> SUFFICES ASSUME DiskInv, Main PROVE Done'
  OBVIOUS
<1>t. Types /\ TypeOK /\ Chained
  BY TypesOK DEF DiskInv
<1>d. /\ \A p \in Procs : pc[p] = "idle" => transfer[p] \in {"none", "done"}
      /\ \A p \in Procs : pc[p] = "woken" /\ ~b_disk[p] => transfer[p] = "done"
  BY DEF DiskInv, Done
<1>r. \A d \in Reported : Result(d)
  BY DEF DiskInv, Done
<1>u. \A d \in Reported : d \in Descs /\ ~free[d]
  BY ReportedFacts
<1>1. ASSUME NEW p \in Procs, rw(p) PROVE Done'
  <2>1. /\ pc[p] = "idle"
        /\ UNCHANGED <<used, used_idx, used_ring_idx, desc, info, b_disk>>
    BY <1>1 DEF rw, rings, driver
  <2>2. /\ pc'[p] = "alloc"
        /\ \A q \in Procs \ {p} : pc'[q] = pc[q] /\ transfer'[q] = transfer[q]
    BY <1>t, <1>1 DEF rw, Types
  <2>3. ASSUME NEW d \in Reported PROVE Result(d)'
    <3>1. PICK q \in Procs : Submitted(q) /\ desc[d].b = q
      BY ReportedFacts
    <3>2. q \in Procs \ {p}
      BY <2>1, <3>1 DEF Submitted
    <3>3. transfer'[q] = transfer[q]
      BY <2>2, <3>2
    <3> QED BY <1>r, <2>1, <3>1, <3>3 DEF Result
  <2>4. \A q \in Procs : /\ pc'[q] = "idle" => transfer'[q] \in {"none", "done"}
                         /\ pc'[q] = "woken" /\ ~b_disk'[q] => transfer'[q] = "done"
    BY <1>d, <2>1, <2>2
  <2> QED BY <2>1, <2>3, <2>4, ReportedFrame DEF Done
<1>2. ASSUME NEW p \in Procs, submit(p) PROVE Done'
  <2>1. PICK c, d, e \in Descs : Submits(p, c, d, e)
    BY <1>2, <1>t, SubmitTakes
  <2>2. /\ pc'[p] = "sleeping" /\ \A q \in Procs \ {p} : pc'[q] = pc[q] /\ b_disk'[q] = b_disk[q]
        /\ UNCHANGED <<used, used_idx, used_ring_idx, transfer>>
    BY <1>t, <2>1 DEF Submits, Types
  <2>3. \A x \in Descs : ~free[x] => desc'[x] = desc[x] /\ info'[x] = info[x]
    BY <1>t, <2>1 DEF Submits, Types
  <2>4. \A x \in Reported : Result(x)'
    BY <1>r, <1>u, <2>2, <2>3 DEF Result
  <2>5. \A q \in Procs : /\ pc'[q] = "idle" => transfer'[q] \in {"none", "done"}
                         /\ pc'[q] = "woken" /\ ~b_disk'[q] => transfer'[q] = "done"
    BY <1>d, <2>2
  <2> QED BY <2>2, <2>4, <2>5, ReportedFrame DEF Done
<1>3. ASSUME NEW p \in Procs, no_desc(p) PROVE Done'
  <2>1. /\ UNCHANGED <<used, used_idx, used_ring_idx, transfer, info, b_disk>>
        /\ \A x \in Descs : ~free[x] => desc'[x] = desc[x]
    BY <1>3 DEF no_desc, rings
  <2>2. \A x \in Reported : Result(x)'
    BY <1>r, <1>u, <2>1 DEF Result
  <2>3. \A q \in Procs : /\ pc'[q] = "idle" => pc[q] = "idle"
                         /\ pc'[q] = "woken" => pc[q] = "woken"
    BY <1>t, <1>3, PcSteps
  <2> QED BY <1>d, <2>1, <2>2, <2>3, ReportedFrame DEF Done
<1>4. ASSUME NEW p \in Procs, Finishes(p) PROVE Done'
  <2>1. Finishes(p)
    BY <1>4
  <2>2. /\ pc[p] = "woken" /\ pc'[p] = "idle"
        /\ \A q \in Procs \ {p} : pc'[q] = IF pc[q] = "nofree" THEN "alloc" ELSE pc[q]
    BY <1>t, <2>1, PcSteps
  <2>3. /\ UNCHANGED <<used, used_idx, used_ring_idx, transfer, b_disk>> /\ ~b_disk[p]
        /\ \A x \in Descs \ Own(p) : desc'[x] = desc[x]
    BY <2>1 DEF Finishes, rings
  <2>4. \A x \in Descs : x # idx0[p] => info'[x] = info[x]
    BY <1>t, <2>1 DEF Finishes, Types
  <2>5. ASSUME NEW x \in Reported PROVE Result(x)'
    <3>1. PICK q \in Procs : b_disk[q] /\ desc[x].b = q
      BY ReportedFacts
    <3>2. \A y \in Own(p) : desc[y].b = p
      BY <1>t, <2>2, OwnInUse DEF Submitted
    <3>3. x \notin Own(p) /\ x # idx0[p]
      BY <2>3, <3>1, <3>2 DEF Own
    <3> QED BY <1>r, <1>u, <2>3, <2>4, <3>3 DEF Result
  <2>6. \A q \in Procs : /\ pc'[q] = "idle" => pc[q] = "idle" \/ q = p
                         /\ pc'[q] = "woken" => pc[q] = "woken"
    BY <2>2
  <2>7. transfer[p] = "done"
    BY <1>d, <2>2, <2>3
  <2> QED BY <1>d, <2>3, <2>5, <2>6, <2>7, ReportedFrame DEF Done
<1>5. CASE intr_start \/ intr_end \/ dev_fetch \/ dev_interrupt
  <2>1. UNCHANGED <<used, used_idx, used_ring_idx, transfer, desc, info, b_disk, pc>>
    BY <1>5 DEF intr_start, intr_end, dev_fetch, dev_interrupt, rings, driver
  <2> QED BY <1>d, <1>r, <2>1, ReportedFrame DEF Done, Result
<1>6. CASE intr_loop
  <2>1. PICK p \in Procs : IntrWakes(p)
    BY <1>6, IntrTakes
  <2>2. /\ idx0[p] \in Reported /\ desc[idx0[p]].b = p /\ info[idx0[p]].status = 0
        /\ Reported' \subseteq Reported /\ UNCHANGED <<desc, info, transfer>>
    BY <2>1 DEF IntrWakes
  <2>3. \A q \in Procs : /\ pc'[q] = IF q = p THEN "woken" ELSE pc[q]
                         /\ b_disk'[q] = IF q = p THEN FALSE ELSE b_disk[q]
    BY <1>t, <2>1 DEF IntrWakes, Types
  <2>4. transfer[p] = "done"
    BY <1>r, <2>2 DEF Result, Outcome
  <2>5. \A x \in Reported' : Result(x)'
    BY <1>r, <2>2 DEF Result
  <2> QED BY <1>d, <2>2, <2>3, <2>4, <2>5 DEF Done
<1>7. ASSUME NEW h \in Descs, NEW s \in {0, IOERR}, dev_complete(h, s) PROVE Done'
  <2>1. /\ h \in inflight /\ info' = [info EXCEPT ![h].status = s]
        /\ transfer' = [transfer EXCEPT ![desc[desc[h].next].b] = Outcome(s)]
        /\ UNCHANGED <<desc, pc, b_disk>>
    BY <1>7 DEF dev_complete, Outcome
  <2>2. PICK p \in Procs : /\ b_disk[p] /\ Submitted(p) /\ h = idx0[p]
                          /\ desc[h].b = p /\ desc[desc[h].next].b = p
    BY <2>1, HeadOf
  <2>3. /\ transfer'[p] = Outcome(s)
        /\ \A q \in Procs \ {p} : transfer'[q] = transfer[q]
    <3>1. transfer' = [transfer EXCEPT ![p] = Outcome(s)]
      BY <2>1, <2>2
    <3> QED BY <1>t, <3>1 DEF Types
  <2>4. \A x \in Descs : info'[x].status = IF x = h THEN s ELSE info[x].status
    <3>1. info \in [Descs -> InfoType]
      BY <1>t DEF Types
    <3> QED BY SMTT(30), <2>1, <3>1 DEF InfoType
  <2>5. Reported' = Reported \cup {h}
    BY <1>7, CompletionReported
  <2>6. ASSUME NEW x \in Reported PROVE Result(x)'
    <3>1. PICK q \in Procs : desc[x].b = q /\ x = idx0[q]
      BY ReportedFacts
    <3>2. x # h
      BY <2>1 DEF DiskInv, Tracked
    <3>3. transfer'[q] = transfer[q]
      BY <2>2, <2>3, <3>1, <3>2
    <3>4. info'[x].status = info[x].status
      BY <1>u, <2>4, <3>2
    <3> QED BY <1>r, <2>1, <3>1, <3>3, <3>4 DEF Result
  <2>7. Result(h)'
    BY <2>1, <2>2, <2>3, <2>4 DEF Result
  <2>8. \A x \in Reported' : Result(x)'
    BY <2>5, <2>6, <2>7
  <2>9. \A q \in Procs : /\ pc'[q] = "idle" => transfer'[q] \in {"none", "done"}
                         /\ pc'[q] = "woken" /\ ~b_disk'[q] => transfer'[q] = "done"
    <3>1. pc[p] # "idle" /\ b_disk'[p] /\ pc' = pc /\ b_disk' = b_disk
      BY <2>1, <2>2 DEF Submitted
    <3> QED BY <1>d, <2>3, <3>1
  <2> QED BY <2>8, <2>9 DEF Done
<1> QED BY <1>1, <1>2, <1>3, <1>4, <1>5, <1>6, <1>7 DEF Main, Device

----------------------------------------------------------------------------
(* The invariant *)

\* After virtio_disk_init() the invariant holds.
LEMMA InitDiskInv == Init => DiskInv
<1> SUFFICES ASSUME Init PROVE DiskInv
  OBVIOUS
<1>1. 0 \in Descs /\ 0 \in Indices
  BY SMTT(30), Sizes DEF Descs, Indices
<1>2. /\ [b |-> Nobody, flag |-> FALSE, next |-> 0] \in DescType
      /\ [b |-> Nobody, status |-> 0] \in InfoType
  BY SMTT(30), <1>1 DEF DescType, InfoType
<1>3. Types
  BY <1>1, <1>2 DEF Init, Types, PCs
<1>4. TypeOK
  BY <1>3, TypesOK
<1>5. \A p \in Procs : pc[p] = "idle" /\ ~b_disk[p] /\ transfer[p] = "none"
  BY DEF Init
<1>6. \A d \in Descs : free[d] /\ desc[d].b = Nobody
  <2>1. [b |-> Nobody, flag |-> FALSE, next |-> 0].b = Nobody
    OBVIOUS
  <2> QED BY <2>1 DEF Init
<1>7. Chained
  BY <1>5, <1>6 DEF Chained, Submitted
<1>8. Waiting
  BY <1>5 DEF Waiting
<1>9. Count(0, 0) = 0 /\ 0..(0 - 1) = {}
  BY SMTT(30), Sizes DEF Count
<1>10. \A ring : Entries(ring, 0, 0) = {} /\ Distinct(ring, 0, 0)
  BY <1>9 DEF Entries, Distinct, Count
<1>11. Asked = {} /\ Reported = {} /\ inflight = {}
  BY <1>10 DEF Init, Asked, Reported
<1>12. Heads = {}
  BY <1>5 DEF Heads
<1>13. Tracked
  BY <1>10, <1>11, <1>12 DEF Init, Tracked
<1>14. Done
  BY <1>5, <1>11 DEF Done
<1> QED BY <1>4, <1>7, <1>8, <1>13, <1>14 DEF DiskInv

\* A process wakes up or falls asleep again, or nothing happens at all.
Nudged ==
  /\ pc' \in [Procs -> PCs]
  /\ \A q \in Procs : /\ Submitted(q)' <=> Submitted(q)
                      /\ pc'[q] = "idle" => pc[q] = "idle"
                      /\ pc'[q] = "nofree" => pc[q] = "nofree"
                      /\ pc'[q] = "sleeping" => b_disk[q]
                      /\ pc'[q] = "woken" => pc[q] = "woken" \/ b_disk[q]
  /\ UNCHANGED <<rings, driver, device, idx0, intr, irq, transfer>>

\* kill(), a wakeup that finds b->disk set, the loop of panic() and a stuttering
\* step move no request.
LEMMA StepKinds == DiskInv /\ [Next]_vars => Main \/ Nudged
<1> SUFFICES ASSUME DiskInv, [Next]_vars PROVE Main \/ Nudged
  OBVIOUS
<1>t. pc \in [Procs -> PCs]
  BY TypesOK DEF DiskInv, Types
<1>w. \A q \in Procs : pc[q] = "sleeping" => b_disk[q]
  BY DEF DiskInv, Waiting
<1>1. ASSUME UNCHANGED vars PROVE Nudged
  BY <1>t, <1>w, <1>1 DEF vars, Nudged, Submitted
<1>2. ASSUME NEW p \in Procs, kill(p) PROVE Nudged
  <2> DEFINE x == CASE pc[p] = "sleeping" -> "woken"
                    [] pc[p] = "nofree" -> "alloc"
                    [] OTHER -> pc[p]
  <2>1. pc' = [pc EXCEPT ![p] = x] /\ UNCHANGED <<rings, driver, device, idx0, intr, irq, transfer>>
    BY <1>2 DEF kill
  <2>2. /\ pc[p] = "sleeping" => x = "woken"
        /\ pc[p] = "nofree" => x = "alloc"
        /\ pc[p] # "sleeping" /\ pc[p] # "nofree" => x = pc[p]
    OBVIOUS
  <2> HIDE DEF x
  <2>3. pc'[p] = x /\ \A q \in Procs \ {p} : pc'[q] = pc[q]
    BY <1>t, <2>1
  <2>4. pc' \in [Procs -> PCs]
    <3>1. x \in PCs
      BY <1>t, <2>2 DEF PCs
    <3> QED BY <1>t, <2>1, <3>1
  <2>5. /\ Submitted(p)' <=> Submitted(p)
        /\ pc'[p] = "idle" => pc[p] = "idle"
        /\ pc'[p] = "nofree" => pc[p] = "nofree"
        /\ pc'[p] = "sleeping" => b_disk[p]
        /\ pc'[p] = "woken" => pc[p] = "woken" \/ b_disk[p]
    BY <1>w, <2>2, <2>3 DEF Submitted
  <2>6. ASSUME NEW q \in Procs \ {p}
        PROVE  /\ Submitted(q)' <=> Submitted(q)
               /\ pc'[q] = "idle" => pc[q] = "idle"
               /\ pc'[q] = "nofree" => pc[q] = "nofree"
               /\ pc'[q] = "sleeping" => b_disk[q]
               /\ pc'[q] = "woken" => pc[q] = "woken" \/ b_disk[q]
    BY <1>w, <2>3 DEF Submitted
  <2> QED BY <2>1, <2>4, <2>5, <2>6 DEF Nudged
<1>3. ASSUME NEW p \in Procs, finish(p), b_disk[p] PROVE Nudged
  <2>1. /\ pc[p] = "woken" /\ pc' = [pc EXCEPT ![p] = "sleeping"]
        /\ UNCHANGED <<rings, driver, device, idx0, intr, irq, transfer>>
    BY <1>3 DEF finish, driver
  <2>2. pc'[p] = "sleeping" /\ \A q \in Procs \ {p} : pc'[q] = pc[q]
    BY <1>t, <2>1
  <2>3. pc' \in [Procs -> PCs]
    BY <1>t, <2>1 DEF PCs
  <2>4. ASSUME NEW q \in Procs
        PROVE  /\ Submitted(q)' <=> Submitted(q)
               /\ pc'[q] = "idle" => pc[q] = "idle"
               /\ pc'[q] = "nofree" => pc[q] = "nofree"
               /\ pc'[q] = "sleeping" => b_disk[q]
               /\ pc'[q] = "woken" => pc[q] = "woken" \/ b_disk[q]
    BY <1>w, <1>3, <2>1, <2>2 DEF Submitted
  <2> QED BY <2>1, <2>3, <2>4 DEF Nudged
<1>4. ASSUME NEW p \in Procs, finish(p), ~b_disk[p] PROVE Main
  BY <1>4, FinishFrees DEF Main
<1>5. CASE Intr
  BY <1>1, <1>5 DEF Intr, panic, Main
<1>6. CASE Device
  BY <1>6 DEF Main
<1>7. ASSUME NEW p \in Procs, rw(p) \/ Kernel(p) PROVE Main \/ Nudged
  BY <1>2, <1>3, <1>4, <1>7 DEF Kernel, Main
<1> QED BY <1>1, <1>5, <1>6, <1>7 DEF Next

\* A process that wakes up or falls asleep again breaks nothing.
LEMMA NudgedStep == DiskInv /\ Nudged => DiskInv'
<1> SUFFICES ASSUME DiskInv, Nudged PROVE DiskInv'
  OBVIOUS
<1>1. UNCHANGED <<free, desc, avail, avail_idx, used, used_ring_idx, used_idx, info, b_disk,
                  idx0, intr, irq, seen, inflight, raise, transfer>>
  BY DEF Nudged, rings, driver, device
<1>2. \A q \in Procs : /\ Submitted(q)' <=> Submitted(q)
                       /\ pc'[q] = "idle" => pc[q] = "idle"
                       /\ pc'[q] = "nofree" => pc[q] = "nofree"
                       /\ pc'[q] = "sleeping" => b_disk[q]
                       /\ pc'[q] = "woken" => pc[q] = "woken" \/ b_disk[q]
  BY DEF Nudged
<1>3. TypeOK'
  <2>1. Types /\ pc' \in [Procs -> PCs]
    BY TypesOK DEF DiskInv, Nudged
  <2>2. Types'
    BY <1>1, <2>1 DEF Types
  <2> QED BY <2>2, TypesOKNext
<1>4. Chained'
  BY <1>1, <1>2, ChainedFrame
<1>5. Waiting'
  <2>1. Free' = Free
    BY <1>1 DEF Free
  <2> QED BY <1>1, <1>2, <2>1 DEF DiskInv, Waiting
<1>6. Tracked' /\ Reported' = Reported
  BY <1>1, TrackedFrame
<1>7. Done'
  <2>1. \A d \in Reported' : Result(d)'
    BY <1>1, <1>6 DEF DiskInv, Done, Result
  <2> QED BY <1>1, <1>2, <2>1 DEF DiskInv, Done
<1> QED BY <1>3, <1>4, <1>5, <1>6, <1>7 DEF DiskInv

\* Every step keeps the invariant.
LEMMA NextDiskInv == DiskInv /\ [Next]_vars => DiskInv'
<1> SUFFICES ASSUME DiskInv, [Next]_vars PROVE DiskInv'
  OBVIOUS
<1>1. CASE Main
  BY <1>1, TypeOKStep, ChainedStep, WaitingStep, TrackedStep, DoneStep DEF DiskInv
<1> QED BY <1>1, StepKinds, NudgedStep

\* The inductive invariant of virtio_disk_rw(), virtio_disk_intr() and the device.
THEOREM DiskInvariance == Spec => []DiskInv
BY InitDiskInv, NextDiskInv, PTL DEF Spec

\* Every request is at one place at a time, no ring entry is overwritten before it
\* is read, and every descriptor is free or in the chain of one request.
THEOREM RingsAreAccounted == Spec => []RingsAccounted
<1>1. DiskInv => RingsAccounted
  <2> SUFFICES ASSUME DiskInv PROVE RingsAccounted
    OBVIOUS
  <2>t. Types /\ TypeOK /\ Chained /\ Tracked /\ Waiting
    BY TypesOK DEF DiskInv
  <2>i. /\ avail \in [Descs -> Descs] /\ used \in [Descs -> Descs]
        /\ avail_idx \in Indices /\ used_ring_idx \in Indices
        /\ used_idx \in Indices /\ seen \in Indices
    BY <2>t DEF Types
  <2>1. RequestsTracked
    <3>1. Heads = {idx0[p] : p \in {q \in Procs : Submitted(q) /\ b_disk[q]}}
      <4>1. \A q \in Procs : Submitted(q) /\ b_disk[q] <=> b_disk[q]
        BY <2>t DEF Waiting
      <4> QED BY <4>1 DEF Heads
    <3>2. (avail_idx - seen) % UINT16 = Cardinality(Asked)
      BY <2>i, <2>t, EntriesCount DEF Tracked, Asked, Count
    <3>3. (used_ring_idx - used_idx) % UINT16 = Cardinality(Reported)
      BY <2>i, <2>t, EntriesCount DEF Tracked, Reported, Count
    <3> QED BY <2>t, <3>1, <3>2, <3>3 DEF RequestsTracked, Tracked, Asked, Reported
  <2>2. ASSUME NEW p \in Procs, Submitted(p)
        PROVE  /\ Chain(idx0[p]) = Own(p) /\ Own(p) \subseteq Descs
               /\ \A d \in Own(p) : desc[d].b = p /\ ~free[d]
               /\ Cardinality(Chain(idx0[p])) = 3
    <3>1. /\ Linked(p) /\ Own(p) \subseteq Descs
          /\ \A d \in Own(p) : desc[d].b = p /\ ~free[d]
      BY <2>t, <2>2, OwnInUse
    <3>2. Chain(idx0[p]) = Own(p)
      BY <3>1, ChainOwn
    <3>3. Cardinality(Own(p)) = 3
      <4>1. idx0[p] # Second(p) /\ idx0[p] # Third(p) /\ Second(p) # Third(p)
        BY <3>1 DEF Linked
      <4>2. IsFiniteSet({idx0[p]}) /\ Cardinality({idx0[p]}) = 1
        BY FS_Singleton
      <4>3. /\ IsFiniteSet({idx0[p]} \cup {Second(p)})
            /\ Cardinality({idx0[p]} \cup {Second(p)}) = Cardinality({idx0[p]}) + 1
        BY <4>1, <4>2, FS_AddElement
      <4>4. Third(p) \notin {idx0[p]} \cup {Second(p)}
        BY <4>1
      <4>5. Cardinality(({idx0[p]} \cup {Second(p)}) \cup {Third(p)})
              = Cardinality({idx0[p]} \cup {Second(p)}) + 1
        BY <4>3, <4>4, FS_AddElement
      <4>6. Own(p) = ({idx0[p]} \cup {Second(p)}) \cup {Third(p)}
        BY DEF Own
      <4> QED BY SMTT(30), <4>2, <4>3, <4>5, <4>6
    <3> QED BY <3>1, <3>2, <3>3
  <2>3. ASSUME NEW p \in Procs, Submitted(p), NEW d \in Chain(idx0[p])
        PROVE  d \in Descs /\ desc[d].b = p /\ ~free[d]
    BY <2>2, <2>3
  <2>4. ASSUME NEW p \in Procs, NEW q \in Procs, Submitted(p), Submitted(q), p # q
        PROVE  Chain(idx0[p]) \cap Chain(idx0[q]) = {}
    <3> SUFFICES ASSUME NEW d, d \in Chain(idx0[p]), d \in Chain(idx0[q]) PROVE FALSE
      OBVIOUS
    <3>1. desc[d].b = p
      BY <2>3, <2>4
    <3>2. desc[d].b = q
      BY <2>3, <2>4
    <3> QED BY <2>4, <3>1, <3>2
  <2>5. Free = Descs \ UNION {Chain(idx0[p]) : p \in {q \in Procs : Submitted(q)}}
    <3> DEFINE Taken == UNION {Chain(idx0[p]) : p \in {q \in Procs : Submitted(q)}}
    <3>1. ASSUME NEW d \in Descs, free[d] PROVE d \notin Taken
      <4> SUFFICES ASSUME NEW p \in Procs, Submitted(p), d \in Chain(idx0[p]) PROVE FALSE
        OBVIOUS
      <4> QED BY <2>3, <3>1
    <3>2. ASSUME NEW d \in Descs, ~free[d] PROVE d \in Taken
      <4>1. PICK p \in Procs : Submitted(p) /\ d \in Own(p)
        BY <2>t, <3>2 DEF Chained
      <4>2. d \in Chain(idx0[p])
        BY <2>2, <4>1
      <4> QED BY <4>1, <4>2
    <3> HIDE DEF Taken
    <3>3. Free = Descs \ Taken
      BY <3>1, <3>2 DEF Free
    <3> QED BY <3>3 DEF Taken
  <2>6. \A p \in Procs : pc[p] = "nofree" => Cardinality(Free) < 3
    BY <2>t DEF Waiting
  <2>7. DescsOwned
    BY <2>t, <2>2, <2>3, <2>4, <2>5, <2>6 DEF DescsOwned
  <2> QED BY <2>1, <2>7 DEF RingsAccounted
<1> QED BY <1>1, DiskInvariance, PTL

\* What virtio_disk_intr() finds in the used ring is the request of a process that
\* still waits for it, and its status is what the device made of the transfer:
\* never the 0xff that virtio_disk_rw() preset, 0 when the transfer was done and an
\* error when it failed.
StatusTells ==
  used_idx # used_ring_idx =>
    LET id == used[used_idx % NUM]
    IN  /\ info[id].b \in Procs /\ b_disk[info[id].b]
        /\ info[id].status \in {0, IOERR}
        /\ transfer[info[id].b] = IF info[id].status = 0 THEN "done" ELSE "failed"

\* The invariant says so.
LEMMA StatusFollows == DiskInv => StatusTells
<1> SUFFICES ASSUME DiskInv, used_idx # used_ring_idx
             PROVE  LET id == used[used_idx % NUM]
                    IN  /\ info[id].b \in Procs /\ b_disk[info[id].b]
                        /\ info[id].status \in {0, IOERR}
                        /\ transfer[info[id].b] = IF info[id].status = 0 THEN "done" ELSE "failed"
  BY DEF StatusTells
<1> DEFINE id == used[used_idx % NUM]
<1>1. id \in Reported
  <2>1. /\ used \in [Descs -> Descs] /\ used_idx \in Indices /\ used_ring_idx \in Indices
        /\ Distinct(used, used_idx, used_ring_idx)
    BY TypesOK DEF Types, DiskInv, Tracked
  <2> QED BY <2>1, PopEntry DEF Reported
<1> HIDE DEF id
<1>2. PICK p \in Procs : b_disk[p] /\ info[id].b = p /\ desc[id].b = p
  BY <1>1, HeadOf
<1>3. Result(id)
  BY <1>1 DEF DiskInv, Done
<1> QED BY <1>2, <1>3 DEF id, Result, Outcome

\* virtio_disk_intr() reads the device's verdict, and gives the buffer back to the
\* process that it belongs to.
THEOREM StatusIsTold == Spec => []StatusTells
BY StatusFollows, DiskInvariance, PTL

\* virtio_disk_rw() returns only after the device has done its transfer, the device
\* never works on a buffer that its owner has taken back, and virtio_disk_intr()
\* panics only for a transfer that the device has failed.
THEOREM TransfersAreDone == Spec => []TransferDone
<1>1. DiskInv => TransferDone
  <2> SUFFICES ASSUME DiskInv PROVE TransferDone
    OBVIOUS
  <2>1. \A p \in Procs : pc[p] = "idle" => transfer[p] \in {"none", "done"}
    BY DEF DiskInv, Done
  <2>2. ASSUME NEW h \in inflight PROVE b_disk[desc[desc[h].next].b]
    BY HeadOf
  <2>3. ASSUME Panicking PROVE transfer[info[used[used_idx % NUM]].b] = "failed"
    BY <2>3, StatusFollows DEF Panicking, StatusTells
  <2> QED BY <2>1, <2>2, <2>3 DEF TransferDone
<1> QED BY <1>1, DiskInvariance, PTL

\* A completion that nobody has looked at has an interrupt coming or the handler
\* still looking.
THEOREM NoCompletionIsLost == Spec => []NoLostCompletion
<1>1. Init => NoLostCompletion
  BY DEF Init, NoLostCompletion
<1>2. NoLostCompletion /\ [Next]_vars => NoLostCompletion'
  <2> SUFFICES ASSUME NoLostCompletion, [Next]_vars PROVE NoLostCompletion'
    OBVIOUS
  <2>1. CASE Intr \/ Device
    BY <2>1 DEF Intr, Device, intr_start, intr_loop, panic, intr_end, dev_fetch, dev_complete,
                dev_interrupt, vars, rings, driver, device, NoLostCompletion
  <2>2. ASSUME NEW p \in Procs, rw(p) \/ Kernel(p) PROVE NoLostCompletion'
    BY <2>2 DEF Kernel, rw, submit, no_desc, finish, kill, rings, driver, device, NoLostCompletion
  <2>3. CASE UNCHANGED vars
    BY <2>3 DEF vars, rings, driver, device, NoLostCompletion
  <2> QED BY <2>1, <2>2, <2>3 DEF Next
<1> QED BY <1>1, <1>2, PTL DEF Spec
=============================================================================
