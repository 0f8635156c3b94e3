------------------------- MODULE DiskGeometryProofs -------------------------
(***************************************************************************)
(* Facts about the sector arithmetic, for every alignment, every GiB that  *)
(* is a multiple of it and every disk.                                     *)
(***************************************************************************)
EXTENDS DiskGeometry, WellFoundedInduction, TLAPS

\* A set of numbers that is not empty has a least element.
LEMMA LeastExists ==
    ASSUME NEW S \in SUBSET Nat, S # {}
    PROVE  \E n \in S : \A m \in S : n <= m
  <1>1. PICK n \in S : \A m \in S : <<m, n>> \notin OpToRel(<, Nat)
    BY NatLessThanWellFounded, WFMin
  <1>2. \A m \in S : ~(m < n)
    BY <1>1 DEF OpToRel
  <1> QED
    BY <1>2

\* align_up returns an aligned sector at or after its argument, less than one
\* alignment unit away.
LEMMA AlignUpBounds ==
    ASSUME NEW v \in Nat
    PROVE  /\ AlignUp(v) \in Nat
           /\ v <= AlignUp(v)
           /\ AlignUp(v) < v + Align
  <1>1. Align \in Nat \ {0}
    BY GeometryAssumption
  <1> DEFINE q == (v + Align - 1) \div Align
  <1>2. q \in Nat /\ q * Align <= v + Align - 1 /\ v + Align - 1 < (q + 1) * Align
    BY <1>1
  <1>3. (q + 1) * Align = q * Align + Align
    BY <1>1, <1>2
  <1>4. q * Align \in Nat
    BY <1>1, <1>2
  <1> QED
    BY <1>1, <1>2, <1>3, <1>4 DEF AlignUp

\* On an aligned sector align_up is the identity, which keeps a region that
\* starts aligned whole.
LEMMA AlignUpAligned ==
    ASSUME NEW k \in Nat
    PROVE  AlignUp(k * Align) = k * Align
  <1>1. Align \in Nat \ {0}
    BY GeometryAssumption
  <1> DEFINE v == k * Align
             q == (v + Align - 1) \div Align
  <1>2. v \in Nat
    BY <1>1
  <1>3. q \in Nat /\ q * Align <= v + Align - 1 /\ v + Align - 1 < (q + 1) * Align
    BY <1>1, <1>2
  <1>4. q * Align < (k + 1) * Align /\ k * Align < (q + 1) * Align
    BY <1>1, <1>2, <1>3
  <1>5. q < k + 1 /\ k < q + 1
    BY <1>1, <1>3, <1>4
  <1>6. q = k
    BY <1>3, <1>5
  <1> QED
    BY <1>6 DEF AlignUp

\* The result of align_up is a multiple of the alignment.
LEMMA AlignUpMultiple ==
    ASSUME NEW v \in Nat
    PROVE  \E k \in Nat : AlignUp(v) = k * Align
  <1>1. Align \in Nat \ {0}
    BY GeometryAssumption
  <1>2. (v + Align - 1) \div Align \in Nat
    BY <1>1
  <1> QED
    BY <1>2 DEF AlignUp

\* The ESP of an advanced installation is exactly 1 GiB.
LEMMA EspIsOneGiB == EspSectors = GiB
  <1>1. Align \in Nat \ {0} /\ GiB \in Nat /\ GiB % Align = 0
    BY GeometryAssumption
  <1>2. PICK k \in Nat : GiB = k * Align
    <2>1. GiB = Align * (GiB \div Align) + (GiB % Align) /\ GiB \div Align \in Nat
      BY <1>1
    <2> QED
      BY <1>1, <2>1
  <1> QED
    BY <1>2, AlignUpAligned DEF EspSectors

\* The partitions of aero7_partition_append_table lie in the region they are
\* cut from, in order and without overlap, and the root has its 16 GiB.
THEOREM AppendTableFitsRegion ==
    ASSUME NEW first \in Nat, NEW last \in Nat, TableFits(first, last)
    PROVE  LET esp == [start |-> EspStart(first), len |-> EspSectors]
               root == [start |-> RootStart(first), len |-> RootSectors(first, last)]
               region == [start |-> first, len |-> last - first + 1]
           IN  /\ Inside(esp, region) /\ Inside(root, region)
               /\ Disjoint(esp, root)
               /\ esp.len = GiB /\ root.len >= MinRoot
  <1>1. EspStart(first) \in Nat /\ first <= EspStart(first)
    BY AlignUpBounds DEF EspStart
  <1>2. EspSectors = GiB /\ GiB \in Nat \ {0} /\ MinRoot \in Nat \ {0}
    BY EspIsOneGiB, GeometryAssumption
  <1>3. RootStart(first) \in Nat /\ EspStart(first) + GiB <= RootStart(first)
    BY <1>1, <1>2, AlignUpBounds DEF RootStart
  <1> QED
    BY <1>1, <1>2, <1>3 DEF TableFits, RootSectors, Inside, Disjoint, Next1

\* The 17 GiB rule of the drive page is enough wherever the region starts on
\* an aligned sector, as every listed free region does: the table is never
\* refused for it.
THEOREM AlignedRegionAccepted ==
    ASSUME NEW k \in Nat, NEW len \in Nat, len >= MinRegion
    PROVE  TableFits(k * Align, k * Align + len - 1)
  <1>1. Align \in Nat \ {0} /\ MinRoot \in Nat /\ GiB \in Nat
    BY GeometryAssumption
  <1>2. k * Align \in Nat
    BY <1>1
  <1>3. EspStart(k * Align) = k * Align
    BY AlignUpAligned DEF EspStart
  <1>4. PICK g \in Nat : GiB = g * Align
    BY AlignUpMultiple, EspIsOneGiB, <1>1 DEF EspSectors
  <1>5. k * Align + GiB = (k + g) * Align /\ k + g \in Nat
    BY <1>1, <1>4
  <1>6. RootStart(k * Align) = k * Align + GiB
    BY <1>3, <1>5, EspIsOneGiB, AlignUpAligned DEF RootStart
  <1> QED
    BY <1>1, <1>2, <1>6 DEF TableFits, RootSectors, MinRegion

-----------------------------------------------------------------------------
\* A gap begins at or after the first MiB and behind every partition of S,
\* on an aligned sector, and ends at the limit it was computed for.
LEMMA GapBounds ==
    ASSUME NEW S, \A p \in S : p.start \in Nat /\ p.len \in Nat,
           NEW limit \in Int, NEW r \in Gap(S, limit)
    PROVE  /\ r.start \in Nat /\ r.len \in Nat \ {0}
           /\ Align <= r.start /\ Next1(r) = limit
           /\ \A p \in S : Next1(p) <= r.start
           /\ \E k \in Nat : r.start = k * Align
  <1>1. PICK c \in Cursor(S) :
          AlignUp(c) < limit /\ r = [start |-> AlignUp(c), len |-> limit - AlignUp(c)]
    BY DEF Gap
  <1>2. Align \in Nat \ {0}
    BY GeometryAssumption
  <1>3. \A p \in S : Next1(p) \in Nat
    BY DEF Next1
  <1>4. c \in Nat /\ Align <= c /\ \A p \in S : Next1(p) <= c
    BY <1>1, <1>2, <1>3 DEF Cursor
  <1>5. AlignUp(c) \in Nat /\ c <= AlignUp(c) /\ \E k \in Nat : AlignUp(c) = k * Align
    BY <1>4, AlignUpBounds, AlignUpMultiple
  <1>6. r.start = AlignUp(c) /\ r.len = limit - AlignUp(c)
    BY <1>1
  <1>7. \A p \in S : Next1(p) <= r.start
    BY <1>3, <1>4, <1>5, <1>6
  <1>8. Next1(r) = limit
    BY <1>5, <1>6 DEF Next1
  <1> QED
    BY <1>1, <1>2, <1>4, <1>5, <1>6, <1>7, <1>8

\* What free_regions returns is unallocated: a region shares no sector with a
\* partition, and keeps off the first MiB and the backup GPT, for every table
\* including nested and overlapping partitions.
THEOREM FreeRegionsAreFree ==
    ASSUME NEW parts, \A p \in parts : p.start \in Nat /\ p.len \in Nat,
           NEW total \in Nat, NEW r \in FreeRegions(parts, total)
    PROVE  /\ r.start \in Nat /\ r.len \in Nat \ {0}
           /\ Align <= r.start /\ Next1(r) <= UsableEnd(total)
           /\ \A p \in Used(parts) : Disjoint(r, p)
           /\ \E k \in Nat : r.start = k * Align
  <1>1. UsableEnd(total) \in Int
    BY GeometryAssumption DEF UsableEnd
  <1>2. \A p \in Used(parts) : p.start \in Nat /\ p.len \in Nat /\ Next1(p) \in Nat
    BY DEF Used, Next1
  <1>3. CASE r \in Gap(Used(parts), UsableEnd(total))
    <2>1. /\ r.start \in Nat /\ r.len \in Nat \ {0}
          /\ Align <= r.start /\ Next1(r) = UsableEnd(total)
          /\ \A p \in Used(parts) : Next1(p) <= r.start
          /\ \E k \in Nat : r.start = k * Align
      BY <1>1, <1>2, <1>3, GapBounds
    <2> QED
      BY <1>1, <2>1 DEF Disjoint
  <1>4. CASE r \notin Gap(Used(parts), UsableEnd(total))
    <2> DEFINE before(p) == {q \in Used(parts) : SortedBefore(q, p)}
               limit(p) == Min2(p.start, UsableEnd(total))
    <2>1. PICK p \in Used(parts) : r \in Gap(before(p), limit(p))
      BY <1>4 DEF FreeRegions
    <2>2. limit(p) \in Int /\ limit(p) <= p.start /\ limit(p) <= UsableEnd(total)
      BY <1>1, <1>2 DEF Min2
    <2>3. /\ r.start \in Nat /\ r.len \in Nat \ {0}
          /\ Align <= r.start /\ Next1(r) = limit(p)
          /\ \A q \in before(p) : Next1(q) <= r.start
          /\ \E k \in Nat : r.start = k * Align
      <3> HIDE DEF limit
      <3>1. \A q \in before(p) : q.start \in Nat /\ q.len \in Nat
        BY <1>2
      <3> HIDE DEF before
      <3> QED
        BY <2>1, <2>2, <3>1, GapBounds
    <2>4. ASSUME NEW q \in Used(parts), ~ SortedBefore(q, p)
          PROVE  Next1(r) <= q.start
      <3>1. p.start <= q.start
        BY <1>2, <2>4 DEF SortedBefore
      <3> QED
        BY <1>2, <2>2, <2>3, <3>1
    <2>5. \A q \in Used(parts) : Disjoint(r, q)
      BY <2>3, <2>4 DEF Disjoint
    <2> HIDE DEF limit
    <2> QED
      BY <1>1, <2>2, <2>3, <2>5
  <1> QED
    BY <1>3, <1>4

\* Where a listed region ends: at the usable end or where a partition starts.
LEMMA FreeRegionEnds ==
    ASSUME NEW parts, \A p \in parts : p.start \in Nat /\ p.len \in Nat,
           NEW total \in Nat, NEW r \in FreeRegions(parts, total)
    PROVE  /\ r = [start |-> r.start, len |-> r.len]
           /\ \/ Next1(r) = UsableEnd(total)
              \/ \E p \in Used(parts) : Next1(r) = p.start
  <1>1. UsableEnd(total) \in Int
    BY GeometryAssumption DEF UsableEnd
  <1>2. \A p \in Used(parts) : p.start \in Nat /\ p.len \in Nat
    BY DEF Used
  <1>3. CASE r \in Gap(Used(parts), UsableEnd(total))
    BY <1>1, <1>2, <1>3, GapBounds DEF Gap
  <1>4. ASSUME NEW p \in Used(parts),
               r \in Gap({q \in Used(parts) : SortedBefore(q, p)},
                         Min2(p.start, UsableEnd(total)))
        PROVE  /\ r = [start |-> r.start, len |-> r.len]
               /\ Next1(r) = UsableEnd(total) \/ Next1(r) = p.start
    <2> DEFINE S == {q \in Used(parts) : SortedBefore(q, p)}
               limit == Min2(p.start, UsableEnd(total))
    <2>1. limit \in Int /\ (limit = p.start \/ limit = UsableEnd(total))
      BY <1>1, <1>2 DEF Min2
    <2>2. \A q \in S : q.start \in Nat /\ q.len \in Nat
      BY <1>2
    <2>3. r \in Gap(S, limit)
      BY <1>4
    <2> HIDE DEF S, limit
    <2>4. Next1(r) = limit
      BY <2>1, <2>2, <2>3, GapBounds
    <2>5. r = [start |-> r.start, len |-> r.len]
      BY <2>3 DEF Gap
    <2> QED
      BY <2>1, <2>4, <2>5
  <1> QED
    BY <1>3, <1>4 DEF FreeRegions

\* No two listed regions start at the same sector, so that the region behind a
\* partition is found by its start alone (adjacent_free_region).
THEOREM FreeRegionsStartApart ==
    ASSUME NEW parts, \A p \in parts : p.start \in Nat /\ p.len \in Nat,
           NEW total \in Nat,
           NEW r \in FreeRegions(parts, total), NEW s \in FreeRegions(parts, total),
           r.start = s.start
    PROVE  r = s
  <1>1. \A p \in Used(parts) : p.start \in Nat /\ p.len \in Nat
    BY DEF Used
  <1>2. /\ r.start \in Nat /\ r.len \in Nat \ {0} /\ s.len \in Nat \ {0}
        /\ Next1(r) <= UsableEnd(total) /\ Next1(s) <= UsableEnd(total)
        /\ \A p \in Used(parts) : Disjoint(r, p) /\ Disjoint(s, p)
    BY FreeRegionsAreFree
  <1>3. UsableEnd(total) \in Int
    BY GeometryAssumption DEF UsableEnd
  <1>4. Next1(s) <= Next1(r)
    <2>1. CASE Next1(r) = UsableEnd(total)
      BY <1>2, <2>1
    <2>2. ASSUME NEW p \in Used(parts), Next1(r) = p.start
          PROVE  Next1(s) <= Next1(r)
      BY <1>1, <1>2, <2>2 DEF Disjoint, Next1
    <2> QED
      BY <2>1, <2>2, FreeRegionEnds
  <1>5. Next1(r) <= Next1(s)
    <2>1. CASE Next1(s) = UsableEnd(total)
      BY <1>2, <2>1
    <2>2. ASSUME NEW p \in Used(parts), Next1(s) = p.start
          PROVE  Next1(r) <= Next1(s)
      BY <1>1, <1>2, <2>2 DEF Disjoint, Next1
    <2> QED
      BY <2>1, <2>2, FreeRegionEnds
  <1>6. r.len = s.len
    BY <1>2, <1>4, <1>5 DEF Next1
  <1> QED
    BY <1>6, FreeRegionEnds

\* The aligned sector found is the first one.
LEMMA AlignUpIsLeast ==
    ASSUME NEW v \in Nat, NEW k \in Nat, v <= k * Align
    PROVE  AlignUp(v) <= k * Align
  <1>1. Align \in Nat \ {0}
    BY GeometryAssumption
  <1>2. PICK m \in Nat : AlignUp(v) = m * Align
    BY AlignUpMultiple
  <1>3. m * Align < v + Align /\ (k + 1) * Align = k * Align + Align
    BY <1>1, <1>2, AlignUpBounds
  <1>4. m * Align < (k + 1) * Align
    BY <1>1, <1>3
  <1>5. m <= k
    <2>1. m >= k + 1 => m * Align >= (k + 1) * Align
      BY <1>1
    <2> QED
      BY <1>1, <1>4, <2>1
  <1> QED
    BY <1>1, <1>2, <1>5
=============================================================================
