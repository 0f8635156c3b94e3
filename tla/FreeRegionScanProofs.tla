------------------------ MODULE FreeRegionScanProofs ------------------------
(***************************************************************************)
(* The loop of free_regions is right for every partition table and every   *)
(* disk size.  The three safety properties are not inductive: they need    *)
(* the loop invariant that the cursor is past every partition visited and  *)
(* every region reported (ScanInv).                                        *)
(***************************************************************************)
EXTENDS FreeRegionScan, DiskGeometryProofs

\* The cursor separates what the loop has dealt with from what it reports next.
CursorCovers ==
    /\ cursor >= Align
    /\ \A i \in 1..Len(table) : i < next => Next1(table[i]) <= cursor
    /\ pc = "scan" => \A r \in regions : Next1(r) <= cursor

ScanInv ==
    /\ TypeOK
    /\ CursorCovers
    /\ RegionsAvoidPartitions
    /\ RegionsInsideUsableArea
    /\ RegionsPairwiseDisjoint

\* The elements of a sorted table are ranges of positive sectors.
LEMMA TableTypes ==
    ASSUME NEW t, Sorted(t), NEW i \in 1..Len(t)
    PROVE  /\ t[i].start \in Nat \ {0} /\ t[i].len \in Nat \ {0}
           /\ Next1(t[i]) \in Nat /\ t[i].start < Next1(t[i])
  <1> DEFINE X == [start : Nat \ {0}, len : Nat \ {0}]
  <1>0. t \in Seq(X)
    BY DEF Sorted
  <1>1. t[i] \in X
    <2> HIDE DEF X
    <2> QED
      BY <1>0
  <1> DEFINE p == t[i]
  <1>2. p.start \in Nat \ {0} /\ p.len \in Nat \ {0}
    BY <1>1
  <1> HIDE DEF p
  <1>3. p.start + p.len \in Nat /\ p.start < p.start + p.len
    BY <1>2
  <1> QED
    BY <1>2, <1>3 DEF Next1, p

\* A region that starts at the aligned cursor and ends by the limit is free of
\* every partition when those behind the cursor end by it and the others start
\* at or after the limit; it is also apart from the regions already reported.
LEMMA AddRegion ==
    ASSUME ScanInv, pc = "scan", NEW limit \in Int, AlignUp(cursor) < limit,
           limit <= UsableEnd(total),
           \A i \in 1..Len(table) : i >= next => limit <= table[i].start
    PROVE  LET g == GapFrom(cursor, limit)
           IN  /\ g \in Region /\ Next1(g) = limit
               /\ g.start >= Align /\ Next1(g) <= UsableEnd(total)
               /\ \A i \in 1..Len(table) : Disjoint(g, table[i])
               /\ \A r \in regions : Disjoint(r, g) /\ Disjoint(g, r)
  <1> DEFINE g == GapFrom(cursor, limit)
  <1>1. Align \in Nat \ {0} /\ cursor \in Nat /\ cursor >= Align
    BY GeometryAssumption DEF ScanInv, TypeOK, CursorCovers
  <1>2. AlignUp(cursor) \in Nat /\ cursor <= AlignUp(cursor)
    BY <1>1, AlignUpBounds
  <1>3. g.start = AlignUp(cursor) /\ g.len = limit - AlignUp(cursor)
    BY DEF GapFrom
  <1>4. g \in Region /\ Next1(g) = limit
    BY <1>2, <1>3 DEF GapFrom, Region, Next1
  <1>5. ASSUME NEW i \in 1..Len(table) PROVE Disjoint(g, table[i])
    <2>1. Next1(table[i]) \in Nat /\ table[i].start \in Nat
      BY TableTypes DEF ScanInv, TypeOK
    <2>2. CASE i < next
      <3>1. Next1(table[i]) <= cursor
        BY <2>2 DEF ScanInv, CursorCovers
      <3> QED
        BY <1>1, <1>2, <1>3, <2>1, <3>1 DEF Disjoint
    <2>3. CASE i >= next
      BY <1>4, <2>3 DEF Disjoint
    <2> QED
      BY <2>2, <2>3 DEF ScanInv, TypeOK
  <1>6. ASSUME NEW r \in regions PROVE Disjoint(r, g) /\ Disjoint(g, r)
    <2>1. Next1(r) <= cursor /\ r \in Region
      BY DEF ScanInv, CursorCovers, TypeOK
    <2>2. Next1(r) \in Nat
      BY <2>1 DEF Region, Next1
    <2> QED
      BY <1>1, <1>2, <1>3, <2>1, <2>2 DEF Disjoint
  <1> HIDE DEF g
  <1>7. g.start >= Align /\ Next1(g) <= UsableEnd(total)
    BY <1>1, <1>2, <1>3, <1>4
  <1> QED
    BY <1>4, <1>5, <1>6, <1>7 DEF g

LEMMA ScanInit == Init => ScanInv
  <1> SUFFICES ASSUME Init PROVE ScanInv
    OBVIOUS
  <1>1. Sorted(table) /\ total \in Nat /\ Align \in Nat
    BY ScanAssumption, GeometryAssumption DEF Init
  <1>2. Len(table) \in Nat
    BY <1>1 DEF Sorted
  <1>3. TypeOK
    BY <1>1, <1>2 DEF Init, TypeOK
  <1>4. CursorCovers
    BY <1>1, <1>2 DEF Init, CursorCovers
  <1> QED
    BY <1>3, <1>4 DEF Init, ScanInv, RegionsAvoidPartitions,
                      RegionsInsideUsableArea, RegionsPairwiseDisjoint

\* Adding a region that AddRegion describes keeps the three properties.
LEMMA GrowRegions ==
    ASSUME ScanInv, NEW g, g \in Region,
           g.start >= Align, Next1(g) <= UsableEnd(total),
           \A i \in 1..Len(table) : Disjoint(g, table[i]),
           \A r \in regions : Disjoint(r, g) /\ Disjoint(g, r),
           regions' = regions \cup {g}, UNCHANGED <<table, total>>
    PROVE  /\ regions' \subseteq Region
           /\ RegionsAvoidPartitions' /\ RegionsInsideUsableArea'
           /\ RegionsPairwiseDisjoint'
  <1>1. regions' \subseteq Region
    BY DEF ScanInv, TypeOK
  <1>2. RegionsAvoidPartitions'
    BY DEF ScanInv, RegionsAvoidPartitions
  <1>3. RegionsInsideUsableArea'
    BY DEF ScanInv, RegionsInsideUsableArea
  <1>4. RegionsPairwiseDisjoint'
    BY DEF ScanInv, RegionsPairwiseDisjoint
  <1> QED
    BY <1>1, <1>2, <1>3, <1>4

LEMMA ScanStep == ScanInv /\ [Next]_vars => ScanInv'
  <1> SUFFICES ASSUME ScanInv, [Next]_vars PROVE ScanInv'
    OBVIOUS
  <1>0. /\ Sorted(table) /\ Len(table) \in Nat /\ next \in Nat
        /\ cursor \in Nat /\ Align \in Nat \ {0} /\ UsableEnd(total) \in Int
    BY GeometryAssumption DEF ScanInv, TypeOK, Sorted, UsableEnd
  <1>1. CASE Visit
    <2> DEFINE p == table[next]
               limit == Min2(p.start, UsableEnd(total))
    <2>1. next \in 1..Len(table) /\ next <= Len(table)
      BY <1>0, <1>1 DEF Visit, ScanInv, TypeOK
    <2>2. p.start \in Nat /\ Next1(p) \in Nat /\ p.start < Next1(p)
      BY <1>0, <2>1, TableTypes
    <2>3. /\ limit \in Int /\ limit <= p.start /\ limit <= UsableEnd(total)
      BY <1>0, <2>2 DEF Min2
    <2>4. cursor' \in Nat /\ cursor <= cursor' /\ Next1(p) <= cursor'
      BY <1>0, <1>1, <2>2 DEF Visit, Advance
    <2>5. \A i \in 1..Len(table) : i >= next => limit <= table[i].start
      <3> SUFFICES ASSUME NEW i \in 1..Len(table), i >= next
                   PROVE  limit <= table[i].start
        OBVIOUS
      <3>1. p.start <= table[i].start
        BY <1>0, <2>1, <2>2 DEF Sorted
      <3>2. table[i].start \in Nat
        BY <1>0, TableTypes
      <3> QED
        BY <2>2, <2>3, <3>1, <3>2
    <2>6. UNCHANGED <<table, total, pc>> /\ next' = next + 1 /\ pc = "scan"
      BY <1>1 DEF Visit
    <2> DEFINE g == GapFrom(cursor, limit)
    <2>7. /\ regions' \subseteq Region
          /\ RegionsAvoidPartitions' /\ RegionsInsideUsableArea'
          /\ RegionsPairwiseDisjoint'
          /\ \A r \in regions' : Next1(r) <= cursor'
      <3>1. \A r \in regions : Next1(r) <= cursor'
        <4> SUFFICES ASSUME NEW r \in regions PROVE Next1(r) <= cursor'
          OBVIOUS
        <4>1. Next1(r) <= cursor /\ Next1(r) \in Nat
          BY <2>6 DEF ScanInv, CursorCovers, TypeOK, Region, Next1
        <4> QED
          BY <1>0, <2>4, <4>1
      <3>2. CASE limit > AlignUp(cursor)
        <4>1. regions' = regions \cup {g}
          BY <1>1, <3>2 DEF Visit
        <4>2. AlignUp(cursor) < limit
          BY <1>0, <3>2, <2>3, AlignUpBounds
        <4> HIDE DEF limit, g
        <4>3. /\ g \in Region /\ Next1(g) = limit
              /\ g.start >= Align /\ Next1(g) <= UsableEnd(total)
              /\ \A i \in 1..Len(table) : Disjoint(g, table[i])
              /\ \A r \in regions : Disjoint(r, g) /\ Disjoint(g, r)
          BY <2>3, <2>5, <2>6, <4>2, AddRegion DEF g
        <4>4. /\ regions' \subseteq Region
              /\ RegionsAvoidPartitions' /\ RegionsInsideUsableArea'
              /\ RegionsPairwiseDisjoint'
          BY <2>6, <4>1, <4>3, GrowRegions
        <4>5. Next1(g) <= cursor'
          BY <2>2, <2>3, <2>4, <4>3
        <4> QED
          BY <3>1, <4>1, <4>4, <4>5
      <3>3. CASE ~ (limit > AlignUp(cursor))
        <4>1. regions' = regions
          BY <1>1, <3>3 DEF Visit
        <4> QED
          BY <2>6, <3>1, <4>1 DEF ScanInv, TypeOK, RegionsAvoidPartitions,
             RegionsInsideUsableArea, RegionsPairwiseDisjoint
      <3> QED
        BY <3>2, <3>3
    <2>8. TypeOK'
      BY <1>0, <2>1, <2>4, <2>6, <2>7 DEF ScanInv, TypeOK
    <2>9. CursorCovers'
      <3>1. cursor' >= Align
        BY <1>0, <2>4 DEF ScanInv, CursorCovers
      <3>2. ASSUME NEW i \in 1..Len(table), i < next + 1
            PROVE  Next1(table[i]) <= cursor'
        <4>1. Next1(table[i]) \in Nat
          BY <1>0, TableTypes
        <4>2. CASE i = next
          BY <2>4, <4>2
        <4>3. CASE i < next
          <5>1. Next1(table[i]) <= cursor
            BY <4>3 DEF ScanInv, CursorCovers
          <5> QED
            BY <1>0, <2>4, <4>1, <5>1
        <4> QED
          BY <1>0, <3>2, <4>2, <4>3
      <3> QED
        BY <2>6, <2>7, <3>1, <3>2 DEF CursorCovers
    <2> QED
      BY <2>7, <2>8, <2>9 DEF ScanInv
  <1>2. CASE Finish
    <2> DEFINE limit == UsableEnd(total)
               g == GapFrom(cursor, limit)
    <2>1. UNCHANGED <<table, total, next, cursor>> /\ pc = "scan" /\ pc' = "done"
      BY <1>2 DEF Finish
    <2>2. \A i \in 1..Len(table) : i >= next => limit <= table[i].start
      BY <1>0, <1>2 DEF Finish
    <2>3. /\ regions' \subseteq Region
          /\ RegionsAvoidPartitions' /\ RegionsInsideUsableArea'
          /\ RegionsPairwiseDisjoint'
      <3>1. CASE UsableEnd(total) > AlignUp(cursor)
        <4>1. regions' = regions \cup {g}
          BY <1>2, <3>1 DEF Finish
        <4>2. AlignUp(cursor) < limit
          BY <1>0, <3>1, AlignUpBounds
        <4>3. limit \in Int /\ limit <= UsableEnd(total)
          BY <1>0
        <4> HIDE DEF limit, g
        <4>4. /\ g \in Region
              /\ g.start >= Align /\ Next1(g) <= UsableEnd(total)
              /\ \A i \in 1..Len(table) : Disjoint(g, table[i])
              /\ \A r \in regions : Disjoint(r, g) /\ Disjoint(g, r)
          BY <2>1, <2>2, <4>2, <4>3, AddRegion DEF g
        <4> QED
          BY <2>1, <4>1, <4>4, GrowRegions
      <3>2. CASE ~ (UsableEnd(total) > AlignUp(cursor))
        <4>1. regions' = regions
          BY <1>2, <3>2 DEF Finish
        <4> QED
          BY <2>1, <4>1 DEF ScanInv, TypeOK, RegionsAvoidPartitions,
             RegionsInsideUsableArea, RegionsPairwiseDisjoint
      <3> QED
        BY <3>1, <3>2
    <2>4. TypeOK'
      BY <2>1, <2>3 DEF ScanInv, TypeOK
    <2>5. CursorCovers'
      BY <2>1 DEF ScanInv, CursorCovers
    <2> QED
      BY <2>3, <2>4, <2>5 DEF ScanInv
  <1>3. CASE UNCHANGED vars
    BY <1>3 DEF vars, ScanInv, TypeOK, CursorCovers, RegionsAvoidPartitions,
       RegionsInsideUsableArea, RegionsPairwiseDisjoint
  <1> QED
    BY <1>1, <1>2, <1>3 DEF Next

\* The loop invariant holds throughout the scan.
THEOREM ScanInvariant == Spec => []ScanInv
  BY ScanInit, ScanStep, PTL DEF Spec

\* No range that free_regions reports shares a sector with a partition, in
\* whatever order the table lists nested or overlapping partitions, and all of
\* them keep off the first MiB and the backup GPT.
THEOREM ScanRegionsUsable == Spec => []RegionsUsable
  <1>1. ScanInv => RegionsUsable
    BY DEF ScanInv, RegionsUsable
  <1> QED
    BY <1>1, ScanInvariant, PTL

\* The reported ranges do not overlap one another.
THEOREM ScanRegionsDisjoint == Spec => []RegionsPairwiseDisjoint
  <1>1. ScanInv => RegionsPairwiseDisjoint
    BY DEF ScanInv
  <1> QED
    BY <1>1, ScanInvariant, PTL

-----------------------------------------------------------------------------
(* Nothing usable is hidden.                                               *)

\* A stretch of free sectors as NoFreeAlignedRunMissed asks for.
Run(k) == [start |-> k * Align, len |-> Align]
FreeRun(k) ==
    /\ Next1(Run(k)) <= UsableEnd(total)
    /\ \A i \in 1..Len(table) : Disjoint(Run(k), table[i])

\* What is free behind the first MiB is in a region already, or ahead of the cursor.
RunsCovered ==
    pc = "scan" => \A k \in Nat \ {0} :
        FreeRun(k) => cursor <= k * Align \/ \E r \in regions : Inside(Run(k), r)
RunsReported ==
    pc = "done" /\ total > Align + Reserved => \A k \in Nat \ {0} :
        FreeRun(k) => \E r \in regions : Inside(Run(k), r)

\* A run between the cursor and the limit lies in the region that starts there.
LEMMA RunInGap ==
    ASSUME NEW c \in Nat, NEW k \in Nat, c <= k * Align,
           NEW limit \in Int, Next1(Run(k)) <= limit
    PROVE  AlignUp(c) < limit /\ Inside(Run(k), GapFrom(c, limit))
  <1>1. Align \in Nat \ {0} /\ k * Align \in Nat
    BY GeometryAssumption
  <1>2. AlignUp(c) \in Nat /\ AlignUp(c) <= k * Align
    BY AlignUpBounds, AlignUpIsLeast
  <1>3. k * Align + Align <= limit
    BY DEF Run, Next1
  <1> QED
    BY <1>1, <1>2, <1>3 DEF Run, GapFrom, Inside, Next1

LEMMA RunsStep ==
    ScanInv /\ RunsCovered /\ RunsReported /\ [Next]_vars => RunsCovered' /\ RunsReported'
  <1> SUFFICES ASSUME ScanInv, RunsCovered, RunsReported, [Next]_vars
               PROVE  RunsCovered' /\ RunsReported'
    OBVIOUS
  <1>0. /\ Sorted(table) /\ next \in 1..(Len(table) + 1) /\ Len(table) \in Nat
        /\ cursor \in Nat /\ Align \in Nat \ {0} /\ UsableEnd(total) \in Int
    BY GeometryAssumption DEF ScanInv, TypeOK, Sorted, UsableEnd
  <1>1. CASE Visit
    <2> DEFINE p == table[next]
               limit == Min2(p.start, UsableEnd(total))
    <2>1. /\ next \in 1..Len(table) /\ pc = "scan" /\ pc' = "scan"
          /\ UNCHANGED <<table, total>> /\ cursor' = Advance(cursor, p)
      BY <1>0, <1>1 DEF Visit
    <2>2. /\ p.start \in Nat /\ Next1(p) \in Nat /\ limit \in Int
      BY <1>0, <2>1, TableTypes DEF Min2
    <2>3. regions \subseteq regions'
      BY <1>1 DEF Visit
    <2>4. ASSUME NEW k \in Nat \ {0}, FreeRun(k), cursor <= k * Align
          PROVE  cursor' <= k * Align \/ \E r \in regions' : Inside(Run(k), r)
      <3>1. k * Align \in Nat /\ Run(k).start = k * Align
        BY <1>0 DEF Run
      <3>2. CASE Next1(p) <= k * Align
        BY <2>1, <2>2, <2>4, <3>2 DEF Advance
      <3>3. CASE Next1(Run(k)) <= p.start
        <4>1. Next1(Run(k)) <= limit
          BY <1>0, <2>2, <2>4, <3>3 DEF FreeRun, Min2
        <4>2. AlignUp(cursor) < limit /\ Inside(Run(k), GapFrom(cursor, limit))
          BY <1>0, <2>2, <2>4, <4>1, RunInGap
        <4>3. AlignUp(cursor) \in Nat
          BY <1>0, AlignUpBounds
        <4>4. GapFrom(cursor, limit) \in regions'
          BY <1>1, <2>2, <4>2, <4>3 DEF Visit
        <4> QED
          BY <4>2, <4>4
      <3> QED
        BY <2>1, <2>4, <3>1, <3>2, <3>3 DEF FreeRun, Disjoint
    <2>5. \A k : FreeRun(k)' <=> FreeRun(k)
      BY <2>1 DEF FreeRun
    <2> QED
      BY <2>1, <2>3, <2>4, <2>5 DEF RunsCovered, RunsReported
  <1>2. CASE Finish
    <2>1. /\ pc = "scan" /\ pc' = "done" /\ UNCHANGED <<table, total>>
          /\ regions \subseteq regions'
      BY <1>2 DEF Finish
    <2>2. ASSUME NEW k \in Nat \ {0}, FreeRun(k), cursor <= k * Align
          PROVE  \E r \in regions' : Inside(Run(k), r)
      <3>1. /\ AlignUp(cursor) < UsableEnd(total)
            /\ Inside(Run(k), GapFrom(cursor, UsableEnd(total)))
        BY <1>0, <2>2, RunInGap DEF FreeRun
      <3>2. AlignUp(cursor) \in Nat
        BY <1>0, AlignUpBounds
      <3> QED
        BY <1>0, <1>2, <3>1, <3>2 DEF Finish
    <2>3. \A k : FreeRun(k)' <=> FreeRun(k)
      BY <2>1 DEF FreeRun
    <2> QED
      BY <2>1, <2>2, <2>3 DEF RunsCovered, RunsReported
  <1>3. CASE UNCHANGED vars
    BY <1>3 DEF vars, RunsCovered, RunsReported, FreeRun
  <1> QED
    BY <1>1, <1>2, <1>3 DEF Next

\* Every aligned free MiB of the usable area is in a region that free_regions
\* reports, whatever the table holds.
THEOREM ScanMissesNothing == Spec => []NoFreeAlignedRunMissed
  <1>1. Init => RunsCovered /\ RunsReported
    <2> SUFFICES ASSUME Init PROVE RunsCovered /\ RunsReported
      OBVIOUS
    <2>1. Align \in Nat \ {0} /\ cursor = Align /\ total \in Nat /\ Reserved \in Nat
      BY ScanAssumption, GeometryAssumption DEF Init
    <2>2. \A k \in Nat \ {0} : cursor <= k * Align
      BY <2>1
    <2>3. pc = "done" => total <= Align + Reserved
      BY DEF Init
    <2> QED
      BY <2>1, <2>2, <2>3 DEF RunsCovered, RunsReported
  <1>2. Spec => [](RunsCovered /\ RunsReported)
    BY <1>1, RunsStep, ScanInvariant, PTL DEF Spec
  <1>3. ScanInv /\ RunsReported => NoFreeAlignedRunMissed
    <2> SUFFICES ASSUME ScanInv, RunsReported, pc = "done", total > Align + Reserved,
                        NEW k \in 1..(total \div Align), FreeRun(k)
                 PROVE  \E r \in regions : Inside(Run(k), r)
      BY DEF NoFreeAlignedRunMissed, FreeRun, Run
    <2>1. k \in Nat \ {0}
      BY GeometryAssumption DEF ScanInv, TypeOK
    <2> QED
      BY <2>1 DEF RunsReported
  <1> QED
    BY <1>2, <1>3, ScanInvariant, PTL

-----------------------------------------------------------------------------
(* The closed form.                                                        *)

\* What the loop has visited when it comes to i, and what it reports there.
Behind(i) == {table[j] : j \in {m \in 1..Len(table) : m < i}}
GapAt(i) == Gap(Behind(i), Min2(table[i].start, UsableEnd(total)))
ReportedBy(i) == UNION {GapAt(j) : j \in {m \in 1..Len(table) : m < i}}

ScanForm ==
    /\ pc = "scan" => total > Align + Reserved
    /\ pc = "scan" => cursor \in Cursor(Behind(next)) /\ regions = ReportedBy(next)
    /\ pc = "done" /\ total <= Align + Reserved => regions = {}
    /\ pc = "done" /\ total > Align + Reserved =>
           regions = ReportedBy(Len(table) + 1)
                       \union Gap(Behind(Len(table) + 1), UsableEnd(total))

\* The cursor of a set of partitions is one number, so that there is one gap.
LEMMA GapOfCursor ==
    ASSUME NEW S, \A p \in S : p.start \in Nat /\ p.len \in Nat,
           NEW c, c \in Cursor(S), NEW limit \in Int
    PROVE  /\ c \in Nat
           /\ Gap(S, limit) = IF limit > AlignUp(c) THEN {GapFrom(c, limit)} ELSE {}
  <1> DEFINE ends == {Align} \union {Next1(p) : p \in S}
  <1>1. \A e \in ends : e \in Nat
    BY GeometryAssumption DEF Next1
  <1>2. c \in ends /\ \A e \in ends : e <= c
    BY DEF Cursor
  <1>3. Cursor(S) = {e \in ends : \A d \in ends : d <= e}
    BY DEF Cursor
  <1> HIDE DEF ends
  <1>4. \A e \in Cursor(S) : e = c
    BY <1>1, <1>2, <1>3
  <1>5. c \in Nat /\ AlignUp(c) \in Nat
    BY <1>1, <1>2, AlignUpBounds
  <1>6. Gap(S, limit) = {GapFrom(e, limit) : e \in {k \in Cursor(S) : AlignUp(k) < limit}}
    BY DEF Gap, GapFrom
  <1>7. {k \in Cursor(S) : AlignUp(k) < limit} = IF limit > AlignUp(c) THEN {c} ELSE {}
    BY <1>4, <1>5
  <1> QED
    BY <1>5, <1>6, <1>7

LEMMA CursorAdvances ==
    ASSUME NEW S, \A p \in S : p.start \in Nat /\ p.len \in Nat,
           NEW c, c \in Cursor(S), NEW p, Next1(p) \in Nat
    PROVE  Advance(c, p) \in Cursor(S \union {p})
  <1> DEFINE ends == {Align} \union {Next1(q) : q \in S}
             all == {Align} \union {Next1(q) : q \in S \union {p}}
  <1>1. \A e \in ends : e \in Nat
    BY GeometryAssumption DEF Next1
  <1>2. c \in ends /\ \A e \in ends : e <= c
    BY DEF Cursor
  <1>3. all = ends \union {Next1(p)}
    OBVIOUS
  <1>4. Cursor(S \union {p}) = {e \in all : \A d \in all : d <= e}
    BY DEF Cursor
  <1> HIDE DEF ends, all
  <1>5. Advance(c, p) \in all /\ \A d \in all : d <= Advance(c, p)
    BY <1>1, <1>2, <1>3 DEF Advance
  <1> QED
    BY <1>4, <1>5

LEMMA BehindNext ==
    ASSUME TypeOK, NEW i \in 1..Len(table)
    PROVE  /\ Behind(i + 1) = Behind(i) \union {table[i]}
           /\ ReportedBy(i + 1) = ReportedBy(i) \union GapAt(i)
  <1>1. {m \in 1..Len(table) : m < i + 1} = {m \in 1..Len(table) : m < i} \union {i}
    OBVIOUS
  <1> QED
    BY <1>1 DEF Behind, ReportedBy

LEMMA FormStep == ScanInv /\ ScanForm /\ [Next]_vars => ScanForm'
  <1> SUFFICES ASSUME ScanInv, ScanForm, [Next]_vars PROVE ScanForm'
    OBVIOUS
  <1>0. /\ TypeOK /\ Sorted(table) /\ next \in 1..(Len(table) + 1) /\ Len(table) \in Nat
        /\ UsableEnd(total) \in Int /\ total \in Nat /\ Align + Reserved \in Nat
    BY GeometryAssumption DEF ScanInv, TypeOK, Sorted, UsableEnd
  <1>1. \A i : \A p \in Behind(i) : p.start \in Nat /\ p.len \in Nat
    BY <1>0, TableTypes DEF Behind
  <1>2. CASE Visit
    <2> DEFINE p == table[next]
               limit == Min2(p.start, UsableEnd(total))
    <2>1. /\ next \in 1..Len(table) /\ pc = "scan" /\ pc' = "scan" /\ next' = next + 1
          /\ UNCHANGED <<table, total>> /\ cursor' = Advance(cursor, p)
          /\ regions' = IF limit > AlignUp(cursor) THEN regions \union {GapFrom(cursor, limit)}
                                                   ELSE regions
      BY <1>0, <1>2 DEF Visit
    <2>2. Next1(p) \in Nat /\ limit \in Int
      BY <1>0, <2>1, TableTypes DEF Min2
    <2>3. cursor \in Cursor(Behind(next)) /\ regions = ReportedBy(next)
      BY <2>1 DEF ScanForm
    <2>4. cursor' \in Cursor(Behind(next + 1))
      BY <1>0, <1>1, <2>1, <2>2, <2>3, CursorAdvances, BehindNext
    <2>5. GapAt(next) = Gap(Behind(next), limit)
      BY DEF GapAt
    <2> HIDE DEF limit
    <2>6. regions' = ReportedBy(next + 1)
      <3>1. Gap(Behind(next), limit) =
              IF limit > AlignUp(cursor) THEN {GapFrom(cursor, limit)} ELSE {}
        BY <1>1, <2>2, <2>3, GapOfCursor
      <3>2. ReportedBy(next + 1) = ReportedBy(next) \union GapAt(next)
        BY <1>0, <2>1, BehindNext
      <3> QED
        BY <2>1, <2>3, <2>5, <3>1, <3>2
    <2>7. Behind(next)' = Behind(next + 1) /\ ReportedBy(next)' = ReportedBy(next + 1)
      BY <2>1 DEF Behind, ReportedBy, GapAt
    <2> QED
      BY <2>1, <2>4, <2>6, <2>7 DEF ScanForm
  <1>3. CASE Finish
    <2> DEFINE limit == UsableEnd(total)
    <2>1. /\ pc = "scan" /\ pc' = "done" /\ UNCHANGED <<table, total>>
          /\ regions' = IF limit > AlignUp(cursor) THEN regions \union {GapFrom(cursor, limit)}
                                                   ELSE regions
      BY <1>3 DEF Finish
    <2>2. next = Len(table) + 1
      BY <1>0, <1>3 DEF Finish
    <2>3. cursor \in Cursor(Behind(next)) /\ regions = ReportedBy(next) /\ total > Align + Reserved
      BY <2>1 DEF ScanForm
    <2>4. Gap(Behind(next), limit) =
            IF limit > AlignUp(cursor) THEN {GapFrom(cursor, limit)} ELSE {}
      BY <1>0, <1>1, <2>3, GapOfCursor
    <2>5. regions' = ReportedBy(Len(table) + 1) \union Gap(Behind(Len(table) + 1), limit)
      BY <2>1, <2>2, <2>3, <2>4
    <2>6. /\ ReportedBy(Len(table) + 1)' = ReportedBy(Len(table) + 1)
          /\ Behind(Len(table) + 1)' = Behind(Len(table) + 1)
          /\ limit' = limit
      BY <2>1 DEF Behind, ReportedBy, GapAt
    <2> QED
      BY <1>0, <2>1, <2>3, <2>5, <2>6 DEF ScanForm
  <1>4. CASE UNCHANGED vars
    <2>1. UNCHANGED <<table, total, next, cursor, regions, pc>>
      BY <1>4 DEF vars
    <2>2. /\ Behind(next)' = Behind(next) /\ ReportedBy(next)' = ReportedBy(next)
          /\ ReportedBy(Len(table) + 1)' = ReportedBy(Len(table) + 1)
          /\ Behind(Len(table) + 1)' = Behind(Len(table) + 1)
          /\ UsableEnd(total)' = UsableEnd(total)
      BY <2>1 DEF Behind, ReportedBy, GapAt
    <2> QED
      BY <2>1, <2>2 DEF ScanForm
  <1> QED
    BY <1>2, <1>3, <1>4 DEF Next

\* The partitions of the table that start before s.
Earlier(s) == {p \in {table[i] : i \in 1..Len(table)} : p.start < s}

\* Only the first partition to start at s can have a gap in front of it: behind
\* another of the same start the cursor is past s.
LEMMA GapMeansEarlier ==
    ASSUME TypeOK, NEW S \in SUBSET {table[i] : i \in 1..Len(table)}, NEW s \in Nat,
           NEW r \in Gap(S, Min2(s, UsableEnd(total)))
    PROVE  \A p \in S : p.start < s
  <1> DEFINE limit == Min2(s, UsableEnd(total))
  <1>1. limit \in Int /\ limit <= s
    BY GeometryAssumption DEF TypeOK, Min2, UsableEnd
  <1>2. \A p \in S : p.start \in Nat /\ p.len \in Nat /\ Next1(p) \in Nat /\ p.start < Next1(p)
    BY TableTypes DEF TypeOK
  <1>3. r \in Gap(S, limit)
    OBVIOUS
  <1> HIDE DEF limit
  <1>4. /\ r.start \in Nat /\ r.len \in Nat \ {0} /\ Next1(r) = limit
        /\ \A p \in S : Next1(p) <= r.start
    BY <1>1, <1>2, <1>3, GapBounds
  <1> QED
    BY <1>1, <1>2, <1>4 DEF Next1

\* For every start, the loop and the closed form report the same gap.
LEMMA GapsAgree ==
    ASSUME TypeOK, total > Align + Reserved
    PROVE  ReportedBy(Len(table) + 1) \union Gap(Behind(Len(table) + 1), UsableEnd(total))
             = FreeRegions({table[i] : i \in 1..Len(table)}, total)
  <1>0. Sorted(table) /\ Len(table) \in Nat /\ total \in Nat
    <2>1. Sorted(table) /\ total \in Nat
      BY DEF TypeOK
    <2> QED
      BY <2>1 DEF Sorted
  <1> DEFINE U == {table[i] : i \in 1..Len(table)}
             before(p) == {q \in U : SortedBefore(q, p)}
             limit(s) == Min2(s, UsableEnd(total))
  <1>1. \A p \in U : /\ p.start \in Nat \ {0} /\ p.len \in Nat \ {0}
                     /\ Next1(p) \in Nat /\ p.start < Next1(p)
    BY <1>0, TableTypes
  <1>2. Used(U) = U
    BY <1>1 DEF Used
  <1>3. Behind(Len(table) + 1) = U
    BY <1>0 DEF Behind
  <1>4. ReportedBy(Len(table) + 1) = UNION {GapAt(i) : i \in 1..Len(table)}
    <2>1. {m \in 1..Len(table) : m < Len(table) + 1} = 1..Len(table)
      BY <1>0
    <2> QED
      BY <2>1 DEF ReportedBy
  <1>5. FreeRegions(U, total) =
          Gap(U, UsableEnd(total)) \union UNION {Gap(before(p), limit(p.start)) : p \in U}
    <2>1. ~(total <= Align + Reserved)
      BY <1>0, GeometryAssumption
    <2> HIDE DEF U
    <2> QED
      BY <1>2, <2>1 DEF FreeRegions
  <1>6. ASSUME NEW i \in 1..Len(table), \A p \in Behind(i) : p.start < table[i].start
        PROVE  Behind(i) = Earlier(table[i].start)
    <2>1. ASSUME NEW j \in 1..Len(table), table[j].start < table[i].start
          PROVE  j < i
      <3>1. j > i => table[i].start <= table[j].start
        BY <1>0 DEF Sorted
      <3>2. table[i].start \in Nat /\ table[j].start \in Nat
        BY <1>1
      <3> QED
        BY <1>0, <2>1, <3>1, <3>2
    <2> QED
      BY <1>6, <2>1 DEF Behind, Earlier
  <1>7. ASSUME NEW p \in U, \A q \in before(p) : q.start < p.start
        PROVE  before(p) = Earlier(p.start)
    BY <1>7 DEF SortedBefore, Earlier
  <1>8. ASSUME NEW p \in U, NEW r \in Gap(before(p), limit(p.start))
        PROVE  \E i \in 1..Len(table) : r \in GapAt(i)
    \* the first of those that start where p does
    <2> DEFINE I == {i \in 1..Len(table) : table[i].start = p.start}
    <2>1. PICK i \in I : \A j \in I : i <= j
      <3>1. I \in SUBSET Nat /\ I # {}
        OBVIOUS
      <3> HIDE DEF I
      <3> QED
        BY <3>1, LeastExists
    <2>2. \A q \in before(p) : q.start < p.start
      BY <1>1, GapMeansEarlier
    <2>3. \A q \in Behind(i) : q.start < table[i].start
      <3> SUFFICES ASSUME NEW j \in 1..Len(table), j < i
                   PROVE  table[j].start < table[i].start
        BY DEF Behind
      <3>1. table[j].start <= table[i].start
        BY <1>0 DEF Sorted
      <3>2. table[j].start # table[i].start
        BY <2>1
      <3>3. table[i].start \in Nat /\ table[j].start \in Nat
        BY <1>1
      <3> QED
        BY <3>1, <3>2, <3>3
    <2>4. Behind(i) = before(p)
      BY <1>6, <1>7, <2>1, <2>2, <2>3
    <2> QED
      BY <2>1, <2>4 DEF GapAt
  <1>9. ASSUME NEW i \in 1..Len(table), NEW r \in GapAt(i)
        PROVE  \E p \in U : r \in Gap(before(p), limit(p.start))
    \* the shortest of those that start where table[i] does
    <2> DEFINE s == table[i].start
               E == {Next1(p) : p \in {q \in U : q.start = s}}
    <2>1. PICK e \in E : \A d \in E : e <= d
      <3>1. E \in SUBSET Nat /\ E # {}
        BY <1>1
      <3> HIDE DEF E
      <3> QED
        BY <3>1, LeastExists
    <2>2. PICK p \in U : p.start = s /\ Next1(p) = e
      BY <2>1
    <2>3. \A q \in before(p) : q.start < p.start
      <3> SUFFICES ASSUME NEW q \in U, q.start = p.start, Next1(q) < Next1(p)
                   PROVE  FALSE
        BY DEF SortedBefore
      <3>1. e <= Next1(q)
        BY <2>1, <2>2
      <3> QED
        BY <1>1, <2>2, <3>1
    <2>4. \A q \in Behind(i) : q.start < s
      <3>1. Behind(i) \in SUBSET U /\ s \in Nat
        BY <1>1 DEF Behind
      <3> QED
        BY <3>1, GapMeansEarlier DEF GapAt
    <2>5. Behind(i) = before(p)
      BY <1>6, <1>7, <2>2, <2>3, <2>4
    <2> QED
      BY <2>2, <2>5 DEF GapAt
  <1>10. UNION {GapAt(i) : i \in 1..Len(table)}
           = UNION {Gap(before(p), limit(p.start)) : p \in U}
    <2> HIDE DEF U, before, limit
    <2> QED
      BY <1>8, <1>9
  <1> HIDE DEF before, limit
  <1> QED
    BY <1>3, <1>4, <1>5, <1>10 DEF U

\* The loop returns what the closed form says, which the plans and the storage
\* transaction are built on.
THEOREM ScanComputesClosedForm == Spec => []ScanComputesFreeRegions
  <1>1. Init => ScanForm
    <2> SUFFICES ASSUME Init PROVE ScanForm
      OBVIOUS
    <2>1. /\ next = 1 /\ cursor = Align /\ regions = {} /\ total \in Nat /\ Len(table) \in Nat
          /\ Align \in Nat \ {0} /\ Reserved \in Nat
      BY ScanAssumption, GeometryAssumption DEF Init, Sorted
    <2>2. Behind(next) = {} /\ ReportedBy(next) = {}
      BY <2>1 DEF Behind, ReportedBy
    <2>3. cursor \in Cursor({})
      BY <2>1 DEF Cursor
    <2>4. \/ pc = "done" /\ ~(total > Align + Reserved)
          \/ pc = "scan" /\ total > Align + Reserved
      BY <2>1 DEF Init
    <2> QED
      BY <2>1, <2>2, <2>3, <2>4 DEF ScanForm
  <1>2. Spec => []ScanForm
    BY <1>1, FormStep, ScanInvariant, PTL DEF Spec
  <1>3. ScanInv /\ ScanForm => ScanComputesFreeRegions
    <2> SUFFICES ASSUME TypeOK, ScanForm, pc = "done"
                 PROVE  regions = FreeRegions({table[i] : i \in 1..Len(table)}, total)
      BY DEF ScanInv, ScanComputesFreeRegions
    <2>1. CASE total <= Align + Reserved
      BY <2>1 DEF ScanForm, FreeRegions
    <2>2. CASE total > Align + Reserved
      BY <2>2, GapsAgree DEF ScanForm
    <2> QED
      BY <2>1, <2>2, GeometryAssumption DEF TypeOK
  <1> QED
    BY <1>2, <1>3, ScanInvariant, PTL
=============================================================================
