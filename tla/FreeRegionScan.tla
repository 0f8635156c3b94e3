--------------------------- MODULE FreeRegionScan ---------------------------
(***************************************************************************)
(* The loop of free_regions: the sorted (start, end) pairs are visited one *)
(* by one while a cursor keeps the largest end seen.  lsblk nests logical  *)
(* and mapped partitions below their parent and flatten_devices lists both,*)
(* so the pairs may overlap, contain one another or lie past the usable    *)
(* end; the scan has to stay right for all of them.                        *)
(***************************************************************************)
EXTENDS DiskGeometry, Sequences

CONSTANTS Tables,    \* the sorted sequences of used partitions to scan
          Totals     \* disk sizes

\* What partitions.sort() leaves: pairs with positive start and length in
\* nondecreasing order of start.
Sorted(t) ==
    /\ t \in Seq([start : Nat \ {0}, len : Nat \ {0}])
    /\ \A i, j \in 1..Len(t) : i < j => t[i].start <= t[j].start

ASSUME ScanAssumption ==
    /\ \A t \in Tables : Sorted(t)
    /\ Totals \subseteq Nat

VARIABLES table,    \* partitions, after sorting
          total,    \* total_sectors
          next,     \* index of the pair the loop visits next
          cursor,
          regions,
          pc

vars == <<table, total, next, cursor, regions, pc>>

Init ==
    /\ table \in Tables
    /\ total \in Totals
    /\ next = 1
    /\ cursor = Align
    /\ regions = {}
    /\ pc = IF total <= Align + Reserved THEN "done" ELSE "scan"

GapFrom(c, limit) == [start |-> AlignUp(c), len |-> limit - AlignUp(c)]

\* (wrong) the cursor falls back behind an enclosing partition
AdvanceToEnd(c, p) == Next1(p)

\* (wrong) the cursor stays where it was
AdvanceForgotten(c, p) == c

\* cursor = max(cursor, end_exclusive)
Advance(c, p) == IF Next1(p) > c THEN Next1(p) ELSE c

\* One iteration of the loop.
Visit ==
    /\ pc = "scan"
    /\ next <= Len(table)
    /\ LET limit == Min2(table[next].start, UsableEnd(total))
       IN  regions' = IF limit > AlignUp(cursor)
                        THEN regions \cup {GapFrom(cursor, limit)}
                        ELSE regions
    /\ cursor' = Advance(cursor, table[next])
    /\ next' = next + 1
    /\ UNCHANGED <<table, total, pc>>

\* The region behind the last partition, and the return.
Finish ==
    /\ pc = "scan"
    /\ next > Len(table)
    /\ regions' = IF UsableEnd(total) > AlignUp(cursor)
                    THEN regions \cup {GapFrom(cursor, UsableEnd(total))}
                    ELSE regions
    /\ pc' = "done"
    /\ UNCHANGED <<table, total, next, cursor>>

Next == Visit \/ Finish

Spec == Init /\ [][Next]_vars

-----------------------------------------------------------------------------
Region == [start : Nat, len : Nat \ {0}]

\* Types of the loop variables.
TypeOK ==
    /\ Sorted(table)
    /\ total \in Nat
    /\ next \in 1..(Len(table) + 1)
    /\ cursor \in Nat
    /\ regions \subseteq Region
    /\ pc \in {"scan", "done"}

\* What is already reported never touches a partition, not even one the loop
\* has yet to visit: storage_targets offers these ranges for formatting.
RegionsAvoidPartitions ==
    \A r \in regions : \A i \in 1..Len(table) : Disjoint(r, table[i])

\* A reported range leaves the first MiB and the backup GPT alone.
RegionsInsideUsableArea ==
    \A r \in regions : r.start >= Align /\ Next1(r) <= UsableEnd(total)

\* A range can be formatted as it is reported.
RegionsUsable == RegionsAvoidPartitions /\ RegionsInsideUsableArea

\* Two reported ranges never share a sector, so that one cannot be consumed
\* through the other.
RegionsPairwiseDisjoint ==
    \A r, s \in regions : r # s => Disjoint(r, s)

\* Nothing usable is hidden from the user: when the scan has returned, every
\* aligned free run of Align sectors in the usable area lies in a region.
NoFreeAlignedRunMissed ==
    pc = "done" /\ total > Align + Reserved =>
      \A k \in 1..(total \div Align) :
        LET run == [start |-> k * Align, len |-> Align]
        IN  /\ Next1(run) <= UsableEnd(total)
            /\ \A i \in 1..Len(table) : Disjoint(run, table[i])
            => \E r \in regions : Inside(run, r)

\* The closed form that the other modules use is what the loop computes.
ScanComputesFreeRegions ==
    pc = "done" => regions = FreeRegions({table[i] : i \in 1..Len(table)}, total)
=============================================================================
