-------------------------- MODULE MCFreeRegionScan --------------------------
(* Every sorted table of up to MaxParts partitions on small disks, with    *)
(* nested, overlapping, adjacent, unaligned and out-of-range partitions.   *)
EXTENDS FreeRegionScan

CONSTANTS MaxParts, MaxStart, MaxLen

Pairs == [start : 1..MaxStart, len : 1..MaxLen]

PairBefore(p, q) == SortedBefore(p, q) \/ p = q

\* Sorted tables, as partitions.sort() produces them.
MCTables ==
    {t \in UNION {[1..n -> Pairs] : n \in 0..MaxParts} :
        \A i \in 1..(Len(t) - 1) : PairBefore(t[i], t[i + 1])}
=============================================================================
