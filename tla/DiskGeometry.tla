---------------------------- MODULE DiskGeometry ----------------------------
(***************************************************************************)
(* The sector arithmetic of backend/aero7_install_backend.py: which ranges *)
(* of a disk are unallocated, which range follows a partition, what the    *)
(* target list offers, and how a region is cut into an Aero7 EFI and root  *)
(* partition.  All quantities are logical sectors; lsblk reports sizes     *)
(* that are multiples of the sector size, so the code's divisions by it    *)
(* are exact.  The MiB and GiB quantities are constants so that a small    *)
(* instance keeps the proportions of the real ones.                        *)
(*                                                                         *)
(* Here and in the other modules an operator marked (wrong) is a plausible *)
(* mistake in the definition that follows it.  No specification uses it;   *)
(* PROJECT.json names the property that would expose it.                   *)
(***************************************************************************)
EXTENDS Integers, FiniteSets

CONSTANTS
    Align,      \* sectors in 1 MiB: max(1, 1024*1024 // sector_size)
    Reserved,   \* 34: the tail kept for the backup GPT
    GiB,        \* sectors in 1 GiB; the advanced ESP is 1 GiB
    MinRoot     \* MIN_ROOT_BYTES = MIN_DISK_BYTES (16 GiB) in sectors

ASSUME GeometryAssumption ==
    /\ Align \in Nat \ {0}
    /\ Reserved \in Nat
    /\ GiB \in Nat \ {0}
    /\ GiB % Align = 0
    /\ MinRoot \in Nat \ {0} /\ MinRoot % Align = 0

\* (wrong) the usable end is not applied to a gap in front of a partition
Min2Unclamped(a, b) == a

Min2(a, b) == IF a <= b THEN a ELSE b

\* (wrong) an aligned sector is moved on as well
AlignUpSkips(v) == ((v \div Align) + 1) * Align

\* The smallest multiple of Align that is at least v.
AlignUp(v) == ((v + Align - 1) \div Align) * Align

\* One past the last sector of a partition or region.
Next1(p) == p.start + p.len

MinRegion == MinRoot + GiB

-----------------------------------------------------------------------------
(* Unallocated ranges.  The loop of free_regions keeps a cursor, the       *)
(* largest end met so far; module FreeRegionScan has the loop itself.      *)

\* The partitions the scan considers.
Used(parts) == {p \in parts : p.start > 0 /\ p.len > 0}

UsableEnd(total) == total - Reserved

\* p comes before q in partitions.sort(), which orders (start, end) pairs.
SortedBefore(p, q) ==
    \/ p.start < q.start
    \/ p.start = q.start /\ Next1(p) < Next1(q)

\* The cursor once the partitions of S are behind it (a singleton set).
Cursor(S) ==
    LET ends == {Align} \cup {Next1(p) : p \in S}
    IN  {c \in ends : \A d \in ends : d <= c}

\* The region, if any, from the cursor behind S up to the sector limit.
Gap(S, limit) ==
    {[start |-> AlignUp(c), len |-> limit - AlignUp(c)] :
        c \in {k \in Cursor(S) : AlignUp(k) < limit}}

FreeRegions(parts, total) ==
    IF total <= Align + Reserved THEN {}
    ELSE Gap(Used(parts), UsableEnd(total)) \cup
         UNION {Gap({q \in Used(parts) : SortedBefore(q, p)},
                    Min2(p.start, UsableEnd(total))) : p \in Used(parts)}

\* The region that adjacent_free_region reports behind p: it starts at the
\* end of p and is absent ({}) when no listed region starts at the first
\* aligned sector from there.
AdjacentFree(p, parts, total) ==
    IF p.start <= 0 \/ p.len <= 0 THEN {}
    ELSE {[start |-> Next1(p), len |-> Next1(r) - Next1(p)] :
            r \in {f \in FreeRegions(parts, total) :
                     f.start = AlignUp(Next1(p)) /\ Next1(f) > Next1(p)}}

-----------------------------------------------------------------------------
(* The flags of the target list: what the drive page offers.               *)

CanInstall(r) == r.len >= MinRegion
CanShrink(p) == p.fs = "ntfs"

\* (wrong) the ESP is left out of the space needed
CanFormatWithoutEsp(p) == p.type # "esp" /\ p.len >= MinRoot

CanFormat(p) == p.type # "esp" /\ p.len >= MinRegion
CanDelete(p) == p.type # "esp"
CanExtend(p, parts, total) ==
    /\ p.type # "esp"
    /\ p.fs \in {"ntfs", "ext4"}
    /\ \E a \in AdjacentFree(p, parts, total) : a.len >= GiB

-----------------------------------------------------------------------------
(* aero7_partition_append_table: an ESP of 1 GiB rounded up to the         *)
(* alignment at the first aligned sector, the root behind it to the end.   *)

EspSectors == AlignUp(GiB)
EspStart(first) == AlignUp(first)
RootStart(first) == AlignUp(EspStart(first) + EspSectors)

\* (wrong) the inclusive end is taken for an exclusive one, and one added
RootSectorsPastEnd(first, last) == last - RootStart(first) + 2

RootSectors(first, last) == last - RootStart(first) + 1

\* The table is refused when the root would be smaller than 16 GiB.
TableFits(first, last) == RootSectors(first, last) >= MinRoot

-----------------------------------------------------------------------------
(* Relations between ranges used to state properties.                      *)

Disjoint(p, q) == Next1(p) <= q.start \/ Next1(q) <= p.start
Inside(p, q) == q.start <= p.start /\ Next1(p) <= Next1(q)
=============================================================================
