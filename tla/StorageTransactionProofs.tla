---------------------- MODULE StorageTransactionProofs ----------------------
(***************************************************************************)
(* Proofs about StorageTransaction for every sound table, every size and   *)
(* alignment, and any number of runs: what the person keeps survives every *)
(* command and every failure, no file system outgrows its partition, the   *)
(* table stays well formed, only the confirmed disk changes and only after *)
(* its table was saved, and a finished installation has its partitions.    *)
(***************************************************************************)
EXTENDS StorageTransaction, DiskGeometryProofs

-----------------------------------------------------------------------------
(* The inductive invariant.                                                *)

\* A table with the file systems fs on it: sound, every number and UUID in use
\* below its bound, every file system inside its partition, none without one.
WellFormed(parts, total, fs, u) ==
    /\ parts \in SUBSET Part /\ total \in Nat /\ fs \in [1..MaxNum -> Nat] /\ u \in Nat
    /\ TableSound(parts, total)
    /\ \A p \in parts : p.num \in 1..MaxNum /\ p.uuid < u /\ fs[p.num] <= p.len
    /\ \A n \in 1..MaxNum : (\A p \in parts : p.num # n) => fs[n] = 0

World ==
    /\ disk \in DiskType
    /\ WellFormed(disk.parts, disk.total, fsLen, fresh)

\* The page offers plans for the disk that was listed and for no other.
Offer ==
    /\ listing = NoDisk <=> pc = "idle"
    /\ listing # NoDisk => listing \in DiskType /\ Listable(listing)
    /\ pc \in {"idle", "listed"} => plan = NoPlan
    /\ pc \notin {"idle", "listed"} => plan \in OfferedPlans(listing)

Untouched == disk = seen /\ fsLen = seenFs

\* The backend has checked the plan against the disk as it was seen, and the disk
\* is still that one.
Checked ==
    /\ seen \in DiskType /\ ValidPlan(plan, seen) /\ TableSound(seen.parts, seen.total)
    /\ \A p \in seen.parts : p.uuid < fresh
    /\ disk.ident = seen.ident /\ disk.total = seen.total /\ disk.flags = seen.flags

Trust ==
    /\ seen \in DiskType \union {NoDisk} /\ seenFs \in [1..MaxNum -> Nat]
    /\ backup \subseteq SUBSET Part
    /\ pc \in Writing \union {"backup", "done"} => Checked
    /\ pc = "failed" => Checked \/ Untouched
    /\ pc \in Writing /\ plan.action # "whole" => backup = {seen.parts}

Resizing == {"shrink", "extend"}

\* The chosen partition with its new length.
Resized(len) == [plan.part EXCEPT !.len = len]

\* How far the disk is from what was seen, at each command.
Progress ==
    /\ pc \in {"backup", "delete", "check", "shrinkfs"} => Untouched
    /\ pc = "wipe" => plan.action = "whole"
    /\ pc = "label" => plan.action = "whole" /\ disk.parts = {}
    /\ pc = "backup" => plan.action # "whole"
    /\ pc = "delete" => plan.action \in {"reuse", "delete"}
    /\ pc \in {"check", "trial", "boundary"} => plan.action \in Resizing
    /\ pc = "shrinkfs" => plan.action = "shrink"
    /\ pc = "growfs" => plan.action = "extend"
    /\ pc = "append" => plan.action \in {"free", "reuse", "shrink"}
    /\ pc \in {"formatEsp", "formatRoot"} => plan.action \in InstallActions
    /\ pc = "trial" /\ plan.action = "shrink" => Untouched
    /\ pc = "boundary" => disk = seen
    /\ pc = "boundary" /\ plan.action = "extend" => fsLen = seenFs
    /\ pc = "boundary" /\ plan.action = "shrink" =>
           /\ plan.size > NtfsSlack
           /\ fsLen = [seenFs EXCEPT ![plan.part.num] = plan.size - NtfsSlack]
    /\ pc \in {"trial", "growfs"} /\ plan.action = "extend" =>
           disk.parts = (seen.parts \ {plan.part}) \union {Resized(plan.part.len + plan.size)}
    /\ pc = "append" /\ plan.action = "free" => Untouched
    /\ pc = "append" /\ plan.action = "reuse" => disk.parts = seen.parts \ {plan.part}
    /\ pc = "append" /\ plan.action = "shrink" =>
           disk.parts = (seen.parts \ {plan.part}) \union {Resized(plan.size)}

\* The two partitions the run has made, and how far they are formatted.
NewPair(esp, root) ==
    /\ esp.uuid = fresh - 2 /\ root.uuid = fresh - 1
    /\ esp.type = "esp" /\ root.type = "root"
    /\ \A p \in disk.parts \ {esp, root} : p.uuid < fresh - 2
    /\ \A p \in seen.parts : p.uuid < fresh - 2
    /\ plan.action # "whole" => esp.len = GiB /\ root.len >= MinRoot
    /\ pc \in {"formatRoot", "done"} => esp.fs = "vfat" /\ fsLen[esp.num] = esp.len
    /\ pc = "done" => root.fs = "ext4" /\ fsLen[root.num] = root.len

Made2 ==
    pc \in {"formatEsp", "formatRoot"} \/ (pc = "done" /\ plan.action \in InstallActions) =>
        \E esp, root \in disk.parts : NewPair(esp, root)

\* (history) what was there before, at any point of a run.
Survival == OthersUntouched /\ ResizeKeepsPartition

StorageInv == World /\ Offer /\ Trust /\ Progress /\ Made2 /\ Survival

-----------------------------------------------------------------------------
(* Well-formed tables.                                                     *)

\* The fields of a partition.
LEMMA PartFields ==
    ASSUME NEW p \in Part
    PROVE  /\ p.num \in Nat \ {0} /\ p.start \in Nat \ {0} /\ p.len \in Nat \ {0}
           /\ p.uuid \in Nat /\ p.type \in PartTypes /\ p.fs \in FileSystems
           /\ Next1(p) \in Nat /\ Next1(p) = p.start + p.len
BY DEF Part, Next1

\* A partition goes, and its file system with it.
LEMMA Removed ==
    ASSUME NEW parts, NEW total, NEW fs, NEW u, WellFormed(parts, total, fs, u),
           NEW p \in parts
    PROVE  WellFormed(parts \ {p}, total, [fs EXCEPT ![p.num] = 0], u)
<1> DEFINE rest == parts \ {p}
           gs == [fs EXCEPT ![p.num] = 0]
<1>1. gs \in [1..MaxNum -> Nat]
  BY DEF WellFormed
<1>2. \A q \in rest : gs[q.num] = fs[q.num]
  BY DEF WellFormed, TableSound
<1>3. TableSound(rest, total)
  BY DEF WellFormed, TableSound
<1>4. \A n \in 1..MaxNum : (\A q \in rest : q.num # n) => gs[n] = 0
  BY DEF WellFormed
<1>5. rest \in SUBSET Part /\ total \in Nat /\ u \in Nat
  BY DEF WellFormed
<1>6. \A q \in rest : q.num \in 1..MaxNum /\ q.uuid < u /\ gs[q.num] <= q.len
  BY <1>2 DEF WellFormed
<1> QED
  BY <1>1, <1>3, <1>4, <1>5, <1>6 DEF WellFormed

\* A partition with an unused number comes where nothing is, with a file system
\* of l sectors or, l = 0, without one.
LEMMA Added ==
    ASSUME NEW parts, NEW total, NEW fs, NEW u, WellFormed(parts, total, fs, u),
           NEW v \in Nat, u <= v, NEW q \in Part, NEW l \in Nat,
           q.num \in 1..MaxNum, \A p \in parts : p.num # q.num /\ Disjoint(q, p),
           Next1(q) <= total, q.uuid < v, l <= q.len
    PROVE  WellFormed(parts \union {q}, total, [fs EXCEPT ![q.num] = l], v)
<1> DEFINE all == parts \union {q}
           gs == [fs EXCEPT ![q.num] = l]
<1>1. gs \in [1..MaxNum -> Nat] /\ gs[q.num] = l
  BY DEF WellFormed
<1>2. \A p \in parts : gs[p.num] = fs[p.num]
  BY DEF WellFormed
<1>3. TableSound(all, total)
  <2>1. \A p \in parts : Disjoint(p, q)
    BY DEF Disjoint
  <2> QED
    BY <2>1 DEF WellFormed, TableSound
<1>4. \A n \in 1..MaxNum : (\A p \in all : p.num # n) => gs[n] = 0
  BY DEF WellFormed
<1>5. all \in SUBSET Part /\ total \in Nat
  BY DEF WellFormed
<1>6. \A p \in all : p.num \in 1..MaxNum /\ p.uuid < v /\ gs[p.num] <= p.len
  <2>1. \A p \in parts : p.uuid \in Nat /\ p.uuid < u /\ u \in Nat
    BY PartFields DEF WellFormed
  <2>2. \A p \in parts : p.uuid < v
    BY <2>1
  <2> QED
    BY <1>1, <1>2, <2>2 DEF WellFormed
<1> QED
  BY <1>1, <1>3, <1>4, <1>5, <1>6 DEF WellFormed

\* A partition is replaced by another of the same number, its file system by
\* another one.
LEMMA Replaced ==
    ASSUME NEW parts, NEW total, NEW fs, NEW u, WellFormed(parts, total, fs, u),
           NEW v \in Nat, u <= v, NEW p \in parts, NEW q \in Part, NEW l \in Nat,
           q.num = p.num, \A r \in parts \ {p} : Disjoint(q, r),
           Next1(q) <= total, q.uuid < v, l <= q.len
    PROVE  WellFormed((parts \ {p}) \union {q}, total, [fs EXCEPT ![p.num] = l], v)
<1> DEFINE rest == parts \ {p}
           gs == [fs EXCEPT ![p.num] = 0]
<1>1. WellFormed(rest, total, gs, u)
  BY Removed
<1>2. \A r \in rest : r.num # q.num
  BY DEF WellFormed, TableSound
<1>3. q.num \in 1..MaxNum
  BY DEF WellFormed
<1>4. [gs EXCEPT ![q.num] = l] = [fs EXCEPT ![p.num] = l]
  BY DEF WellFormed
<1> HIDE DEF rest, gs
<1>5. WellFormed(rest \union {q}, total, [gs EXCEPT ![q.num] = l], v)
  <2>1. \A r \in rest : r.num # q.num /\ Disjoint(q, r)
    BY <1>2 DEF rest
  <2> QED
    BY <1>1, <1>3, <2>1, Added
<1> QED
  BY <1>4, <1>5 DEF rest

\* Only the file system of a partition changes.
LEMMA Refilled ==
    ASSUME NEW parts, NEW total, NEW fs, NEW u, WellFormed(parts, total, fs, u),
           NEW p \in parts, NEW l \in Nat, l <= p.len
    PROVE  WellFormed(parts, total, [fs EXCEPT ![p.num] = l], u)
<1>1. p \in Part /\ u \in Nat /\ u <= u /\ Next1(p) <= total /\ p.uuid < u
      /\ \A r \in parts \ {p} : Disjoint(p, r)
  BY DEF WellFormed, TableSound
<1>2. WellFormed((parts \ {p}) \union {p}, total, [fs EXCEPT ![p.num] = l], u)
  BY <1>1, Replaced
<1>3. (parts \ {p}) \union {p} = parts
  OBVIOUS
<1> QED
  BY <1>2, <1>3

\* Only the table changes.
LEMMA Moved ==
    ASSUME NEW parts, NEW total, NEW fs, NEW u, WellFormed(parts, total, fs, u),
           NEW v \in Nat, u <= v, NEW p \in parts, NEW q \in Part,
           q.num = p.num, \A r \in parts \ {p} : Disjoint(q, r),
           Next1(q) <= total, q.uuid < v, fs[p.num] <= q.len
    PROVE  WellFormed((parts \ {p}) \union {q}, total, fs, v)
<1>1. fs[p.num] \in Nat /\ [fs EXCEPT ![p.num] = fs[p.num]] = fs
  BY DEF WellFormed
<1>2. WellFormed((parts \ {p}) \union {q}, total, [fs EXCEPT ![p.num] = fs[p.num]], v)
  BY <1>1, Replaced
<1> QED
  BY <1>1, <1>2

\* The lowest unused number, of which there is one as long as any is unused.
LEMMA LeastNumIsUnused ==
    ASSUME NEW S \in SUBSET Nat, S # {}
    PROVE  LeastNum(S) \in S
BY LeastExists DEF LeastNum

-----------------------------------------------------------------------------
(* Plans.                                                                  *)

Resizable == {"reuse", "shrink", "delete", "extend"}

\* What the drive page offers, and for which disk.
LEMMA OfferedShape ==
    ASSUME NEW d \in DiskType, NEW p \in OfferedPlans(d)
    PROVE  /\ p.action \in InstallActions \union StorageActions
           /\ p.fp = Fingerprint(d)
           /\ p.action \in Resizable => p.part \in d.parts
           /\ p.action # "extend" => p.size \in Int
           /\ p.action \in {"extend", "free"} => p.size \in Nat
           /\ p.action = "free" => p.region \in FreeRegions(d.parts, d.total)
           /\ p.action = "extend" => p.region \in AdjacentFree(p.part, d.parts, d.total)
<1> USE DEF MakePlan, Resizable, InstallActions, StorageActions
<1>0. d.parts \in SUBSET Part /\ d.total \in Nat /\ \A q \in d.parts : q.len \in Nat \ {0}
  BY PartFields DEF DiskType
<1>1. CASE p \in WholePlans(d)
  BY <1>0, <1>1 DEF WholePlans
<1>2. CASE p \in FreePlans(d)
  BY <1>2 DEF FreePlans, GiBAmounts
<1>3. CASE p \in ReusePlans(d)
  BY <1>0, <1>3 DEF ReusePlans
<1>4. CASE p \in ShrinkPlans(d)
  <2>0. PICK q \in d.parts : \E k \in GiBAmounts(q.len) :
            p = MakePlan("shrink", d, q, NoRegion, ShrunkSize(q, k))
    BY <1>4 DEF ShrinkPlans
  <2>1. PICK n \in GiBAmounts(q.len) : p = MakePlan("shrink", d, q, NoRegion, ShrunkSize(q, n))
    BY <2>0
  <2>2. ShrunkSize(q, n) \in Int
    BY <1>0, <2>1, GeometryAssumption DEF ShrunkSize, GiBAmounts
  <2> QED
    BY <2>1, <2>2
<1>5. CASE p \in DeletePlans(d)
  BY <1>5 DEF DeletePlans
<1>6. CASE p \in ExtendPlans(d)
  <2>1. PICK q \in d.parts : \E a \in AdjacentFree(q, d.parts, d.total) :
            \E n \in GiBAmounts(a.len) : p = MakePlan("extend", d, q, a, n)
    BY <1>6 DEF ExtendPlans
  <2> QED
    BY <2>1 DEF GiBAmounts
<1> QED
  BY <1>1, <1>2, <1>3, <1>4, <1>5, <1>6 DEF OfferedPlans

\* What the backend has made sure of, by the kind of plan.
LEMMA CheckedShape ==
    ASSUME Offer, Checked, pc \notin {"idle", "listed"}
    PROVE  /\ plan.action \in InstallActions \union StorageActions
           /\ plan.fp = Fingerprint(seen) /\ plan.fp = Fingerprint(listing)
           /\ seen.flags = {}
           /\ plan.action \in Resizable => plan.part \in seen.parts /\ plan.part \in Part
           /\ plan.action = "free" => ValidFree(plan, seen) /\ plan.size \in Nat
           /\ plan.action = "reuse" => ValidReuse(plan, seen)
           /\ plan.action = "shrink" => ValidShrink(plan, seen) /\ plan.size \in Nat \ {0}
           /\ plan.action = "extend" => ValidExtend(plan, seen) /\ plan.size \in Nat
<1>1. listing \in DiskType /\ plan \in OfferedPlans(listing)
  BY DEF Offer
<1>2. /\ plan.action \in InstallActions \union StorageActions /\ plan.fp = Fingerprint(listing)
      /\ plan.action # "extend" => plan.size \in Int
      /\ plan.action \in {"extend", "free"} => plan.size \in Nat
  BY <1>1, OfferedShape
<1> USE DEF Checked, ValidPlan
<1>3. plan.fp = Fingerprint(seen) /\ seen.flags = {}
  BY DEF Usable
<1>4. /\ plan.action = "free" => ValidFree(plan, seen)
      /\ plan.action = "reuse" => ValidReuse(plan, seen)
      /\ plan.action = "shrink" => ValidShrink(plan, seen)
      /\ plan.action = "delete" => ValidDelete(plan, seen)
      /\ plan.action = "extend" => ValidExtend(plan, seen)
  OBVIOUS
<1>5. plan.action \in Resizable => plan.part \in seen.parts
  BY <1>4 DEF Resizable, ValidReuse, ValidShrink, ValidDelete, ValidExtend, PartUnchanged
<1>6. seen.parts \subseteq Part
  BY DEF DiskType
<1>7. plan.action = "shrink" => plan.size >= MinRoot /\ MinRoot \in Nat \ {0}
  BY <1>4, GeometryAssumption DEF ValidShrink
<1>8. plan.action = "shrink" => plan.size \in Nat \ {0}
  BY <1>2, <1>7
<1> QED
  BY <1>2, <1>3, <1>4, <1>5, <1>6, <1>8

-----------------------------------------------------------------------------
(* Where the new partitions go.                                            *)

\* A region from f up to and including l.
Between(f, l) == [start |-> f, len |-> l - f + 1]

\* The two partitions cut from a region that holds nothing.
LEMMA AppendedFit ==
    ASSUME World, RegionFirst \in Nat \ {0}, RegionLast \in Nat,
           TableFits(RegionFirst, RegionLast), RegionLast < disk.total,
           \A p \in disk.parts : Disjoint(Between(RegionFirst, RegionLast), p),
           \E m, n \in FreeNums : m # n
    PROVE  /\ WellFormed(disk.parts \union {AppendedEsp, AppendedRoot}, disk.total, fsLen, fresh + 2)
           /\ AppendedEsp.uuid = fresh /\ AppendedRoot.uuid = fresh + 1
           /\ AppendedEsp.type = "esp" /\ AppendedRoot.type = "root"
           /\ AppendedEsp.len = GiB /\ AppendedRoot.len >= MinRoot
<1> DEFINE f == RegionFirst
           l == RegionLast
           e == LeastNum(FreeNums)
           r == LeastNum(FreeNums \ {LeastNum(FreeNums)})
<1>1. FreeNums \in SUBSET Nat /\ FreeNums # {} /\ FreeNums \ {e} # {}
  <2>1. PICK m \in FreeNums, n \in FreeNums : m # n
    OBVIOUS
  <2>2. FreeNums \subseteq Nat
    BY StorageAssumption DEF FreeNums
  <2> HIDE DEF e
  <2> QED
    BY <2>1, <2>2
<1>2. e \in FreeNums
  BY <1>1, LeastNumIsUnused
<1>3. r \in FreeNums \ {e}
  <2> DEFINE S == FreeNums \ {e}
  <2>1. S \in SUBSET Nat /\ S # {}
    BY <1>1
  <2> HIDE DEF S
  <2>2. LeastNum(S) \in S
    BY <2>1, LeastNumIsUnused
  <2> QED
    BY <2>2 DEF S
<1> HIDE DEF e, r
<1>4. /\ e \in 1..MaxNum /\ r \in 1..MaxNum /\ e # r
      /\ \A p \in disk.parts : p.num # e /\ p.num # r
  BY <1>2, <1>3 DEF FreeNums
<1>5. LET esp == [start |-> EspStart(f), len |-> EspSectors]
          root == [start |-> RootStart(f), len |-> RootSectors(f, l)]
      IN  /\ Inside(esp, Between(f, l)) /\ Inside(root, Between(f, l))
          /\ Disjoint(esp, root) /\ esp.len = GiB /\ root.len >= MinRoot
  BY AppendTableFitsRegion DEF Between
<1>6. EspStart(f) \in Nat /\ f <= EspStart(f) /\ EspSectors = GiB /\ GiB \in Nat \ {0}
      /\ MinRoot \in Nat \ {0}
  BY AlignUpBounds, EspIsOneGiB, GeometryAssumption DEF EspStart
<1>7. RootStart(f) \in Nat /\ EspStart(f) + GiB <= RootStart(f)
  BY <1>6, AlignUpBounds DEF RootStart
<1>8. RootSectors(f, l) \in Nat \ {0} /\ RootStart(f) + RootSectors(f, l) = l + 1
      /\ RootSectors(f, l) >= MinRoot
  BY <1>6, <1>7 DEF RootSectors, TableFits
<1>9. /\ AppendedEsp = [num |-> e, start |-> EspStart(f), len |-> EspSectors, type |-> "esp",
                        fs |-> "none", uuid |-> fresh]
      /\ AppendedRoot = [num |-> r, start |-> RootStart(f), len |-> RootSectors(f, l),
                         type |-> "root", fs |-> "none", uuid |-> fresh + 1]
  BY DEF AppendedEsp, AppendedRoot, e, r
<1>10. fresh \in Nat /\ disk.total \in Nat /\ fsLen \in [1..MaxNum -> Nat]
       /\ fsLen[e] = 0 /\ fsLen[r] = 0
  BY <1>4 DEF World, WellFormed
<1> HIDE DEF f, l
<1>11. AppendedEsp \in Part /\ AppendedRoot \in Part
  BY <1>4, <1>6, <1>7, <1>8, <1>9, <1>10 DEF Part, PartTypes, FileSystems, f
<1>12. \A p \in disk.parts : Disjoint(AppendedEsp, p) /\ Disjoint(AppendedRoot, p)
  <2> TAKE p \in disk.parts
  <2>1. p.start \in Nat /\ Next1(p) \in Nat
    BY PartFields DEF World, WellFormed
  <2>2. l + 1 <= p.start \/ Next1(p) <= f
    BY <2>1 DEF Disjoint, Between, Next1, f, l
  <2> QED
    BY <2>1, <2>2, <1>6, <1>7, <1>8, <1>9 DEF Disjoint, Next1, f, l
<1>13. Disjoint(AppendedRoot, AppendedEsp)
  BY <1>6, <1>7, <1>9 DEF Disjoint, Next1
<1>14. Next1(AppendedEsp) <= disk.total /\ Next1(AppendedRoot) <= disk.total
  BY <1>6, <1>7, <1>8, <1>9, <1>10 DEF Next1, l
<1>15. WellFormed(disk.parts \union {AppendedEsp}, disk.total, fsLen, fresh + 1)
  <2>1. [fsLen EXCEPT ![AppendedEsp.num] = 0] = fsLen
    BY <1>9, <1>10
  <2>2. /\ WellFormed(disk.parts, disk.total, fsLen, fresh) /\ fresh + 1 \in Nat /\ fresh <= fresh + 1
        /\ AppendedEsp.num \in 1..MaxNum /\ AppendedEsp.uuid < fresh + 1 /\ 0 <= AppendedEsp.len
        /\ \A p \in disk.parts : p.num # AppendedEsp.num /\ Disjoint(AppendedEsp, p)
    BY <1>4, <1>6, <1>9, <1>10, <1>12 DEF World
  <2>3. WellFormed(disk.parts \union {AppendedEsp}, disk.total,
                   [fsLen EXCEPT ![AppendedEsp.num] = 0], fresh + 1)
    BY <2>2, <1>11, <1>14, Added
  <2> QED
    BY <2>1, <2>3
<1>16. WellFormed((disk.parts \union {AppendedEsp}) \union {AppendedRoot}, disk.total, fsLen,
                  fresh + 2)
  <2> DEFINE parts == disk.parts \union {AppendedEsp}
  <2>1. [fsLen EXCEPT ![AppendedRoot.num] = 0] = fsLen
    BY <1>9, <1>10
  <2>2. /\ WellFormed(parts, disk.total, fsLen, fresh + 1)
        /\ fresh + 2 \in Nat /\ fresh + 1 <= fresh + 2
        /\ AppendedRoot.num \in 1..MaxNum /\ AppendedRoot.uuid < fresh + 2 /\ 0 <= AppendedRoot.len
    BY <1>4, <1>8, <1>9, <1>10, <1>15
  <2>3. \A p \in parts : p.num # AppendedRoot.num /\ Disjoint(AppendedRoot, p)
    BY <1>4, <1>9, <1>12, <1>13
  <2> HIDE DEF parts
  <2>4. WellFormed(parts \union {AppendedRoot}, disk.total,
                   [fsLen EXCEPT ![AppendedRoot.num] = 0], fresh + 2)
    BY <2>2, <2>3, <1>11, <1>14, Added
  <2> QED
    BY <2>1, <2>4 DEF parts
<1>17. disk.parts \union {AppendedEsp, AppendedRoot}
         = (disk.parts \union {AppendedEsp}) \union {AppendedRoot}
  OBVIOUS
<1> QED
  BY <1>6, <1>8, <1>9, <1>16, <1>17

\* Nothing is left of the region handed to sfdisk --append: it was free when the
\* plan was checked, or held the partition that has been deleted or shrunk.
LEMMA RegionIsFree ==
    ASSUME World, Offer, Trust, Progress, pc = "append"
    PROVE  /\ RegionFirst \in Nat \ {0} /\ RegionLast \in Nat
           /\ TableFits(RegionFirst, RegionLast) /\ RegionLast < disk.total
           /\ \A p \in disk.parts : Disjoint(Between(RegionFirst, RegionLast), p)
<1>1. Checked /\ plan.action \in {"free", "reuse", "shrink"}
  BY DEF Trust, Progress, Writing
<1>2. /\ plan.action \in Resizable => plan.part \in seen.parts /\ plan.part \in Part
      /\ plan.action = "free" => ValidFree(plan, seen) /\ plan.size \in Nat
      /\ plan.action = "reuse" => ValidReuse(plan, seen)
      /\ plan.action = "shrink" => ValidShrink(plan, seen) /\ plan.size \in Nat \ {0}
  BY <1>1, CheckedShape
<1>3. /\ seen.parts \in SUBSET Part /\ TableSound(seen.parts, seen.total)
      /\ disk.total = seen.total /\ disk.total \in Nat
  BY <1>1 DEF Checked, DiskType, World, WellFormed
<1>4. Align \in Nat \ {0} /\ Reserved \in Nat /\ MinRoot \in Nat \ {0} /\ GiB \in Nat \ {0}
  BY GeometryAssumption
<1>5. CASE plan.action = "free"
  <2> DEFINE r == plan.region
  <2>1. /\ r \in FreeRegions(seen.parts, seen.total) /\ plan.size >= MinRegion /\ plan.size \in Nat
        /\ plan.size <= r.len /\ TableFits(r.start, r.start + plan.size - 1)
        /\ disk.parts = seen.parts
    BY <1>2, <1>5 DEF ValidFree, Progress, Untouched
  <2>2. \A p \in seen.parts : p.start \in Nat \ {0} /\ p.len \in Nat \ {0} /\ Next1(p) \in Nat
    BY <1>3, PartFields
  <2>3. Used(seen.parts) = seen.parts
    BY <2>2 DEF Used
  <2>4. /\ r.start \in Nat /\ r.len \in Nat \ {0} /\ Align <= r.start
        /\ Next1(r) <= UsableEnd(seen.total) /\ \A p \in seen.parts : Disjoint(r, p)
    BY <2>1, <2>2, <2>3, <1>3, FreeRegionsAreFree
  <2>5. RegionFirst = r.start /\ RegionLast = r.start + plan.size - 1
    BY <1>5 DEF RegionFirst, RegionLast
  <2>6. plan.size > 0
    BY <2>1, <1>4 DEF MinRegion
  <2>7. RegionLast < disk.total
    BY <2>1, <2>4, <2>5, <1>3, <1>4 DEF Next1, UsableEnd
  <2>8. \A p \in disk.parts : Disjoint(Between(RegionFirst, RegionLast), p)
    <3> TAKE p \in disk.parts
    <3>1. Next1(r) <= p.start \/ Next1(p) <= r.start
      BY <2>1, <2>4 DEF Disjoint
    <3>2. p.start \in Nat /\ Next1(p) \in Nat
      BY <2>1, <2>2
    <3>3. Next1(Between(RegionFirst, RegionLast)) = r.start + plan.size
      BY <2>1, <2>4, <2>5 DEF Between, Next1
    <3>4. Next1(Between(RegionFirst, RegionLast)) <= Next1(r)
      BY <3>3, <2>1, <2>4 DEF Next1
    <3>5. Next1(Between(RegionFirst, RegionLast)) \in Nat /\ Next1(r) \in Nat
      BY <3>3, <2>1, <2>4 DEF Next1
    <3>6. Between(RegionFirst, RegionLast).start = r.start
      BY <2>5 DEF Between
    <3> QED
      BY <3>1, <3>2, <3>4, <3>5, <3>6, <2>4 DEF Disjoint
  <2> QED
    BY <2>1, <2>4, <2>5, <2>6, <2>7, <2>8, <1>4
<1> DEFINE q == plan.part
<1>6. plan.action \in {"reuse", "shrink"} =>
        /\ q \in seen.parts /\ q.start \in Nat \ {0} /\ q.len \in Nat \ {0}
        /\ Next1(q) \in Nat /\ Next1(q) = q.start + q.len /\ Next1(q) <= seen.total
        /\ \A p \in seen.parts \ {q} : /\ p.start \in Nat /\ Next1(p) \in Nat
                                       /\ Next1(q) <= p.start \/ Next1(p) <= q.start
  BY <1>2, <1>3, PartFields DEF Resizable, TableSound, Disjoint
<1> HIDE DEF q
<1>7. CASE plan.action = "reuse"
  <2>1. RegionFirst = q.start /\ RegionLast = Next1(q) - 1
    BY <1>7 DEF RegionFirst, RegionLast, q
  <2>2. TableFits(RegionFirst, RegionLast)
    BY <1>2, <1>7, <2>1 DEF ValidReuse, q
  <2>3. disk.parts = seen.parts \ {q}
    BY <1>7 DEF Progress, q
  <2>4. Next1(Between(RegionFirst, RegionLast)) = Next1(q)
        /\ Between(RegionFirst, RegionLast).start = q.start
    BY <1>6, <1>7, <2>1 DEF Between, Next1
  <2> QED
    BY <1>3, <1>6, <1>7, <2>1, <2>2, <2>3, <2>4 DEF Disjoint
<1>8. CASE plan.action = "shrink"
  <2>1. RegionFirst = AlignUp(q.start + plan.size) /\ RegionLast = Next1(q) - 1
    BY <1>8 DEF RegionFirst, RegionLast, q
  <2>2. TableFits(RegionFirst, RegionLast)
    BY <1>2, <1>8, <2>1 DEF ValidShrink, q
  <2>3. disk.parts = (seen.parts \ {q}) \union {Resized(plan.size)}
    BY <1>8 DEF Progress, q
  <2>4. plan.size \in Nat \ {0} /\ q.start + plan.size \in Nat
    BY <1>2, <1>6, <1>8
  <2>5. RegionFirst \in Nat /\ q.start + plan.size <= RegionFirst
    BY <2>1, <2>4, AlignUpBounds
  <2>6. RegionLast \in Nat /\ RegionLast + 1 = Next1(q)
    BY <1>6, <1>8, <2>1
  <2>7. Next1(Between(RegionFirst, RegionLast)) = Next1(q)
        /\ Between(RegionFirst, RegionLast).start = RegionFirst
    BY <2>5, <2>6 DEF Between, Next1
  <2>8. Next1(Resized(plan.size)) = q.start + plan.size
    BY <1>2, <1>8 DEF Resized, Next1, Part, Resizable, q
  <2>9. \A p \in disk.parts : Disjoint(Between(RegionFirst, RegionLast), p)
    <3> TAKE p \in disk.parts
    <3>1. CASE p = Resized(plan.size)
      BY <3>1, <2>5, <2>7, <2>8 DEF Disjoint
    <3>2. CASE p # Resized(plan.size)
      <4>1. p \in seen.parts \ {q}
        BY <3>2, <2>3
      <4>2. p.start \in Nat /\ Next1(p) \in Nat /\ (Next1(q) <= p.start \/ Next1(p) <= q.start)
        BY <4>1, <1>6, <1>8
      <4>3. q.start <= RegionFirst
        BY <2>4, <2>5, <1>6, <1>8
      <4> QED
        BY <4>2, <4>3, <2>5, <2>7, <1>6, <1>8 DEF Disjoint
    <3> QED
      BY <3>1, <3>2
  <2> QED
    BY <1>3, <1>6, <1>8, <2>2, <2>4, <2>5, <2>6, <2>9
<1> QED
  BY <1>1, <1>5, <1>7, <1>8

\* parted moves the end of the partition the plan names and of no other.
LEMMA BoundaryOfChosen ==
    ASSUME World, Offer, Trust, Progress, pc \in {"boundary", "shrinkfs", "delete"}
    PROVE  /\ disk = seen /\ plan.part \in disk.parts /\ plan.part \in Part
           /\ Current = plan.part
           /\ disk.parts \ {plan.part} = {p \in disk.parts : p.num # plan.part.num}
<1>1. Checked /\ disk = seen /\ plan.action \in Resizable
  BY DEF Trust, Progress, Untouched, Writing, Resizing, Resizable
<1>2. plan.part \in disk.parts /\ plan.part \in Part
  BY <1>1, CheckedShape
<1>3. \A p, q \in disk.parts : p.num = q.num => p = q
  BY DEF World, WellFormed, TableSound
<1>4. Current = plan.part
  BY <1>2, <1>3 DEF Current
<1> QED
  BY <1>1, <1>2, <1>3, <1>4

-----------------------------------------------------------------------------
(* The table stays well formed.                                            *)

\* A command that gives the disk these partitions changes nothing else of it.
LEMMA PartsOnly ==
    ASSUME disk \in DiskType, NEW ps, disk' = WithParts(ps),
           WellFormed(ps, disk.total, fsLen', fresh')
    PROVE  /\ World' /\ disk'.parts = ps
           /\ disk'.ident = disk.ident /\ disk'.total = disk.total
           /\ disk'.flags = disk.flags /\ disk'.pttype = disk.pttype
<1>1. ps \in SUBSET Part
  BY DEF WellFormed
<1>2. /\ disk'.parts = ps /\ disk'.ident = disk.ident /\ disk'.total = disk.total
      /\ disk'.flags = disk.flags /\ disk'.pttype = disk.pttype /\ disk' \in DiskType
  BY <1>1 DEF WithParts, DiskType
<1> QED
  BY <1>2 DEF World, WellFormed

\* The end parted moves stays on the disk and behind the file system.
LEMMA BoundaryFits ==
    ASSUME World, Offer, Trust, Progress, MoveBoundary
    PROVE  LET len == IF plan.action = "shrink" THEN plan.size ELSE plan.part.len + plan.size
               ps == (seen.parts \ {plan.part}) \union {Resized(len)}
           IN  /\ disk' = WithParts(ps)
               /\ Resized(len) \in Part /\ fsLen[plan.part.num] <= len
               /\ WellFormed(ps, disk.total, fsLen, fresh)
<1> DEFINE q == plan.part
           len == IF plan.action = "shrink" THEN plan.size ELSE plan.part.len + plan.size
           ps == (seen.parts \ {plan.part}) \union {Resized(len)}
<1>1. pc = "boundary" /\ Checked /\ plan.action \in Resizing
  BY DEF MoveBoundary, Trust, Progress, Writing
<1>2. /\ disk = seen /\ q \in disk.parts /\ q \in Part /\ Current = q
      /\ q.num \in 1..MaxNum /\ q.len \in Nat \ {0} /\ q.uuid < fresh /\ fsLen[q.num] <= q.len
      /\ fsLen[q.num] \in Nat /\ Next1(q) <= disk.total /\ q.start \in Nat \ {0}
  BY <1>1, BoundaryOfChosen, PartFields DEF World, WellFormed, TableSound
<1>3. /\ plan.action = "shrink" => ValidShrink(plan, seen) /\ plan.size \in Nat \ {0}
      /\ plan.action = "extend" => ValidExtend(plan, seen) /\ plan.size \in Nat
  BY <1>1, CheckedShape
<1>4. /\ disk' = WithParts((disk.parts \ {q}) \union {Resized(len)})
      /\ \A p \in disk.parts \ {q} : Disjoint(Resized(len), p)
  BY <1>2 DEF MoveBoundary, Resized
<1>5. len \in Nat \ {0} /\ q.start + len <= disk.total /\ fsLen[q.num] <= len
  <2>1. CASE plan.action = "shrink"
    <3>1. q.len - plan.size >= MinRegion /\ MinRegion \in Nat
      BY <1>3, <2>1, GeometryAssumption DEF ValidShrink, MinRegion
    <3>2. fsLen[q.num] = plan.size - NtfsSlack /\ NtfsSlack \in Nat
      <4>1. fsLen = [seenFs EXCEPT ![q.num] = plan.size - NtfsSlack]
        BY <1>1, <2>1 DEF Progress
      <4>2. seenFs \in [1..MaxNum -> Nat]
        BY DEF Trust
      <4> QED
        BY <4>1, <4>2, <1>2, StorageAssumption
    <3> QED
      BY <1>2, <1>3, <2>1, <3>1, <3>2 DEF Next1, World, WellFormed
  <2>2. CASE plan.action = "extend"
    <3>1. plan.region \in AdjacentFree(q, seen.parts, seen.total) /\ plan.size <= plan.region.len
      BY <1>3, <2>2 DEF ValidExtend
    <3>2. PICK r \in FreeRegions(seen.parts, seen.total) :
              /\ plan.region = [start |-> Next1(q), len |-> Next1(r) - Next1(q)]
              /\ Next1(r) > Next1(q)
      BY <3>1 DEF AdjacentFree
    <3>3. seen.parts \in SUBSET Part /\ seen.total \in Nat
      BY <1>1 DEF Checked, DiskType
    <3>4. r.start \in Nat /\ r.len \in Nat /\ Next1(r) <= UsableEnd(seen.total)
      BY <3>2, <3>3, PartFields, FreeRegionsAreFree
    <3>5. Next1(r) <= disk.total /\ Next1(r) \in Nat
      BY <3>3, <3>4, <1>2, GeometryAssumption DEF UsableEnd, Next1
    <3>6. plan.size <= Next1(r) - Next1(q)
      BY <3>1, <3>2
    <3>7. len = q.len + plan.size /\ plan.size \in Nat /\ Next1(q) = q.start + q.len
      BY <1>3, <2>2 DEF Next1
    <3> HIDE DEF len, q
    <3>8. len \in Nat \ {0} /\ fsLen[q.num] <= len
      BY <1>2, <3>7
    <3>9. q.start + len <= disk.total
      <4>1. disk.total \in Nat
        BY <1>2, <3>3
      <4> QED
        BY <1>2, <3>5, <3>6, <3>7, <4>1
    <3> QED
      BY <3>8, <3>9
  <2> QED
    BY <1>1, <2>1, <2>2 DEF Resizing
<1>6. Resized(len) \in Part /\ Resized(len).num = q.num /\ Resized(len).uuid < fresh
      /\ Resized(len).len = len /\ Next1(Resized(len)) <= disk.total
  <2>1. /\ Resized(len) \in Part /\ Resized(len).num = q.num /\ Resized(len).uuid = q.uuid
        /\ Resized(len).len = len /\ Resized(len).start = q.start
    BY <1>2, <1>5 DEF Resized, Part
  <2> QED
    BY <1>2, <1>5, <2>1 DEF Next1
<1> HIDE DEF len, q
<1>7. WellFormed((disk.parts \ {q}) \union {Resized(len)}, disk.total, fsLen, fresh)
  <2>1. WellFormed(disk.parts, disk.total, fsLen, fresh) /\ fresh \in Nat /\ fresh <= fresh
    BY DEF World, WellFormed
  <2> QED
    BY <1>2, <1>4, <1>5, <1>6, <2>1, Moved
<1> QED
  BY <1>2, <1>4, <1>5, <1>6, <1>7 DEF q, len

\* A partition the run has made is the only one of its type with a new UUID.
LEMMA MadeIsNew ==
    ASSUME World, Made2, pc \in {"formatEsp", "formatRoot"}
    PROVE  /\ NewPair(Made("esp"), Made("root"))
           /\ Made("esp") \in disk.parts /\ Made("root") \in disk.parts
           /\ Made("esp") # Made("root")
<1>1. PICK esp \in disk.parts, root \in disk.parts : NewPair(esp, root)
  BY DEF Made2
<1>2. fresh \in Nat /\ \A p \in disk.parts : p.uuid \in Nat
  BY PartFields DEF World, WellFormed
<1>3. \A p \in disk.parts : p.uuid \in {fresh - 1, fresh - 2} => p = esp \/ p = root
  BY <1>1, <1>2 DEF NewPair
<1>4. esp.type = "esp" /\ root.type = "root" /\ esp.uuid = fresh - 2 /\ root.uuid = fresh - 1
  BY <1>1 DEF NewPair
<1>5. Made("esp") = esp
  BY <1>3, <1>4 DEF Made
<1>6. Made("root") = root
  BY <1>3, <1>4 DEF Made
<1> QED
  BY <1>1, <1>4, <1>5, <1>6

\* mkfs fills the partition it is given.
LEMMA FormatKeepsTable ==
    ASSUME World, NEW p \in disk.parts, NEW fs \in FileSystems,
           disk' = Formatted(p, fs), fsLen' = [fsLen EXCEPT ![p.num] = p.len],
           fresh' = fresh
    PROVE  /\ World' /\ disk'.parts = (disk.parts \ {p}) \union {[p EXCEPT !.fs = fs]}
           /\ disk'.ident = disk.ident /\ disk'.total = disk.total
           /\ disk'.flags = disk.flags
<1> DEFINE q == [p EXCEPT !.fs = fs]
           ps == (disk.parts \ {p}) \union {q}
<1>1. p \in Part /\ p.num \in 1..MaxNum /\ p.uuid < fresh /\ Next1(p) <= disk.total
      /\ \A r \in disk.parts \ {p} : Disjoint(p, r)
  BY DEF World, WellFormed, TableSound
<1>2. /\ q \in Part /\ q.num = p.num /\ q.uuid = p.uuid /\ q.len = p.len /\ q.start = p.start
      /\ p.len \in Nat /\ p.len <= q.len
  BY <1>1 DEF Part
<1>3. Next1(q) = Next1(p) /\ \A r \in disk.parts \ {p} : Disjoint(q, r)
  BY <1>1, <1>2 DEF Next1, Disjoint
<1> HIDE DEF q
<1>4. WellFormed(disk.parts, disk.total, fsLen, fresh) /\ fresh \in Nat /\ fresh <= fresh
  BY DEF World, WellFormed
<1>5. WellFormed(ps, disk.total, [fsLen EXCEPT ![p.num] = p.len], fresh)
  BY <1>1, <1>2, <1>3, <1>4, Replaced
<1>6. disk' = WithParts(ps) /\ disk \in DiskType
  BY DEF Formatted, World, q
<1> HIDE DEF ps
<1>7. World' /\ disk'.parts = ps /\ disk'.ident = disk.ident /\ disk'.total = disk.total
      /\ disk'.flags = disk.flags
  BY <1>5, <1>6, PartsOnly
<1> QED
  BY <1>7 DEF ps, q

LEMMA WorldInitial == Init => World
<1> SUFFICES ASSUME Init PROVE World
  OBVIOUS
<1>1. /\ disk \in DiskType /\ TableSound(disk.parts, disk.total) /\ fresh = FirstFresh
      /\ \A p \in disk.parts : p.num \in 1..MaxNum /\ p.uuid < fresh
      /\ fsLen = [n \in 1..MaxNum |->
                    IF \E p \in disk.parts : p.num = n /\ p.fs # "none"
                      THEN (CHOOSE p \in disk.parts : p.num = n).len ELSE 0]
  BY StorageAssumption DEF Init
<1>2. disk.parts \in SUBSET Part /\ disk.total \in Nat
  BY <1>1 DEF DiskType
<1>3. \A n \in 1..MaxNum : \A p \in disk.parts :
          p.num = n => p = CHOOSE q \in disk.parts : q.num = n
  BY <1>1 DEF TableSound
<1>4. \A p \in disk.parts : p.len \in Nat \ {0}
  BY <1>2, PartFields
<1>5. \A n \in 1..MaxNum : fsLen[n] = 0 \/ \E p \in disk.parts : p.num = n /\ fsLen[n] = p.len
  BY <1>1, <1>3
<1>6. fsLen \in [1..MaxNum -> Nat]
  <2>1. \A n \in 1..MaxNum : fsLen[n] \in Nat
    BY <1>4, <1>5
  <2>2. fsLen = [n \in 1..MaxNum |-> fsLen[n]]
    BY <1>1
  <2> QED
    BY <2>1, <2>2
<1>7. \A p \in disk.parts : fsLen[p.num] <= p.len
  <2> TAKE p \in disk.parts
  <2>1. p.num \in 1..MaxNum
    BY <1>1
  <2>2. CASE fsLen[p.num] = 0
    BY <2>2, <1>4
  <2>3. CASE fsLen[p.num] # 0
    <3>1. PICK q \in disk.parts : q.num = p.num /\ fsLen[p.num] = q.len
      BY <2>1, <2>3, <1>5
    <3>2. q = p
      BY <2>1, <3>1, <1>3
    <3> QED
      BY <3>1, <3>2, <1>4
  <2> QED
    BY <2>2, <2>3
<1>8. \A n \in 1..MaxNum : (\A p \in disk.parts : p.num # n) => fsLen[n] = 0
  BY <1>5
<1>9. fresh \in Nat
  BY <1>1 DEF FirstFresh
<1> QED
  BY <1>1, <1>2, <1>6, <1>7, <1>8, <1>9 DEF World, WellFormed

\* What other tools do leaves a table as sound as it was.
LEMMA OtherToolStep == World /\ (OtherTool \/ SwapDisk) => World'
<1> SUFFICES ASSUME World, OtherTool \/ SwapDisk PROVE World'
  OBVIOUS
<1>1. /\ disk \in DiskType /\ WellFormed(disk.parts, disk.total, fsLen, fresh)
      /\ fresh \in Nat /\ fresh + 1 \in Nat /\ fresh <= fresh + 1 /\ fresh < fresh + 1
      /\ disk.parts \in SUBSET Part /\ disk.total \in Nat
  BY DEF World, WellFormed
<1>2. CASE SwapDisk
  <2>1. disk' \in DiskType /\ disk'.parts = disk.parts /\ disk'.total = disk.total
    BY <1>1, <1>2 DEF SwapDisk, DiskType
  <2> QED
    BY <1>1, <1>2, <2>1 DEF SwapDisk, World
<1>3. ASSUME NEW p \in disk.parts, disk' = WithParts(disk.parts \ {p}),
             fsLen' = [fsLen EXCEPT ![p.num] = 0], UNCHANGED fresh
      PROVE  World'
  BY <1>1, <1>3, Removed, PartsOnly
<1>4. ASSUME NEW p \in disk.parts,
             disk' = WithParts((disk.parts \ {p}) \union {[p EXCEPT !.uuid = fresh]}),
             fresh' = fresh + 1, UNCHANGED fsLen
      PROVE  World'
  <2> DEFINE q == [p EXCEPT !.uuid = fresh]
  <2>1. /\ p \in Part /\ Next1(p) <= disk.total /\ \A r \in disk.parts \ {p} : Disjoint(p, r)
        /\ fsLen[p.num] <= p.len
    BY DEF World, WellFormed, TableSound
  <2>2. /\ q \in Part /\ q.num = p.num /\ q.uuid = fresh /\ q.len = p.len /\ q.start = p.start
    BY <1>1, <2>1 DEF Part
  <2>3. Next1(q) = Next1(p) /\ \A r \in disk.parts \ {p} : Disjoint(q, r)
    BY <2>1, <2>2 DEF Next1, Disjoint
  <2> HIDE DEF q
  <2>4. WellFormed((disk.parts \ {p}) \union {q}, disk.total, fsLen, fresh + 1)
    BY <1>1, <2>1, <2>2, <2>3, Moved
  <2> QED
    BY <1>1, <1>4, <2>4, PartsOnly DEF q
<1>5. ASSUME NEW r \in FreeRegions(disk.parts, disk.total), NEW q, FreeNums # {},
             q = [num |-> LeastNum(FreeNums), start |-> r.start, len |-> 1,
                  type |-> "data", fs |-> "ext4", uuid |-> fresh],
             disk' = WithParts(disk.parts \union {q}),
             fsLen' = [fsLen EXCEPT ![LeastNum(FreeNums)] = 1], fresh' = fresh + 1
      PROVE  World'
  <2> DEFINE n == LeastNum(FreeNums)
  <2>1. n \in FreeNums
    <3>1. FreeNums \in SUBSET Nat
      BY StorageAssumption DEF FreeNums
    <3> QED
      BY <1>5, <3>1, LeastNumIsUnused
  <2>2. n \in 1..MaxNum /\ n \in Nat \ {0} /\ \A p \in disk.parts : p.num # n
    BY <2>1, StorageAssumption DEF FreeNums
  <2>3. \A p \in disk.parts : p.start \in Nat \ {0} /\ p.len \in Nat \ {0} /\ Next1(p) \in Nat
    BY <1>1, PartFields
  <2>4. Used(disk.parts) = disk.parts
    BY <2>3 DEF Used
  <2>5. /\ r.start \in Nat /\ r.len \in Nat \ {0} /\ Align <= r.start
        /\ Next1(r) <= UsableEnd(disk.total) /\ \A p \in disk.parts : Disjoint(r, p)
    BY <1>1, <2>3, <2>4, FreeRegionsAreFree
  <2>6. Align \in Nat \ {0} /\ Reserved \in Nat
    BY GeometryAssumption
  <2> HIDE DEF n
  <2>7. q.num = n /\ q.start = r.start /\ q.len = 1 /\ q.uuid = fresh /\ Next1(q) = r.start + 1
        /\ 1 <= q.len /\ 1 \in Nat
    BY <1>5 DEF Next1, n
  <2>8. q \in Part
    BY <1>1, <1>5, <2>2, <2>5, <2>6 DEF Part, PartTypes, FileSystems, n
  <2>9. Next1(q) <= disk.total
    BY <1>1, <2>5, <2>6, <2>7 DEF Next1, UsableEnd
  <2>10. \A p \in disk.parts : p.num # q.num /\ Disjoint(q, p)
    BY <2>2, <2>3, <2>5, <2>7 DEF Disjoint, Next1
  <2>11. WellFormed(disk.parts \union {q}, disk.total, [fsLen EXCEPT ![q.num] = 1], fresh + 1)
    BY <1>1, <2>2, <2>7, <2>8, <2>9, <2>10, Added
  <2> QED
    BY <1>1, <1>5, <2>7, <2>11, PartsOnly DEF n
<1>6. ASSUME disk' = [disk EXCEPT !.flags = {"mounted"}], UNCHANGED <<fsLen, fresh>>
      PROVE  World'
  <2>1. disk' \in DiskType /\ disk'.parts = disk.parts /\ disk'.total = disk.total
    BY <1>1, <1>6 DEF DiskType
  <2> QED
    BY <1>1, <1>6, <2>1 DEF World
<1>7. CASE OtherTool
  BY <1>3, <1>4, <1>5, <1>6, <1>7 DEF OtherTool
<1> QED
  BY <1>2, <1>7

\* partition_table(): an EFI partition, and a root behind it to the usable end.
LEMMA LabelStep ==
    ASSUME World, disk.parts = {}, Label
    PROVE  /\ World' /\ disk'.ident = disk.ident /\ disk'.total = disk.total
           /\ disk'.flags = disk.flags
           /\ \E esp, root : /\ disk'.parts = {esp, root}
                             /\ esp.type = "esp" /\ root.type = "root"
                             /\ esp.uuid = fresh /\ root.uuid = fresh + 1
<1> DEFINE s == AlignUp(WholeEspStart + WholeEspSize)
           esp == [num |-> 1, start |-> WholeEspStart, len |-> WholeEspSize,
                   type |-> "esp", fs |-> "none", uuid |-> fresh]
           root == [num |-> 2, start |-> s, len |-> UsableEnd(disk.total) - s,
                    type |-> "root", fs |-> "none", uuid |-> fresh + 1]
<1>1. /\ UsableEnd(disk.total) > s /\ fresh' = fresh + 2 /\ fsLen' = fsLen
      /\ disk' = [WithParts({esp, root}) EXCEPT !.pttype = "gpt"]
  BY DEF Label
<1>2. /\ disk \in DiskType /\ WellFormed({}, disk.total, fsLen, fresh)
      /\ fresh \in Nat /\ disk.total \in Nat
  BY DEF World, WellFormed
<1>3. /\ WholeEspStart \in Nat \ {0} /\ WholeEspSize \in Nat \ {0} /\ 1 \in 1..MaxNum
      /\ 2 \in 1..MaxNum /\ Reserved \in Nat
  BY StorageAssumption, GeometryAssumption
<1>4. s \in Nat \ {0} /\ WholeEspStart + WholeEspSize <= s
  BY <1>3, AlignUpBounds
<1>5. UsableEnd(disk.total) \in Int /\ UsableEnd(disk.total) <= disk.total
  BY <1>2, <1>3 DEF UsableEnd
<1> DEFINE l == UsableEnd(disk.total) - s
<1>6. l \in Nat \ {0} /\ s + l <= disk.total
  BY <1>1, <1>2, <1>4, <1>5
<1>7. fsLen[1] = 0 /\ fsLen[2] = 0 /\ fsLen \in [1..MaxNum -> Nat]
  BY <1>2, <1>3 DEF WellFormed
<1> HIDE DEF s, l
<1>8. /\ esp \in Part /\ esp.num = 1 /\ esp.uuid = fresh /\ 0 <= esp.len
      /\ root \in Part /\ root.num = 2 /\ root.uuid = fresh + 1 /\ 0 <= root.len
  BY <1>2, <1>3, <1>4, <1>6 DEF Part, PartTypes, FileSystems, l
<1>9. /\ Next1(esp) = WholeEspStart + WholeEspSize /\ Next1(root) = s + l /\ root.start = s
      /\ esp.start = WholeEspStart
  BY DEF Next1, l
<1>10. Next1(esp) <= disk.total /\ Next1(root) <= disk.total /\ Disjoint(root, esp)
  BY <1>2, <1>3, <1>4, <1>6, <1>9 DEF Disjoint
<1> HIDE DEF esp, root
<1>11. WellFormed({esp}, disk.total, fsLen, fresh + 1)
  <2>1. WellFormed({} \union {esp}, disk.total, [fsLen EXCEPT ![esp.num] = 0], fresh + 1)
    <3>1. fresh + 1 \in Nat /\ fresh <= fresh + 1 /\ esp.uuid < fresh + 1 /\ esp.num \in 1..MaxNum
          /\ 0 \in Nat /\ \A p \in {} : p.num # esp.num /\ Disjoint(esp, p)
      BY <1>2, <1>3, <1>8
    <3> QED
      BY <1>2, <1>8, <1>10, <3>1, Added
  <2>2. [fsLen EXCEPT ![esp.num] = 0] = fsLen /\ {} \union {esp} = {esp}
    BY <1>7, <1>8
  <2> QED
    BY <2>1, <2>2
<1>12. WellFormed({esp, root}, disk.total, fsLen, fresh + 2)
  <2>1. WellFormed({esp} \union {root}, disk.total, [fsLen EXCEPT ![root.num] = 0], fresh + 2)
    <3>1. fresh + 2 \in Nat /\ fresh + 1 <= fresh + 2 /\ root.uuid < fresh + 2
          /\ root.num \in 1..MaxNum /\ 0 \in Nat
          /\ \A p \in {esp} : p.num # root.num /\ Disjoint(root, p)
      BY <1>2, <1>3, <1>8, <1>10
    <3> QED
      BY <1>8, <1>10, <1>11, <3>1, Added
  <2>2. [fsLen EXCEPT ![root.num] = 0] = fsLen /\ {esp} \union {root} = {esp, root}
    BY <1>7, <1>8
  <2> QED
    BY <2>1, <2>2
<1>13. {esp, root} \in SUBSET Part
  BY <1>8
<1>14. /\ disk'.parts = {esp, root} /\ disk'.ident = disk.ident /\ disk'.total = disk.total
       /\ disk'.flags = disk.flags /\ disk' \in DiskType
  BY <1>1, <1>2, <1>13 DEF WithParts, DiskType
<1>15. esp.type = "esp" /\ root.type = "root"
  BY DEF esp, root
<1> QED
  BY <1>1, <1>8, <1>12, <1>14, <1>15 DEF World

\* One step of the backend leaves a well-formed table, and a disk with the same
\* identity, size and flags.
SameDisk == disk'.ident = disk.ident /\ disk'.total = disk.total /\ disk'.flags = disk.flags

\* Each command of the backend leaves a sound table with its file systems inside.
LEMMA BackendWorld ==
    World /\ Offer /\ Trust /\ Progress /\ Made2 /\ BackendStep => World' /\ SameDisk
<1> SUFFICES ASSUME World, Offer, Trust, Progress, Made2, BackendStep PROVE World' /\ SameDisk
  OBVIOUS
<1>w. disk \in DiskType /\ WellFormed(disk.parts, disk.total, fsLen, fresh)
  BY DEF World
<1>0. ASSUME fresh' = fresh, NEW ps, disk' = WithParts(ps), WellFormed(ps, disk.total, fsLen', fresh)
      PROVE  World' /\ SameDisk
  BY <1>0, <1>w, PartsOnly DEF SameDisk
<1>1. CASE Validate \/ Refuse \/ BackUp \/ CheckFs \/ Trial \/ CommandFails
  <2>1. UNCHANGED <<disk, fsLen, fresh>>
    BY <1>1 DEF Validate, Refuse, BackUp, CheckFs, Trial, CommandFails
  <2> QED
    BY <2>1 DEF World, SameDisk
<1>2. CASE Wipe
  <2>1. WellFormed({}, disk.total, fsLen', fresh)
    <3>1. fsLen' = [n \in 1..MaxNum |-> 0]
      BY <1>2 DEF Wipe
    <3> QED
      BY <1>w, <3>1 DEF WellFormed, TableSound
  <2>2. /\ disk'.parts = {} /\ disk'.ident = disk.ident /\ disk'.total = disk.total
        /\ disk'.flags = disk.flags /\ disk' \in DiskType
    BY <1>2, <1>w DEF Wipe, WithParts, DiskType
  <2>3. fresh' = fresh
    BY <1>2 DEF Wipe
  <2> QED
    BY <2>1, <2>2, <2>3 DEF World, WellFormed, SameDisk
<1>3. CASE Label
  BY <1>3, LabelStep DEF Label, Progress, SameDisk
<1>4. CASE DeletePart
  <2>1. /\ plan.part \in disk.parts
        /\ disk.parts \ {plan.part} = {p \in disk.parts : p.num # plan.part.num}
    BY <1>4, BoundaryOfChosen DEF DeletePart
  <2>2. WellFormed(disk.parts \ {plan.part}, disk.total, fsLen', fresh)
    <3>1. fsLen' = [fsLen EXCEPT ![plan.part.num] = 0]
      BY <1>4 DEF DeletePart
    <3> QED
      BY <1>w, <2>1, <3>1, Removed
  <2> QED
    BY <1>4, <1>w, <1>0, <2>1, <2>2 DEF DeletePart
<1>5. CASE ShrinkFs
  <2>1. /\ plan.part \in disk.parts /\ plan.part \in Part /\ disk = seen
        /\ plan.action = "shrink" /\ Checked
    BY <1>5, BoundaryOfChosen DEF ShrinkFs, Progress, Trust, Writing
  <2>2. ValidShrink(plan, seen) /\ plan.size \in Nat
    BY <1>5, <2>1, CheckedShape DEF ShrinkFs
  <2>3. plan.size - NtfsSlack \in Nat /\ plan.size - NtfsSlack <= plan.part.len
    BY <1>5, <2>1, <2>2, PartFields, StorageAssumption, GeometryAssumption
       DEF ShrinkFs, ValidShrink, MinRegion
  <2>4. WellFormed(disk.parts, disk.total, fsLen', fresh)
    <3>1. fsLen' = [fsLen EXCEPT ![plan.part.num] = plan.size - NtfsSlack]
      BY <1>5 DEF ShrinkFs
    <3> QED
      BY <1>w, <2>1, <2>3, <3>1, Refilled
  <2> QED
    BY <1>5, <2>4 DEF ShrinkFs, World, SameDisk
<1>6. CASE MoveBoundary
  <2> DEFINE len == IF plan.action = "shrink" THEN plan.size ELSE plan.part.len + plan.size
             ps == (seen.parts \ {plan.part}) \union {Resized(len)}
  <2>1. disk' = WithParts(ps) /\ WellFormed(ps, disk.total, fsLen, fresh)
    BY <1>6, BoundaryFits
  <2>2. fsLen' = fsLen /\ fresh' = fresh
    BY <1>6 DEF MoveBoundary
  <2> HIDE DEF ps
  <2> QED
    BY <1>w, <1>0, <2>1, <2>2
<1>7. CASE GrowFs
  <2>1. Checked /\ plan.action = "extend" /\ plan.part \in Part
        /\ disk.parts = (seen.parts \ {plan.part}) \union {Resized(plan.part.len + plan.size)}
    <3>1. Checked /\ plan.action = "extend"
          /\ disk.parts = (seen.parts \ {plan.part}) \union {Resized(plan.part.len + plan.size)}
      BY <1>7 DEF GrowFs, Progress, Trust, Writing
    <3> QED
      BY <1>7, <3>1, CheckedShape DEF GrowFs, Resizable
  <2>2. \E p \in disk.parts : p.num = plan.part.num
    <3>1. Resized(plan.part.len + plan.size).num = plan.part.num
      BY <2>1 DEF Resized, Part
    <3> QED
      BY <2>1, <3>1
  <2>3. Current \in disk.parts /\ Current.num = plan.part.num
    BY <2>2 DEF Current
  <2>4. Current.len \in Nat /\ Current.len <= Current.len
    BY <1>w, <2>3, PartFields DEF WellFormed
  <2>5. WellFormed(disk.parts, disk.total, fsLen', fresh)
    <3>1. fsLen' = [fsLen EXCEPT ![Current.num] = Current.len]
      BY <1>7, <2>3 DEF GrowFs
    <3> QED
      BY <1>w, <2>3, <2>4, <3>1, Refilled
  <2> QED
    BY <1>7, <2>5 DEF GrowFs, World, SameDisk
<1>8. CASE AppendParts
  <2> DEFINE ps == disk.parts \union {AppendedEsp, AppendedRoot}
  <2>1. disk' = WithParts(ps) /\ fsLen' = fsLen /\ fresh' = fresh + 2
    BY <1>8 DEF AppendParts
  <2>2. WellFormed(ps, disk.total, fsLen, fresh + 2)
    <3>1. pc = "append" /\ \E m, n \in FreeNums : m # n
      BY <1>8 DEF AppendParts
    <3> QED
      BY <3>1, RegionIsFree, AppendedFit
  <2> HIDE DEF ps
  <2> QED
    BY <1>w, <2>1, <2>2, PartsOnly DEF SameDisk
<1>9. CASE FormatEsp
  <2>1. Made("esp") \in disk.parts
    BY <1>9, MadeIsNew DEF FormatEsp
  <2>2. "vfat" \in FileSystems
    BY DEF FileSystems
  <2> QED
    BY <1>9, <2>1, <2>2, FormatKeepsTable DEF FormatEsp, SameDisk
<1>10. CASE FormatRoot
  <2>1. Made("root") \in disk.parts
    BY <1>10, MadeIsNew DEF FormatRoot
  <2>2. "ext4" \in FileSystems
    BY DEF FileSystems
  <2> QED
    BY <1>10, <2>1, <2>2, FormatKeepsTable DEF FormatRoot, SameDisk
<1> QED
  BY <1>1, <1>2, <1>3, <1>4, <1>5, <1>6, <1>7, <1>8, <1>9, <1>10 DEF BackendStep

-----------------------------------------------------------------------------
(* What the page offers and the backend has checked.                       *)

LEMMA OfferInitial == Init => Offer
BY DEF Init, Offer

LEMMA OfferStep == World /\ Offer /\ [Next]_vars => Offer'
<1> SUFFICES ASSUME World, Offer, [Next]_vars PROVE Offer'
  OBVIOUS
<1>1. NoDisk \notin DiskType
  BY DEF NoDisk, DiskType
<1>2. CASE List
  <2>1. disk \in DiskType /\ Listable(disk) /\ listing' = disk /\ plan' = NoPlan /\ pc' = "listed"
    BY <1>2 DEF List, World
  <2> QED
    BY <1>1, <2>1 DEF Offer
<1>3. CASE Choose
  BY <1>3 DEF Choose, Offer
<1>4. CASE PowerLoss
  BY <1>4 DEF PowerLoss, Offer
<1>5. CASE OtherTool \/ SwapDisk \/ UNCHANGED vars
  BY <1>5 DEF OtherTool, SwapDisk, vars, Offer
<1>6. CASE BackendStep
  <2>1. listing' = listing /\ plan' = plan /\ pc \notin {"idle", "listed"}
    BY <1>6 DEF BackendStep, Validate, Refuse, BackUp, Wipe, Label, DeletePart, CheckFs, Trial,
                ShrinkFs, MoveBoundary, GrowFs, AppendParts, FormatEsp, FormatRoot, CommandFails,
                Writing, ui
  <2>2. pc' \notin {"idle", "listed"}
    <3>1. CASE BackUp
      <4>1. plan.action \in InstallActions \union StorageActions
        BY <2>1, OfferedShape DEF Offer
      <4> QED
        BY <3>1, <4>1 DEF BackUp, FirstWrite, InstallActions, StorageActions
    <3>2. CASE ~BackUp
      BY <1>6, <3>2 DEF BackendStep, Validate, Refuse, Wipe, Label, DeletePart, CheckFs, Trial,
                ShrinkFs, MoveBoundary, GrowFs, AppendParts, FormatEsp, FormatRoot, CommandFails
    <3> QED
      BY <3>1, <3>2
  <2> QED
    BY <2>1, <2>2 DEF Offer
<1> QED
  BY <1>2, <1>3, <1>4, <1>5, <1>6 DEF Next

\* What was checked stays true while only the partitions of the disk change.
LEMMA CheckedStays ==
    ASSUME World, World', Checked, UNCHANGED <<seen, plan>>, fresh <= fresh', SameDisk
    PROVE  Checked'
<1>1. \A p \in seen.parts : p.uuid \in Nat
  BY PartFields DEF Checked, DiskType
<1>2. \A p \in seen.parts : p.uuid < fresh'
  BY <1>1 DEF Checked, World, WellFormed
<1> QED
  BY <1>2 DEF Checked, SameDisk

LEMMA TrustInitial == Init => Trust
<1> SUFFICES ASSUME Init PROVE Trust
  OBVIOUS
<1>1. World
  BY WorldInitial
<1> QED
  BY <1>1 DEF Init, Trust, Writing, World, WellFormed

LEMMA TrustStep ==
    World /\ Offer /\ Trust /\ Progress /\ Made2 /\ World' /\ [Next]_vars => Trust'
<1> SUFFICES ASSUME World, Offer, Trust, Progress, Made2, World', [Next]_vars PROVE Trust'
  OBVIOUS
<1>1. CASE List \/ Choose
  BY <1>1 DEF List, Choose, Trust, Writing
<1>2. CASE PowerLoss
  BY <1>2 DEF PowerLoss, Trust, Writing
<1>3. CASE OtherTool \/ SwapDisk
  BY <1>3 DEF OtherTool, SwapDisk, Trust, Writing
<1>4. CASE UNCHANGED vars
  BY <1>4 DEF vars, Trust, Checked, Untouched
<1>5. CASE Validate
  <2>1. /\ seen' = disk /\ disk' = disk /\ fresh' = fresh /\ plan' = plan /\ seenFs' = fsLen
        /\ ValidPlan(plan, disk) /\ backup' = backup
        /\ pc' = IF plan.action = "whole" THEN "wipe" ELSE "backup"
    BY <1>5 DEF Validate
  <2>2. Checked'
    BY <2>1 DEF Checked, World, WellFormed
  <2> QED
    BY <2>1, <2>2 DEF Trust, Writing, World, WellFormed
<1>6. CASE Refuse
  BY <1>6 DEF Refuse, Trust, Untouched, Writing, World, WellFormed
<1>7. CASE BackendStep /\ ~Validate /\ ~Refuse
  <2>1. pc \in Writing \union {"backup"} /\ UNCHANGED <<seen, seenFs, plan>>
    BY <1>7 DEF BackendStep, BackUp, Wipe, Label, DeletePart, CheckFs, Trial, ShrinkFs, MoveBoundary,
                GrowFs, AppendParts, FormatEsp, FormatRoot, CommandFails, Writing, ui
  <2>2. fresh <= fresh'
    <3>1. fresh' \in {fresh, fresh + 2} /\ fresh \in Nat
      BY <1>7 DEF BackendStep, BackUp, Wipe, Label, DeletePart, CheckFs, Trial, ShrinkFs, MoveBoundary,
                  GrowFs, AppendParts, FormatEsp, FormatRoot, CommandFails, World, WellFormed
    <3> QED
      BY <3>1
  <2>3. SameDisk
    BY <1>7, BackendWorld
  <2>4. Checked'
    BY <2>1, <2>2, <2>3, CheckedStays DEF Trust
  <2>5. CASE BackUp
    <3>1. disk.parts = seen.parts /\ backup' = {disk.parts} /\ disk.parts \in SUBSET Part
      BY <2>5 DEF BackUp, Progress, Untouched, World, WellFormed
    <3> QED
      BY <2>1, <2>4, <3>1 DEF Trust
  <2>6. CASE ~BackUp
    <3>1. backup' = backup /\ (pc' \in Writing => pc \in Writing)
      BY <1>7, <2>6 DEF BackendStep, Wipe, Label, DeletePart, CheckFs, Trial, ShrinkFs, MoveBoundary,
                  GrowFs, AppendParts, FormatEsp, FormatRoot, CommandFails, Writing
    <3> QED
      BY <2>1, <2>4, <3>1 DEF Trust
  <2> QED
    BY <2>5, <2>6
<1> QED
  BY <1>1, <1>2, <1>3, <1>4, <1>5, <1>6, <1>7 DEF Next

-----------------------------------------------------------------------------
(* The commands, one after another.                                        *)

LEMMA ProgressInitial == Init => Progress
BY DEF Init, Progress

LEMMA ProgressStep ==
    World /\ Offer /\ Trust /\ Progress /\ Made2 /\ [Next]_vars => Progress'
<1> SUFFICES ASSUME World, Offer, Trust, Progress, Made2, [Next]_vars PROVE Progress'
  OBVIOUS
<1> USE DEF Resizing, InstallActions, StorageActions
<1>1. CASE List \/ Choose \/ PowerLoss \/ OtherTool \/ SwapDisk \/ Refuse \/ CommandFails
  BY <1>1 DEF List, Choose, PowerLoss, OtherTool, SwapDisk, Refuse, CommandFails, Progress
<1>2. CASE UNCHANGED vars
  BY <1>2 DEF vars, Progress, Untouched, Resized
<1>3. CASE Validate
  BY <1>3 DEF Validate, Progress, Untouched
<1>a. pc \in Writing \union {"backup"} => plan.action \in InstallActions \union StorageActions
  BY OfferedShape DEF Offer, Writing
<1>4. CASE BackUp
  <2>1. /\ pc = "backup" /\ Untouched /\ Untouched' /\ plan' = plan /\ plan.action # "whole"
        /\ pc' = FirstWrite(plan)
    BY <1>4 DEF BackUp, Progress, Untouched, ui
  <2>2. \/ plan.action = "free" /\ pc' = "append"
        \/ plan.action \in {"reuse", "delete"} /\ pc' = "delete"
        \/ plan.action \in {"shrink", "extend"} /\ pc' = "check"
    BY <1>a, <2>1 DEF FirstWrite
  <2> QED
    BY <2>1, <2>2 DEF Progress
<1>5. CASE Wipe
  <2>1. pc' = "label" /\ disk'.parts = {} /\ plan' = plan /\ plan.action = "whole"
    BY <1>5 DEF Wipe, Progress, WithParts, World, DiskType, ui
  <2> QED
    BY <2>1 DEF Progress
<1>6. CASE Label \/ FormatEsp
  BY <1>6 DEF Label, FormatEsp, Progress, ui
<1>7. CASE FormatRoot \/ GrowFs
  BY <1>7 DEF FormatRoot, GrowFs, Progress
<1>8. CASE DeletePart
  <2>1. /\ disk = seen /\ disk.parts \ {plan.part} = {p \in disk.parts : p.num # plan.part.num}
        /\ plan.action \in {"reuse", "delete"}
    BY <1>8, BoundaryOfChosen DEF DeletePart, Progress
  <2>2. disk'.parts = {p \in disk.parts : p.num # plan.part.num}
    BY <1>8 DEF DeletePart, WithParts, World, DiskType
  <2>3. /\ pc' = IF plan.action = "reuse" THEN "append" ELSE "done"
        /\ plan' = plan /\ seen' = seen
    BY <1>8 DEF DeletePart, ui
  <2>4. disk'.parts = seen'.parts \ {plan'.part}
    BY <2>1, <2>2, <2>3
  <2> QED
    BY <2>1, <2>3, <2>4 DEF Progress
<1>9. CASE CheckFs
  BY <1>9 DEF CheckFs, Progress, Untouched, ui
<1>10. CASE Trial
  <2>1. /\ pc = "trial" /\ UNCHANGED <<disk, fsLen, seen, seenFs, plan>> /\ plan.action \in Resizing
        /\ pc' = IF plan.action = "shrink" THEN "shrinkfs" ELSE "growfs"
    BY <1>10 DEF Trial, Progress, ui
  <2> QED
    BY <2>1 DEF Progress, Untouched, Resized
<1>11. CASE ShrinkFs
  <2>1. /\ Untouched /\ plan.action = "shrink" /\ plan.size > NtfsSlack
        /\ fsLen' = [fsLen EXCEPT ![plan.part.num] = plan.size - NtfsSlack]
        /\ pc' = "boundary" /\ UNCHANGED <<disk, seen, seenFs, plan>>
    BY <1>11 DEF ShrinkFs, Progress, ui
  <2> QED
    BY <2>1 DEF Progress, Untouched
<1>12. CASE MoveBoundary
  <2> DEFINE len == IF plan.action = "shrink" THEN plan.size ELSE plan.part.len + plan.size
             ps == (seen.parts \ {plan.part}) \union {Resized(len)}
  <2>1. disk' = WithParts(ps) /\ WellFormed(ps, disk.total, fsLen, fresh)
    BY <1>12, BoundaryFits
  <2>2. disk'.parts = ps
    BY <2>1 DEF WithParts, World, DiskType
  <2>3. /\ UNCHANGED <<seen, plan>> /\ plan.action \in Resizing
        /\ pc' = IF plan.action = "shrink" THEN "append"
                 ELSE IF plan.part.fs = "ntfs" THEN "trial" ELSE "growfs"
    <3>1. pc = "boundary" /\ UNCHANGED <<seen, plan>> /\ plan.action \in Resizing
      BY <1>12 DEF MoveBoundary, Progress, ui
    <3>2. pc' = CASE plan.action = "shrink" -> "append"
                  [] plan.action = "extend" /\ plan.part.fs = "ntfs" -> "trial"
                  [] OTHER -> "growfs"
      BY <1>12 DEF MoveBoundary
    <3> QED
      BY <3>1, <3>2
  <2>4. (\A l : Resized(l)' = Resized(l)) /\ len = IF plan.action = "shrink" THEN plan.size
                                                   ELSE plan.part.len + plan.size
    BY <2>3 DEF Resized
  <2>5. CASE plan.action = "shrink"
    <3>1. disk'.parts = (seen.parts \ {plan.part}) \union {Resized(plan.size)}
      BY <2>2, <2>5
    <3>2. disk'.parts = (seen'.parts \ {plan'.part}) \union {Resized(plan.size)'}
      BY <3>1, <2>3, <2>4
    <3> QED
      BY <2>3, <2>5, <3>2 DEF Progress, Resized
  <2>6. CASE plan.action = "extend"
    <3>1. disk'.parts = (seen.parts \ {plan.part}) \union {Resized(plan.part.len + plan.size)}
      BY <2>2, <2>6
    <3> QED
      BY <2>3, <2>6, <3>1 DEF Progress, Resized
  <2> QED
    BY <2>3, <2>5, <2>6
<1>13. CASE AppendParts
  BY <1>13 DEF AppendParts, Progress, ui
<1> QED
  BY <1>1, <1>2, <1>3, <1>4, <1>5, <1>6, <1>7, <1>8, <1>9, <1>10, <1>11, <1>12, <1>13
     DEF Next, BackendStep

-----------------------------------------------------------------------------
(* The two new partitions.                                                 *)

LEMMA MadeInitial == Init => Made2
BY DEF Init, Made2

LEMMA MadeStep ==
    World /\ Offer /\ Trust /\ Progress /\ Made2 /\ [Next]_vars => Made2'
<1> SUFFICES ASSUME World, Offer, Trust, Progress, Made2, [Next]_vars PROVE Made2'
  OBVIOUS
<1>0. fresh \in Nat /\ disk \in DiskType
  BY DEF World, WellFormed
<1>1. CASE List \/ Choose \/ PowerLoss \/ OtherTool \/ SwapDisk
  BY <1>1 DEF List, Choose, PowerLoss, OtherTool, SwapDisk, Made2
<1>2. CASE UNCHANGED vars
  BY <1>2 DEF vars, Made2, NewPair
<1>3. CASE Validate \/ Refuse \/ CommandFails \/ CheckFs \/ Trial \/ ShrinkFs \/ Wipe
  BY <1>3 DEF Validate, Refuse, CommandFails, CheckFs, Trial, ShrinkFs, Wipe, Made2
<1>4. CASE BackUp
  <2>1. plan.action \in InstallActions \union StorageActions /\ pc' = FirstWrite(plan)
    BY <1>4, OfferedShape DEF BackUp, Offer
  <2> QED
    BY <2>1 DEF FirstWrite, InstallActions, StorageActions, Made2
<1>5. CASE MoveBoundary
  <2>1. pc' \in {"append", "trial", "growfs"}
    BY <1>5 DEF MoveBoundary
  <2> QED
    BY <2>1 DEF Made2
<1>6. CASE DeletePart \/ GrowFs
  <2>1. pc' = "append" \/ (pc' = "done" /\ plan' = plan /\ plan.action \in StorageActions)
    BY <1>6 DEF DeletePart, GrowFs, Progress, StorageActions, ui
  <2> QED
    BY <2>1 DEF Made2, StorageActions, InstallActions
<1>7. CASE Label
  <2>1. /\ UNCHANGED <<plan, seen>> /\ plan.action = "whole" /\ disk.parts = {}
        /\ pc' = "formatEsp" /\ fresh' = fresh + 2
    BY <1>7 DEF Label, Progress, ui
  <2>2. PICK esp, root : /\ disk'.parts = {esp, root}
                         /\ esp.type = "esp" /\ root.type = "root"
                         /\ esp.uuid = fresh /\ root.uuid = fresh + 1
    BY <1>7, <2>1, LabelStep
  <2>3. \A p \in seen.parts : p.uuid < fresh' - 2
    BY <1>0, <1>7, <2>1 DEF Label, Trust, Checked, Writing
  <2>4. NewPair(esp, root)'
    BY <1>0, <2>1, <2>2, <2>3 DEF NewPair
  <2> QED
    BY <2>2, <2>4 DEF Made2
<1>8. CASE AppendParts
  <2>1. /\ UNCHANGED <<plan, seen>> /\ pc' = "formatEsp" /\ fresh' = fresh + 2 /\ pc = "append"
        /\ \E m, n \in FreeNums : m # n
    BY <1>8 DEF AppendParts, ui
  <2>2. /\ WellFormed(disk.parts \union {AppendedEsp, AppendedRoot}, disk.total, fsLen, fresh + 2)
        /\ AppendedEsp.uuid = fresh /\ AppendedRoot.uuid = fresh + 1
        /\ AppendedEsp.type = "esp" /\ AppendedRoot.type = "root"
        /\ AppendedEsp.len = GiB /\ AppendedRoot.len >= MinRoot
    BY <2>1, RegionIsFree, AppendedFit
  <2>3. disk'.parts = disk.parts \union {AppendedEsp, AppendedRoot}
    BY <1>0, <1>8 DEF AppendParts, WithParts, DiskType
  <2>4. /\ \A p \in seen.parts : p.uuid < fresh' - 2
        /\ \A p \in disk.parts : p.uuid < fresh' - 2
    BY <1>0, <2>1 DEF Trust, Checked, Writing, World, WellFormed
  <2>5. ASSUME NEW esp, NEW root, esp = AppendedEsp, root = AppendedRoot
        PROVE  NewPair(esp, root)'
    BY <1>0, <2>1, <2>2, <2>3, <2>4, <2>5 DEF NewPair
  <2>6. \E esp, root \in disk'.parts : NewPair(esp, root)'
    BY <2>3, <2>5
  <2> QED
    BY <2>6 DEF Made2
<1>9. CASE FormatEsp
  <2>1. /\ pc = "formatEsp" /\ pc' = "formatRoot" /\ UNCHANGED <<plan, seen, fresh>>
        /\ disk' = Formatted(Made("esp"), "vfat")
        /\ fsLen' = [fsLen EXCEPT ![Made("esp").num] = Made("esp").len]
    BY <1>9 DEF FormatEsp, ui
  <2>2. PICK esp \in disk.parts, root \in disk.parts :
            NewPair(esp, root) /\ esp = Made("esp") /\ esp # root
    BY <2>1, MadeIsNew
  <2> DEFINE new == [esp EXCEPT !.fs = "vfat"]
  <2>3. disk'.parts = (disk.parts \ {esp}) \union {new}
    BY <1>0, <2>1, <2>2 DEF Formatted, WithParts, DiskType
  <2>4. esp \in Part /\ esp.num \in 1..MaxNum /\ fsLen \in [1..MaxNum -> Nat]
    BY DEF World, WellFormed
  <2>5. /\ new.num = esp.num /\ new.uuid = esp.uuid /\ new.type = esp.type /\ new.len = esp.len
        /\ new.fs = "vfat"
    BY <2>4 DEF Part
  <2>6. fsLen'[new.num] = new.len
    BY <2>1, <2>2, <2>4, <2>5
  <2> HIDE DEF new
  <2>7. \A p \in disk'.parts \ {new, root} : p.uuid < fresh' - 2
    BY <2>1, <2>2, <2>3 DEF NewPair
  <2>8. NewPair(new, root)'
    BY <2>1, <2>2, <2>5, <2>6, <2>7 DEF NewPair
  <2> QED
    BY <2>2, <2>3, <2>8 DEF Made2
<1>10. CASE FormatRoot
  <2>1. /\ pc = "formatRoot" /\ pc' = "done" /\ UNCHANGED <<plan, seen, fresh>>
        /\ disk' = Formatted(Made("root"), "ext4")
        /\ fsLen' = [fsLen EXCEPT ![Made("root").num] = Made("root").len]
    BY <1>10 DEF FormatRoot, ui
  <2>2. PICK esp \in disk.parts, root \in disk.parts :
            NewPair(esp, root) /\ root = Made("root") /\ esp # root
    BY <2>1, MadeIsNew
  <2> DEFINE new == [root EXCEPT !.fs = "ext4"]
  <2>3. disk'.parts = (disk.parts \ {root}) \union {new}
    BY <1>0, <2>1, <2>2 DEF Formatted, WithParts, DiskType
  <2>4. /\ root \in Part /\ root.num \in 1..MaxNum /\ fsLen \in [1..MaxNum -> Nat]
        /\ esp.num # root.num
    BY <2>2 DEF World, WellFormed, TableSound
  <2>5. /\ new.num = root.num /\ new.uuid = root.uuid /\ new.type = root.type
        /\ new.len = root.len /\ new.fs = "ext4"
    BY <2>4 DEF Part
  <2>6. fsLen'[new.num] = new.len /\ fsLen'[esp.num] = fsLen[esp.num]
    BY <2>1, <2>2, <2>4, <2>5
  <2> HIDE DEF new
  <2>7. \A p \in disk'.parts \ {esp, new} : p.uuid < fresh' - 2
    BY <2>1, <2>2, <2>3 DEF NewPair
  <2>8. NewPair(esp, new)'
    BY <2>1, <2>2, <2>5, <2>6, <2>7 DEF NewPair
  <2> QED
    BY <2>2, <2>3, <2>8 DEF Made2
<1> QED
  BY <1>1, <1>2, <1>3, <1>4, <1>5, <1>6, <1>7, <1>8, <1>9, <1>10 DEF Next, BackendStep

-----------------------------------------------------------------------------
(* What was there before.                                                  *)

LEMMA SurvivalInitial == Init => Survival
BY DEF Init, Survival, OthersUntouched, ResizeKeepsPartition, RunOrOver, Writing

\* What survives when partitions are only added, and those added are formatted.
LEMMA SurvivalAdds ==
    ASSUME Survival, RunOrOver, UNCHANGED <<plan, seen, seenFs>>,
           plan.action # "whole" =>
               /\ \A p \in seen.parts : p \in disk.parts => /\ p \in disk'.parts
                                                            /\ fsLen'[p.num] = fsLen[p.num]
               /\ \A p \in disk.parts : p.uuid = plan.part.uuid /\ plan.part \in seen.parts =>
                      p \in disk'.parts /\ fsLen'[p.num] = fsLen[p.num]
    PROVE  Survival'
BY DEF Survival, OthersUntouched, ResizeKeepsPartition, RunOrOver

LEMMA SurvivalStep ==
    World /\ Offer /\ Trust /\ Progress /\ Made2 /\ Survival /\ World' /\ [Next]_vars => Survival'
<1> SUFFICES ASSUME World, Offer, Trust, Progress, Made2, Survival, World', [Next]_vars
             PROVE  Survival'
  OBVIOUS
<1>0. /\ disk \in DiskType /\ fsLen \in [1..MaxNum -> Nat] /\ fresh \in Nat
      /\ \A p \in disk.parts : p \in Part /\ p.num \in 1..MaxNum
      /\ \A p, q \in disk.parts : p.num = q.num => p = q
  BY DEF World, WellFormed, TableSound
<1>1. CASE List \/ Choose \/ PowerLoss \/ OtherTool \/ SwapDisk
  <2>1. pc' \in {"idle", "listed", "planned"}
    BY <1>1 DEF List, Choose, PowerLoss, OtherTool, SwapDisk
  <2> QED
    BY <2>1 DEF Survival, OthersUntouched, ResizeKeepsPartition, RunOrOver, Writing
<1>2. CASE UNCHANGED vars
  BY <1>2 DEF vars, Survival, OthersUntouched, ResizeKeepsPartition, RunOrOver
<1>3. CASE Validate \/ Refuse
  BY <1>3 DEF Validate, Refuse, Survival, OthersUntouched, ResizeKeepsPartition
<1>4. CASE BackUp \/ CheckFs \/ Trial \/ CommandFails
  <2>1. UNCHANGED <<disk, fsLen, plan, seen, seenFs>> /\ RunOrOver
    BY <1>4 DEF BackUp, CheckFs, Trial, CommandFails, RunOrOver, Writing, ui
  <2> QED
    BY <2>1, SurvivalAdds
<1>5. CASE Wipe \/ Label
  <2>1. UNCHANGED <<plan, seen, seenFs>> /\ RunOrOver /\ plan.action = "whole"
    BY <1>5 DEF Wipe, Label, Progress, RunOrOver, Writing, ui
  <2> QED
    BY <2>1, SurvivalAdds
<1>6. CASE DeletePart
  <2>1. /\ UNCHANGED <<plan, seen, seenFs>> /\ RunOrOver /\ plan.action \in {"reuse", "delete"}
        /\ disk'.parts = {p \in disk.parts : p.num # plan.part.num}
        /\ fsLen' = [fsLen EXCEPT ![plan.part.num] = 0]
    BY <1>0, <1>6 DEF DeletePart, Progress, RunOrOver, Writing, WithParts, DiskType, ui
  <2>2. plan.part \in disk.parts
    BY <1>6, BoundaryOfChosen DEF DeletePart
  <2>3. \A p \in disk.parts : p # plan.part => p.num # plan.part.num
    BY <1>0, <2>2
  <2>4. OthersUntouched'
    BY <1>0, <2>1, <2>3 DEF Survival, OthersUntouched, RunOrOver
  <2> QED
    BY <2>1, <2>4 DEF Survival, ResizeKeepsPartition
<1>7. CASE ShrinkFs
  <2>1. /\ UNCHANGED <<disk, plan, seen, seenFs>> /\ RunOrOver /\ Untouched
        /\ plan.size > NtfsSlack
        /\ fsLen' = [fsLen EXCEPT ![plan.part.num] = plan.size - NtfsSlack]
    BY <1>7 DEF ShrinkFs, Progress, RunOrOver, Writing, ui
  <2>2. plan.part \in disk.parts /\ plan.action = "shrink" /\ Checked /\ disk = seen
    BY <1>7, BoundaryOfChosen DEF ShrinkFs, Progress, Trust, Writing
  <2>3. plan.size \in Nat
    BY <1>7, <2>2, CheckedShape DEF ShrinkFs
  <2>4. OthersUntouched'
    BY <1>0, <2>1, <2>2 DEF Survival, OthersUntouched, RunOrOver
  <2>5. fsLen'[plan.part.num] > 0
    BY <1>0, <2>1, <2>2, <2>3, StorageAssumption
  <2>6. ResizeKeepsPartition'
    BY <2>1, <2>2, <2>5 DEF ResizeKeepsPartition
  <2> QED
    BY <2>4, <2>6 DEF Survival
<1>8. CASE MoveBoundary
  <2> DEFINE len == IF plan.action = "shrink" THEN plan.size ELSE plan.part.len + plan.size
             ps == (seen.parts \ {plan.part}) \union {Resized(len)}
  <2>1. disk' = WithParts(ps)
    BY <1>8, BoundaryFits
  <2>2. /\ UNCHANGED <<plan, seen, seenFs, fsLen>> /\ RunOrOver /\ disk = seen
        /\ plan.part \in Part
    BY <1>8, BoundaryOfChosen DEF MoveBoundary, RunOrOver, Writing, ui
  <2>3. disk'.parts = ps
    BY <1>0, <2>1 DEF WithParts, DiskType
  <2>4. OthersUntouched'
    BY <2>2, <2>3 DEF Survival, OthersUntouched, RunOrOver
  <2>5. /\ Resized(len).num = plan.part.num /\ Resized(len).start = plan.part.start
        /\ Resized(len).uuid = plan.part.uuid
    BY <2>2 DEF Resized, Part
  <2>6. ResizeKeepsPartition'
    BY <2>2, <2>3, <2>5 DEF Survival, ResizeKeepsPartition, RunOrOver
  <2> QED
    BY <2>4, <2>6 DEF Survival
<1>9. CASE GrowFs
  <2>1. /\ UNCHANGED <<disk, plan, seen, seenFs>> /\ RunOrOver /\ Checked
        /\ plan.action = "extend"
        /\ disk.parts = (seen.parts \ {plan.part}) \union {Resized(plan.part.len + plan.size)}
        /\ fsLen' = [fsLen EXCEPT ![plan.part.num] = Current.len]
    BY <1>9 DEF GrowFs, Progress, RunOrOver, Writing, Trust, ui
  <2>2. plan.part \in seen.parts /\ plan.part \in Part
    BY <1>9, <2>1, CheckedShape DEF GrowFs, Resizable
  <2>3. \A p \in seen.parts : p # plan.part => p.num # plan.part.num
    BY <2>1, <2>2 DEF Checked, TableSound
  <2>4. OthersUntouched'
    BY <1>0, <2>1, <2>3 DEF Survival, OthersUntouched, RunOrOver
  <2>5. ASSUME NEW p \in disk.parts, p.num = plan.part.num
        PROVE  fsLen'[p.num] > 0
    <3>1. Current \in disk.parts /\ Current.num = plan.part.num
      BY <2>5 DEF Current
    <3>2. Current.len \in Nat \ {0}
      BY <3>1, <1>0, PartFields
    <3> QED
      BY <1>0, <2>1, <2>5, <3>2
  <2>6. ResizeKeepsPartition'
    BY <2>1, <2>5 DEF Survival, ResizeKeepsPartition, RunOrOver
  <2> QED
    BY <2>4, <2>6 DEF Survival
<1>10. CASE AppendParts
  <2>1. /\ UNCHANGED <<plan, seen, seenFs, fsLen>> /\ RunOrOver
        /\ disk'.parts = disk.parts \union {AppendedEsp, AppendedRoot}
    BY <1>0, <1>10 DEF AppendParts, RunOrOver, Writing, WithParts, DiskType, ui
  <2> QED
    BY <2>1, SurvivalAdds
\* What mkfs works on was made by this run.
<1>11. ASSUME pc \in {"formatEsp", "formatRoot"}, NEW q \in disk.parts,
              q.uuid \in {fresh - 1, fresh - 2},
              disk.parts \ {q} \subseteq disk'.parts,
              fsLen' = [fsLen EXCEPT ![q.num] = q.len], UNCHANGED <<plan, seen, seenFs>>
       PROVE  Survival'
  <2>1. \A p \in seen.parts : p.uuid < fresh - 2
    BY <1>11 DEF Made2, NewPair
  <2>2. \A p \in disk.parts : p # q => p \in disk'.parts /\ fsLen'[p.num] = fsLen[p.num]
    BY <1>0, <1>11
  <2>3. seen \in DiskType /\ \A p \in seen.parts : p.uuid \in Nat
    BY <1>11, PartFields DEF Trust, Checked, Writing, DiskType
  <2>4. \A p \in disk.parts : p \in seen.parts => p # q
    BY <1>0, <1>11, <2>1, <2>3
  <2>5. \A p \in disk.parts : p.uuid = plan.part.uuid /\ plan.part \in seen.parts => p # q
    BY <1>0, <1>11, <2>1, <2>3
  <2>6. RunOrOver
    BY <1>11 DEF RunOrOver, Writing
  <2> QED
    BY <1>11, <2>2, <2>4, <2>5, <2>6, SurvivalAdds
<1>12. CASE FormatEsp
  <2>1. Made("esp") \in disk.parts /\ NewPair(Made("esp"), Made("root"))
    BY <1>12, MadeIsNew DEF FormatEsp
  <2> DEFINE q == Made("esp")
  <2>2. /\ pc \in {"formatEsp", "formatRoot"} /\ UNCHANGED <<plan, seen, seenFs>>
        /\ disk.parts \ {q} \subseteq disk'.parts
        /\ fsLen' = [fsLen EXCEPT ![q.num] = q.len]
    BY <1>0, <1>12 DEF FormatEsp, Formatted, WithParts, DiskType, ui
  <2>3. q \in disk.parts /\ q.uuid \in {fresh - 1, fresh - 2}
    BY <2>1 DEF NewPair
  <2> HIDE DEF q
  <2> QED
    BY <1>11, <2>2, <2>3
<1>13. CASE FormatRoot
  <2>1. Made("root") \in disk.parts /\ NewPair(Made("esp"), Made("root"))
    BY <1>13, MadeIsNew DEF FormatRoot
  <2> DEFINE q == Made("root")
  <2>2. /\ pc \in {"formatEsp", "formatRoot"} /\ UNCHANGED <<plan, seen, seenFs>>
        /\ disk.parts \ {q} \subseteq disk'.parts
        /\ fsLen' = [fsLen EXCEPT ![q.num] = q.len]
    BY <1>0, <1>13 DEF FormatRoot, Formatted, WithParts, DiskType, ui
  <2>3. q \in disk.parts /\ q.uuid \in {fresh - 1, fresh - 2}
    BY <2>1 DEF NewPair
  <2> HIDE DEF q
  <2> QED
    BY <1>11, <2>2, <2>3
<1> QED
  BY <1>1, <1>2, <1>3, <1>4, <1>5, <1>6, <1>7, <1>8, <1>9, <1>10, <1>12, <1>13
     DEF Next, BackendStep

-----------------------------------------------------------------------------
(* The invariant, and what follows from it.                                *)

LEMMA WorldStep ==
    World /\ Offer /\ Trust /\ Progress /\ Made2 /\ [Next]_vars => World'
<1> SUFFICES ASSUME World, Offer, Trust, Progress, Made2, [Next]_vars
             PROVE  World'
  OBVIOUS
<1>1. CASE UNCHANGED <<disk, fsLen, fresh>>
  BY <1>1 DEF World
<1>2. CASE List \/ Choose \/ PowerLoss \/ UNCHANGED vars
  BY <1>1, <1>2 DEF List, Choose, PowerLoss, vars
<1> QED
  BY <1>2, BackendWorld, OtherToolStep DEF Next

\* The counters, and where the backend can be.
Counters ==
    /\ runs \in Nat /\ env \in Nat
    /\ pc \in Writing \union Resting \union {"backup"}

LEMMA CountersStep == Offer /\ Trust /\ Progress /\ Counters /\ [Next]_vars => Counters'
<1> SUFFICES ASSUME Offer, Trust, Progress, Counters, [Next]_vars
             PROVE  Counters'
  OBVIOUS
<1>1. runs' \in Nat /\ env' \in Nat
  BY DEF Counters, Next, BackendStep, List, Choose, Validate, Refuse, BackUp, Wipe, Label,
         DeletePart, CheckFs, Trial, ShrinkFs, MoveBoundary, GrowFs, AppendParts, FormatEsp,
         FormatRoot, CommandFails, PowerLoss, OtherTool, SwapDisk, vars, ui
<1>2. CASE BackUp
  <2>1. plan \in OfferedPlans(listing) /\ listing \in DiskType /\ plan.action # "whole"
    BY <1>2 DEF BackUp, Offer, Progress
  <2>2. plan.action \in (InstallActions \union StorageActions) \ {"whole"}
    BY <2>1, OfferedShape
  <2>3. FirstWrite(plan) \in {"append", "delete", "check"}
    BY <2>2 DEF FirstWrite, InstallActions, StorageActions
  <2> QED
    BY <1>1, <1>2, <2>3 DEF BackUp, Counters, Writing
<1>3. CASE MoveBoundary
  <2>1. pc' \in {"append", "trial", "growfs"}
    <3>1. plan.action \in Resizing
      BY <1>3 DEF MoveBoundary, Progress
    <3> QED
      BY <1>3, <3>1 DEF MoveBoundary, Resizing
  <2> QED
    BY <1>1, <2>1 DEF Counters, Writing
<1>4. CASE ~BackUp /\ ~MoveBoundary
  <2>1. pc' \in Writing \union Resting \union {"backup"}
    BY <1>4 DEF Counters, Next, BackendStep, List, Choose, Validate, Refuse, Wipe, Label,
         DeletePart, CheckFs, Trial, ShrinkFs, GrowFs, AppendParts, FormatEsp,
         FormatRoot, CommandFails, PowerLoss, OtherTool, SwapDisk, vars, Writing, Resting
  <2> QED
    BY <1>1, <2>1 DEF Counters
<1> QED
  BY <1>2, <1>3, <1>4

\* The invariant holds from the start and at every step.
LEMMA StorageInvHolds == Spec => [](StorageInv /\ Counters)
<1>1. Init => StorageInv /\ Counters
  <2>1. Init => Counters
    BY DEF Init, Counters, Resting
  <2> QED
    BY <2>1, WorldInitial, OfferInitial, TrustInitial, ProgressInitial, MadeInitial,
       SurvivalInitial DEF StorageInv
<1>2. StorageInv /\ Counters /\ [Next]_vars => (StorageInv /\ Counters)'
  <2> SUFFICES ASSUME StorageInv, Counters, [Next]_vars
               PROVE  StorageInv' /\ Counters'
    OBVIOUS
  <2>1. World /\ Offer /\ Trust /\ Progress /\ Made2 /\ Survival
    BY DEF StorageInv
  <2>2. World' /\ Offer' /\ Progress' /\ Made2' /\ Counters'
    BY <2>1, WorldStep, OfferStep, ProgressStep, MadeStep, CountersStep
  <2>3. Trust' /\ Survival'
    BY <2>1, <2>2, TrustStep, SurvivalStep
  <2> QED
    BY <2>2, <2>3 DEF StorageInv
<1> QED
  BY <1>1, <1>2, PTL DEF Spec

\* The types of the variables; a disk is listed whenever the live system runs,
\* and there is a plan from the moment one is chosen.
THEOREM StorageTypeCorrect == Spec => []TypeOK
<1>1. StorageInv /\ Counters => TypeOK
  <2> SUFFICES ASSUME World, Offer, Trust, Counters
               PROVE  TypeOK
    BY DEF StorageInv
  <2>1. /\ disk \in DiskType /\ seen \in DiskType \union {NoDisk}
        /\ listing \in DiskType \union {NoDisk}
    BY DEF World, Trust, Offer
  <2>2. fsLen \in [1..MaxNum -> Nat] /\ seenFs \in [1..MaxNum -> Nat] /\ fresh \in Nat
    BY DEF World, WellFormed, Trust
  <2>3. backup \subseteq SUBSET Part /\ (listing = NoDisk <=> pc = "idle")
    BY DEF Trust, Offer
  <2>4. ASSUME pc \notin {"idle", "listed"} PROVE plan # NoPlan
    <3>1. plan.action \in InstallActions \union StorageActions
      BY <2>4, OfferedShape DEF Offer
    <3> QED
      BY <3>1 DEF NoPlan, InstallActions, StorageActions
  <2>5. plan = NoPlan <=> pc \in {"idle", "listed"}
    BY <2>4 DEF Offer
  <2> QED
    BY <2>1, <2>2, <2>3, <2>5 DEF TypeOK, Counters
<1> QED
  BY <1>1, StorageInvHolds, PTL

\* What the person keeps survives: every partition that was on the disk when the
\* backend looked at it, other than the chosen one, keeps its entry and its file
\* system at every moment of the run, and the one that Shrink or Extend works on
\* keeps its start, its identity and a file system.
THEOREM KeptPartitionsSurvive == Spec => []PartitionsSurvive
<1>1. StorageInv => PartitionsSurvive
  BY DEF StorageInv, Survival, PartitionsSurvive
<1> QED
  BY <1>1, StorageInvHolds, PTL

\* A file system never extends past its partition, at whatever command the run
\* fails or the power goes.
THEOREM NoFileSystemOutgrows == Spec => []FsInsidePartition
<1>1. StorageInv => FsInsidePartition
  BY DEF StorageInv, World, WellFormed, FsInsidePartition
<1> QED
  BY <1>1, StorageInvHolds, PTL

\* The table is well formed after every single command.
THEOREM TableStaysSound == Spec => []TableAlwaysSound
<1>1. StorageInv => TableAlwaysSound
  BY DEF StorageInv, World, WellFormed, TableAlwaysSound
<1> QED
  BY <1>1, StorageInvHolds, PTL

\* When an advanced run has changed the table, the saved copy is the table as
\* it was before the first change.
THEOREM BackupIsOfTheOriginal == Spec => []BackupIsOriginal
<1>1. StorageInv => BackupIsOriginal
  BY DEF StorageInv, Trust, BackupIsOriginal
<1> QED
  BY <1>1, StorageInvHolds, PTL

\* Only the disk that was listed and confirmed is changed, and never a mounted
\* one, although the device path may have come to name another disk.
THEOREM OnlyTheConfirmedDisk == Spec => []OnlyConfirmedDisk
<1>1. StorageInv => OnlyConfirmedDisk
  <2> SUFFICES ASSUME Offer, Trust, RunOrOver, disk.parts # seen.parts
               PROVE  /\ disk.ident = listing.ident /\ disk.total = listing.total
                      /\ disk.flags = {}
    BY DEF StorageInv, OnlyConfirmedDisk
  <2>1. Checked
    BY DEF Trust, Untouched, RunOrOver
  <2>2. pc \notin {"idle", "listed"}
    BY DEF RunOrOver, Writing
  <2>3. Fingerprint(seen) = Fingerprint(listing) /\ seen.flags = {}
    BY <2>1, <2>2, CheckedShape
  <2> QED
    BY <2>1, <2>3 DEF Checked, Fingerprint
<1> QED
  BY <1>1, StorageInvHolds, PTL

\* A finished installation has its ESP and its root, both formatted to their
\* full length, and in the advanced layouts of the promised sizes and nowhere
\* over a partition that was there and is kept.
THEOREM InstallationHasItsPartitions == Spec => []InstalledLayout
<1>1. StorageInv => InstalledLayout
  <2> SUFFICES ASSUME World, Made2, Survival, pc = "done", plan.action \in InstallActions
               PROVE  \E esp, root \in disk.parts \ seen.parts :
                        /\ esp.type = "esp" /\ esp.fs = "vfat" /\ fsLen[esp.num] = esp.len
                        /\ root.type = "root" /\ root.fs = "ext4" /\ fsLen[root.num] = root.len
                        /\ plan.action # "whole" =>
                             /\ esp.len = GiB /\ root.len >= MinRoot
                             /\ \A q \in {esp, root}, p \in seen.parts :
                                  p = plan.part \/ Disjoint(q, p)
    BY DEF StorageInv, InstalledLayout
  <2>1. PICK esp \in disk.parts, root \in disk.parts : NewPair(esp, root)
    BY DEF Made2
  <2>2. esp \notin seen.parts /\ root \notin seen.parts
    <3>1. fresh \in Nat
      BY DEF World, WellFormed
    <3>2. \A p \in seen.parts : p.uuid # fresh - 2 /\ p.uuid # fresh - 1
      <4>1. ASSUME NEW p \in seen.parts, p.uuid = fresh - 1 \/ p.uuid = fresh - 2
            PROVE  FALSE
        BY <2>1, <3>1, <4>1 DEF NewPair
      <4> QED
        BY <4>1
    <3> QED
      BY <2>1, <3>2 DEF NewPair
  <2>3. ASSUME plan.action # "whole", NEW q \in {esp, root}, NEW p \in seen.parts, p # plan.part
        PROVE  Disjoint(q, p)
    <3>1. p \in disk.parts
      BY <2>3 DEF Survival, OthersUntouched, RunOrOver
    <3>2. q # p /\ q \in disk.parts
      BY <2>2, <2>3
    <3> QED
      BY <3>1, <3>2 DEF World, WellFormed, TableSound
  <2> QED
    BY <2>1, <2>2, <2>3 DEF NewPair
<1> QED
  BY <1>1, StorageInvHolds, PTL

-----------------------------------------------------------------------------
(* The drive page and the backend agree.                                   *)

\* A whole number of alignment units.
Aligned(v) == v \in Nat /\ \E k \in Nat : v = k * Align

\* A space of the size the page asks for takes the two partitions.
LEMMA AlignedSpaceFits ==
    ASSUME NEW s, Aligned(s), NEW n \in Nat, n >= MinRegion
    PROVE  TableFits(s, s + n - 1)
BY AlignedRegionAccepted DEF Aligned

\* A multiple of Align, as the backend asks for it, is aligned.
LEMMA DivisibleIsAligned ==
    ASSUME NEW v \in Nat, v % Align = 0
    PROVE  Aligned(v)
<1>1. Align \in Nat \ {0}
  BY GeometryAssumption
<1>2. v = (v \div Align) * Align /\ v \div Align \in Nat
  BY <1>1
<1> QED
  BY <1>2 DEF Aligned

\* What Shrink leaves is whole MiB, no more than what was left by the amount
\* typed in, and still 16 GiB when that was.
LEMMA ShrunkSizeKeepsMinimum ==
    ASSUME NEW p \in Part, NEW n \in Nat, p.len - n >= MinRoot
    PROVE  /\ Aligned(ShrunkSize(p, n))
           /\ ShrunkSize(p, n) <= p.len - n /\ ShrunkSize(p, n) >= MinRoot
<1> DEFINE v == p.len - n
           q == v \div Align
<1>1. Align \in Nat \ {0} /\ MinRoot \in Nat /\ v \in Nat /\ v >= MinRoot
  BY PartFields, GeometryAssumption
<1>2. PICK k \in Nat : MinRoot = k * Align
  BY <1>1, GeometryAssumption, DivisibleIsAligned DEF Aligned
<1>3. ShrunkSize(p, n) = q * Align
  BY DEF ShrunkSize
<1> HIDE DEF v
<1>4. q \in Nat /\ q * Align <= v /\ v < (q + 1) * Align
  BY <1>1
<1> HIDE DEF q
<1>5. k * Align < (q + 1) * Align
  BY <1>1, <1>2, <1>4
<1>6. k < q + 1
  <2>1. k >= q + 1 => k * Align >= (q + 1) * Align
    BY <1>1, <1>2, <1>4
  <2> QED
    BY <1>1, <1>4, <1>5, <2>1
<1>7. k * Align <= q * Align
  BY <1>1, <1>4, <1>6
<1>8. q * Align \in Nat
  BY <1>1, <1>4
<1> QED
  BY <1>2, <1>3, <1>4, <1>7, <1>8 DEF Aligned, v

\* An offered plan meets the conditions of the backend, one by one.
LEMMA OfferedIsValid ==
    ASSUME NEW d \in DiskType, Listable(d), NEW p \in OfferedPlans(d),
           p.action # "whole" => d.pttype = "gpt",
           p.action \in {"reuse", "shrink"} => (p.part.start % Align) = 0,
           p.action = "shrink" => p.part.type # "esp"
    PROVE  ValidPlan(p, d)
<1>0. /\ d.parts \in SUBSET Part /\ d.total \in Nat
      /\ Align \in Nat \ {0} /\ GiB \in Nat \ {0} /\ MinRoot \in Nat \ {0} /\ MinRegion \in Nat
      /\ \A q \in d.parts : /\ q \in Part /\ q.start \in Nat \ {0} /\ q.len \in Nat \ {0}
                            /\ Next1(q) = q.start + q.len
  BY PartFields, GeometryAssumption DEF DiskType, MinRegion
<1>1. Usable(d) /\ d.total >= MinRoot
  BY DEF Listable
<1> USE DEF MakePlan
<1>2. CASE p \in WholePlans(d)
  <2>1. p.action = "whole" /\ p.fp = Fingerprint(d)
    BY <1>2 DEF WholePlans
  <2> QED
    BY <1>1, <2>1 DEF ValidPlan
<1>3. CASE p \in FreePlans(d)
  <2>1. PICK r \in FreeRegions(d.parts, d.total) :
          CanInstall(r) /\ \E n \in GiBAmounts(r.len) :
              n >= MinRegion /\ p = MakePlan("free", d, NoPart, r, n)
    BY <1>3 DEF FreePlans
  <2>2. PICK n \in GiBAmounts(r.len) : n >= MinRegion /\ p = MakePlan("free", d, NoPart, r, n)
    BY <2>1
  <2>3. n \in Nat /\ n <= r.len /\ n >= MinRegion /\ r.len >= MinRegion
    BY <2>1, <2>2 DEF GiBAmounts, CanInstall
  <2>4. Aligned(r.start)
    <3>1. \A q \in d.parts : q.start \in Nat /\ q.len \in Nat
      BY <1>0
    <3> DEFINE parts == d.parts
               total == d.total
    <3>2. r \in FreeRegions(parts, total) /\ total \in Nat
      BY <1>0
    <3> HIDE DEF parts, total
    <3>3. r.start \in Nat /\ \E k \in Nat : r.start = k * Align
      BY <3>1, <3>2, FreeRegionsAreFree DEF parts
    <3> QED
      BY <3>3 DEF Aligned
  <2>5. ValidFree(p, d)
    BY <2>1, <2>2, <2>3, <2>4, AlignedSpaceFits DEF ValidFree
  <2> QED
    BY <1>1, <2>2, <2>5 DEF ValidPlan, Fingerprint
<1>4. CASE p \in ReusePlans(d)
  <2>1. PICK q \in d.parts : CanFormat(q) /\ p = MakePlan("reuse", d, q, NoRegion, q.len)
    BY <1>4 DEF ReusePlans
  <2>2. Aligned(q.start)
    BY <1>0, <2>1, DivisibleIsAligned
  <2>3. TableFits(q.start, q.start + q.len - 1)
    BY <1>0, <2>1, <2>2, AlignedSpaceFits DEF CanFormat
  <2>4. ValidReuse(p, d)
    BY <1>0, <2>1, <2>3 DEF ValidReuse, PartUnchanged, CanFormat
  <2> QED
    BY <1>1, <2>1, <2>4 DEF ValidPlan
<1>5. CASE p \in ShrinkPlans(d)
  <2>1. PICK q \in d.parts : CanShrink(q) /\ \E n \in GiBAmounts(q.len) :
           /\ q.len - n >= MinRoot /\ q.len - ShrunkSize(q, n) >= MinRegion
           /\ p = MakePlan("shrink", d, q, NoRegion, ShrunkSize(q, n))
    BY <1>5 DEF ShrinkPlans
  <2>2. PICK n \in GiBAmounts(q.len) :
           /\ q.len - n >= MinRoot /\ q.len - ShrunkSize(q, n) >= MinRegion
           /\ p = MakePlan("shrink", d, q, NoRegion, ShrunkSize(q, n))
    BY <2>1
  <2>3. n \in Nat
    BY <2>2 DEF GiBAmounts
  <2> DEFINE size == ShrunkSize(q, n)
  <2>4. p.part = q /\ p.size = size /\ p.action = "shrink" /\ q.len - size >= MinRegion
    BY <2>2
  <2>5. Aligned(size) /\ size >= MinRoot
    BY <1>0, <2>2, <2>3, ShrunkSizeKeepsMinimum
  <2>6. Aligned(q.start)
    BY <1>0, <2>4, DivisibleIsAligned
  <2> HIDE DEF size
  <2>7. Aligned(q.start + size) /\ AlignUp(q.start + size) = q.start + size
    <3>1. PICK a \in Nat, b \in Nat : q.start = a * Align /\ size = b * Align
      BY <2>5, <2>6 DEF Aligned
    <3>2. q.start + size = (a + b) * Align /\ a + b \in Nat
      BY <1>0, <3>1
    <3>3. q.start + size \in Nat
      BY <1>0, <2>5 DEF Aligned
    <3> QED
      BY <3>2, <3>3, AlignUpAligned DEF Aligned
  <2>8. TableFits(q.start + size, (q.start + size) + (q.len - size) - 1)
    <3>1. q.len - size \in Nat
      BY <1>0, <2>4, <2>5 DEF Aligned
    <3> QED
      BY <2>4, <2>7, <3>1, AlignedSpaceFits
  <2>9. (q.start + size) + (q.len - size) - 1 = Next1(q) - 1
    BY <1>0, <2>5 DEF Aligned
  <2>10. ValidShrink(p, d)
    BY <2>1, <2>4, <2>5, <2>7, <2>8, <2>9 DEF ValidShrink, PartUnchanged, CanShrink
  <2> QED
    BY <1>1, <2>2, <2>10 DEF ValidPlan
<1>6. CASE p \in DeletePlans(d)
  <2>1. PICK q \in d.parts : CanDelete(q) /\ p = MakePlan("delete", d, q, NoRegion, 0)
    BY <1>6 DEF DeletePlans
  <2>2. ValidDelete(p, d)
    BY <2>1 DEF ValidDelete, PartUnchanged, CanDelete
  <2> QED
    BY <1>1, <2>1, <2>2 DEF ValidPlan, InstallActions
<1>7. CASE p \in ExtendPlans(d)
  <2>1. PICK q \in d.parts : CanExtend(q, d.parts, d.total) /\
          \E a \in AdjacentFree(q, d.parts, d.total) : \E n \in GiBAmounts(a.len) :
              p = MakePlan("extend", d, q, a, n)
    BY <1>7 DEF ExtendPlans
  <2>2. PICK a \in AdjacentFree(q, d.parts, d.total) : \E n \in GiBAmounts(a.len) :
              p = MakePlan("extend", d, q, a, n)
    BY <2>1
  <2>3. PICK n \in GiBAmounts(a.len) : p = MakePlan("extend", d, q, a, n)
    BY <2>2
  \* One region at most starts where the partition ends.
  <2>4. AdjacentFree(q, d.parts, d.total) = {a}
    <3>1. \A r, s \in FreeRegions(d.parts, d.total) : r.start = s.start => r = s
      BY <1>0, FreeRegionsStartApart
    <3> QED
      BY <2>2, <3>1 DEF AdjacentFree
  \* A whole number of GiB that is not zero.
  <2>5. n \in Nat /\ n >= GiB /\ n <= a.len
    <3>1. n \in Nat \ {0} /\ n <= a.len /\ (n % GiB) = 0
      BY <2>3 DEF GiBAmounts
    <3>2. n < GiB => (n % GiB) = n
      BY <1>0, <3>1
    <3> QED
      BY <1>0, <3>1, <3>2
  <2>6. ValidExtend(p, d)
    BY <2>1, <2>3, <2>4, <2>5 DEF ValidExtend, PartUnchanged, CanExtend
  <2> QED
    BY <1>1, <2>3, <2>6 DEF ValidPlan, InstallActions
<1> QED
  BY <1>2, <1>3, <1>4, <1>5, <1>6, <1>7 DEF OfferedPlans

\* Every plan the drive page prepares is accepted as long as the disk is as it
\* was listed, whatever the table, outside the three cases of OfferedInVain: a
\* disk without GPT, Format and Shrink off the alignment, Shrink of an ESP.
THEOREM UnchangedPlansAreAccepted == Spec => []AcceptedUnlessChanged
<1>1. StorageInv => AcceptedUnlessChanged
  <2> SUFFICES ASSUME Offer, pc = "planned", disk = listing, ~OfferedInVain(plan, disk)
               PROVE  ValidPlan(plan, disk)
    BY DEF StorageInv, AcceptedUnlessChanged
  <2>1. disk \in DiskType /\ Listable(disk) /\ plan \in OfferedPlans(disk)
    BY DEF Offer
  <2>2. /\ plan.action # "whole" => disk.pttype = "gpt"
        /\ plan.action \in {"reuse", "shrink"} => (plan.part.start % Align) = 0
        /\ plan.action = "shrink" => plan.part.type # "esp"
    BY DEF OfferedInVain
  <2> QED
    BY <2>1, <2>2, OfferedIsValid
<1> QED
  BY <1>1, StorageInvHolds, PTL
=============================================================================
