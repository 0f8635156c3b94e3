------------------------------ MODULE DiskPlan ------------------------------
(***************************************************************************)
(* Plans for the target disk: the drive page of the installer turns a row  *)
(* of the disk list into a plan (installercontroller.cpp), and the backend *)
(* revalidates that plan against the live disk (validate_plan and          *)
(* validate_storage_action).                                               *)
(*                                                                         *)
(* A disk is a record                                                      *)
(*   ident   the identity fingerprint() reports: path, kernel name, model, *)
(*           serial and major:minor number                                 *)
(*   total   size in sectors         pttype  "gpt", "dos" or "blank"       *)
(*   flags   why it may not be used: "mounted", "live", "ro", "rm"         *)
(*   parts   its partitions, with the fields partition_fingerprint()       *)
(*           compares; uuid stands for PARTUUID and file-system UUID       *)
(***************************************************************************)
EXTENDS DiskGeometry

PartTypes == {"esp", "data", "root"}
FileSystems == {"ntfs", "ext4", "vfat", "none"}

Part == [num : Nat \ {0}, start : Nat \ {0}, len : Nat \ {0},
         type : PartTypes, fs : FileSystems, uuid : Nat]

\* (wrong) only size and table type are compared
FingerprintWithoutIdentity(d) ==
    [ident |-> "any", total |-> d.total, pttype |-> d.pttype]

Fingerprint(d) == [ident |-> d.ident, total |-> d.total, pttype |-> d.pttype]

\* Mounted, read-only and removable disks and the live medium are refused by
\* candidate_disks, validate_plan and validate_storage_action alike.
Usable(d) == d.flags = {}

\* candidate_disks: the disks that are listed.
Listable(d) == Usable(d) /\ d.total >= MinRoot

InstallActions == {"whole", "free", "reuse", "shrink"}
StorageActions == {"delete", "extend"}

NoPart == [num |-> 0]
NoRegion == [start |-> 0, len |-> 0]

-----------------------------------------------------------------------------
(* What the drive page can prepare from the rows it was given.             *)

MakePlan(action, d, part, region, size) ==
    [action |-> action, fp |-> Fingerprint(d), part |-> part,
     region |-> region, size |-> size]

\* Whole GiB amounts, as typed into the size fields.
GiBAmounts(limit) == {n \in 1..limit : n % GiB = 0}

\* useSelectedFreeSpace
FreePlans(d) ==
    UNION {{MakePlan("free", d, NoPart, r, n) :
              n \in {k \in GiBAmounts(r.len) : k >= MinRegion}} :
           r \in {f \in FreeRegions(d.parts, d.total) : CanInstall(f)}}

\* useSelectedPartition
ReusePlans(d) ==
    {MakePlan("reuse", d, p, NoRegion, p.len) : p \in {q \in d.parts : CanFormat(q)}}

\* prepareSelectedNtfsShrink: the size kept is rounded down to a whole MiB.
ShrunkSize(p, release) == ((p.len - release) \div Align) * Align

ShrinkPlans(d) ==
    UNION {{MakePlan("shrink", d, p, NoRegion, ShrunkSize(p, n)) :
              n \in {k \in GiBAmounts(p.len) :
                       /\ k >= MinRegion
                       /\ k < p.len
                       /\ p.len - k >= MinRoot
                       /\ p.len - ShrunkSize(p, k) >= MinRegion}} :
           p \in {q \in d.parts : CanShrink(q)}}

\* deleteSelectedPartition
DeletePlans(d) ==
    {MakePlan("delete", d, p, NoRegion, 0) : p \in {q \in d.parts : CanDelete(q)}}

\* extendSelectedPartition
ExtendPlans(d) ==
    UNION {UNION {{MakePlan("extend", d, p, a, n) : n \in GiBAmounts(a.len)} :
                  a \in AdjacentFree(p, d.parts, d.total)} :
           p \in {q \in d.parts : CanExtend(q, d.parts, d.total)}}

\* Selecting the whole-disk row is a plan of its own.
WholePlans(d) == {MakePlan("whole", d, NoPart, NoRegion, d.total)}

OfferedPlans(d) ==
    WholePlans(d) \cup FreePlans(d) \cup ReusePlans(d) \cup ShrinkPlans(d)
        \cup DeletePlans(d) \cup ExtendPlans(d)

-----------------------------------------------------------------------------
(* What the backend requires of the plan and the live disk.                *)

\* (wrong) the identifiers are not compared
PartSameShape(plan, d) ==
    \E p \in d.parts : [p EXCEPT !.uuid = plan.part.uuid] = plan.part

\* find_partition and the nine-field comparison.
PartUnchanged(plan, d) == plan.part \in d.parts

\* (wrong) the region is not looked up again
ValidFreeUnchecked(plan, d) ==
    /\ plan.region.len >= MinRegion
    /\ plan.size >= MinRegion
    /\ plan.size <= plan.region.len

ValidFree(plan, d) ==
    /\ plan.region.len >= MinRegion
    /\ plan.region \in FreeRegions(d.parts, d.total)
    /\ plan.size >= MinRegion
    /\ plan.size <= plan.region.len
    /\ TableFits(plan.region.start, plan.region.start + plan.size - 1)

ValidReuse(plan, d) ==
    /\ PartUnchanged(plan, d)
    /\ plan.part.type # "esp"
    /\ plan.part.len >= MinRegion
    /\ TableFits(plan.part.start, Next1(plan.part) - 1)

ValidShrink(plan, d) ==
    /\ PartUnchanged(plan, d)
    /\ plan.part.type # "esp"
    /\ plan.part.fs = "ntfs"
    /\ plan.size >= MinRoot
    /\ plan.part.len - plan.size >= MinRegion
    /\ TableFits(AlignUp(plan.part.start + plan.size), Next1(plan.part) - 1)

ValidDelete(plan, d) ==
    /\ PartUnchanged(plan, d)
    /\ plan.part.type # "esp"

ValidExtend(plan, d) ==
    /\ PartUnchanged(plan, d)
    /\ plan.part.type # "esp"
    /\ plan.part.fs \in {"ntfs", "ext4"}
    /\ AdjacentFree(plan.part, d.parts, d.total) = {plan.region}
    /\ plan.size >= GiB
    /\ plan.size <= plan.region.len

\* validate_plan and validate_storage_action.
ValidPlan(plan, d) ==
    /\ Usable(d)
    /\ plan.fp = Fingerprint(d)
    /\ plan.action \in InstallActions => d.total >= MinRoot
    /\ plan.action # "whole" => d.pttype = "gpt"
    /\ CASE plan.action = "whole" -> TRUE
         [] plan.action = "free" -> ValidFree(plan, d)
         [] plan.action = "reuse" -> ValidReuse(plan, d)
         [] plan.action = "shrink" -> ValidShrink(plan, d)
         [] plan.action = "delete" -> ValidDelete(plan, d)
         [] plan.action = "extend" -> ValidExtend(plan, d)

-----------------------------------------------------------------------------
\* A partition table a GPT tool would write: numbers are unique, partitions
\* are apart from one another and inside the disk.
TableSound(parts, total) ==
    /\ \A p \in parts : Next1(p) <= total
    /\ \A p, q \in parts : p # q => p.num # q.num /\ Disjoint(p, q)
=============================================================================
