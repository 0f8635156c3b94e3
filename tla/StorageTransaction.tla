------------------------- MODULE StorageTransaction -------------------------
(***************************************************************************)
(* One target disk from the moment it is listed to the last file system    *)
(* made on it.  The user picks a row of the list, which becomes a plan;    *)
(* time passes, in which other tools may change the disk; the backend      *)
(* revalidates the plan, saves the partition table and runs one external   *)
(* command after another (install, prepare_advanced_target,                *)
(* append_aero7_partitions, apply_storage_action).  Any command may fail   *)
(* and power may be lost between any two of them.                          *)
(*                                                                         *)
(* The commands do what they are told: sfdisk is not assumed to refuse a   *)
(* bad table.  parted refuses a boundary that would overlap another        *)
(* partition.  Between the validation and the last command no other tool   *)
(* repartitions the disk, and a single command changes the table at once.  *)
(***************************************************************************)
EXTENDS DiskPlan

CONSTANTS
    Disks,        \* the disks that may be found at the target device path
    NtfsSlack,    \* the 16 MiB kept between an NTFS file system and its partition
    WholeEspStart, WholeEspSize,  \* the fixed sectors of partition_table()
    MaxNum,       \* bound: partition numbers in use
    MaxRuns,      \* bound: backend runs
    MaxEnv        \* bound: changes made by other tools

FirstFresh == 100

DiskType == [ident : {d.ident : d \in Disks}, total : Nat,
             pttype : {"gpt", "dos", "blank"},
             flags : SUBSET {"mounted", "live", "ro", "rm"}, parts : SUBSET Part]

\* The disks carry tables as partitioning tools leave them.
ASSUME StorageAssumption ==
    /\ NtfsSlack \in Nat /\ {WholeEspStart, WholeEspSize} \subseteq Nat \ {0}
    /\ MaxNum \in Nat /\ MaxNum >= 2 /\ {MaxRuns, MaxEnv} \subseteq Nat
    /\ \A d \in Disks :
          /\ d \in DiskType /\ TableSound(d.parts, d.total)
          /\ \A p \in d.parts : p.num \in 1..MaxNum /\ p.uuid < FirstFresh

VARIABLES
    disk,      \* the disk at the device path
    fsLen,     \* sectors of the file system in each partition number, 0 if none
    fresh,     \* the next unused UUID
    listing,   \* the disk as last listed, or NoDisk
    plan,      \* the plan file, or NoPlan
    pc,        \* where the backend is
    seen,      \* the disk the running backend validated, or NoDisk
    seenFs,    \* (history) fsLen at that moment
    backup,    \* aero7-partition-table-before.sfdisk on the live system, if any
    runs, env  \* counters for the bounds

vars == <<disk, fsLen, fresh, listing, plan, pc, seen, seenFs, backup, runs, env>>

NoDisk == [ident |-> "none", total |-> 0, pttype |-> "none", flags |-> {},
           parts |-> {}]
NoPlan == [action |-> "none", fp |-> Fingerprint(NoDisk), part |-> NoPart,
           region |-> NoRegion, size |-> 0]

\* pc values at which the backend is past its checks.
Writing == {"wipe", "label", "delete", "check", "trial", "shrinkfs",
            "boundary", "growfs", "append", "formatEsp", "formatRoot"}
Resting == {"idle", "listed", "planned", "done", "failed"}

Init ==
    /\ disk \in Disks
    /\ fsLen = [n \in 1..MaxNum |->
                  IF \E p \in disk.parts : p.num = n /\ p.fs # "none"
                    THEN (CHOOSE p \in disk.parts : p.num = n).len ELSE 0]
    /\ fresh = FirstFresh
    /\ listing = NoDisk /\ plan = NoPlan /\ pc = "idle"
    /\ seen = NoDisk /\ seenFs = fsLen /\ backup = {}
    /\ runs = 0 /\ env = 0

\* The external commands and the failure exits leave these alone.
ui == <<listing, plan, seen, seenFs, runs, env>>

-----------------------------------------------------------------------------
(* The user interface.                                                     *)

\* (wrong) the selection survives the refresh
ListKeepsPlan ==
    /\ pc \in Resting
    /\ Listable(disk)
    /\ listing' = disk /\ pc' = "listed"
    /\ UNCHANGED <<disk, fsLen, fresh, plan, seen, seenFs, backup, runs, env>>

\* refreshDisks: the list replaces the old one and drops the selection.  The
\* drive page is not left by a storage action; an installation, whether it
\* failed or not, leads back to it only through a restart.
List ==
    /\ pc \in Resting
    /\ pc \in {"done", "failed"} => plan.action \in StorageActions
    /\ Listable(disk)
    /\ listing' = disk /\ plan' = NoPlan /\ pc' = "listed"
    /\ UNCHANGED <<disk, fsLen, fresh, seen, seenFs, backup, runs, env>>

\* A row is selected, an amount entered and Next or the action pressed.
Choose ==
    /\ pc = "listed" /\ runs < MaxRuns
    /\ plan' \in OfferedPlans(listing)
    /\ pc' = "planned"
    /\ UNCHANGED <<disk, fsLen, fresh, listing, seen, seenFs, backup, runs, env>>

-----------------------------------------------------------------------------
(* The backend: checks first.                                              *)

\* (wrong) Shrink is taken for Format
FirstWriteReplaces(p) == IF p.action = "free" THEN "append" ELSE "delete"

FirstWrite(p) ==
    CASE p.action = "whole" -> "wipe"
      [] p.action = "free" -> "append"
      [] p.action = "reuse" -> "delete"
      [] p.action = "shrink" -> "check"
      [] p.action = "delete" -> "delete"
      [] p.action = "extend" -> "check"

\* query_lsblk, find_disk and the validation, up to the first early exit.
Validate ==
    /\ pc = "planned"
    /\ ValidPlan(plan, disk)
    /\ seen' = disk /\ seenFs' = fsLen
    /\ pc' = IF plan.action = "whole" THEN "wipe" ELSE "backup"
    /\ runs' = runs + 1
    /\ UNCHANGED <<disk, fsLen, fresh, listing, plan, backup, env>>

\* The plan is refused, or the network or a required tool is missing.
Refuse ==
    /\ pc = "planned"
    /\ seen' = disk /\ seenFs' = fsLen
    /\ pc' = "failed"
    /\ runs' = runs + 1
    /\ UNCHANGED <<disk, fsLen, fresh, listing, plan, backup, env>>

\* (wrong) nothing is saved
BackUpSkipped ==
    /\ pc = "backup"
    /\ pc' = FirstWrite(plan)
    /\ UNCHANGED <<disk, fsLen, fresh, backup>> /\ UNCHANGED ui

\* backup_partition_table
BackUp ==
    /\ pc = "backup"
    /\ backup' = {disk.parts}
    /\ pc' = FirstWrite(plan)
    /\ UNCHANGED <<disk, fsLen, fresh>> /\ UNCHANGED ui

-----------------------------------------------------------------------------
(* The backend: one external command after another.                        *)

WithParts(parts) == [disk EXCEPT !.parts = parts]

\* The partition the plan names, as it is on the disk now.
Current == CHOOSE p \in disk.parts : p.num = plan.part.num

\* wipefs on the whole disk: the partition table is gone.
Wipe ==
    /\ pc = "wipe"
    /\ disk' = [WithParts({}) EXCEPT !.pttype = "blank"]
    /\ fsLen' = [n \in 1..MaxNum |-> 0]
    /\ pc' = "label"
    /\ UNCHANGED <<fresh, backup>> /\ UNCHANGED ui

\* sfdisk with partition_table(): the ESP at a fixed place and size, the root
\* from the next aligned sector to the end.
Label ==
    /\ pc = "label"
    /\ LET rootStart == AlignUp(WholeEspStart + WholeEspSize)
           esp == [num |-> 1, start |-> WholeEspStart, len |-> WholeEspSize,
                   type |-> "esp", fs |-> "none", uuid |-> fresh]
           root == [num |-> 2, start |-> rootStart,
                    len |-> UsableEnd(disk.total) - rootStart,
                    type |-> "root", fs |-> "none", uuid |-> fresh + 1]
       IN  /\ UsableEnd(disk.total) > rootStart
           /\ disk' = [WithParts({esp, root}) EXCEPT !.pttype = "gpt"]
    /\ fresh' = fresh + 2
    /\ pc' = "formatEsp"
    /\ UNCHANGED <<fsLen, backup>> /\ UNCHANGED ui

\* sfdisk --delete, for Format and for Delete.
DeletePart ==
    /\ pc = "delete"
    /\ disk' = WithParts({p \in disk.parts : p.num # plan.part.num})
    /\ fsLen' = [fsLen EXCEPT ![plan.part.num] = 0]
    /\ pc' = IF plan.action = "reuse" THEN "append" ELSE "done"
    /\ UNCHANGED <<fresh, backup>> /\ UNCHANGED ui

\* ntfsresize --check or e2fsck.  For ext4 there is no trial run later.
CheckFs ==
    /\ pc = "check"
    /\ pc' = IF plan.action = "shrink" THEN "trial" ELSE "boundary"
    /\ UNCHANGED <<disk, fsLen, fresh, backup>> /\ UNCHANGED ui

\* (wrong) the boundary moves before the file system
TrialThenBoundary ==
    /\ pc = "trial"
    /\ pc' = IF plan.action = "shrink" THEN "boundary" ELSE "growfs"
    /\ UNCHANGED <<disk, fsLen, fresh, backup>> /\ UNCHANGED ui

\* ntfsresize --no-action
Trial ==
    /\ pc = "trial"
    /\ pc' = IF plan.action = "shrink" THEN "shrinkfs" ELSE "growfs"
    /\ UNCHANGED <<disk, fsLen, fresh, backup>> /\ UNCHANGED ui

\* ntfsresize --size: 16 MiB less than the partition will have.
ShrinkFs ==
    /\ pc = "shrinkfs"
    /\ plan.size > NtfsSlack
    /\ fsLen' = [fsLen EXCEPT ![plan.part.num] = plan.size - NtfsSlack]
    /\ pc' = "boundary"
    /\ UNCHANGED <<disk, fresh, backup>> /\ UNCHANGED ui

\* parted resizepart, to the end computed from the plan.
MoveBoundary ==
    /\ pc = "boundary"
    /\ LET newLen == IF plan.action = "shrink" THEN plan.size
                                               ELSE plan.part.len + plan.size
           moved == [Current EXCEPT !.len = newLen]
           others == disk.parts \ {Current}
       IN  /\ \A p \in others : Disjoint(moved, p)
           /\ disk' = WithParts(others \cup {moved})
    /\ pc' = CASE plan.action = "shrink" -> "append"
               [] plan.action = "extend" /\ plan.part.fs = "ntfs" -> "trial"
               [] OTHER -> "growfs"
    /\ UNCHANGED <<fsLen, fresh, backup>> /\ UNCHANGED ui

\* ntfsresize or resize2fs without a size: fill the partition.
GrowFs ==
    /\ pc = "growfs"
    /\ fsLen' = [fsLen EXCEPT ![plan.part.num] = Current.len]
    /\ pc' = "done"
    /\ UNCHANGED <<disk, fresh, backup>> /\ UNCHANGED ui

\* The region prepare_advanced_target hands to append_aero7_partitions.
RegionFirst ==
    CASE plan.action = "free" -> plan.region.start
      [] plan.action = "reuse" -> plan.part.start
      [] plan.action = "shrink" -> AlignUp(plan.part.start + plan.size)
RegionLast ==
    CASE plan.action = "free" -> plan.region.start + plan.size - 1
      [] plan.action = "reuse" -> Next1(plan.part) - 1
      [] plan.action = "shrink" -> Next1(plan.part) - 1

FreeNums == {n \in 1..MaxNum : \A p \in disk.parts : p.num # n}
LeastNum(S) == CHOOSE n \in S : \A m \in S : n <= m

AppendedEsp == [num |-> LeastNum(FreeNums), start |-> EspStart(RegionFirst),
                len |-> EspSectors, type |-> "esp", fs |-> "none", uuid |-> fresh]
AppendedRoot == [num |-> LeastNum(FreeNums \ {LeastNum(FreeNums)}),
                 start |-> RootStart(RegionFirst),
                 len |-> RootSectors(RegionFirst, RegionLast),
                 type |-> "root", fs |-> "none", uuid |-> fresh + 1]

\* sfdisk --append of the two Aero7 partitions, after the same with --no-act.
AppendParts ==
    /\ pc = "append"
    /\ \E m, n \in FreeNums : m # n
    /\ disk' = WithParts(disk.parts \cup {AppendedEsp, AppendedRoot})
    /\ fresh' = fresh + 2
    /\ pc' = "formatEsp"
    /\ UNCHANGED <<fsLen, backup>> /\ UNCHANGED ui

\* The partitions the run has just made: found by their start sectors in the
\* code (wait_for_partitions_at_starts), by their new identity here.
Made(type) == CHOOSE p \in disk.parts :
                 p.type = type /\ p.uuid \in {fresh - 1, fresh - 2}

Formatted(p, fs) == WithParts((disk.parts \ {p}) \cup {[p EXCEPT !.fs = fs]})

\* wipefs and mkfs.fat
FormatEsp ==
    /\ pc = "formatEsp"
    /\ disk' = Formatted(Made("esp"), "vfat")
    /\ fsLen' = [fsLen EXCEPT ![Made("esp").num] = Made("esp").len]
    /\ pc' = "formatRoot"
    /\ UNCHANGED <<fresh, backup>> /\ UNCHANGED ui

\* wipefs and mkfs.ext4
FormatRoot ==
    /\ pc = "formatRoot"
    /\ disk' = Formatted(Made("root"), "ext4")
    /\ fsLen' = [fsLen EXCEPT ![Made("root").num] = Made("root").len]
    /\ pc' = "done"
    /\ UNCHANGED <<fresh, backup>> /\ UNCHANGED ui

\* CommandRunner.run raises: main reports "Stopped safely".
CommandFails ==
    /\ pc \in Writing \cup {"backup"}
    /\ pc' = "failed"
    /\ UNCHANGED <<disk, fsLen, fresh, backup>> /\ UNCHANGED ui

BackendStep ==
    \/ Validate \/ Refuse \/ BackUp \/ Wipe \/ Label \/ DeletePart
    \/ CheckFs \/ Trial \/ ShrinkFs \/ MoveBoundary \/ GrowFs
    \/ AppendParts \/ FormatEsp \/ FormatRoot \/ CommandFails

-----------------------------------------------------------------------------
(* The rest of the world.                                                  *)

\* Power is lost or the machine restarted: the live system and everything
\* under /run is gone.
PowerLoss ==
    /\ pc # "idle"
    /\ pc' = "idle" /\ listing' = NoDisk /\ plan' = NoPlan
    /\ seen' = NoDisk /\ backup' = {}
    /\ UNCHANGED <<disk, fsLen, fresh, seenFs, runs, env>>

\* Another tool, for example in the recovery shell, works on the disk.
OtherTool ==
    /\ pc \in {"listed", "planned"} /\ env < MaxEnv
    /\ env' = env + 1
    /\ \/ \E p \in disk.parts :     \* deleted
            /\ disk' = WithParts(disk.parts \ {p})
            /\ fsLen' = [fsLen EXCEPT ![p.num] = 0]
            /\ UNCHANGED fresh
       \/ \E p \in disk.parts :     \* replaced by another of the same shape
            /\ disk' = WithParts((disk.parts \ {p}) \cup {[p EXCEPT !.uuid = fresh]})
            /\ fresh' = fresh + 1
            /\ UNCHANGED fsLen
       \/ \E r \in FreeRegions(disk.parts, disk.total) :  \* created
            /\ FreeNums # {}
            /\ LET n == LeastNum(FreeNums)
               IN  /\ disk' = WithParts(disk.parts \cup
                                {[num |-> n, start |-> r.start, len |-> 1,
                                  type |-> "data", fs |-> "ext4", uuid |-> fresh]})
                   /\ fsLen' = [fsLen EXCEPT ![n] = 1]
            /\ fresh' = fresh + 1
       \/ /\ disk' = [disk EXCEPT !.flags = {"mounted"}]
          /\ UNCHANGED <<fsLen, fresh>>
    /\ UNCHANGED <<listing, plan, pc, seen, seenFs, backup, runs>>

\* The device path comes to name another disk.
SwapDisk ==
    /\ pc \in {"listed", "planned"} /\ env < MaxEnv
    /\ env' = env + 1
    /\ \E i \in {d.ident : d \in Disks} \ {disk.ident} :
         disk' = [disk EXCEPT !.ident = i]
    /\ UNCHANGED <<fsLen, fresh, listing, plan, pc, seen, seenFs, backup, runs>>

Next == List \/ Choose \/ BackendStep \/ PowerLoss \/ OtherTool \/ SwapDisk

Spec == Init /\ [][Next]_vars

-----------------------------------------------------------------------------
(* Properties.                                                             *)

TypeOK ==
    /\ disk \in DiskType /\ {listing, seen} \subseteq DiskType \union {NoDisk}
    /\ fsLen \in [1..MaxNum -> Nat] /\ seenFs \in [1..MaxNum -> Nat]
    /\ fresh \in Nat /\ runs \in Nat /\ env \in Nat
    /\ pc \in Writing \cup Resting \cup {"backup"}
    /\ backup \subseteq SUBSET Part
    /\ listing = NoDisk <=> pc = "idle"
    /\ plan = NoPlan <=> pc \in {"idle", "listed"}

\* A run is past its checks, or over.
RunOrOver == pc \in Writing \cup {"backup", "done", "failed"}

\* An advanced run never touches a partition other than the one the user was
\* shown and chose, not its table entry and not its file system, at whatever
\* command it fails and whatever other tools did between the listing and the
\* validation ("Existing EFI and unrelated partitions are not formatted").
OthersUntouched ==
    RunOrOver /\ plan.action # "whole" =>
      \A p \in seen.parts :
        p # plan.part => p \in disk.parts /\ fsLen[p.num] = seenFs[p.num]

\* A file system never extends past its partition: shrinking moves the file
\* system first and the boundary second, growing the other way round, so that
\* a failure or power loss between the two leaves both usable.
FsInsidePartition ==
    \A p \in disk.parts : fsLen[p.num] <= p.len

\* The partition that Shrink or Extend works on is still there afterwards, at
\* its old start with its old identity and a file system in it.
ResizeKeepsPartition ==
    RunOrOver /\ plan.action \in {"shrink", "extend"}
              /\ plan.part \in seen.parts /\ seenFs[plan.part.num] > 0 =>
      \E p \in disk.parts :
        /\ p.num = plan.part.num /\ p.start = plan.part.start
        /\ p.uuid = plan.part.uuid /\ fsLen[p.num] > 0

\* What the person keeps survives every run, also one that fails or is cut off:
\* the partitions the plan does not name and the one it resizes.
PartitionsSurvive == OthersUntouched /\ ResizeKeepsPartition

\* The table on the disk is well formed after every single command: no two
\* partitions overlap, no number is used twice, nothing lies past the end.
TableAlwaysSound == TableSound(disk.parts, disk.total)

\* Whenever an advanced run has changed the table, the saved copy is the table
\* as it was before the first change.
BackupIsOriginal ==
    pc \in Writing /\ plan.action # "whole" /\ disk.parts # seen.parts =>
      backup = {seen.parts}

\* A run changes only the disk whose identity was listed and confirmed, and
\* never one with a mounted partition, although the device path may have come
\* to name another disk since.
OnlyConfirmedDisk ==
    RunOrOver /\ disk.parts # seen.parts =>
      /\ disk.ident = listing.ident /\ disk.total = listing.total
      /\ disk.flags = {}

\* A finished installation has its ESP and root: both formatted, the ESP of
\* the planned size, and for the advanced layouts a root of at least 16 GiB
\* that with the ESP stays inside the space that was free or chosen.
InstalledLayout ==
    pc = "done" /\ plan.action \in InstallActions =>
      \E esp, root \in disk.parts \ seen.parts :
        /\ esp.type = "esp" /\ esp.fs = "vfat" /\ fsLen[esp.num] = esp.len
        /\ root.type = "root" /\ root.fs = "ext4" /\ fsLen[root.num] = root.len
        /\ plan.action # "whole" =>
             /\ esp.len = GiB /\ root.len >= MinRoot
             /\ \A q \in {esp, root}, p \in seen.parts :
                  p = plan.part \/ Disjoint(q, p)

\* Where the drive page offers what the backend refuses on the disk as it was
\* listed: anything but the whole disk without a GPT; Format and Shrink of a
\* partition off the alignment, where the two new partitions may not fit; and
\* Shrink of an EFI partition that holds NTFS, as can_shrink looks at the file
\* system only.
OfferedInVain(p, d) ==
    \/ p.action # "whole" /\ d.pttype # "gpt"
    \/ p.action \in {"reuse", "shrink"} /\ (p.part.start % Align) # 0
    \/ p.action = "shrink" /\ p.part.type = "esp"

\* The interface and the backend agree everywhere else: whatever the drive page
\* lets through is accepted as long as the disk is still as listed.
AcceptedUnlessChanged ==
    pc = "planned" /\ disk = listing /\ ~OfferedInVain(plan, disk) =>
      ValidPlan(plan, disk)

=============================================================================
