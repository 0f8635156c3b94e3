----------------------------- MODULE InstallRun -----------------------------
(***************************************************************************)
(* One run of install() in backend/aero7_install_backend.py from the final *)
(* confirmation to the report of success: the checks in front of the first *)
(* change, the disk stage, the mounts, the pieces of the installed system  *)
(* in the order they are written, and the finally clause.  Any command may *)
(* fail at any place, and power may be lost.                               *)
(*                                                                         *)
(* What the disk stage does to the partitions is the subject of module     *)
(* StorageTransaction; here a disk has a table whose every change counts.  *)
(* The Aero7 packages are installed by the steps of PackageAdapter, and    *)
(* which disks are listed and accepted is in DiskListing.                  *)
(* Before the run, storage actions of the drive page may have changed      *)
(* tables and saved them under the name the run uses as well.              *)
(***************************************************************************)
EXTENDS PackageAdapter, DiskListing

CONSTANTS
    Stations,     \* <<image, machine>>: what is started on what
    MaxActions    \* bound: changes of a table in front of the run

ASSUME DisksAssumption ==
    /\ Disks # {} /\ MaxActions \in Nat
    /\ Stations \subseteq Shares \X MachineType

\* Besides what it carries for the adapter, whether the checks of the live system
\* pass: the embedded base packages are intact or, online, a network with name
\* service is there; and all required tools are.
Images == [source : BOOLEAN, tools : BOOLEAN]

\* The pieces of an installed system, in the order install() writes them.
Pieces == {"mountpoint", "base", "fstab", "features", "bootctl", "entry",
           "settings", "payload", "plymouth", "units", "source"}

NoCopy == [disk |-> "none", table |-> 0]

VARIABLES
    image,      \* besides share
    table,      \* [Disks -> Nat]: how often the table was changed
    saved,      \* aero7-partition-table-before.sfdisk on the live system
    disk, layout,  \* the plan
    before,     \* (history) the plan's table at the final confirmation
    pc,         \* the next step of install()
    mounts,     \* which of "root" and "boot" are mounted
    written,    \* the pieces on the new system
    dirty,      \* those that a loss of power may still take away
    copy,       \* aero7-partition-table-before.sfdisk on the new system
    failed,     \* an exception is on its way through the finally clause
    reported,   \* the program saw exit code 0
    lost        \* (history) the pieces that a loss of power has taken away

plan == <<disk, layout, before>>
target == <<written, dirty, copy>>
outcome == <<failed, reported, lost>>
given == <<image, adapterVars, listingVars>>
vars == <<given, table, saved, plan, pc, mounts, target, outcome>>

Init ==
    /\ AdapterInit /\ image \in Images
    /\ \E s \in Stations : share = s[1] /\ machine = s[2]
    /\ mounted = LiveMounts
    /\ listed = {}
    /\ table = [d \in Disks |-> 0]
    /\ saved = NoCopy
    /\ disk \in Disks /\ layout = "none" /\ before = 0
    /\ pc = "drivePage"
    /\ mounts = {} /\ written = {} /\ dirty = {} /\ copy = NoCopy
    /\ failed = FALSE /\ reported = FALSE /\ lost = {}

Goto(from, to) == pc = from /\ pc' = to

ChangeTable == table' = [table EXCEPT ![disk] = @ + 1]

SaveTable == saved' = [disk |-> disk, table |-> table[disk]]

-----------------------------------------------------------------------------
(* The drive page.                                                         *)

page == <<image, adapterVars, table, saved, plan, pc, mounts, target, outcome>>

\* refreshDisks
Refresh == pc = "drivePage" /\ ListDisks /\ UNCHANGED page

\* Nothing mounts by itself in the live system; a person may, at the console.
\* What is mounted behind the last check is not looked at again.
AtTheConsole == pc \in {"drivePage", "validate"} /\ ChangeMounts /\ UNCHANGED page

\* apply_storage_action: the disk is checked again, the table is saved, and
\* changed unless the action stops before its first change.
StorageAction ==
    /\ pc = "drivePage" /\ table[disk] < MaxActions
    /\ disk \in listed /\ Acceptable(disk)
    /\ SaveTable
    /\ table' \in {table, [table EXCEPT ![disk] = @ + 1]}
    /\ UNCHANGED <<given, plan, pc, mounts, target, outcome>>

\* Another disk is selected.
Select ==
    /\ pc = "drivePage"
    /\ disk' \in listed \ {disk}
    /\ UNCHANGED <<given, table, saved, layout, before, pc, mounts, target, outcome>>

\* The final confirmation of a listed disk, and writeInstallPlan's layout.  The
\* rows of the page are not looked at again.
Confirm ==
    /\ Goto("drivePage", "validate")
    /\ disk \in listed /\ listed' = {}
    /\ layout' \in {"whole", "advanced"}
    /\ before' = table[disk]
    /\ UNCHANGED <<image, adapterVars, machine, mounted, table, saved, disk, mounts,
                   target, outcome>>

-----------------------------------------------------------------------------
(* Checks in front of the first change.                                    *)

quiet == <<given, table, saved, plan, mounts, target, outcome>>

\* The guard token, the confirmed device, the disk as it is now, validate_plan.
Validate ==
    /\ Goto("validate", "checkSource")
    /\ Acceptable(disk)
    /\ UNCHANGED quiet

\* (wrong) only the online image has something to check
CheckSourceOnline ==
    /\ Goto("checkSource", "checkTools")
    /\ share.variant = "online" => image.source
    /\ UNCHANGED quiet

\* The embedded base packages, or the network.
CheckSource ==
    /\ Goto("checkSource", "checkTools")
    /\ image.source
    /\ UNCHANGED quiet

FirstWrite == IF layout = "advanced" THEN "prepare" ELSE "wipe"

CheckTools ==
    /\ Goto("checkTools", IF layout = "advanced" THEN "save" ELSE FirstWrite)
    /\ image.tools
    /\ UNCHANGED quiet

\* (wrong) the copy an earlier storage action left is good enough
BackUpOnce ==
    /\ Goto("save", FirstWrite)
    /\ IF saved = NoCopy THEN SaveTable ELSE UNCHANGED saved
    /\ UNCHANGED <<given, table, plan, mounts, target, outcome>>

BackUp ==
    /\ Goto("save", FirstWrite)
    /\ SaveTable
    /\ UNCHANGED <<given, table, plan, mounts, target, outcome>>

\* A check fails, or a command of one does.
Refuse ==
    /\ pc \in {"validate", "checkSource", "checkTools", "save"}
    /\ pc' = "stopped" /\ failed' = TRUE
    /\ UNCHANGED <<given, table, saved, plan, mounts, target, reported, lost>>

-----------------------------------------------------------------------------
(* The disk stage.                                                         *)

diskOnly == <<given, saved, plan, mounts, target, outcome>>

\* wipefs --all
Wipe == Goto("wipe", "partition") /\ ChangeTable /\ UNCHANGED diskOnly

\* sfdisk, the wait for the partitions, mkfs.fat and mkfs.ext4
Partition == Goto("partition", "mountRoot") /\ ChangeTable /\ UNCHANGED diskOnly

\* prepare_advanced_target
Prepare == Goto("prepare", "mountRoot") /\ ChangeTable /\ UNCHANGED diskOnly

\* A command of the disk stage fails, with or without an effect.
DiskStageFails ==
    /\ pc \in {"wipe", "partition", "prepare"}
    /\ pc' = "stopped" /\ failed' = TRUE
    /\ table' \in {table, [table EXCEPT ![disk] = @ + 1]}
    /\ UNCHANGED <<given, saved, plan, mounts, target, reported, lost>>

-----------------------------------------------------------------------------
(* The new system.                                                         *)

still == <<given, table, saved, plan, outcome>>

\* (wrong) a piece is taken for written that is not
WriteOnlyDirty(pieces) ==
    /\ dirty' = dirty \union pieces
    /\ UNCHANGED written

Write(pieces) ==
    /\ written' = written \union pieces
    /\ dirty' = dirty \union pieces

MountRoot ==
    /\ Goto("mountRoot", "copy")
    /\ mounts' = {"root"}
    /\ UNCHANGED still /\ UNCHANGED target

\* shutil.copy2 of the saved table, for the layouts that saved one.
CopyTable ==
    /\ Goto("copy", "mountBoot")
    /\ copy' = IF layout = "advanced" THEN saved ELSE copy
    /\ UNCHANGED still /\ UNCHANGED <<mounts, written, dirty>>

MountBoot ==
    /\ Goto("mountBoot", "base")
    /\ mounts' = {"root", "boot"}
    /\ Write({"mountpoint"})
    /\ UNCHANGED still /\ UNCHANGED copy

\* One step that writes one piece.
Piece(name, next) ==
    /\ Goto(name, next)
    /\ Write({name})
    /\ UNCHANGED still /\ UNCHANGED <<mounts, copy>>

\* pacstrap, and pacman -Q of the base packages on the offline image
Pacstrap == Piece("base", "fstab")

\* (wrong) first boot is enabled as soon as the base system is there
GenfstabEnables ==
    /\ Goto("fstab", "features")
    /\ Write({"fstab", "units"})
    /\ UNCHANGED still /\ UNCHANGED <<mounts, copy>>

Genfstab == Piece("fstab", "features")

\* configure_and_install, step by step ...
AdapterStep ==
    /\ pc = "features" /\ AdapterNext
    /\ UNCHANGED <<image, listingVars, table, saved, plan, pc, mounts, target, outcome>>

\* ... and its return.
ConfigureAndInstall == step = "done" /\ Piece("features", "bootctl")

Bootctl == Piece("bootctl", "entry")

\* blkid, loader.conf and aero7.conf
LoaderEntry == Piece("entry", "settings")

\* hostname, os-release, locale
Settings == Piece("settings", "payload")

CopyPayload == Piece("payload", "plymouth")

ConfigurePlymouth == Piece("plymouth", "units")

\* systemctl: NetworkManager, ufw and aero7-oobe on, sddm off
EnableUnits == Piece("units", "source")

InstallSource == Piece("source", "sync")

\* (wrong) no sync
SyncNothing ==
    /\ Goto("sync", "preserve")
    /\ UNCHANGED still /\ UNCHANGED <<mounts, target>>

Sync ==
    /\ Goto("sync", "preserve")
    /\ dirty' = {}
    /\ UNCHANGED still /\ UNCHANGED <<mounts, written, copy>>

\* A command fails while the new system is written; the piece at hand may be
\* there in part, which counts as missing.
StepFails ==
    /\ pc \in {"mountRoot", "copy", "mountBoot", "sync"} \union (Pieces \ {"mountpoint"})
    /\ failed' = TRUE
    /\ pc' = IF mounts = {} THEN "stopped" ELSE "preserve"
    /\ UNCHANGED <<given, table, saved, plan, mounts, target, reported, lost>>

-----------------------------------------------------------------------------
(* The finally clause.                                                     *)

\* preserve_live_install_logs copies whatever bears the names, a table saved
\* by an earlier storage action included; an OSError is only reported.
Preserve ==
    /\ Goto("preserve", "umount")
    /\ copy' \in IF saved = NoCopy THEN {copy} ELSE {copy, saved}
    /\ UNCHANGED still /\ UNCHANGED <<mounts, written, dirty>>

\* (wrong) success is reported on the way out of a failure as well
UnmountReports ==
    /\ Goto("umount", IF failed THEN "stopped" ELSE "done")
    /\ \/ mounts' = {} /\ dirty' = {}
       \/ UNCHANGED <<mounts, dirty>>
    /\ reported' = TRUE
    /\ UNCHANGED <<given, table, saved, plan, written, copy, failed, lost>>

\* umount -R with check=False; main reports success unless it is unwinding.
Unmount ==
    /\ Goto("umount", IF failed THEN "stopped" ELSE "done")
    /\ \/ mounts' = {} /\ dirty' = {}
       \/ UNCHANGED <<mounts, dirty>>
    /\ reported' = ~failed
    /\ UNCHANGED <<given, table, saved, plan, written, copy, failed, lost>>

\* Whatever had not reached the disk may be lost.
PowerLoss ==
    /\ pc \notin {"drivePage", "off"}
    /\ pc' = "off" /\ mounts' = {} /\ dirty' = {}
    /\ lost' \in SUBSET dirty /\ written' = written \ lost'
    /\ UNCHANGED <<given, table, saved, plan, copy, failed, reported>>

Next ==
    \/ Refresh \/ AtTheConsole \/ StorageAction \/ Select \/ Confirm
    \/ Validate \/ CheckSource \/ CheckTools \/ BackUp \/ Refuse
    \/ Wipe \/ Partition \/ Prepare \/ DiskStageFails
    \/ MountRoot \/ CopyTable \/ MountBoot
    \/ Pacstrap \/ Genfstab \/ AdapterStep \/ ConfigureAndInstall \/ Bootctl \/ LoaderEntry
    \/ Settings \/ CopyPayload \/ ConfigurePlymouth \/ EnableUnits
    \/ InstallSource \/ Sync \/ StepFails
    \/ Preserve \/ Unmount \/ PowerLoss

Spec == Init /\ [][Next]_vars

-----------------------------------------------------------------------------

Copies == [disk : Disks, table : Nat] \union {NoCopy}

\* Type invariant.
TypeOK ==
    /\ PackagesOK /\ ListingOK /\ image \in Images
    /\ table \in [Disks -> Nat]
    /\ saved \in Copies /\ copy \in Copies
    /\ disk \in Disks /\ layout \in {"none", "whole", "advanced"} /\ before \in Nat
    /\ pc \in (Pieces \ {"mountpoint"}) \union
               {"drivePage", "validate", "checkSource", "checkTools", "save", "wipe",
                "partition", "prepare", "mountRoot", "copy", "mountBoot", "sync",
                "preserve", "umount", "done", "stopped", "off"}
    /\ mounts \in SUBSET {"root", "boot"}
    /\ dirty \subseteq written /\ written \subseteq Pieces /\ lost \subseteq Pieces
    /\ failed \in BOOLEAN /\ reported \in BOOLEAN

Running == pc # "drivePage"

\* No table is changed by a run whose image fails a check that comes first, and
\* an advanced layout changes it only once this table of this disk is saved:
\* "The target disk was not changed" is true wherever the backend says so.
ChecksComeFirst ==
    Running /\ table[disk] # before =>
        /\ image.tools /\ image.source
        /\ layout = "advanced" => saved = [disk |-> disk, table |-> before]

\* A disk that carries the live system, or on which anything was mounted when it
\* was last checked, however far below it, is never changed: not by a storage
\* action and not by the run, whatever the page showed.
OnlyIdleDisksChange ==
    [][\A d \in Disks : table'[d] # table[d] =>
          \A e \in mounted \union LiveMounts : d \notin Ancestry(e)]_vars

\* What was reported as installed is on the disk, all of it, even if power is
\* lost right after the report and even if umount failed.
ReportedSurvives == reported => written = Pieces

\* A disk that starts into first-boot setup has everything setup needs, however
\* the run ended: by itself, by a failure with or without its umount, or by a loss
\* of power at any time, also afterwards.  What is missing besides the source is
\* what a loss of power took before it had reached the disk, and nothing else: the
\* unit is enabled behind everything it relies on.
SetupStartsComplete ==
    {"entry", "units"} \subseteq written =>
        written \union lost \in {Pieces, Pieces \ {"source"}}

\* An advanced installation that succeeded carries the table as it was when the
\* run began, not one that an earlier storage action saved.
AdvancedCopyIsCurrent ==
    reported /\ layout = "advanced" => copy = [disk |-> disk, table |-> before]

\* How far the promise of module Installation is kept at each step.
Phase ==
    IF pc = "drivePage" THEN "choosing"
    ELSE IF reported THEN "reported"
    ELSE IF pc \in {"stopped", "off", "done"} THEN "over"
    ELSE IF pc \in {"validate", "checkSource", "checkTools", "save"} THEN "checking"
    ELSE IF written = Pieces /\ dirty = {} /\ ~failed THEN "complete"
    ELSE "installing"

Promise == INSTANCE Installation WITH phase <- Phase, chosen <- disk, changes <- table

\* The run keeps the promise: no disk but the confirmed one changes after the
\* confirmation, none before the checks are over, and success comes last, once,
\* and of a system nothing can take away any more.
KeepsPromise == Promise!Spec

\* A successful installation leaves the saved table of its own disk on it, or
\* none ("copies the pre-change table backup").
CopyIsOfThisDisk ==
    reported /\ copy # NoCopy => copy.disk = disk

\* "A damaged or incomplete offline image must fail while the selected disk is
\* intact": the packages of the second stage are embedded as well.
DamagedImageStopsEarly ==
    Running /\ share.variant = "offline" /\ ~(image.source /\ LocalSetFits /\ BundleFits) =>
        table[disk] = before
=============================================================================
