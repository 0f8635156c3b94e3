----------------------------- MODULE DiskListing -----------------------------
(***************************************************************************)
(* Which disks the backend lists and accepts: the rows of lsblk put into a *)
(* tree (nest_block_devices), the file systems mounted anywhere below a    *)
(* disk, and the sources of the live system with everything they are made  *)
(* of (live_sources).  The same conditions are asked again by validate_plan*)
(* and validate_storage_action, of the devices as they are by then: a      *)
(* person at the recovery console may have mounted something meanwhile.    *)
(***************************************************************************)
EXTENDS Naturals, FiniteSets

CONSTANTS
    Disks,       \* whole disks
    Others,      \* partitions and mapped devices
    Unmounted,   \* the mount point that has no device of its own
    MaxMounted   \* bound: devices mounted at the console at one time

Devices == Disks \union Others

MountPoints == {"/run/archiso/bootmnt", "/boot", "/"}

\* parent: the device lsblk names as PKNAME, a disk its own; fit: the disks with
\* a supported path that are neither read-only nor removable and large enough;
\* sources: what findmnt names for the mount points of the live system.
MachineType ==
    [parent : [Devices -> Devices], fit : SUBSET Disks,
     sources : [MountPoints -> Devices \union {Unmounted}]]

VARIABLES
    machine,
    mounted,    \* the devices with mount points
    listed      \* the disks on the drive page

listingVars == <<machine, mounted, listed>>

\* The device with everything it is on, up to its disk: lsblk --inverse.
Ancestry(d) ==
    LET up[i \in 0 .. Cardinality(Others)] ==
            IF i = 0 THEN {d} ELSE up[i - 1] \union {machine.parent[e] : e \in up[i - 1]}
    IN  up[Cardinality(Others)]

\* flatten_devices of the nested rows: a device with all that is below it.
Flattened(d) == {e \in Devices : d \in Ancestry(e)}

\* live_sources
LiveSources ==
    UNION {Ancestry(machine.sources[m]) :
               m \in {k \in MountPoints : machine.sources[k] # Unmounted}}

\* (wrong) the disk's own mount points are the only ones looked at
HasMountsItself(d) == d \in mounted

\* device_has_mounts
HasMounts(d) == Flattened(d) \intersect mounted # {}

\* What candidate_disks lists and both validations accept.
Acceptable(d) ==
    /\ d \in machine.fit
    /\ Flattened(d) \intersect LiveSources = {}
    /\ ~HasMounts(d)

\* list-disks
ListDisks ==
    /\ listed' = {d \in Disks : Acceptable(d)}
    /\ UNCHANGED <<machine, mounted>>

\* The devices of the live system, which are mounted all the time.
LiveMounts == {machine.sources[m] : m \in MountPoints} \ {Unmounted}

\* Somebody mounts or unmounts a device at the console.
ChangeMounts ==
    /\ \E d \in Others \ LiveMounts : mounted' \in {mounted \union {d}, mounted \ {d}}
    /\ mounted' # mounted /\ Cardinality(mounted' \ LiveMounts) <= MaxMounted
    /\ UNCHANGED <<machine, listed>>

\* Conjunct of the type invariant of the installation run.
ListingOK ==
    /\ machine \in MachineType
    /\ mounted \subseteq Devices /\ listed \subseteq Disks
=============================================================================
