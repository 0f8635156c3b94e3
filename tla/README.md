# Aero7 Setup: formal models

Aero7 is an Arch-based distribution with an installation medium of its own. Its
core is the setup system: a graphical program (C++/QML) that lets a person pick
a disk and later set up the first account, and a privileged backend (Python)
that checks what was picked, partitions, installs, and prepares the first boot.
This directory holds TLA+ models of that system, TLC configurations that check
them on small instances, and TLAPS proofs of their safety properties for all
values of the constants.

`PROJECT.json` is the index: components, runs, theorems, the source lines each
definition stands for, the hazards of the code, and for each property a mutated
definition that breaks it. Those mutated forms are kept in the modules as operators
marked `(wrong)`; no specification uses them.

    tlc -workers 2 -config MCStorageTransaction.cfg MCStorageTransaction.tla
    tlapm FirstBootProofs.tla

## 1. The system

```
 person --> InstallerController (QML pages, C++) --plan file, pkexec--> backend (Python)
                 ^   ^    rows of list-disks, progress lines, exit code      |
                 |   +------------------------------------------------------+
                 | starts setup (aero7-oobe.service)                         v
            systemd, SDDM <------- units, marks, drop-ins ------- target disk, new system
```

| Part | State it keeps | Operations | Correct when |
|---|---|---|---|
| Disk geometry: `free_regions`, `adjacent_free_region`, the append table | none (pure) | ranges of sectors from a partition list | what is reported free is free, aligned and complete; ESP and root stay inside their region |
| Plans: drive page, `writeInstallPlan`, `validate_plan`, `validate_storage_action` | plan file, disk fingerprint | choose, revalidate | nothing but the chosen, unchanged target is written to |
| Storage transaction: `prepare_advanced_target`, `append_aero7_partitions`, `apply_storage_action` | partition table, file systems, saved table | a list of external commands, any of which may fail | other partitions untouched, table sound, file system inside its partition at every point |
| Disk discovery: `live_sources`, `device_has_mounts`, `candidate_disks` | none (asks `lsblk`, `findmnt`) | list, ask again in both validations | a disk that carries the live system or anything mounted is never changed |
| Installation: `install` | mounts, pieces of the new system, what is not yet on the disk, saved table | checks, disk stage, eleven pieces, sync, `finally` | checks come first; a reported installation is complete and lasting |
| Progress: `ProgressPulse`, `handleBackendEvent`, `ProgressScreen.qml` | stage, percentage, what is shown | milestone, heartbeat, measurement, completion | never goes back, no row full too early |
| First boot: `finalize_oobe`, `handoffToDesktop`, units, cleanup timer | account, password, settings, two marks, enabled units, one-time login | twelve steps, boots, losses of power | completed means applied; it can always be completed; no two sessions |
| Setup program: `FlowState`, `InstallerController`, `DiskScreen.qml` | page, busy flag, timers, rows and selection, backend process and its purpose | clicks, keys, timers, end of the backend | success is shown only after success; the program does not hang |
| Package adapter: `configure_and_install` | installed packages, cached package files and signatures | check the image, remove conflicts, install, verify | success means every feature package is there, nothing that was not declared, and nothing of an image that fails its checks |
| Diagnostics: `aero7-collect-logs` | log folder with its owners and manifest, lock | collect, from setup, two timers and an icon | runs do not mix; what a killed run left to root is repaired; setup is never stopped by it |
| Build: `prepare-offline-packages.sh`, `build-iso.sh` | package closure, image | resolve, build, publish | a published image is complete |

How they interact. The program writes a plan under `/run/aero7`, starts one
backend process through `QProcess`, reads lines of JSON from it and learns of its
end by a signal, which it interprets with a field of its own (`m_backendPurpose`).
The backend trusts nothing in the plan: it lists the disks again and compares
fingerprints. The backend leaves the new system to systemd: it enables units and
writes the marks that decide, boot after boot, who gets the screen.

What is hard to test here: another tool changing the disk between listing and
validation; failure or power loss between any two commands; backend events that
arrive on another page than the one that asked; a confirmation that names one
row while another gets selected; two timers racing the person; setup broken off
and done again, with what the first run left behind; rounding and alignment at
the ends of regions; a log folder that two users write and a kill leaves to one of them.
`PROJECT.json` lists these at their lines under `hazards`.

## 2. Modules

| Module | Models | Used by |
|---|---|---|
| `DiskGeometry` | the sector arithmetic, as operators | all disk modules |
| `FreeRegionScan` | the loop of `free_regions` as a state machine | `MCFreeRegionScan` |
| `DiskPlan` | plans the page can prepare, plans the backend accepts | `StorageTransaction` |
| `StorageTransaction` | a disk from listing to the last `mkfs`, with interference | `MCStorageTransaction` |
| `DiskListing` | which disks are listed and accepted, with mounts at the console | `InstallRun` |
| `PackageAdapter` | `configure_and_install` with the embedded set, the bundle and pacman | `InstallRun` |
| `InstallRun` | the drive page and one `install()` from confirmation to report | `MCInstallRun` |
| `Installation` | abstract: what an installation promises | implemented by `InstallRun` |
| `InstallProgress` | the pulses and the rows of the page | |
| `FirstBoot` | first boot to first password login | |
| `SetupFlow` | page order of `FlowState` | `SetupController` |
| `SetupController` | the program in its two live modes, with the backend process | `MCSetupController` |
| `LogCollector` | the log folder and the runs that collect into it | |
| `DiskGeometryProofs`, `FreeRegionScanProofs`, `StorageTransactionProofs`, `InstallRunProofs` (with the adapter and the listing), `InstallProgressProofs`, `FirstBootProofs`, `SetupControllerProofs`, `LogCollectorProofs` | theorems about the module named | |

**DiskGeometry.** `AlignUp`, `FreeRegions` and so on carry the names of the Python
functions. `FreeRegions` is a closed form (one gap in front of each partition and
one behind the last, measured from the furthest end so far) because the other
modules evaluate it in guards. The run `free_region_scan` checks that the loop
computes the same set.

**DiskPlan** has both sides of the contract between page and backend:
`OfferedPlans` from the C++ and QML, `ValidPlan` from the Python. Partitions carry
the fields that the backend compares; `uuid` stands for the pair of identifiers.

**StorageTransaction.** `pc` is the next external command. A plan takes its own
path through the commands: `FirstWrite` and the `pc'` of each action follow
`prepare_advanced_target` and `apply_storage_action` line by line. `fsLen` is the
length of the file system in each partition, `backup` the file
`aero7-partition-table-before.sfdisk` on the live medium. `OtherTool` and
`SwapDisk` are the recovery shell and a device path that comes to name another
disk; they act between listing and validation. External commands do what they are
told; of `parted` it is assumed that it refuses a boundary overlapping another
partition. A single command changes the table at once.

**DiskListing.** A machine is a tree of devices (the `PKNAME` of `lsblk`), the disks
that are otherwise fit, and the devices `findmnt` names for the three mount points
of the live system. `Ancestry` and `Flattened` are the two directions in which the
code walks the tree; `Acceptable` is the one condition that `candidate_disks`,
`validate_plan` and `validate_storage_action` share. `ChangeMounts` is a person at
the recovery console.

**PackageAdapter.** `share` is what the image carries; each kind of fault in it makes
one check fail. `step` is the position in `configure_and_install`, with the branch
for the offline and the online variant. pacman is external: a transaction happens as
a whole or not at all, and a file with a signature is accepted only if the
signature is that of the file.

**InstallRun** extends both of them. It takes the disk stage as three changes of a
table and looks at what surrounds it: which checks precede it, what is
mounted, which pieces of the new system are there (`written`), which of them a
loss of power can take away (`dirty`), which of them one has taken (`lost`, a history
variable), and the `finally` clause that runs on
success and failure alike. Each piece is the range of lines up to the next one; the
piece `features` is the adapter's steps (`AdapterStep`). In front of it the drive page
lists, selects and changes disks.

**Installation** is the promise in six phases: the drive page may change any disk; from the
confirmation on only the confirmed one changes, and only behind the checks; success
is reported once, last, and of a system nothing can take away. `Promise` in
`InstallRun` maps `pc`, `written`, `dirty` and `reported` to the phase.

**InstallProgress** models `round()` with its ties to the even neighbour, and the
table of pulses of `install()` with its numbers. Between two lines of JSON nothing
can be lost or reordered (a pipe), so emission and display are one step.

**FirstBoot.** `step` is the position in `finalize_oobe`; the form in front of it
and the handoff behind it are steps too. Boot, SDDM and the timer are external
and modelled from the unit files the code writes: a timer that has elapsed stays
active until the next boot, and starting an active timer does nothing.

**SetupController.** One action per slot of `InstallerController` and per control
of the drive page. The `QProcess` is explicit: `start` does nothing while a process
runs, the end is seen in a later step, and what it means depends on `purpose` at
that time. A process, whatever its command, may also start after the three seconds of `waitForStarted`
(`LateStart`): by then its plan is removed and its purpose forgotten, and the page has
gone on. The backend's work is a single step that succeeds or fails.

**LogCollector.** One action per stretch of the script between two points at which a
kill makes a difference. Files are grouped by who writes them (`Sections`) and
each has an owner, because the one thing that can go wrong is an owner: everything
is created with `umask 077`, by root or by the user, and given to the user by three
chowns. A command that fails does not end the script (`set -uo pipefail`, no `-e`); only
the redirection to the lock file does. `GiveAway` is the tester who takes the folder
off the desktop, as its README asks.

## 3. Runs

| Run | Instance | States | What it shows |
|---|---|---|---|
| `free_region_scan` | every sorted table of up to 3 partitions, starts 1..8, lengths 1..4, three disk sizes, alignment 3 | 70 805 | reported ranges are free, apart, inside the usable area, and nothing aligned and free is missed |
| `storage_transaction` | 5 disks, 2 backend runs, 1 interference | 206 077 | types and seven properties of section 1, for every plan the page offers and a failure after any command |
| `first_boot` | 2 names, 1 system account, 2 failures, 2 losses of power | 11 808 | four safety properties and that setup completes |
| `install_progress` | the real table of pulses | 611 | nothing goes back, no row is full early |
| `install_run` | 2 disks and the stick, with partitions and a mapped device, 3 machines, sound images and one with each fault, 1 storage action per disk, 1 mount | 3 859 722 | checks first, idle disks only, success is complete and lasting, setup starts with everything it needs but for what a loss of power took; `InstallRun` implements `Installation` |
| `setup` | 2 partitions, 3 backend requests, late starts of any command, countdown 3 | 658 965 | types, four safety and two liveness properties of the program |
| `log_collector` | setup's run, the system timer, the session; 2 kills, losses of power or removals | 104 080 | one at a time, whole behind a system run, no run shut out, whole again and again |
| `cleanup_timer`, `hand_over`, `table_copy`, `damaged_image`, `confirmed_row` | as above | | violations, see section 5 |

The runs of the storage transaction, the installation and the setup program check
`TypeOK` as well. That of the other four modules is part of an invariant proved in
section 4.

Why the bounds suffice.

* *Free regions.* The loop looks at one partition and a cursor; with three
  partitions there is one nested in another, one behind both, and one past the
  usable end. An alignment of 3 gives every remainder on both sides.
* *Storage.* One MiB is 2 sectors, so that partitions off the alignment exist. The
  five disks are: Windows with free space behind it; an ext4 partition off the
  alignment between free ranges; a partition smaller than the alignment right
  behind NTFS; a disk with an MBR; an EFI partition that holds NTFS. Two runs let a storage action precede an
  installation or another action. One interference is enough to make any plan
  stale. Partition numbers go up to 6, more than two runs can use.
* *First boot.* Two failures and two losses of power break setup off twice and
  still disturb the third run. Two names tell a repeated name from a new one.
* *Installation.* One storage action on each of two disks is what it takes to have
  a saved table that is of the wrong disk or out of date.
  The machines of `MCInstallRun` were started from a stick that may be listed itself,
  from a copy in memory, and from an image in a device inside a partition of a
  disk. Images differ from a
  sound one of each variant in one thing at a time: each fault is caught by a
  check of its own, and the first check that fails ends the run.
* *Log collector.* The runs differ in their user only, and a lock has one holder: a
  third run adds one more that waits. Two disturbances let a run be killed in what
  an earlier kill had left. A further system run repairs everything, so more add nothing.
* *Setup.* Two partitions so that one can be named and another selected; three
  requests so that one can be dropped while another runs and a third follows.

Deadlock is not checked where the system really stops: a scan that has returned,
an installation that is over, a program that is gone, a disk whose bounds are used
up. It is checked in `FirstBoot`, where a machine can always be restarted.

**Fairness.** `FirstBoot`: the steps of `finalize_oobe`, the handoff, a boot and the
cleanup timer go on (weak fairness: they are processes of systemd that nothing
disables for good); a machine on which setup is stuck is restarted, as its screen
offers nothing else; a person who is asked again and again gives the same name
again some time (strong fairness: being asked is interrupted by restarts).
`SetupController`: timers of the Qt event loop fire, the backend reads its plan and
ends, its end is delivered, a reboot that was asked for happens. Nothing is assumed
of the person. `LogCollector`: a run that was started goes on. Nothing makes a system
run get the lock (30 seconds of waiting may always fall into a session's run), so
`WholeAgain` has that as its premise. That the backend ends is an assumption: `CommandRunner.run` has no
timeout of its own.

## 4. Proofs

Theorems are about every value of the constants that satisfies the named
assumption. Each safety proof has three parts: the initial states satisfy an
inductive invariant, every action preserves it, and it implies the property.

**DiskGeometryProofs** (from `GeometryAssumption`: one GiB and the least root are
multiples of the alignment). `AppendTableFitsRegion`: ESP and root cut from an accepted region lie
inside it and apart. `AlignedRegionAccepted`: an aligned region of 17 GiB is never
refused, so the page's rule suffices for free space. `FreeRegionsAreFree`: every
region of the closed form is aligned, inside the usable area, and shares no sector
with a partition. `FreeRegionsStartApart`: no two of them start at the same sector, so
`adjacent_free_region` means one region. The facts about `AlignUp` (least multiple,
idempotent) are lemmas.

**FreeRegionScanProofs** (from `ScanAssumption`: tables are sorted by start).
`RegionsUsable` is not inductive: a region in front of a partition is free
of those behind it only because of the order, and of those before it only because
the cursor is behind them. `ScanInv` adds `CursorCovers`: the partitions visited and,
while the scan goes on, the regions reported all end at or before the cursor. Theorems: `ScanInvariant`,
`ScanRegionsUsable`, `ScanRegionsDisjoint`. Completeness (`ScanMissesNothing`) needs the other
half: an aligned free MiB is in a region already or still ahead of the cursor
(`RunsCovered`). `ScanComputesClosedForm` says that the loop returns what `FreeRegions`
says: at each partition the cursor is that of the partitions in front of it (`ScanForm`),
and those are the ones the closed form looks at, up to gaps that are empty (`GapsAgree`).
With it, what is proved of `FreeRegions` is proved of the code's loop.

**StorageTransactionProofs** (from `StorageAssumption`: the disks carry sound tables, as
partitioning tools leave them; and `GeometryAssumption`). For any disks, sizes, and any
number of runs, failures and interferences. `StorageInv` has five parts besides the
property itself (`Survival`). `World`: the table is sound, the numbers and identifiers are
apart, each file system is inside its partition. `Offer`: the plan is one the page offers for
the disk it listed. `Trust`: past the checks the plan is valid for the disk as it was
*seen*, which is the one at the path, and the saved table is that one's.
`Progress`, the core: at each command, how far table and file systems are from what was seen;
between the resizing of a file system and that of its partition this is exact, and it is
what makes `FsInsidePartition` hold in between. `Made2`: the two new partitions and how far they
are formatted. Theorems: `StorageTypeCorrect`, `KeptPartitionsSurvive`,
`NoFileSystemOutgrows`, `TableStaysSound`, `BackupIsOfTheOriginal`,
`OnlyTheConfirmedDisk`, `InstallationHasItsPartitions`. `UnchangedPlansAreAccepted` is
a fact about the two sides of the contract: for every offered plan, arithmetic on aligned regions
shows each condition of `ValidPlan`; the invariant gives only that the table is sound.

**InstallRunProofs** (from `DisksAssumption` and `AdapterAssumption`). For any set of disks,
devices, packages and images. The adapter first: `ChecksPassed` says what each check leaves
behind for later steps, `EmbeddedLast` that embedded packages come all at once and
behind the published ones, `AskedFor` what `pacman -Q` has confirmed by then; from these
follow `AdapterCompletes` and `ImageIsChecked`. That a transaction brings along
only known packages is about a recursive function; a least counterexample
stands for the induction (`DependenciesAreNames`). The run: `DiskIsIdle` (nothing on the
chosen disk is mounted from the second look to the last change) gives the action property
`OnlyIdleDisksAreChanged`; `ChecksHold` gives `ChecksAreFirst` and, with `CopyIsOurs`, `CopyIsCurrent`;
`PiecesInOrder` and `SuccessIsLast` relate `pc`, `written`, `dirty` and `failed` and give
`ReportIsTrue` and `SetupFindsEverything`; the latter also speaks of every loss of power,
behind which `lost` has what is missing. `RunTypeCorrect` is needed by all of them.
`RunKeepsPromise`: with these invariants every `pc` has one phase (`PhaseOfStep`), and each
action of `Next` is a step of `Installation` between the phases of its two ends,
or leaves phase and tables alone.

**FirstBootProofs** (from `UsersAssumption`). The properties speak of the end of a
run that may be the third one; `FirstBootInv` says for every step what the earlier
ones have left. `Owned`: the note `pending-user` never names a system account, so
that accepting a pending name is safe. `Progress`: password, settings and desktop
belong to the name of *this* run from their step on. `Marked`: after the mark no run
starts again. `Switched`: SDDM is enabled only behind the disabling of setup.
`Armed`: the timer is active from `armTimer` to the handoff. Theorems:
`FirstBootInvariant`, `NoSystemPassword`, `CompletionIsTrue`, `OneSessionEnabled`,
`HandoffPasses`.

**InstallProgressProofs** (from `PulsesAssumption`, what `__post_init__` asserts and
what must hold between neighbouring pulses). `Round` is monotone; hence a pulse is;
hence with `ProgressInv`, which says that what is shown is the last emission of
this or the previous pulse, the bar is. Theorems: `ProgressInvariant`,
`MonotoneProgress`, `FullRowsTheorem`. The run checks the real table, for which TLC
evaluates the assumption.

**SetupControllerProofs** (from `SetupAssumption`: a countdown that starts above zero). For any
partitions, any offers of the rows and any number of backend requests, any of which may start late. None of the properties is inductive: what the end of the process does depends on
the page and on `purpose`. `Asked`: whatever the program waits for, it is busy, a process is
there, and the page is the one of the work. `Answers`: what the process is, also when nobody waits for it; a
storage action that nobody waits for has no plan and so cannot end well. `PlanIsActive`:
a plan with a password is the active one. `TimersOfPage`: a timer runs on its page only.
Lemma `Shapes` sorts every step into eight kinds, so that each part has few cases.
Theorems: `SetupTypeCorrect`, `TargetIsShown`, `PlanIsRemoved`.
`SuccessComesAfterWork` and `FormsAreChecked` need more, and nothing is assumed of the
backend for it: `WorkDone` (what page, hand-over and restart tell is done) and
`DriverIsAwaited` (a driver that did start in time is waited for until it has ended). The one
step that leads to the restart page with nothing installed is the end of a `load-driver` that started late:
the code takes it for the end of an installation (section 5). `SuccessIsReal` names it and lets
nothing else pass.

**LogCollectorProofs** (from `RunsAssumption`; for any number of runs and
disturbances). `OneCollects` needs that whoever writes has the lock (`LockInv`).
`SystemRunRepairs` needs what a system run has established at each of its steps
(`OnTheWay`: its directories are there from the first one on, the manifest it moves
covers what was found) and that nobody writes behind a run that ended (`Behind`).
`SetupGoesOn` rests on one fact (`ShutInv`): folder and lock are the user's before
setup can be left, and nothing but the removal of the folder changes that.
`TypeCorrect` needs that the temporary manifest, too, describes only what is there.

**Only model-checked:** the liveness properties `SetupCompletes`, `BusyEnds`,
`RestartHappens` and `WholeAgain`. Liveness under fairness and `ENABLED` are out of the prover's
reach, and so is deadlock freedom of `FirstBoot`. Every safety property of a passing run
is a theorem. The library's induction theorems cannot be used here either; where a
definition is recursive, a least counterexample in `Nat` (`WFMin`) does instead. No module
declares a `RECURSIVE` operator.

## 5. Where code and documentation differ

| Run | What the text says | What the code does |
|---|---|---|
| `cleanup_timer` | the timer removes the automatic login after 45 s (`wiki/First-Boot-and-OOBE.md`) | after a broken-off run the timer has elapsed already; `enable --now` does nothing and `is-active` is satisfied |
| `hand_over` | setup disables itself and hands over to SDDM (`wiki/Security-and-Disk-Safety.md`) | the mark is written before SDDM is enabled; power lost in between leaves neither |
| `table_copy` | the pre-change table is copied to the new system (same page) | whatever file has the name is copied, also another disk's |
| `damaged_image` | every embedded package is checked before `wipefs` (comment in `install`) | only the base packages are; the feature packages after the disk was wiped |
| `confirmed_row` | the confirmation names what will be lost (`DiskScreen.qml`) | the rows below the overlay stay clickable, and the row selected last is used |

Seen while modelling, not stated by any text and so not a run: Back on the license
page leads to a page that goes forward by itself; a second storage action
confirmed while one runs is dropped, yet its success is announced; a
`load-driver` that starts after the three seconds of `waitForStarted` needs no plan, ends
well with its purpose cleared, and is taken for a finished installation (the
restart page comes up, from whatever page the person has reached by then, also from the
license page with the license not accepted, and restarts the machine with nothing installed;
`SuccessIsReal` and `FormsStayFit` allow exactly that, and without the exceptions TLC shows it);
there is no `sync` between the package transactions and the units, so that power lost
right behind `systemctl enable` can leave a disk that starts setup without all of it; a required package without a file of
its own is resolved to the file of an optional one that has its name as prefix, which
is then installed (`FeaturesComplete` allows for it); the whole-disk layout counts in 512-byte sectors; every advanced
action is offered for MBR disks, Format and Shrink for unaligned partitions, and Shrink for an EFI partition
that holds NTFS, all of them refused later; an account
made under another name by a broken-off setup stays.

## 6. Not modelled

* Drawing, wording, translations, the status line, the simulation mode of the
  program (`--demo`) and the test hooks: no state that anything real depends on.
* What a piece of the new system contains (branding, Plymouth, drivers): text
  files written in one go; a step that fails or succeeds.
* `load_storage_driver` itself: one file checked, copied and loaded. To the program
  it is a backend run like others, to the drive page a longer list.
* Devices with more than one parent (RAID, LVM): a row of `lsblk` names one, and the
  live image has no tool that assembles such a device.
* What is mounted after the last look at the mounts, up to a minute before
  `wipefs`: the code does not look again, and no property could hold.
* What a loss of power does to files and links that `finalize_oobe` has written
  without `fsync`: `FirstBoot` takes them to be on the disk, in the order they were written.
* The ends of the log collector with status 1 in front of its first write (no state
  file, no such account), and the desktop directory above its folder.
* A folder of logs that is moved away while a run writes into it; and what the
  captured commands print.
* Termination of `install()` and of the adapter: pacman and the network take the
  time they take.
* Preparation of packages and publication of an image: shell pipelines on the build
  machine, run by one person, whose products the installation run takes as sound or
  with one fault each.
* Live image data files, QEMU scripts, vendored PlymouthVista.

## 7. Plan

Done, in this order: geometry and the scan; plans and the storage transaction;
first boot; progress; the installation run; the setup program; proofs for
geometry, scan, progress and first boot; the package adapter, the listing of disks
and the promise that the installation run keeps; late starts of the backend; the
log collector with its proofs; proofs for the storage transaction, the installation run with
its refinement, the setup program, and the rest of the scan.

Next, in order of weight:

1. What an abstract specification of the storage transaction would promise (a table goes
   from one sound state to the planned one, other partitions constant), with
   `StorageTransaction` shown to implement it.
2. `FirstBoot` and `LogCollector` as implementations of what `SetupController` assumes of a backend
   run that succeeds as a whole or fails.
3. `ReleaseBuild`: the publication of image, checksum and manifest.
