--------------------------- MODULE SetupController ---------------------------
(***************************************************************************)
(* The graphical setup program, as it runs from the installation medium    *)
(* (--live-install) and as first-boot setup (--oobe --live-install): the   *)
(* pages of SetupFlow, the drive page with its confirmation overlay, the   *)
(* timers, and the one privileged backend process, which runs on its own,  *)
(* may even start after the program has given up waiting for its start,    *)
(* and whose end reaches the program as a later event.                     *)
(*                                                                         *)
(* The rows of the drive page come from one disk: the disk itself, its     *)
(* partitions, and a free region where a partition was deleted.  What the  *)
(* backend does to the disk in detail is StorageTransaction, what it does  *)
(* to install is InstallRun, first-boot setup is FirstBoot; here a run of  *)
(* it succeeds as a whole or fails.  Texts, progress and the simulation    *)
(* mode are left out.                                                      *)
(***************************************************************************)
EXTENDS SetupFlow

CONSTANTS
    Partitions,      \* the partitions of the disk at the start
    CanDelete, CanFormat, CanShrink, CanExtend,  \* what their rows offer
    CanInstall,      \* partitions large enough to install in their place
    None,            \* no partition
    RestartSeconds,  \* the countdown of the last installer page, 10 s
    MaxRequests      \* bound: backend processes asked for

ASSUME SetupAssumption == RestartSeconds \in Nat \ {0} /\ MaxRequests \in Nat

VARIABLES
    mode, index,     \* FlowState
    busy, transition,    \* m_busy; the transition timer is running
    countdown, ticking,  \* m_restartSeconds; the restart timer is running
    handoff,         \* m_desktopHandoff
    forms,           \* for each page with a form: may it be left?
    listed, selected, advanced,  \* the drive page, in the controller
    overlay,         \* the drive page's confirmation: action and row it names
    proc,            \* the backend process: state, command, the plan it has read
    planFiles,       \* the plans under /run/aero7
    activePlan, purpose,  \* m_activePlanPath, m_backendPurpose
    failed,          \* m_setupFailed
    parts,           \* the partitions on the disk
    installed, finalized,  \* the backend has installed, has set up the account
    session,         \* "up", "rebooting", or "gone"
    requests         \* counter for the bound

page == <<mode, index, busy, transition, countdown, ticking, handoff>>
drive == <<listed, selected, advanced>>
backend == <<proc, planFiles, activePlan, purpose, failed, requests>>
machine == <<parts, installed, finalized, session>>
vars == <<page, forms, drive, overlay, backend, machine>>

screen == screensFor(mode)[index]
Forms == {"LicenseScreen", "AccountScreen", "PasswordScreen"}

NoRow == [kind |-> "none", part |-> None, planned |-> FALSE]
Row(kind, p) == [kind |-> kind, part |-> p, planned |-> FALSE]
RowsOf(present) ==
    {Row("disk", None)} \cup {Row("partition", p) : p \in present}
                        \cup {Row("free", p) : p \in Partitions \ present}
\* QML: rowIsVisible
shown(row) == advanced <=> row.kind # "disk"

NoOverlay == [action |-> "none", named |-> NoRow]
NoPlan == [action |-> "none", part |-> None, named |-> None]
NoProc == [state |-> "none", cmd |-> "none", plan |-> NoPlan, late |-> FALSE]
PlanNames == {"install", "oobe", "storage"}
StoragePurposes == {"storage-delete", "storage-extend", "storage-driver"}

Init ==
    /\ mode \in Modes /\ index = 1
    /\ transition = (screen \in Automatic) /\ busy = transition
    /\ countdown = RestartSeconds /\ ticking = FALSE /\ handoff = FALSE
    /\ forms = [s \in Forms |-> FALSE]
    /\ listed \in {{}, RowsOf(Partitions)} /\ (mode = "oobe" => listed = {})
    /\ selected = NoRow /\ advanced = FALSE /\ overlay = NoOverlay
    /\ proc = NoProc /\ planFiles = [n \in PlanNames |-> NoPlan]
    /\ activePlan = "none" /\ purpose = "none" /\ failed = FALSE
    /\ parts = Partitions /\ installed = FALSE /\ finalized = FALSE
    /\ session = "up" /\ requests = 0

-----------------------------------------------------------------------------
(* Pages.                                                                  *)

\* (wrong) the countdown is not started
EnterStill(i) ==
    LET s == screensFor(mode)[i]
    IN  /\ index' = i
        /\ transition' = (s \in Automatic) /\ busy' = (s \in Automatic)
        /\ ticking' = FALSE /\ UNCHANGED countdown
        /\ overlay' = NoOverlay

\* enterCurrentScreen: stop the timers, start the one of the new page.  The
\* page is loaded anew, and the overlay of the old one is gone.
Enter(i) ==
    LET s == screensFor(mode)[i]
    IN  /\ index' = i
        /\ transition' = (s \in Automatic) /\ busy' = (s \in Automatic)
        /\ ticking' = (s = "CompleteScreen")
        /\ countdown' = IF s = "CompleteScreen" THEN RestartSeconds ELSE countdown
        /\ overlay' = NoOverlay

diskSelectionReady ==
    \/ selected.kind \in {"disk", "reuse_partition", "shrink_ntfs"}
    \/ selected.kind = "free" /\ selected.part \in CanInstall /\ selected.planned

\* (wrong) only the page that asks for the license is checked
ValidLicenseOnly ==
    /\ screen = "LicenseScreen" => forms[screen]
    /\ screen = "DiskScreen" => diskSelectionReady

\* validateCurrentScreen
validateCurrentScreen ==
    /\ screen \in Forms => forms[screen]
    /\ screen = "DiskScreen" => diskSelectionReady

moveNext ==
    /\ index < Len(screensFor(mode))
    /\ Enter(index + 1)
    /\ UNCHANGED <<mode, handoff, backend, machine>>

\* jumpTo without enterCurrentScreen: the page of the backend's work
Work(s) ==
    /\ index' = IndexOf(mode, s)
    /\ overlay' = NoOverlay
    /\ UNCHANGED <<mode, transition, countdown, ticking, handoff, machine>>

-----------------------------------------------------------------------------
(* The backend process, as the program asks for it.                        *)

\* late (history): it was given up before it started.
Process(state, cmd) ==
    [state |-> state, cmd |-> cmd, plan |-> NoPlan, late |-> state = "late"]

\* startBackend.  QProcess::start does nothing while a process is there, and
\* waitForStarted is true at once, or as soon as that process has started.
Started(cmd, plan, file, why) ==
    /\ requests < MaxRequests
    /\ requests' = requests + 1
    /\ planFiles' = IF file = "none" THEN planFiles
                                     ELSE [planFiles EXCEPT ![file] = plan]
    /\ activePlan' = file /\ purpose' = why
    /\ proc' = CASE proc.state = "none" -> Process("started", cmd)
                 [] proc.state = "late" -> [proc EXCEPT !.state = "started"]
                 [] OTHER -> proc
    /\ busy' = TRUE

\* (wrong) the plan stays for the process that may yet start
NotStartedKeepsPlan(cmd, plan, file) ==
    /\ \/ proc.state \in {"none", "late"} /\ UNCHANGED <<proc, requests>>
       \/ /\ proc.state = "none" /\ requests < MaxRequests
          /\ proc' = Process("late", cmd) /\ requests' = requests + 1
    /\ planFiles' = IF file = "none" THEN planFiles
                                     ELSE [planFiles EXCEPT ![file] = plan]
    /\ activePlan' = "none" /\ purpose' = "none"
    /\ busy' = FALSE

\* waitForStarted is false: the plan is removed again, and the program forgets the
\* request.  A process that only takes longer is not stopped, whatever its command.
NotStarted(cmd, plan, file) ==
    /\ \/ proc.state \in {"none", "late"} /\ UNCHANGED <<proc, requests>>
       \/ /\ proc.state = "none" /\ requests < MaxRequests
          /\ proc' = Process("late", cmd) /\ requests' = requests + 1
    /\ planFiles' = IF file = "none" THEN planFiles
                                     ELSE [planFiles EXCEPT ![file] = NoPlan]
    /\ activePlan' = "none" /\ purpose' = "none"
    /\ busy' = FALSE

\* write...Plan returns nothing; "quiet" is what m_busy is then.
NotWritten(quiet) ==
    /\ busy' = quiet
    /\ UNCHANGED <<proc, planFiles, activePlan, purpose, requests>>

\* The plan of an installation: the target is the selected row.
InstallPlan == [action |-> selected.kind, part |-> selected.part,
                named |-> selected.part]
OobePlan == [action |-> "oobe", part |-> None, named |-> None]

startInstallation ==
    /\ selected # NoRow
    /\ Work("ProgressScreen")
    /\ failed' = FALSE
    /\ \/ Started("install", InstallPlan, "install", "install")
       \/ NotStarted("install", InstallPlan, "install")
       \/ NotWritten(FALSE)

startOobeFinalization ==
    /\ Work("FinalizingScreen")
    /\ failed' = FALSE
    /\ \/ Started("oobe-finalize", OobePlan, "oobe", "oobe")
       \/ NotStarted("oobe-finalize", OobePlan, "oobe")
       \/ NotWritten(FALSE)

\* restartSystem: systemctl reboot, detached
continueAfterInstallation ==
    /\ ticking' = FALSE /\ session' = "rebooting"
    /\ UNCHANGED <<mode, index, busy, transition, handoff, overlay,
                   backend, parts, installed, finalized>>

-----------------------------------------------------------------------------
(* The person at the machine.                                              *)

Here(s) == session # "gone" /\ screen = s

\* (wrong) goNext without m_busy
GoNextBusy ==
    /\ session # "gone"
    /\ HasNext(screen) /\ validateCurrentScreen
    /\ \/ screen = "ConfirmScreen" /\ startInstallation
       \/ screen = "NetworkScreen" /\ startOobeFinalization
       \/ screen = "CompleteScreen" /\ continueAfterInstallation /\ UNCHANGED countdown
       \/ /\ screen \notin {"ConfirmScreen", "NetworkScreen", "CompleteScreen"}
          /\ moveNext
    /\ UNCHANGED <<forms, drive>>

GoNext ==
    /\ session # "gone"
    /\ HasNext(screen) /\ ~busy /\ validateCurrentScreen
    /\ \/ screen = "ConfirmScreen" /\ startInstallation
       \/ screen = "NetworkScreen" /\ startOobeFinalization
       \/ screen = "CompleteScreen" /\ continueAfterInstallation /\ UNCHANGED countdown
       \/ /\ screen \notin {"ConfirmScreen", "NetworkScreen", "CompleteScreen"}
          /\ moveNext
    /\ UNCHANGED <<forms, drive>>

GoBack ==
    /\ session # "gone"
    /\ ~busy /\ canGoBack(mode, index)
    /\ Enter(index - 1)
    /\ UNCHANGED <<mode, handoff, forms, drive, backend, machine>>

\* The license box, the account and password fields: left fit to go on or not.
EditForm ==
    /\ session # "gone" /\ screen \in Forms
    /\ \E ok \in BOOLEAN : forms' = [forms EXCEPT ![screen] = ok]
    /\ UNCHANGED <<page, drive, overlay, backend, machine>>

\* selectDisk: a row is clicked, also with the overlay above it.
SelectRow ==
    /\ Here("DiskScreen")
    /\ \E r \in listed : shown(r) /\ selected' = r
    /\ UNCHANGED <<page, forms, listed, advanced, overlay, backend, machine>>

\* (wrong) the selection survives when the advanced rows are hidden
SetAdvancedKeeps ==
    /\ Here("DiskScreen")
    /\ advanced' = ~advanced
    /\ selected' = IF ~advanced /\ selected.kind = "disk" THEN NoRow ELSE selected
    /\ UNCHANGED <<page, forms, listed, overlay, backend, machine>>

\* setAdvancedDriveOptions
SetAdvanced ==
    /\ Here("DiskScreen")
    /\ advanced' = ~advanced
    /\ selected' = IF advanced = (selected.kind = "disk") THEN selected ELSE NoRow
    /\ UNCHANGED <<page, forms, listed, overlay, backend, machine>>

\* refreshDisks: list-disks answers, or fails.
refreshDisks ==
    /\ listed' \in {{}, RowsOf(parts)}
    /\ selected' = NoRow
    /\ UNCHANGED advanced

Refresh ==
    /\ Here("DiskScreen")
    /\ refreshDisks
    /\ UNCHANGED <<page, forms, overlay, backend, machine>>

\* With an amount that fits; otherwise only the status line changes.
useSelectedFreeSpace ==
    /\ selected.kind = "free" /\ selected.part \in CanInstall
    /\ selected' = [selected EXCEPT !.planned = TRUE]

prepareSelectedNtfsShrink ==
    /\ selected.kind = "partition" /\ selected.part \in CanShrink
    /\ selected' = [selected EXCEPT !.kind = "shrink_ntfs", !.planned = TRUE]

PlanTarget ==
    /\ Here("DiskScreen")
    /\ useSelectedFreeSpace \/ prepareSelectedNtfsShrink
    /\ UNCHANGED <<page, forms, listed, advanced, overlay, backend, machine>>

\* A button of the drive page that asks for confirmation.  It is enabled by the
\* flags of the selected row; the driver button always is.
Offered(action) ==
    CASE action = "driver" -> TRUE
      [] action = "delete" -> selected.kind # "free" /\ selected.part \in CanDelete
      [] action = "format" -> selected.kind # "free" /\ selected.part \in CanFormat
      [] action = "extend" -> selected.kind # "free" /\ selected.part \in CanExtend

AskConfirmation ==
    /\ Here("DiskScreen")
    /\ \E action \in {"delete", "format", "extend", "driver"} :
         /\ action # "driver" => advanced
         /\ Offered(action)
         /\ overlay' = [action |-> action, named |-> selected]
    /\ UNCHANGED <<page, forms, drive, backend, machine>>

CancelConfirmation ==
    /\ Here("DiskScreen") /\ overlay # NoOverlay
    /\ overlay' = NoOverlay
    /\ UNCHANGED <<page, forms, drive, backend, machine>>

\* The controller is told the action and takes the row that is selected now.
StorageRequest(action, why) ==
    /\ LET plan == [action |-> action, part |-> selected.part,
                    named |-> overlay.named.part]
       IN  \/ Started("storage-action", plan, "storage", why)
           \/ NotStarted("storage-action", plan, "storage")
           \/ NotWritten(busy)
    /\ UNCHANGED drive

deleteSelectedPartition ==
    /\ selected.kind = "partition" /\ selected.part \in CanDelete
    /\ StorageRequest("delete", "storage-delete")

extendSelectedPartition ==
    /\ selected.kind = "partition" /\ selected.part \in CanExtend
    /\ StorageRequest("extend", "storage-extend")

loadStorageDriver ==
    /\ \/ Started("load-driver", NoPlan, "none", "storage-driver")
       \/ NotStarted("load-driver", NoPlan, "none")
    /\ UNCHANGED drive

useSelectedPartition ==
    /\ selected.kind = "partition" /\ selected.part \in CanFormat
    /\ selected' = [selected EXCEPT !.kind = "reuse_partition", !.planned = TRUE]
    /\ UNCHANGED <<listed, advanced, busy, proc, planFiles, activePlan, purpose,
                   requests>>

\* The Continue button of the overlay.
Confirm ==
    /\ Here("DiskScreen")
    /\ \/ overlay.action = "delete" /\ deleteSelectedPartition
       \/ overlay.action = "extend" /\ extendSelectedPartition
       \/ overlay.action = "driver" /\ loadStorageDriver
       \/ overlay.action = "format" /\ useSelectedPartition
    /\ overlay' = NoOverlay
    /\ UNCHANGED <<mode, index, transition, countdown, ticking, handoff, forms,
                   failed, machine>>

Person ==
    \/ GoNext \/ GoBack \/ EditForm \/ SelectRow \/ SetAdvanced \/ Refresh
    \/ PlanTarget \/ AskConfirmation \/ CancelConfirmation \/ Confirm

-----------------------------------------------------------------------------
(* Timers.                                                                 *)

\* advanceTransition, and beginDesktopHandoff on the last page
AdvanceTransition ==
    /\ session # "gone" /\ transition
    /\ \/ /\ screen = "PreparingDesktopScreen"
          /\ handoff' = TRUE /\ busy' = TRUE /\ transition' = FALSE
          /\ UNCHANGED <<mode, index, countdown, ticking, overlay, backend, machine>>
       \/ screen # "PreparingDesktopScreen" /\ moveNext
    /\ UNCHANGED <<forms, drive>>

\* (wrong) the timer is not stopped and the seconds go below zero
TickRestartRunsOn ==
    /\ session # "gone" /\ ticking
    /\ countdown' = countdown - 1
    /\ session' = IF countdown' > 0 THEN session ELSE "rebooting"
    /\ UNCHANGED <<mode, index, busy, transition, ticking, handoff, overlay,
                   backend, parts, installed, finalized, forms, drive>>

\* tickRestartCountdown
TickRestart ==
    /\ session # "gone" /\ ticking
    /\ countdown' = IF countdown > 0 THEN countdown - 1 ELSE 0
    /\ \/ /\ countdown' > 0
          /\ UNCHANGED <<mode, index, busy, transition, ticking, handoff,
                         overlay, backend, machine>>
       \/ countdown' = 0 /\ continueAfterInstallation
    /\ UNCHANGED <<forms, drive>>

\* handoffToDesktop: the cleanup timer is checked, SDDM is started, and systemd
\* ends setup; or one of the two systemctl calls fails.
HandoffToDesktop ==
    /\ session # "gone" /\ handoff
    /\ \/ session' = "gone" /\ UNCHANGED <<busy, handoff>>
       \/ busy' = FALSE /\ handoff' = FALSE /\ UNCHANGED session
    /\ UNCHANGED <<mode, index, transition, countdown, ticking, forms, drive,
                   overlay, backend, parts, installed, finalized>>

Timers == AdvanceTransition \/ TickRestart \/ HandoffToDesktop

-----------------------------------------------------------------------------
(* The backend process and its end.                                        *)

PlanOf(cmd) == CASE cmd = "install" -> planFiles["install"]
                 [] cmd = "oobe-finalize" -> planFiles["oobe"]
                 [] cmd = "storage-action" -> planFiles["storage"]
                 [] OTHER -> NoPlan

\* A process starts behind the 3 seconds, or cannot be started after all, of which
\* the program hears nothing.
LateStart ==
    /\ session # "gone" /\ proc.state = "late"
    /\ proc' \in {[proc EXCEPT !.state = "started"], NoProc}
    /\ UNCHANGED <<page, forms, drive, overlay, planFiles, activePlan, purpose,
                   failed, requests, machine>>

\* main: the plan is read some time after the process has started.
BackendReadsPlan ==
    /\ session # "gone" /\ proc.state = "started"
    /\ proc' = [proc EXCEPT !.state = "running", !.plan = PlanOf(proc.cmd)]
    /\ UNCHANGED <<page, forms, drive, overlay, planFiles, activePlan, purpose,
                   failed, requests, machine>>

After == IF proc.plan.action = "delete" THEN parts \ {proc.plan.part} ELSE parts

\* Without its plan a command fails.  A failure may come after the partition is
\* already deleted.
BackendExits ==
    /\ session # "gone" /\ proc.state = "running"
    /\ \/ /\ proc.cmd = "load-driver" \/ proc.plan # NoPlan
          /\ proc' = [proc EXCEPT !.state = "ok"]
          /\ parts' = After
          /\ installed' = (installed \/ proc.cmd = "install")
          /\ finalized' = (finalized \/ proc.cmd = "oobe-finalize")
       \/ /\ proc' = [proc EXCEPT !.state = "error"]
          /\ parts' \in {parts, After}
          /\ UNCHANGED <<installed, finalized>>
    /\ UNCHANGED <<page, forms, drive, overlay, planFiles, activePlan, purpose,
                   failed, requests, session>>

\* (wrong) a failed run leaves its plan behind
PlanGoneAfterSuccess ==
    planFiles' = IF activePlan = "none" \/ proc.state = "error" THEN planFiles
                 ELSE [planFiles EXCEPT ![activePlan] = NoPlan]

PlanGone ==
    planFiles' = IF activePlan = "none" THEN planFiles
                 ELSE [planFiles EXCEPT ![activePlan] = NoPlan]

\* (wrong) the exit code is not looked at
FailGoesOn ==
    /\ failed' = FALSE
    /\ Enter(IndexOf(mode, IF mode = "oobe" THEN "OobeWelcomeScreen"
                                            ELSE "CompleteScreen"))
    /\ UNCHANGED <<mode, handoff, drive>>

\* (wrong) the page stays busy after a failure
FailBusy ==
    /\ failed' = TRUE
    /\ UNCHANGED <<page, drive, overlay>>

Fail ==
    /\ failed' = TRUE /\ busy' = FALSE
    /\ UNCHANGED <<mode, index, transition, countdown, ticking, handoff, drive,
                   overlay>>

\* The finished signal.  What has finished is told by m_backendPurpose.
BackendFinished ==
    /\ session # "gone" /\ proc.state \in {"ok", "error"}
    /\ proc' = NoProc /\ purpose' = "none" /\ activePlan' = "none"
    /\ PlanGone
    /\ \/ proc.state = "error" /\ Fail
       \/ /\ proc.state = "ok" /\ purpose \in StoragePurposes
          /\ failed' = FALSE /\ busy' = FALSE
          /\ refreshDisks
          /\ UNCHANGED <<mode, index, transition, countdown, ticking, handoff,
                         overlay>>
       \/ /\ proc.state = "ok" /\ purpose \notin StoragePurposes
          /\ failed' = FALSE
          /\ Enter(IndexOf(mode, IF mode = "oobe" THEN "OobeWelcomeScreen"
                                                  ELSE "CompleteScreen"))
          /\ UNCHANGED <<mode, handoff, drive>>
    /\ UNCHANGED <<forms, requests, machine>>

\* systemctl reboot takes effect.
Reboot ==
    /\ session = "rebooting" /\ session' = "gone"
    /\ UNCHANGED <<page, forms, drive, overlay, backend, parts, installed,
                   finalized>>

Next ==
    \/ Person \/ Timers \/ LateStart \/ BackendReadsPlan \/ BackendExits \/ BackendFinished
    \/ Reboot

\* The timers fire, the backend ends and its end is handled, a reboot that was
\* asked for happens.  Nothing is assumed of the person.
Fairness ==
    /\ WF_vars(AdvanceTransition) /\ WF_vars(TickRestart)
    /\ WF_vars(HandoffToDesktop) /\ WF_vars(BackendReadsPlan)
    /\ WF_vars(BackendExits) /\ WF_vars(BackendFinished) /\ WF_vars(Reboot)

Spec == Init /\ [][Next]_vars /\ Fairness

-----------------------------------------------------------------------------
(* Properties.                                                             *)

Plans == [action: {"none", "disk", "free", "reuse_partition", "shrink_ntfs",
                   "oobe", "delete", "extend"},
          part: Partitions \cup {None}, named: Partitions \cup {None}]
Rows == [kind: {"none", "disk", "partition", "free", "reuse_partition",
                "shrink_ntfs"},
         part: Partitions \cup {None}, planned: BOOLEAN]

TypeOK ==
    /\ mode \in Modes /\ index \in 1..Len(screensFor(mode))
    /\ busy \in BOOLEAN /\ transition \in BOOLEAN /\ ticking \in BOOLEAN
    /\ handoff \in BOOLEAN /\ failed \in BOOLEAN /\ advanced \in BOOLEAN
    /\ installed \in BOOLEAN /\ finalized \in BOOLEAN
    /\ countdown \in 0..RestartSeconds
    /\ forms \in [Forms -> BOOLEAN]
    /\ listed \subseteq Rows /\ selected \in Rows
    /\ overlay \in [action: {"none", "delete", "format", "extend", "driver"},
                    named: Rows]
    /\ proc \in [state: {"none", "late", "started", "running", "ok", "error"},
                 cmd: {"none", "install", "oobe-finalize", "storage-action",
                       "load-driver"},
                 plan: Plans, late: BOOLEAN]
    /\ planFiles \in [PlanNames -> Plans]
    /\ activePlan \in PlanNames \cup {"none"}
    /\ purpose \in StoragePurposes \cup {"none", "install", "oobe"}
    /\ parts \subseteq Partitions
    /\ session \in {"up", "rebooting", "gone"}
    /\ requests \in 0..MaxRequests

\* The pages and events that tell of success come only after the work is done.
\* The welcome, the desktop and the handover come once the account is set up.
\* The restart page comes up at the end of a run that has installed, and the
\* restart is asked for on that page.  A storage action that ends while another
\* page is shown, or an installation asked for while one runs (QProcess would
\* ignore it, and the end of the action would be taken for the end of the
\* installation), would break this.  A storage driver does break it, in one way:
\* when the program has given up waiting for its start, it starts all the same,
\* and ends well, as it needs no plan.  There is no other way.
SuccessIsReal ==
    [][/\ screen' \in {"OobeWelcomeScreen", "PreparingDesktopScreen"} \/ handoff'
            => finalized'
       /\ screen' = "CompleteScreen" /\ screen # "CompleteScreen"
            => installed' \/ (proc.cmd = "load-driver" /\ proc.late)
       /\ session' = "rebooting" => screen = "CompleteScreen"]_vars

\* The target that is confirmed and installed to is a complete one, and it is
\* a row of the list as it is shown: never one of a list that has since been
\* replaced or of the rows that the drive options hide.
BaseKind(kind) == IF kind \in {"reuse_partition", "shrink_ntfs"} THEN "partition"
                                                                 ELSE kind
TargetShownAndReady ==
    /\ screen \in {"ConfirmScreen", "ProgressScreen"} => diskSelectionReady
    /\ selected # NoRow =>
         \E r \in listed : /\ shown(r) /\ r.kind = BaseKind(selected.kind)
                           /\ r.part = selected.part

\* The plans of an installation and of first-boot setup, which hold the
\* password, lie on the disk only as long as the backend that needs them runs,
\* whether it succeeds, fails, or cannot be started.
PlanGoesWithBackend ==
    planFiles["oobe"] # NoPlan \/ planFiles["install"] # NoPlan =>
      proc.state # "none"

\* On every page after a form the form is fit, and nothing is installed without
\* the license: going back and spoiling a form does not get around its check
\* ("Acceptance is required before continuing").  The restart page is not looked
\* at here, as the late driver of SuccessIsReal leads to it from any page; what
\* it tells to have been done is.
FormsStayFit ==
    /\ \A s \in Forms :
         PageIn(mode, s) /\ index > IndexOf(mode, s) /\ screen # "CompleteScreen"
           => forms[s]
    /\ installed => forms["LicenseScreen"]

\* The program does not hang: whenever it shows itself busy, it is free again
\* some time, or has handed over.
BusyEnds == busy ~> (~busy \/ session = "gone")

\* A finished installation restarts the machine also when nobody is there.
RestartHappens == (screen = "CompleteScreen") ~> (session = "gone")

-----------------------------------------------------------------------------
(* Claims of the documentation and the interface that the code does not    *)
(* meet.                                                                   *)

\* "All files and data on %1 will be permanently lost": the partition that is
\* deleted or extended is the one the confirmation named.
ConfirmedRowIsActedOn ==
    proc.plan.action \in {"delete", "extend"} => proc.plan.part = proc.plan.named
=============================================================================
