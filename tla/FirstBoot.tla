----------------------------- MODULE FirstBoot -----------------------------
(***************************************************************************)
(* The installed machine from its first boot to the first password login:  *)
(* the oobe-finalize command of the backend (finalize_oobe), the handoff   *)
(* of the setup program to the desktop (handoffToDesktop), and the systemd *)
(* units they leave on the disk.  Every step of oobe-finalize may fail,    *)
(* power may be lost between any two of them, and the one-shot timer that  *)
(* removes the automatic login runs beside them.                           *)
(*                                                                         *)
(* systemd and SDDM are external: a boot starts the enabled units whose    *)
(* conditions hold; a timer that has run stays active until the next boot  *)
(* and starting an active timer does nothing; SDDM reads the automatic     *)
(* login once, when it starts.                                             *)
(***************************************************************************)
EXTENDS Naturals

CONSTANTS
    Users,        \* names a person may choose
    SystemUsers,  \* accounts of the installed system, root for one
    MaxFailures,  \* bound: steps that fail
    MaxLosses     \* bound: losses of power

Nobody == "-"

ASSUME UsersAssumption ==
    /\ Users \cap SystemUsers = {}
    /\ Nobody \notin Users \cup SystemUsers
    /\ MaxFailures \in Nat /\ MaxLosses \in Nat

VARIABLES
    session,      \* what the screen shows; "off" without power
    step,         \* where oobe-finalize or the handoff is
    user,         \* the name in the plan of the current run
    accounts, passwords,  \* accounts; those setup gave a password
    settings, shell,      \* whose settings and desktop were applied last
    pending,      \* the file pending-user
    marker,       \* the file oobe-complete
    oobeEnabled, sddmEnabled,
    dropIn,       \* the account SDDM logs in by itself
    timerEnabled, timer, cleaning,  \* the cleanup timer and its service
    failures, losses  \* counters for the bounds

files == <<accounts, passwords, settings, shell, pending, marker>>
units == <<oobeEnabled, sddmEnabled, dropIn, timerEnabled, timer, cleaning>>
counters == <<failures, losses>>
vars == <<session, step, user, files, units, counters>>

Names == Users \cup SystemUsers

\* The steps of oobe-finalize, in order.
Steps == {"pend", "useradd", "chpasswd", "settings", "shell", "autologin",
          "armTimer", "diagnostics", "marker", "unpend", "disableOobe",
          "enableSddm"}

Init ==
    /\ session = "off" /\ step = "none" /\ user = Nobody
    /\ accounts = SystemUsers /\ passwords = {}
    /\ settings = Nobody /\ shell = Nobody
    /\ pending = Nobody /\ marker = Nobody
    /\ oobeEnabled = TRUE /\ sddmEnabled = FALSE
    /\ dropIn = Nobody /\ timerEnabled = FALSE
    /\ timer = "inactive" /\ cleaning = FALSE
    /\ failures = 0 /\ losses = 0

-----------------------------------------------------------------------------
(* systemd and SDDM.                                                       *)

LoginScreen == IF dropIn # Nobody THEN "desktop" ELSE "greeter"

\* aero7-oobe.service has ConditionPathExists=!oobe-complete.
Boot ==
    /\ session = "off"
    /\ timer' = IF timerEnabled THEN "waiting" ELSE "inactive"
    /\ \/ /\ oobeEnabled /\ marker = Nobody
          /\ session' = "oobe" /\ step' = "form"
       \/ /\ ~(oobeEnabled /\ marker = Nobody) /\ sddmEnabled
          /\ session' = LoginScreen
          /\ UNCHANGED step
       \/ /\ ~(oobeEnabled /\ marker = Nobody) /\ ~sddmEnabled
          /\ session' = "console"
          /\ UNCHANGED step
    /\ UNCHANGED <<user, files, oobeEnabled, sddmEnabled, dropIn, timerEnabled,
                   cleaning, failures, losses>>

\* finalize_oobe writes its files and links without fsync.  What it has written is
\* taken to be on the disk, in the order of the writes, when power is lost; a file
\* system that loses or reorders such writes is not modelled.
SwitchedOff ==
    /\ session' = "off" /\ step' = "none" /\ user' = Nobody
    /\ timer' = "inactive" /\ cleaning' = FALSE
    /\ UNCHANGED <<files, oobeEnabled, sddmEnabled, dropIn, timerEnabled,
                   failures>>

PowerLoss ==
    /\ session # "off" /\ losses < MaxLosses
    /\ losses' = losses + 1
    /\ SwitchedOff

\* After a failure the setup screen has no way back: the machine is restarted.
Restart ==
    /\ step = "stuck" \/ session \in {"greeter", "desktop", "console"}
    /\ SwitchedOff
    /\ UNCHANGED losses

\* 45 seconds after the timer started: rm, then systemctl disable.
CleanupRemoves ==
    /\ timer = "waiting"
    /\ timer' = "elapsed" /\ dropIn' = Nobody /\ cleaning' = TRUE
    /\ UNCHANGED <<session, step, user, files, oobeEnabled, sddmEnabled,
                   timerEnabled, counters>>

CleanupDisables ==
    /\ cleaning
    /\ timerEnabled' = FALSE /\ cleaning' = FALSE
    /\ UNCHANGED <<session, step, user, files, oobeEnabled, sddmEnabled,
                   dropIn, timer, counters>>

-----------------------------------------------------------------------------
(* oobe-finalize.                                                          *)

At(s) == session = "oobe" /\ step = s

\* (wrong) an existing account is taken for the pending one
SubmitExisting(u) ==
    /\ At("form")
    /\ user' = u
    /\ step' = IF u \in accounts THEN "chpasswd" ELSE "pend"
    /\ UNCHANGED <<session, files, units, counters>>

\* The form is filled in and the name checked: an existing account is refused
\* unless an earlier run has left it pending.  Invalid input is refused too.
Submit(u) ==
    /\ At("form")
    /\ user' = u
    /\ step' = CASE u \notin accounts -> "pend"
                 [] u \in accounts /\ pending = u -> "chpasswd"
                 [] OTHER -> "stuck"
    /\ UNCHANGED <<session, files, units, counters>>

SubmitInvalid ==
    /\ At("form")
    /\ step' = "stuck"
    /\ UNCHANGED <<session, user, files, units, counters>>

\* (wrong) the note is written for nobody
PendNothing ==
    /\ At("pend")
    /\ step' = "useradd"
    /\ UNCHANGED <<session, user, files, units, counters>>

Pend ==
    /\ At("pend")
    /\ pending' = user /\ step' = "useradd"
    /\ UNCHANGED <<session, user, accounts, passwords, settings, shell, marker,
                   units, counters>>

UserAdd ==
    /\ At("useradd")
    /\ accounts' = accounts \cup {user} /\ step' = "chpasswd"
    /\ UNCHANGED <<session, user, passwords, settings, shell, pending, marker,
                   units, counters>>

\* chpasswd, and the sudoers file for the group wheel.
ChPasswd ==
    /\ At("chpasswd")
    /\ passwords' = passwords \cup {user} /\ step' = "settings"
    /\ UNCHANGED <<session, user, accounts, settings, shell, pending, marker,
                   units, counters>>

\* Host name, time zone, clock, update preference.
ApplySettings ==
    /\ At("settings")
    /\ settings' = user /\ step' = "shell"
    /\ UNCHANGED <<session, user, accounts, passwords, shell, pending, marker,
                   units, counters>>

\* (wrong) the desktop of an earlier run is kept
ApplyShellOnce ==
    /\ At("shell")
    /\ shell' = IF shell = Nobody THEN user ELSE shell
    /\ step' = "autologin"
    /\ UNCHANGED <<session, user, accounts, passwords, settings, pending, marker,
                   units, counters>>

\* The desktop installer, branding and light defaults for the account.
ApplyShell ==
    /\ At("shell")
    /\ shell' = user /\ step' = "autologin"
    /\ UNCHANGED <<session, user, accounts, passwords, settings, pending, marker,
                   units, counters>>

\* (wrong) the cleanup timer is left for the next boot
WriteAutologinOnly ==
    /\ At("autologin")
    /\ dropIn' = user /\ step' = "diagnostics"
    /\ UNCHANGED <<session, user, files, oobeEnabled, sddmEnabled, timerEnabled,
                   timer, cleaning, counters>>

\* configure_one_time_autologin, and the note for the diagnostics.
WriteAutologin ==
    /\ At("autologin")
    /\ dropIn' = user /\ step' = "armTimer"
    /\ UNCHANGED <<session, user, files, oobeEnabled, sddmEnabled, timerEnabled,
                   timer, cleaning, counters>>

\* daemon-reload, and enable --now for the cleanup timer.
ArmTimer ==
    /\ At("armTimer")
    /\ timerEnabled' = TRUE
    /\ timer' = IF timer = "inactive" THEN "waiting" ELSE timer
    /\ step' = "diagnostics"
    /\ UNCHANGED <<session, user, files, oobeEnabled, sddmEnabled, dropIn,
                   cleaning, counters>>

\* The diagnostics timers, the first collection and the avatar.
Diagnostics ==
    /\ At("diagnostics")
    /\ step' = "marker"
    /\ UNCHANGED <<session, user, files, units, counters>>

WriteMarker ==
    /\ At("marker")
    /\ marker' = user /\ step' = "unpend"
    /\ UNCHANGED <<session, user, accounts, passwords, settings, shell, pending,
                   units, counters>>

Unpend ==
    /\ At("unpend")
    /\ pending' = Nobody /\ step' = "disableOobe"
    /\ UNCHANGED <<session, user, accounts, passwords, settings, shell, marker,
                   units, counters>>

\* (wrong) the setup service stays enabled
DisableOobeNot ==
    /\ At("disableOobe")
    /\ step' = "enableSddm"
    /\ UNCHANGED <<session, user, files, units, counters>>

DisableOobe ==
    /\ At("disableOobe")
    /\ oobeEnabled' = FALSE /\ step' = "enableSddm"
    /\ UNCHANGED <<session, user, files, sddmEnabled, dropIn, timerEnabled,
                   timer, cleaning, counters>>

EnableSddm ==
    /\ At("enableSddm")
    /\ sddmEnabled' = TRUE /\ step' = "handoff"
    /\ UNCHANGED <<session, user, files, oobeEnabled, dropIn, timerEnabled,
                   timer, cleaning, counters>>

\* A command or a file operation fails: "Stopped safely".
StepFails ==
    /\ session = "oobe" /\ step \in Steps \cup {"handoff"}
    /\ failures < MaxFailures
    /\ failures' = failures + 1 /\ step' = "stuck"
    /\ UNCHANGED <<session, user, files, units, losses>>

Finalize ==
    \/ Pend \/ UserAdd \/ ChPasswd \/ ApplySettings \/ ApplyShell
    \/ WriteAutologin \/ ArmTimer \/ Diagnostics \/ WriteMarker \/ Unpend
    \/ DisableOobe \/ EnableSddm

-----------------------------------------------------------------------------
(* The setup program, once oobe-finalize is done.                          *)

\* handoffToDesktop: SDDM is started only if the cleanup timer is active.
Handoff ==
    /\ At("handoff")
    /\ IF timer = "inactive"
         THEN step' = "stuck" /\ UNCHANGED session
         ELSE session' = LoginScreen /\ step' = "none"
    /\ UNCHANGED <<user, files, units, failures, losses>>

Next ==
    \/ Boot \/ PowerLoss \/ Restart \/ CleanupRemoves \/ CleanupDisables
    \/ SubmitInvalid \/ (\E u \in Names : Submit(u))
    \/ Finalize \/ StepFails \/ Handoff

\* The processes of setup and systemd go on.  A machine that stands still is
\* restarted, and a person who is asked again gives the name from before.
SubmitSameName == \E u \in Users : pending \in {u, Nobody} /\ Submit(u)

Fairness ==
    /\ WF_vars(Finalize) /\ WF_vars(Handoff) /\ WF_vars(Boot)
    /\ WF_vars(CleanupRemoves) /\ WF_vars(CleanupDisables)
    /\ WF_vars(step = "stuck" /\ Restart)
    /\ SF_vars(SubmitSameName)

Spec == Init /\ [][Next]_vars /\ Fairness
-----------------------------------------------------------------------------
(* Properties.                                                             *)

TypeOK ==
    /\ session \in {"off", "oobe", "greeter", "desktop", "console"}
    /\ step \in Steps \cup {"none", "form", "handoff", "stuck"}
    /\ user \in Names \cup {Nobody}
    /\ settings \in Names \cup {Nobody} /\ shell \in Names \cup {Nobody}
    /\ pending \in Names \cup {Nobody} /\ marker \in Names \cup {Nobody}
    /\ dropIn \in Names \cup {Nobody}
    /\ accounts \subseteq Names /\ passwords \subseteq Names
    /\ oobeEnabled \in BOOLEAN /\ sddmEnabled \in BOOLEAN
    /\ timerEnabled \in BOOLEAN /\ cleaning \in BOOLEAN
    /\ timer \in {"inactive", "waiting", "elapsed"}
    /\ failures \in Nat /\ losses \in Nat
    /\ session = "oobe" <=> step # "none"

\* Setup gives a password only to accounts it made itself, however often it
\* was broken off and whatever names were tried: the check "requested user
\* already exists" cannot be got round by the note of an earlier run.
SystemAccountsUntouched == passwords \cap SystemUsers = {}

\* Once setup is marked complete, everything was applied for the account in
\* the mark: it exists, has its password, and its settings and desktop are not
\* those of another name given to a run that was broken off.
CompleteMeansApplied ==
    marker # Nobody =>
      /\ marker \in accounts \cap passwords
      /\ settings = marker /\ shell = marker

\* The setup service and the login manager, which conflict with one another,
\* are never both enabled: no boot has to choose between them.
NeverBothEnabled == ~(oobeEnabled /\ sddmEnabled)

\* When oobe-finalize has succeeded the check of the handoff passes, also after
\* runs that were broken off: the timer is active, though it may have run.
HandoffNeverRefused == At("handoff") => timer # "inactive"

\* Setup gets through in the end, whichever of its steps failed and wherever
\* power was lost, for a person who gives the same name again: nothing an
\* unfinished run leaves behind makes the next one refuse.
SetupCompletes == <>(marker # Nobody)

-----------------------------------------------------------------------------
(* Claims of the documentation that the code does not meet.                *)

\* "A self-disabling cleanup timer removes that temporary SDDM setting after
\* 45 seconds."
CleanupRemovesAutologin ==
    session = "desktop" ~> (dropIn = Nobody \/ session # "desktop")

\* "OOBE runs only once, disables itself, and hands normal operation to SDDM."
HandsOverToSddm == session # "console"
=============================================================================
