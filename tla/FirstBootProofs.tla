-------------------------- MODULE FirstBootProofs --------------------------
(***************************************************************************)
(* The safety properties of FirstBoot, for any names, system accounts and  *)
(* numbers of failures and losses of power.                                *)
(*                                                                         *)
(* The properties speak of the end of a run; the invariant says for each   *)
(* step what the steps before it have left behind.  Progress is the part   *)
(* about the run's own account, Marked that a completed setup never starts *)
(* again, Armed that the timer is active from the step that starts it on.  *)
(***************************************************************************)
EXTENDS FirstBoot, TLAPS

\* The steps from each point of oobe-finalize on.
FromUnpend == {"unpend", "disableOobe", "enableSddm", "handoff"}
FromDiagnostics == {"diagnostics", "marker"} \cup FromUnpend
FromAutologin == {"autologin", "armTimer"} \cup FromDiagnostics
FromShell == {"shell"} \cup FromAutologin
FromSettings == {"settings"} \cup FromShell

Owned ==
    /\ SystemUsers \subseteq accounts
    /\ pending \in Users \cup {Nobody}
    /\ step \in Steps \cup {"handoff"} => user \in Users
    /\ passwords \subseteq accounts \ SystemUsers
    /\ step = "chpasswd" => user \in accounts

Progress ==
    /\ step \in FromSettings => user \in passwords
    /\ step \in FromShell => settings = user
    /\ step \in FromAutologin => shell = user

Marked ==
    /\ step \in FromUnpend => marker = user
    /\ marker # Nobody => step \in FromUnpend \cup {"none", "stuck"}
    /\ CompleteMeansApplied

Switched ==
    /\ NeverBothEnabled
    /\ step = "enableSddm" => ~oobeEnabled

Armed == step \in FromDiagnostics => timer # "inactive"

FirstBootInv == TypeOK /\ Owned /\ Progress /\ Marked /\ Switched /\ Armed

LEMMA InitInv == Init => FirstBootInv
<1> SUFFICES ASSUME Init PROVE FirstBootInv
  OBVIOUS
<1> USE UsersAssumption DEF Init
<1>1. TypeOK
  BY DEF TypeOK, Steps, Names
<1>2. Owned
  BY DEF Owned, Steps, Names
<1>3. Progress /\ Armed
  BY DEF Progress, Armed, FromUnpend, FromDiagnostics, FromAutologin, FromShell, FromSettings
<1>4. Marked
  BY DEF Marked, CompleteMeansApplied, FromUnpend
<1>5. Switched
  BY DEF Switched, NeverBothEnabled
<1> QED
  BY <1>1, <1>2, <1>3, <1>4, <1>5 DEF FirstBootInv

LEMMA NextInv == FirstBootInv /\ [Next]_vars => FirstBootInv'
<1> SUFFICES ASSUME FirstBootInv, [Next]_vars PROVE FirstBootInv'
  OBVIOUS
<1> USE UsersAssumption DEF FirstBootInv
<1>1. ASSUME Boot PROVE FirstBootInv'
  <2> USE <1>1 DEF Boot, LoginScreen, vars, files, units, counters
  <2>1. TypeOK'
    BY DEF TypeOK, Steps, Names
  <2>2. Owned'
    BY DEF Owned, TypeOK, Steps, Names
  <2>3. Progress' /\ Armed'
    BY DEF Progress, Armed, TypeOK, Owned, Marked, FromUnpend, FromDiagnostics, FromAutologin, FromShell, FromSettings
  <2>4. Marked'
    BY DEF Marked, Owned, Progress, TypeOK, CompleteMeansApplied, FromUnpend, FromDiagnostics, FromAutologin, FromShell, FromSettings
  <2>5. Switched'
    BY DEF Switched, NeverBothEnabled, TypeOK, Marked
  <2> QED
    BY <2>1, <2>2, <2>3, <2>4, <2>5
<1>2. ASSUME PowerLoss PROVE FirstBootInv'
  <2> USE <1>2 DEF PowerLoss, SwitchedOff, vars, files, units, counters
  <2>1. TypeOK'
    <3>1. /\ oobeEnabled' \in BOOLEAN /\ sddmEnabled' \in BOOLEAN
          /\ timerEnabled' \in BOOLEAN /\ cleaning' \in BOOLEAN
      BY Zenon DEF TypeOK
    <3> QED
      BY <3>1 DEF TypeOK, Steps, Names
  <2>2. Owned'
    BY DEF Owned, TypeOK, Steps, Names
  <2>3. Progress' /\ Armed'
    BY DEF Progress, Armed, TypeOK, Owned, Marked, FromUnpend, FromDiagnostics, FromAutologin, FromShell, FromSettings
  <2>4. Marked'
    BY DEF Marked, Owned, Progress, TypeOK, CompleteMeansApplied, FromUnpend, FromDiagnostics, FromAutologin, FromShell, FromSettings
  <2>5. Switched'
    BY DEF Switched, NeverBothEnabled, TypeOK, Marked
  <2> QED
    BY <2>1, <2>2, <2>3, <2>4, <2>5
<1>3. ASSUME Restart PROVE FirstBootInv'
  <2> USE <1>3 DEF Restart, SwitchedOff, vars, files, units, counters
  <2>1. TypeOK'
    BY DEF TypeOK, Steps, Names
  <2>2. Owned'
    BY DEF Owned, TypeOK, Steps, Names
  <2>3. Progress' /\ Armed'
    BY DEF Progress, Armed, TypeOK, Owned, Marked, FromUnpend, FromDiagnostics, FromAutologin, FromShell, FromSettings
  <2>4. Marked'
    BY DEF Marked, Owned, Progress, TypeOK, CompleteMeansApplied, FromUnpend, FromDiagnostics, FromAutologin, FromShell, FromSettings
  <2>5. Switched'
    BY DEF Switched, NeverBothEnabled, TypeOK, Marked
  <2> QED
    BY <2>1, <2>2, <2>3, <2>4, <2>5
<1>4. ASSUME CleanupRemoves PROVE FirstBootInv'
  <2> USE <1>4 DEF CleanupRemoves, At, vars, files, units, counters
  <2>1. TypeOK'
    BY DEF TypeOK, Steps, Names
  <2>2. Owned'
    BY DEF Owned, TypeOK, Steps, Names
  <2>3. Progress' /\ Armed'
    BY DEF Progress, Armed, TypeOK, Owned, Marked, FromUnpend, FromDiagnostics, FromAutologin, FromShell, FromSettings
  <2>4. Marked'
    BY DEF Marked, Owned, Progress, TypeOK, CompleteMeansApplied, FromUnpend, FromDiagnostics, FromAutologin, FromShell, FromSettings
  <2>5. Switched'
    BY DEF Switched, NeverBothEnabled, TypeOK, Marked
  <2> QED
    BY <2>1, <2>2, <2>3, <2>4, <2>5
<1>5. ASSUME CleanupDisables PROVE FirstBootInv'
  <2> USE <1>5 DEF CleanupDisables, At, vars, files, units, counters
  <2>1. TypeOK'
    <3>1. /\ oobeEnabled' \in BOOLEAN /\ sddmEnabled' \in BOOLEAN
          /\ timerEnabled' \in BOOLEAN /\ cleaning' \in BOOLEAN
      BY Zenon DEF TypeOK
    <3> QED
      BY <3>1 DEF TypeOK, Steps, Names
  <2>2. Owned'
    BY DEF Owned, TypeOK, Steps, Names
  <2>3. Progress' /\ Armed'
    BY DEF Progress, Armed, TypeOK, Owned, Marked, FromUnpend, FromDiagnostics, FromAutologin, FromShell, FromSettings
  <2>4. Marked'
    BY DEF Marked, Owned, Progress, TypeOK, CompleteMeansApplied, FromUnpend, FromDiagnostics, FromAutologin, FromShell, FromSettings
  <2>5. Switched'
    BY DEF Switched, NeverBothEnabled, TypeOK, Marked
  <2> QED
    BY <2>1, <2>2, <2>3, <2>4, <2>5
<1>6. ASSUME SubmitInvalid PROVE FirstBootInv'
  <2> USE <1>6 DEF SubmitInvalid, At, vars, files, units, counters
  <2>1. TypeOK'
    BY DEF TypeOK, Steps, Names
  <2>2. Owned'
    BY DEF Owned, TypeOK, Steps, Names
  <2>3. Progress' /\ Armed'
    BY DEF Progress, Armed, TypeOK, Owned, Marked, FromUnpend, FromDiagnostics, FromAutologin, FromShell, FromSettings
  <2>4. Marked'
    BY DEF Marked, Owned, Progress, TypeOK, CompleteMeansApplied, FromUnpend, FromDiagnostics, FromAutologin, FromShell, FromSettings
  <2>5. Switched'
    BY DEF Switched, NeverBothEnabled, TypeOK, Marked
  <2> QED
    BY <2>1, <2>2, <2>3, <2>4, <2>5
<1>7. ASSUME \E u \in Names : Submit(u) PROVE FirstBootInv'
  <2> USE <1>7 DEF Submit, At, vars, files, units, counters
  <2>1. TypeOK'
    BY DEF TypeOK, Steps, Names
  <2>2. Owned'
    BY DEF Owned, TypeOK, Steps, Names
  <2>3. Progress' /\ Armed'
    BY DEF Progress, Armed, TypeOK, Owned, Marked, FromUnpend, FromDiagnostics, FromAutologin, FromShell, FromSettings
  <2>4. Marked'
    BY DEF Marked, Owned, Progress, TypeOK, CompleteMeansApplied, FromUnpend, FromDiagnostics, FromAutologin, FromShell, FromSettings
  <2>5. Switched'
    BY DEF Switched, NeverBothEnabled, TypeOK, Marked
  <2> QED
    BY <2>1, <2>2, <2>3, <2>4, <2>5
<1>8. ASSUME Pend PROVE FirstBootInv'
  <2> USE <1>8 DEF Pend, At, vars, files, units, counters
  <2>1. TypeOK'
    BY DEF TypeOK, Steps, Names
  <2>2. Owned'
    BY DEF Owned, TypeOK, Steps, Names
  <2>3. Progress' /\ Armed'
    BY DEF Progress, Armed, TypeOK, Owned, Marked, FromUnpend, FromDiagnostics, FromAutologin, FromShell, FromSettings
  <2>4. Marked'
    BY DEF Marked, Owned, Progress, TypeOK, CompleteMeansApplied, FromUnpend, FromDiagnostics, FromAutologin, FromShell, FromSettings
  <2>5. Switched'
    BY DEF Switched, NeverBothEnabled, TypeOK, Marked
  <2> QED
    BY <2>1, <2>2, <2>3, <2>4, <2>5
<1>9. ASSUME UserAdd PROVE FirstBootInv'
  <2> USE <1>9 DEF UserAdd, At, vars, files, units, counters
  <2>1. TypeOK'
    BY DEF TypeOK, Steps, Names, Owned
  <2>2. Owned'
    BY DEF Owned, TypeOK, Steps, Names
  <2>3. Progress' /\ Armed'
    BY DEF Progress, Armed, TypeOK, Owned, Marked, FromUnpend, FromDiagnostics, FromAutologin, FromShell, FromSettings
  <2>4. Marked'
    BY DEF Marked, Owned, Progress, TypeOK, CompleteMeansApplied, FromUnpend, FromDiagnostics, FromAutologin, FromShell, FromSettings
  <2>5. Switched'
    BY DEF Switched, NeverBothEnabled, TypeOK, Marked
  <2> QED
    BY <2>1, <2>2, <2>3, <2>4, <2>5
<1>10. ASSUME ChPasswd PROVE FirstBootInv'
  <2> USE <1>10 DEF ChPasswd, At, vars, files, units, counters
  <2>1. TypeOK'
    BY DEF TypeOK, Steps, Names, Owned
  <2>2. Owned'
    BY DEF Owned, TypeOK, Steps, Names
  <2>3. Progress' /\ Armed'
    BY DEF Progress, Armed, TypeOK, Owned, Marked, FromUnpend, FromDiagnostics, FromAutologin, FromShell, FromSettings
  <2>4. Marked'
    BY DEF Marked, Owned, Progress, TypeOK, CompleteMeansApplied, FromUnpend, FromDiagnostics, FromAutologin, FromShell, FromSettings
  <2>5. Switched'
    BY DEF Switched, NeverBothEnabled, TypeOK, Marked
  <2> QED
    BY <2>1, <2>2, <2>3, <2>4, <2>5
<1>11. ASSUME ApplySettings PROVE FirstBootInv'
  <2> USE <1>11 DEF ApplySettings, At, vars, files, units, counters
  <2>1. TypeOK'
    BY DEF TypeOK, Steps, Names
  <2>2. Owned'
    BY DEF Owned, TypeOK, Steps, Names
  <2>3. Progress' /\ Armed'
    BY DEF Progress, Armed, TypeOK, Owned, Marked, FromUnpend, FromDiagnostics, FromAutologin, FromShell, FromSettings
  <2>4. Marked'
    BY DEF Marked, Owned, Progress, TypeOK, CompleteMeansApplied, FromUnpend, FromDiagnostics, FromAutologin, FromShell, FromSettings
  <2>5. Switched'
    BY DEF Switched, NeverBothEnabled, TypeOK, Marked
  <2> QED
    BY <2>1, <2>2, <2>3, <2>4, <2>5
<1>12. ASSUME ApplyShell PROVE FirstBootInv'
  <2> USE <1>12 DEF ApplyShell, At, vars, files, units, counters
  <2>1. TypeOK'
    BY DEF TypeOK, Steps, Names
  <2>2. Owned'
    BY DEF Owned, TypeOK, Steps, Names
  <2>3. Progress' /\ Armed'
    BY DEF Progress, Armed, TypeOK, Owned, Marked, FromUnpend, FromDiagnostics, FromAutologin, FromShell, FromSettings
  <2>4. Marked'
    BY DEF Marked, Owned, Progress, TypeOK, CompleteMeansApplied, FromUnpend, FromDiagnostics, FromAutologin, FromShell, FromSettings
  <2>5. Switched'
    BY DEF Switched, NeverBothEnabled, TypeOK, Marked
  <2> QED
    BY <2>1, <2>2, <2>3, <2>4, <2>5
<1>13. ASSUME WriteAutologin PROVE FirstBootInv'
  <2> USE <1>13 DEF WriteAutologin, At, vars, files, units, counters
  <2>1. TypeOK'
    BY DEF TypeOK, Steps, Names
  <2>2. Owned'
    BY DEF Owned, TypeOK, Steps, Names
  <2>3. Progress' /\ Armed'
    BY DEF Progress, Armed, TypeOK, Owned, Marked, FromUnpend, FromDiagnostics, FromAutologin, FromShell, FromSettings
  <2>4. Marked'
    BY DEF Marked, Owned, Progress, TypeOK, CompleteMeansApplied, FromUnpend, FromDiagnostics, FromAutologin, FromShell, FromSettings
  <2>5. Switched'
    BY DEF Switched, NeverBothEnabled, TypeOK, Marked
  <2> QED
    BY <2>1, <2>2, <2>3, <2>4, <2>5
<1>14. ASSUME ArmTimer PROVE FirstBootInv'
  <2> USE <1>14 DEF ArmTimer, At, vars, files, units, counters
  <2>1. TypeOK'
    BY DEF TypeOK, Steps, Names
  <2>2. Owned'
    BY DEF Owned, TypeOK, Steps, Names
  <2>3. Progress' /\ Armed'
    BY DEF Progress, Armed, TypeOK, Owned, Marked, FromUnpend, FromDiagnostics, FromAutologin, FromShell, FromSettings
  <2>4. Marked'
    BY DEF Marked, Owned, Progress, TypeOK, CompleteMeansApplied, FromUnpend, FromDiagnostics, FromAutologin, FromShell, FromSettings
  <2>5. Switched'
    BY DEF Switched, NeverBothEnabled, TypeOK, Marked
  <2> QED
    BY <2>1, <2>2, <2>3, <2>4, <2>5
<1>15. ASSUME Diagnostics PROVE FirstBootInv'
  <2> USE <1>15 DEF Diagnostics, At, vars, files, units, counters
  <2>1. TypeOK'
    BY DEF TypeOK, Steps, Names
  <2>2. Owned'
    BY DEF Owned, TypeOK, Steps, Names
  <2>3. Progress' /\ Armed'
    BY DEF Progress, Armed, TypeOK, Owned, Marked, FromUnpend, FromDiagnostics, FromAutologin, FromShell, FromSettings
  <2>4. Marked'
    BY DEF Marked, Owned, Progress, TypeOK, CompleteMeansApplied, FromUnpend, FromDiagnostics, FromAutologin, FromShell, FromSettings
  <2>5. Switched'
    BY DEF Switched, NeverBothEnabled, TypeOK, Marked
  <2> QED
    BY <2>1, <2>2, <2>3, <2>4, <2>5
<1>16. ASSUME WriteMarker PROVE FirstBootInv'
  <2> USE <1>16 DEF WriteMarker, At, vars, files, units, counters
  <2>1. TypeOK'
    BY DEF TypeOK, Steps, Names
  <2>2. Owned'
    BY DEF Owned, TypeOK, Steps, Names
  <2>3. Progress' /\ Armed'
    BY DEF Progress, Armed, TypeOK, Owned, Marked, FromUnpend, FromDiagnostics, FromAutologin, FromShell, FromSettings
  <2>4. Marked'
    BY DEF Marked, Owned, Progress, TypeOK, CompleteMeansApplied, FromUnpend, FromDiagnostics, FromAutologin, FromShell, FromSettings
  <2>5. Switched'
    BY DEF Switched, NeverBothEnabled, TypeOK, Marked
  <2> QED
    BY <2>1, <2>2, <2>3, <2>4, <2>5
<1>17. ASSUME Unpend PROVE FirstBootInv'
  <2> USE <1>17 DEF Unpend, At, vars, files, units, counters
  <2>1. TypeOK'
    BY DEF TypeOK, Steps, Names
  <2>2. Owned'
    BY DEF Owned, TypeOK, Steps, Names
  <2>3. Progress' /\ Armed'
    BY DEF Progress, Armed, TypeOK, Owned, Marked, FromUnpend, FromDiagnostics, FromAutologin, FromShell, FromSettings
  <2>4. Marked'
    BY DEF Marked, Owned, Progress, TypeOK, CompleteMeansApplied, FromUnpend, FromDiagnostics, FromAutologin, FromShell, FromSettings
  <2>5. Switched'
    BY DEF Switched, NeverBothEnabled, TypeOK, Marked
  <2> QED
    BY <2>1, <2>2, <2>3, <2>4, <2>5
<1>18. ASSUME DisableOobe PROVE FirstBootInv'
  <2> USE <1>18 DEF DisableOobe, At, vars, files, units, counters
  <2>1. TypeOK'
    <3>1. /\ oobeEnabled' \in BOOLEAN /\ sddmEnabled' \in BOOLEAN
          /\ timerEnabled' \in BOOLEAN /\ cleaning' \in BOOLEAN
      BY Zenon DEF TypeOK
    <3> QED
      BY <3>1 DEF TypeOK, Steps, Names
  <2>2. Owned'
    BY DEF Owned, TypeOK, Steps, Names
  <2>3. Progress' /\ Armed'
    BY DEF Progress, Armed, TypeOK, Owned, Marked, FromUnpend, FromDiagnostics, FromAutologin, FromShell, FromSettings
  <2>4. Marked'
    BY DEF Marked, Owned, Progress, TypeOK, CompleteMeansApplied, FromUnpend, FromDiagnostics, FromAutologin, FromShell, FromSettings
  <2>5. Switched'
    BY DEF Switched, NeverBothEnabled, TypeOK, Marked
  <2> QED
    BY <2>1, <2>2, <2>3, <2>4, <2>5
<1>19. ASSUME EnableSddm PROVE FirstBootInv'
  <2> USE <1>19 DEF EnableSddm, At, vars, files, units, counters
  <2>1. TypeOK'
    BY DEF TypeOK, Steps, Names
  <2>2. Owned'
    BY DEF Owned, TypeOK, Steps, Names
  <2>3. Progress' /\ Armed'
    BY DEF Progress, Armed, TypeOK, Owned, Marked, FromUnpend, FromDiagnostics, FromAutologin, FromShell, FromSettings
  <2>4. Marked'
    BY DEF Marked, Owned, Progress, TypeOK, CompleteMeansApplied, FromUnpend, FromDiagnostics, FromAutologin, FromShell, FromSettings
  <2>5. Switched'
    BY DEF Switched, NeverBothEnabled, TypeOK, Marked
  <2> QED
    BY <2>1, <2>2, <2>3, <2>4, <2>5
<1>20. ASSUME StepFails PROVE FirstBootInv'
  <2> USE <1>20 DEF StepFails, At, vars, files, units, counters
  <2>1. TypeOK'
    BY DEF TypeOK, Steps, Names
  <2>2. Owned'
    BY DEF Owned, TypeOK, Steps, Names
  <2>3. Progress' /\ Armed'
    BY DEF Progress, Armed, TypeOK, Owned, Marked, FromUnpend, FromDiagnostics, FromAutologin, FromShell, FromSettings
  <2>4. Marked'
    BY DEF Marked, Owned, Progress, TypeOK, CompleteMeansApplied, FromUnpend, FromDiagnostics, FromAutologin, FromShell, FromSettings
  <2>5. Switched'
    BY DEF Switched, NeverBothEnabled, TypeOK, Marked
  <2> QED
    BY <2>1, <2>2, <2>3, <2>4, <2>5
<1>21. ASSUME Handoff PROVE FirstBootInv'
  <2> USE <1>21 DEF Handoff, LoginScreen, At, vars, files, units, counters
  <2>1. TypeOK'
    BY DEF TypeOK, Steps, Names
  <2>2. Owned'
    BY DEF Owned, TypeOK, Steps, Names
  <2>3. Progress' /\ Armed'
    BY DEF Progress, Armed, TypeOK, Owned, Marked, FromUnpend, FromDiagnostics, FromAutologin, FromShell, FromSettings
  <2>4. Marked'
    BY DEF Marked, Owned, Progress, TypeOK, CompleteMeansApplied, FromUnpend, FromDiagnostics, FromAutologin, FromShell, FromSettings
  <2>5. Switched'
    BY DEF Switched, NeverBothEnabled, TypeOK, Marked
  <2> QED
    BY <2>1, <2>2, <2>3, <2>4, <2>5
<1>22. CASE UNCHANGED vars
  BY <1>22 DEF vars, files, units, counters, TypeOK, Owned, Progress, Marked, Switched,
     Armed, CompleteMeansApplied, NeverBothEnabled
<1> QED
  BY <1>1, <1>2, <1>3, <1>4, <1>5, <1>6, <1>7, <1>8, <1>9, <1>10, <1>11, <1>12, <1>13, <1>14, <1>15, <1>16, <1>17, <1>18, <1>19, <1>20, <1>21, <1>22 DEF Next, Finalize

\* The invariant holds in every state of every behaviour: what each step of
\* finalize_oobe finds is what the steps before it have left, also after runs
\* that were broken off.
THEOREM FirstBootInvariant == Spec => []FirstBootInv
BY InitInv, NextInv, PTL DEF Spec

\* finalize_oobe never sets the password of an account it has not made.
THEOREM NoSystemPassword == Spec => []SystemAccountsUntouched
<1>1. FirstBootInv => SystemAccountsUntouched
  BY DEF FirstBootInv, Owned, SystemAccountsUntouched
<1> QED
  BY <1>1, FirstBootInvariant, PTL

\* The mark of a complete setup names an account with its password, settings
\* and desktop.
THEOREM CompletionIsTrue == Spec => []CompleteMeansApplied
<1>1. FirstBootInv => CompleteMeansApplied
  BY DEF FirstBootInv, Marked
<1> QED
  BY <1>1, FirstBootInvariant, PTL

\* aero7-oobe.service and sddm.service are never enabled together.
THEOREM OneSessionEnabled == Spec => []NeverBothEnabled
<1>1. FirstBootInv => NeverBothEnabled
  BY DEF FirstBootInv, Switched
<1> QED
  BY <1>1, FirstBootInvariant, PTL

\* handoffToDesktop finds the cleanup timer active.
THEOREM HandoffPasses == Spec => []HandoffNeverRefused
<1>1. FirstBootInv => HandoffNeverRefused
  BY DEF FirstBootInv, Armed, HandoffNeverRefused, At, FromDiagnostics, FromUnpend
<1> QED
  BY <1>1, FirstBootInvariant, PTL
=============================================================================
