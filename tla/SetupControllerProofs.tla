------------------------ MODULE SetupControllerProofs ------------------------
(***************************************************************************)
(* Proofs about SetupController for every disk, every set of offers and    *)
(* any number of requests: the pages that tell of success come after the   *)
(* work, the target that is installed to is one that is shown and          *)
(* complete, the plans with the password go with their backend, and the    *)
(* forms stay fit.  The invariants are not inductive by themselves: what   *)
(* the end of a backend means depends on the page that is shown and on     *)
(* what was asked for last (Asked, Answers).                               *)
(*                                                                         *)
(* A process that the program has given up waiting for takes part in all   *)
(* of it, whatever its command.  One that loads a storage driver succeeds  *)
(* without a plan, and its end is taken for the end of the work: that is   *)
(* the one exception that SuccessIsReal names.                             *)
(***************************************************************************)
EXTENDS SetupController, TLAPS

-----------------------------------------------------------------------------
(* The inductive invariant.                                                *)

\* A timer runs on the page it belongs to and on no other.
TimersOfPage ==
    /\ transition => screen \in Automatic
    /\ ticking => screen = "CompleteScreen"
    /\ handoff => screen = "PreparingDesktopScreen"

\* What the program waits for, and the page on which it does.
Asked ==
    /\ purpose # "none" => busy /\ proc.state \notin {"none", "late"}
    /\ purpose \in StoragePurposes => screen = "DiskScreen"
    /\ purpose = "install" => screen = "ProgressScreen"
    /\ purpose = "oobe" => screen = "FinalizingScreen"

\* What the backend is, whatever the program waits for.  One that nobody waits
\* for, or that is taken for another, is about a plan that has been removed.
Answers ==
    /\ proc.state = "none" => proc = NoProc
    /\ proc.state # "none" => proc.cmd # "none"
    /\ proc.cmd = "install" => screen = "ProgressScreen"
    /\ proc.cmd = "oobe-finalize" => screen = "FinalizingScreen"
    /\ proc.cmd \in {"storage-action", "load-driver"} => mode = "installer"
    /\ proc.cmd = "storage-action" /\ purpose \notin StoragePurposes =>
           /\ proc.plan = NoPlan /\ proc.state # "ok"
           /\ proc.state \in {"late", "started"} => planFiles["storage"] = NoPlan
    /\ proc.state = "ok" =>
           /\ proc.cmd = "install" => installed
           /\ proc.cmd = "oobe-finalize" => finalized

\* A plan that may hold the password is the one the running backend is about.
PlanIsActive ==
    /\ planFiles["install"] # NoPlan => activePlan = "install" /\ purpose = "install"
    /\ planFiles["oobe"] # NoPlan => activePlan = "oobe" /\ purpose = "oobe"

\* A row as the list has it.
ListedRows ==
    \A r \in listed : r.kind \in {"disk", "partition", "free"} /\ ~r.planned

SetupInv ==
    /\ TypeOK /\ TimersOfPage /\ Asked /\ Answers /\ PlanIsActive /\ ListedRows
    /\ TargetShownAndReady

\* While a driver is being loaded the program waits for it, unless it has given up
\* waiting for its start.
DriverIsAwaited == proc.cmd = "load-driver" /\ ~proc.late => purpose \in StoragePurposes

\* What the page and the session tell of the work that is done.
WorkDone ==
    /\ screen \in {"OobeWelcomeScreen", "PreparingDesktopScreen"} \/ handoff => finalized
    /\ session = "rebooting" => screen = "CompleteScreen"
    /\ installed => screen \in {"ProgressScreen", "CompleteScreen"}

FlowInv == DriverIsAwaited /\ FormsStayFit /\ WorkDone

-----------------------------------------------------------------------------
(* The pages.                                                              *)

\* Which page is where.
LEMMA PageAt ==
    ASSUME NEW m \in Modes, NEW i \in 1..Len(screensFor(m)), NEW p, p = screensFor(m)[i]
    PROVE  \/ m = "installer" /\ \/ i = 1 /\ p = "LanguageScreen"
                                 \/ i = 2 /\ p = "WelcomeScreen"
                                 \/ i = 3 /\ p = "StartingScreen"
                                 \/ i = 4 /\ p = "LicenseScreen"
                                 \/ i = 5 /\ p = "InstallTypeScreen"
                                 \/ i = 6 /\ p = "DiskScreen"
                                 \/ i = 7 /\ p = "ConfirmScreen"
                                 \/ i = 8 /\ p = "ProgressScreen"
                                 \/ i = 9 /\ p = "CompleteScreen"
           \/ m = "oobe" /\ \/ i = 1 /\ p = "ApplyingSettingsScreen"
                            \/ i = 2 /\ p = "VideoPerformanceScreen"
                            \/ i = 3 /\ p = "AccountScreen"
                            \/ i = 4 /\ p = "PasswordScreen"
                            \/ i = 5 /\ p = "UpdatesScreen"
                            \/ i = 6 /\ p = "TimeScreen"
                            \/ i = 7 /\ p = "NetworkScreen"
                            \/ i = 8 /\ p = "FinalizingScreen"
                            \/ i = 9 /\ p = "OobeWelcomeScreen"
                            \/ i = 10 /\ p = "PreparingDesktopScreen"
                            \/ i = 11 /\ p = "DesktopScreen"
<1>1. Len(InstallerScreens) = 9 /\ Len(OobeScreens) = 11
  BY DEF InstallerScreens, OobeScreens
<1>2. CASE m = "installer"
  <2>1. i \in 1..9 /\ p = InstallerScreens[i]
    BY <1>1, <1>2 DEF screensFor
  <2> QED
    BY <1>2, <2>1 DEF InstallerScreens
<1>3. CASE m = "oobe"
  <2>1. i \in 1..11 /\ p = OobeScreens[i]
    BY <1>1, <1>3 DEF screensFor
  <2> QED
    BY <1>3, <2>1 DEF OobeScreens
<1> QED
  BY <1>2, <1>3 DEF Modes

\* Where the pages are that the program jumps to, and those with a form.
LEMMA PagePlaces ==
    /\ Len(screensFor("installer")) = 9 /\ Len(screensFor("oobe")) = 11
    /\ \A m \in Modes : {8, 9} \subseteq 1..Len(screensFor(m))
    /\ IndexOf("installer", "LicenseScreen") = 4
    /\ IndexOf("installer", "ProgressScreen") = 8
    /\ IndexOf("installer", "CompleteScreen") = 9
    /\ IndexOf("oobe", "AccountScreen") = 3 /\ IndexOf("oobe", "PasswordScreen") = 4
    /\ IndexOf("oobe", "FinalizingScreen") = 8
    /\ IndexOf("oobe", "OobeWelcomeScreen") = 9
<1>1. Len(screensFor("installer")) = 9 /\ Len(screensFor("oobe")) = 11
  BY DEF screensFor, InstallerScreens, OobeScreens
<1>2. /\ screensFor("installer")[4] = "LicenseScreen"
      /\ screensFor("installer")[8] = "ProgressScreen"
      /\ screensFor("installer")[9] = "CompleteScreen"
  BY DEF screensFor, InstallerScreens
<1>3. /\ screensFor("oobe")[3] = "AccountScreen" /\ screensFor("oobe")[4] = "PasswordScreen"
      /\ screensFor("oobe")[8] = "FinalizingScreen"
      /\ screensFor("oobe")[9] = "OobeWelcomeScreen"
  BY DEF screensFor, OobeScreens
<1>4. ASSUME NEW m \in Modes, NEW i \in 1..Len(screensFor(m)), NEW p, screensFor(m)[i] = p
      PROVE  IndexOf(m, p) = i
  <2>1. ASSUME NEW j \in 1..Len(screensFor(m)), screensFor(m)[j] = p
        PROVE  j = i
    BY <1>4, <2>1, PageAt
  <2> QED
    BY <1>4, <2>1 DEF IndexOf
<1>5. \A m \in Modes : {8, 9} \subseteq 1..Len(screensFor(m))
  <2>1. /\ 1..Len(screensFor("installer")) = 1..9
        /\ 1..Len(screensFor("oobe")) = 1..11
    BY <1>1, Zenon
  <2>2. {8, 9} \subseteq 1..9 /\ {8, 9} \subseteq 1..11
    OBVIOUS
  <2> QED
    BY <2>1, <2>2, Zenon DEF Modes
<1> QED
  BY <1>1, <1>2, <1>3, <1>4, <1>5 DEF Modes

\* One page on.
LEMMA NextPage ==
    ASSUME TypeOK, moveNext
    PROVE  /\ mode' = mode /\ index' = index + 1 /\ index' \in 1..Len(screensFor(mode))
           /\ screen' = "ConfirmScreen" => screen = "DiskScreen"
           /\ screen' = "ProgressScreen" => screen = "ConfirmScreen"
           /\ screen' = "CompleteScreen" => screen = "ProgressScreen"
           /\ screen' = "FinalizingScreen" => screen = "NetworkScreen"
           /\ screen' = "OobeWelcomeScreen" => screen = "FinalizingScreen"
           /\ screen' = "PreparingDesktopScreen" => screen = "OobeWelcomeScreen"
           /\ transition' = (screen' \in Automatic) /\ busy' = (screen' \in Automatic)
           /\ ticking' = (screen' = "CompleteScreen")
<1>1. /\ mode' = mode /\ index' = index + 1 /\ index < Len(screensFor(mode))
      /\ transition' = (screen' \in Automatic) /\ busy' = (screen' \in Automatic)
      /\ ticking' = (screen' = "CompleteScreen")
  BY DEF moveNext, Enter, screen
<1>2. /\ mode \in Modes /\ index \in 1..Len(screensFor(mode)) /\ Len(screensFor(mode)) \in Nat
  BY PagePlaces DEF TypeOK, Modes
<1>3. index + 1 \in 1..Len(screensFor(mode))
  BY <1>1, <1>2
<1>4. screen = screensFor(mode)[index] /\ screen' = screensFor(mode)[index + 1]
  BY <1>1 DEF screen
<1> DEFINE p == screen
           q == screen'
<1> HIDE DEF p, q
<1>5. p = screensFor(mode)[index] /\ q = screensFor(mode)[index + 1]
  BY <1>4 DEF p, q
<1>6. /\ q = "ConfirmScreen" => p = "DiskScreen"
      /\ q = "ProgressScreen" => p = "ConfirmScreen"
      /\ q = "CompleteScreen" => p = "ProgressScreen"
      /\ q = "FinalizingScreen" => p = "NetworkScreen"
      /\ q = "OobeWelcomeScreen" => p = "FinalizingScreen"
      /\ q = "PreparingDesktopScreen" => p = "OobeWelcomeScreen"
  BY <1>2, <1>3, <1>5, PageAt
<1> QED
  BY <1>1, <1>3, <1>6 DEF p, q

\* One page back.
LEMMA LastPage ==
    ASSUME TypeOK, canGoBack(mode, index), Enter(index - 1), mode' = mode
    PROVE  /\ index' = index - 1 /\ index' \in 1..Len(screensFor(mode))
           /\ screen' \notin {"ConfirmScreen", "ProgressScreen", "CompleteScreen",
                              "FinalizingScreen", "OobeWelcomeScreen",
                              "PreparingDesktopScreen"}
           /\ screen \notin {"ProgressScreen", "FinalizingScreen", "CompleteScreen"}
           /\ transition' = (screen' \in Automatic) /\ busy' = (screen' \in Automatic)
           /\ ticking' = (screen' = "CompleteScreen")
<1>1. /\ index' = index - 1
      /\ transition' = (screen' \in Automatic) /\ busy' = (screen' \in Automatic)
      /\ ticking' = (screen' = "CompleteScreen")
  BY DEF Enter, screen
<1>2. /\ mode \in Modes /\ index \in 1..Len(screensFor(mode)) /\ Len(screensFor(mode)) \in Nat
  BY PagePlaces DEF TypeOK, Modes
<1>3. index - 1 \in 1..Len(screensFor(mode))
  BY <1>2 DEF canGoBack
<1> DEFINE p == screen
           q == screen'
<1>4. screen = screensFor(mode)[index] /\ screen' = screensFor(mode)[index - 1]
  BY <1>1 DEF screen
<1>5. p \notin {"StartingScreen", "ProgressScreen", "CompleteScreen",
          "ApplyingSettingsScreen", "VideoPerformanceScreen", "AccountScreen",
          "FinalizingScreen", "OobeWelcomeScreen", "PreparingDesktopScreen",
          "DesktopScreen"}
  BY <1>4 DEF canGoBack
<1> HIDE DEF p, q
<1>6. p = screensFor(mode)[index] /\ q = screensFor(mode)[index - 1]
  BY <1>4 DEF p, q
<1>7. q \notin {"ConfirmScreen", "ProgressScreen", "CompleteScreen",
                "FinalizingScreen", "OobeWelcomeScreen", "PreparingDesktopScreen"}
  <2>1. \/ p = "LanguageScreen" /\ index = 1
        \/ p = "WelcomeScreen" /\ mode = "installer" /\ index = 2
        \/ p = "LicenseScreen" /\ mode = "installer" /\ index = 4
        \/ p = "InstallTypeScreen" /\ mode = "installer" /\ index = 5
        \/ p = "DiskScreen" /\ mode = "installer" /\ index = 6
        \/ p = "ConfirmScreen" /\ mode = "installer" /\ index = 7
        \/ p = "PasswordScreen" /\ mode = "oobe" /\ index = 4
        \/ p = "UpdatesScreen" /\ mode = "oobe" /\ index = 5
        \/ p = "TimeScreen" /\ mode = "oobe" /\ index = 6
        \/ p = "NetworkScreen" /\ mode = "oobe" /\ index = 7
    BY <1>2, <1>5, <1>6, PageAt
  <2> QED
    BY <1>2, <1>3, <1>6, <2>1, PageAt
<1> QED
  BY <1>1, <1>3, <1>5, <1>7 DEF p, q

\* The page of the backend's work, and the page behind it.
LEMMA WorkPage ==
    ASSUME TypeOK, NEW s \in {"ProgressScreen", "FinalizingScreen"}, Work(s),
           (s = "ProgressScreen") <=> (mode = "installer")
    PROVE  /\ mode' = mode /\ index' = 8 /\ index' \in 1..Len(screensFor(mode))
           /\ screen' = s
<1>1. mode' = mode /\ index' = IndexOf(mode, s) /\ mode \in {"installer", "oobe"}
  BY DEF Work, TypeOK, Modes
<1>2. index' = 8 /\ index' \in 1..Len(screensFor(mode))
  <2>1. index' = 8
    BY <1>1, PagePlaces
  <2>2. 8 \in 1..Len(screensFor(mode))
    BY <1>1, PagePlaces DEF Modes
  <2> QED
    BY <2>1, <2>2
<1>3. screen' = screensFor(mode)[8]
  BY <1>1, <1>2 DEF screen
<1>4. screensFor("installer")[8] = "ProgressScreen" /\ screensFor("oobe")[8] = "FinalizingScreen"
  BY DEF screensFor, InstallerScreens, OobeScreens
<1> QED
  BY <1>1, <1>2, <1>3, <1>4

\* The page that tells of the result: the last of the installer, the welcome of first boot.
LEMMA ResultPage ==
    ASSUME TypeOK, mode' = mode,
           Enter(IndexOf(mode, IF mode = "oobe" THEN "OobeWelcomeScreen"
                                                ELSE "CompleteScreen"))
    PROVE  /\ index' = 9 /\ index' \in 1..Len(screensFor(mode))
           /\ screen' = IF mode = "oobe" THEN "OobeWelcomeScreen" ELSE "CompleteScreen"
           /\ transition' = (screen' \in Automatic) /\ busy' = (screen' \in Automatic)
           /\ ticking' = (screen' = "CompleteScreen")
<1>1. mode \in {"installer", "oobe"}
  BY DEF TypeOK, Modes
<1>2. IndexOf(mode, IF mode = "oobe" THEN "OobeWelcomeScreen" ELSE "CompleteScreen") = 9
  BY <1>1, PagePlaces
<1>3. /\ index' = 9
      /\ transition' = (screen' \in Automatic) /\ busy' = (screen' \in Automatic)
      /\ ticking' = (screen' = "CompleteScreen")
  BY <1>2 DEF Enter, screen
<1>4. 9 \in 1..Len(screensFor(mode))
  BY <1>1, PagePlaces DEF Modes
<1>5. screen' = screensFor(mode)[9]
  BY <1>3 DEF screen
<1>6. screensFor("installer")[9] = "CompleteScreen" /\ screensFor("oobe")[9] = "OobeWelcomeScreen"
  BY DEF screensFor, InstallerScreens, OobeScreens
<1> QED
  BY <1>1, <1>3, <1>4, <1>5, <1>6

\* The page decides the mode.
LEMMA ModeOfPage ==
    ASSUME TypeOK
    PROVE  /\ screen \in {"StartingScreen", "LicenseScreen", "DiskScreen", "ConfirmScreen",
                          "ProgressScreen", "CompleteScreen"} => mode = "installer"
           /\ screen \in {"AccountScreen", "PasswordScreen", "NetworkScreen",
                          "FinalizingScreen", "OobeWelcomeScreen",
                          "PreparingDesktopScreen"} => mode = "oobe"
           /\ screen = "ConfirmScreen" => index = 7
           /\ screen = "ProgressScreen" => index = 8
           /\ screen = "NetworkScreen" => index = 7
           /\ screen = "FinalizingScreen" => index = 8
<1> DEFINE p == screen
<1>1. mode \in Modes /\ index \in 1..Len(screensFor(mode)) /\ p = screensFor(mode)[index]
  BY DEF TypeOK, screen
<1> HIDE DEF p
<1>2. /\ p \in {"StartingScreen", "LicenseScreen", "DiskScreen", "ConfirmScreen",
                "ProgressScreen", "CompleteScreen"} => mode = "installer"
      /\ p \in {"AccountScreen", "PasswordScreen", "NetworkScreen", "FinalizingScreen",
                "OobeWelcomeScreen", "PreparingDesktopScreen"} => mode = "oobe"
      /\ p = "ConfirmScreen" => index = 7
      /\ p = "ProgressScreen" => index = 8
      /\ p = "NetworkScreen" => index = 7
      /\ p = "FinalizingScreen" => index = 8
  BY <1>1, PageAt
<1> QED
  BY <1>2 DEF p

-----------------------------------------------------------------------------
(* Types, timers and what the program waits for.                           *)

Commands == {"install", "oobe-finalize", "storage-action", "load-driver"}
Processes == [state: {"none", "late", "started", "running", "ok", "error"},
              cmd: Commands \union {"none"}, plan: Plans, late: BOOLEAN]
Purposes == StoragePurposes \union {"none", "install", "oobe"}

BackendTypes ==
    /\ busy \in BOOLEAN /\ proc \in Processes /\ planFiles \in [PlanNames -> Plans]
    /\ activePlan \in PlanNames \union {"none"} /\ purpose \in Purposes
    /\ requests \in 0..MaxRequests

LEMMA NoPlanIsPlan == NoPlan \in Plans /\ NoPlan.action = "none"
BY DEF NoPlan, Plans

\* Asking for a backend, whether it starts or not.
LEMMA RequestTypes ==
    ASSUME BackendTypes, NEW cmd \in Commands, NEW plan \in Plans,
           NEW file \in PlanNames \union {"none"}, NEW why \in Purposes,
           Started(cmd, plan, file, why) \/ NotStarted(cmd, plan, file)
    PROVE  BackendTypes'
<1>1. busy' \in BOOLEAN
  BY DEF Started, NotStarted
<1>2. planFiles' \in [PlanNames -> Plans]
  BY NoPlanIsPlan DEF Started, NotStarted, BackendTypes
<1>3. activePlan' \in PlanNames \union {"none"} /\ purpose' \in Purposes
  BY DEF Started, NotStarted, Purposes
<1>4. requests' \in 0..MaxRequests
  BY SetupAssumption DEF Started, NotStarted, BackendTypes
<1>5. proc' \in Processes
  <2>1. \A s \in {"late", "started"} : Process(s, cmd) \in Processes
    BY NoPlanIsPlan DEF Process, Processes
  <2>2. [proc EXCEPT !.state = "started"] \in Processes
    BY DEF Processes, BackendTypes
  <2>3. \/ proc' = Process("started", cmd) \/ proc' = Process("late", cmd)
        \/ proc' = [proc EXCEPT !.state = "started"] \/ proc' = proc
    <3>1. CASE NotStarted(cmd, plan, file)
      BY <3>1 DEF NotStarted
    <3>2. CASE Started(cmd, plan, file, why)
      <4>1. CASE proc.state = "none"
        BY <3>2, <4>1 DEF Started
      <4>2. CASE proc.state = "late"
        BY <3>2, <4>2 DEF Started
      <4>3. CASE proc.state \notin {"none", "late"}
        BY <3>2, <4>3 DEF Started
      <4> QED
        BY <4>1, <4>2, <4>3
    <3> QED
      BY <3>1, <3>2
  <2> QED
    BY <2>1, <2>2, <2>3 DEF BackendTypes
<1> QED
  BY <1>1, <1>2, <1>3, <1>4, <1>5 DEF BackendTypes

\* What a request does to the process.
LEMMA StartedProcess ==
    ASSUME NEW cmd, NEW plan, NEW file, NEW why, Started(cmd, plan, file, why)
    PROVE  /\ proc.state = "none" => proc' = Process("started", cmd)
           /\ proc.state = "late" => proc' = [proc EXCEPT !.state = "started"]
           /\ proc.state \notin {"none", "late"} => proc' = proc
           /\ busy' = TRUE /\ purpose' = why /\ activePlan' = file
           /\ planFiles' = IF file = "none" THEN planFiles
                                            ELSE [planFiles EXCEPT ![file] = plan]
<1>1. CASE proc.state = "none"
  BY <1>1 DEF Started
<1>2. CASE proc.state = "late"
  BY <1>2 DEF Started
<1>3. CASE proc.state \notin {"none", "late"}
  BY <1>3 DEF Started
<1> QED
  BY <1>1, <1>2, <1>3

\* The rows of a list, as refreshDisks makes them.
LEMMA RowTypes ==
    ASSUME NEW S \in SUBSET Partitions
    PROVE  /\ RowsOf(S) \subseteq Rows /\ NoRow \in Rows
           /\ \A r \in RowsOf(S) : r.kind \in {"disk", "partition", "free"} /\ ~r.planned
<1>1. ASSUME NEW k \in {"none", "disk", "partition", "free"}, NEW p \in Partitions \union {None}
      PROVE  Row(k, p) \in Rows /\ Row(k, p).kind = k /\ ~Row(k, p).planned
  BY DEF Row, Rows
<1>2. NoRow \in Rows
  BY DEF NoRow, Rows
<1>3. ASSUME NEW r \in RowsOf(S)
      PROVE  r \in Rows /\ r.kind \in {"disk", "partition", "free"} /\ ~r.planned
  <2>1. \/ r = Row("disk", None) \/ \E p \in S : r = Row("partition", p)
        \/ \E p \in Partitions \ S : r = Row("free", p)
    BY DEF RowsOf
  <2> QED
    BY <1>1, <2>1
<1> QED
  BY <1>2, <1>3

LEMMA SetupInitial == Init => SetupInv
<1> SUFFICES ASSUME Init PROVE SetupInv
  OBVIOUS
<1>1. 1 \in 1..Len(screensFor(mode)) /\ mode \in Modes
  BY PagePlaces DEF Init, Modes, screensFor, InstallerScreens, OobeScreens
<1>2. listed \subseteq Rows /\ ListedRows
  <2>1. listed \in {{}, RowsOf(Partitions)}
    BY DEF Init
  <2> QED
    BY <2>1, RowTypes DEF ListedRows
<1>3. /\ [action |-> "none", named |-> NoRow] \in
            [action: {"none", "delete", "format", "extend", "driver"}, named: Rows]
      /\ NoRow \in Rows
  BY RowTypes
<1>4. proc = NoProc /\ NoProc \in Processes /\ NoPlan \in Plans
  BY NoPlanIsPlan DEF Init, NoProc, Processes
<1>5. TypeOK
  <2>1. requests \in 0..MaxRequests /\ countdown \in 0..RestartSeconds
    BY SetupAssumption DEF Init
  <2>2. transition \in BOOLEAN /\ busy \in BOOLEAN
    BY DEF Init
  <2> QED
    BY <1>1, <1>2, <1>3, <1>4, <2>1, <2>2
       DEF Init, TypeOK, NoOverlay, Forms, Processes, Commands
<1>6. TimersOfPage /\ Asked
  BY DEF Init, TimersOfPage, Asked, StoragePurposes
<1>7. Answers
  BY <1>4 DEF Init, Answers, NoProc
<1>8. PlanIsActive
  BY DEF Init, PlanIsActive, PlanNames
<1>9. TargetShownAndReady
  <2>1. selected = NoRow /\ screen \notin {"ConfirmScreen", "ProgressScreen"}
    BY <1>1 DEF Init, Modes, screen, screensFor, InstallerScreens, OobeScreens
  <2> QED
    BY <2>1 DEF TargetShownAndReady
<1> QED
  BY <1>2, <1>5, <1>6, <1>7, <1>8, <1>9 DEF SetupInv

\* What the person and the rows can change.
PersonTypes ==
    /\ forms \in [Forms -> BOOLEAN] /\ listed \subseteq Rows /\ selected \in Rows
    /\ advanced \in BOOLEAN
    /\ overlay \in [action: {"none", "delete", "format", "extend", "driver"}, named: Rows]

PageTypes ==
    /\ mode \in Modes /\ index \in 1..Len(screensFor(mode))
    /\ transition \in BOOLEAN /\ ticking \in BOOLEAN /\ handoff \in BOOLEAN
    /\ countdown \in 0..RestartSeconds

WorldTypes ==
    /\ failed \in BOOLEAN /\ installed \in BOOLEAN /\ finalized \in BOOLEAN
    /\ parts \subseteq Partitions /\ session \in {"up", "rebooting", "gone"}

\* TypeOK in four parts, by who changes them.
LEMMA TypeParts == TypeOK <=> PersonTypes /\ PageTypes /\ WorldTypes /\ BackendTypes
BY DEF TypeOK, PersonTypes, PageTypes, WorldTypes, BackendTypes, Processes, Commands, Purposes

LEMMA OverlayTypes ==
    /\ NoOverlay \in [action: {"none", "delete", "format", "extend", "driver"}, named: Rows]
    /\ \A a \in {"delete", "format", "extend", "driver"}, r \in Rows :
         [action |-> a, named |-> r] \in
            [action: {"none", "delete", "format", "extend", "driver"}, named: Rows]
<1>1. NoRow \in Rows
  BY RowTypes
<1> QED
  BY <1>1 DEF NoOverlay

\* Forms, rows and overlay keep their types.
LEMMA PersonStep == TypeOK /\ [Next]_vars => PersonTypes'
<1> SUFFICES ASSUME PersonTypes, WorldTypes, [Next]_vars PROVE PersonTypes'
  BY TypeParts
<1>1. CASE UNCHANGED <<forms, drive, overlay>>
  BY <1>1 DEF PersonTypes, drive
<1>2. CASE UNCHANGED <<forms, drive>> /\ overlay' = NoOverlay
  BY <1>2, OverlayTypes DEF PersonTypes, drive
<1>3. ASSUME refreshDisks PROVE listed' \subseteq Rows /\ selected' \in Rows /\ advanced' \in BOOLEAN
  <2>1. parts \in SUBSET Partitions
    BY DEF WorldTypes
  <2> QED
    BY <1>3, <2>1, RowTypes DEF refreshDisks, PersonTypes
<1>4. CASE GoNext
  <2>1. UNCHANGED <<forms, drive>> /\ (overlay' = overlay \/ overlay' = NoOverlay)
    BY <1>4 DEF GoNext, startInstallation, startOobeFinalization, Work, moveNext, Enter,
               continueAfterInstallation
  <2> QED
    BY <1>1, <1>2, <2>1
<1>5. CASE GoBack
  BY <1>2, <1>5 DEF GoBack, Enter
<1>6. CASE EditForm
  BY <1>6 DEF EditForm, PersonTypes, drive
<1>7. CASE SelectRow
  BY <1>7 DEF SelectRow, PersonTypes
<1>8. CASE SetAdvanced
  BY <1>8, RowTypes DEF SetAdvanced, PersonTypes
<1>9. CASE Refresh
  BY <1>3, <1>9 DEF Refresh, PersonTypes
<1>10. CASE PlanTarget
  <2>1. selected' \in Rows
    BY <1>10 DEF PlanTarget, useSelectedFreeSpace, prepareSelectedNtfsShrink, PersonTypes, Rows
  <2> QED
    BY <1>10, <2>1 DEF PlanTarget, PersonTypes
<1>11. CASE AskConfirmation
  BY <1>11, OverlayTypes DEF AskConfirmation, PersonTypes, drive
<1>12. CASE CancelConfirmation
  BY <1>2, <1>12 DEF CancelConfirmation
<1>13. CASE Confirm
  <2>1. UNCHANGED forms /\ overlay' = NoOverlay
    BY <1>13 DEF Confirm
  <2>2. selected' \in Rows /\ UNCHANGED <<listed, advanced>>
    <3>1. CASE useSelectedPartition
      BY <3>1 DEF useSelectedPartition, PersonTypes, Rows
    <3>2. CASE UNCHANGED drive
      BY <3>2 DEF drive, PersonTypes
    <3> QED
      BY <1>13, <3>1, <3>2 DEF Confirm, deleteSelectedPartition, extendSelectedPartition,
                               loadStorageDriver, StorageRequest
  <2> QED
    BY <2>1, <2>2, OverlayTypes DEF PersonTypes
<1>14. CASE Timers
  <2>1. UNCHANGED <<forms, drive>> /\ (overlay' = overlay \/ overlay' = NoOverlay)
    BY <1>14 DEF Timers, AdvanceTransition, TickRestart, HandoffToDesktop, moveNext, Enter,
                continueAfterInstallation
  <2> QED
    BY <1>1, <1>2, <2>1
<1>15. CASE LateStart \/ BackendReadsPlan \/ BackendExits \/ Reboot \/ UNCHANGED vars
  BY <1>1, <1>15 DEF LateStart, BackendReadsPlan, BackendExits, Reboot, vars
<1>16. CASE BackendFinished
  <2>1. UNCHANGED forms /\ (overlay' = overlay \/ overlay' = NoOverlay)
        /\ (UNCHANGED drive \/ refreshDisks)
    BY <1>16 DEF BackendFinished, Fail, Enter
  <2>2. listed' \subseteq Rows /\ selected' \in Rows /\ advanced' \in BOOLEAN
    BY <1>3, <2>1 DEF PersonTypes, drive
  <2> QED
    BY <2>1, <2>2, OverlayTypes DEF PersonTypes
<1> QED
  BY <1>4, <1>5, <1>6, <1>7, <1>8, <1>9, <1>10, <1>11, <1>12, <1>13, <1>14, <1>15, <1>16
     DEF Next, Person

\* The page stays one of the mode's, the countdown in its range.
LEMMA PageStep == TypeOK /\ [Next]_vars => PageTypes'
<1> SUFFICES ASSUME TypeOK, [Next]_vars PROVE PageTypes'
  OBVIOUS
<1>1. PageTypes
  BY TypeParts
<1>2. CASE UNCHANGED page
  BY <1>1, <1>2 DEF PageTypes, page
<1>3. ASSUME UNCHANGED handoff, mode' = mode, index' \in 1..Len(screensFor(mode)),
             transition' \in BOOLEAN, ticking' \in BOOLEAN,
             countdown' \in {countdown, RestartSeconds}
      PROVE  PageTypes'
  <2>1. RestartSeconds \in 0..RestartSeconds
    BY SetupAssumption
  <2>2. countdown' \in 0..RestartSeconds
    BY <1>1, <1>3, <2>1 DEF PageTypes
  <2> QED
    BY <1>1, <1>3, <2>2 DEF PageTypes
<1>4. ASSUME moveNext PROVE PageTypes'
  <2>1. countdown' \in {countdown, RestartSeconds} /\ UNCHANGED handoff
    BY <1>4 DEF moveNext, Enter
  <2> QED
    BY <1>3, <1>4, <2>1, NextPage
<1>5. ASSUME NEW s \in {"ProgressScreen", "FinalizingScreen"}, Work(s),
             (s = "ProgressScreen") <=> (mode = "installer")
      PROVE  PageTypes'
  <2>1. index' \in 1..Len(screensFor(mode))
    BY <1>5, WorkPage
  <2>2. UNCHANGED <<mode, transition, countdown, ticking, handoff>>
    BY <1>5 DEF Work
  <2> QED
    BY <1>1, <2>1, <2>2 DEF PageTypes
<1>6. ASSUME continueAfterInstallation, countdown' \in 0..RestartSeconds PROVE PageTypes'
  BY <1>1, <1>6 DEF continueAfterInstallation, PageTypes
<1>7. CASE GoNext
  <2>1. CASE screen = "ConfirmScreen"
    <3>1. Work("ProgressScreen") /\ mode = "installer"
      BY <1>7, <2>1, ModeOfPage DEF GoNext, startInstallation
    <3> QED
      BY <1>5, <3>1
  <2>2. CASE screen = "NetworkScreen"
    <3>1. Work("FinalizingScreen") /\ mode = "oobe"
      BY <1>7, <2>2, ModeOfPage DEF GoNext, startOobeFinalization
    <3> QED
      BY <1>5, <3>1
  <2>3. CASE screen = "CompleteScreen"
    BY <1>1, <1>6, <1>7, <2>3 DEF GoNext, PageTypes
  <2>4. CASE screen \notin {"ConfirmScreen", "NetworkScreen", "CompleteScreen"}
    BY <1>4, <1>7, <2>4 DEF GoNext
  <2> QED
    BY <2>1, <2>2, <2>3, <2>4
<1>8. CASE GoBack
  <2>1. /\ canGoBack(mode, index) /\ Enter(index - 1) /\ mode' = mode /\ UNCHANGED handoff
        /\ countdown' \in {countdown, RestartSeconds}
    BY <1>8 DEF GoBack, Enter
  <2> QED
    BY <1>3, <2>1, LastPage
<1>9. CASE Confirm
  BY <1>1, <1>9 DEF Confirm, PageTypes
<1>10. CASE AdvanceTransition
  <2>1. CASE screen = "PreparingDesktopScreen"
    BY <1>1, <1>10, <2>1 DEF AdvanceTransition, moveNext, PageTypes
  <2>2. CASE screen # "PreparingDesktopScreen"
    BY <1>4, <1>10, <2>2 DEF AdvanceTransition
  <2> QED
    BY <2>1, <2>2
<1>11. CASE TickRestart
  <2>1. countdown' \in 0..RestartSeconds
    BY <1>1, <1>11, SetupAssumption DEF TickRestart, PageTypes
  <2> QED
    BY <1>1, <1>6, <1>11, <2>1 DEF TickRestart, PageTypes
<1>12. CASE HandoffToDesktop
  BY <1>1, <1>12 DEF HandoffToDesktop, PageTypes
<1>13. CASE BackendFinished
  <2>1. CASE Enter(IndexOf(mode, IF mode = "oobe" THEN "OobeWelcomeScreen"
                                                  ELSE "CompleteScreen"))
             /\ UNCHANGED <<mode, handoff>>
    <3>1. countdown' \in {countdown, RestartSeconds}
      BY <2>1 DEF Enter
    <3> QED
      BY <1>3, <2>1, <3>1, ResultPage
  <2>2. CASE UNCHANGED <<mode, index, transition, countdown, ticking, handoff>>
    BY <1>1, <2>2 DEF PageTypes
  <2> QED
    BY <1>13, <2>1, <2>2 DEF BackendFinished, Fail
<1>14. CASE EditForm \/ SelectRow \/ SetAdvanced \/ Refresh \/ PlanTarget \/ AskConfirmation
            \/ CancelConfirmation \/ LateStart \/ BackendReadsPlan \/ BackendExits
            \/ Reboot \/ UNCHANGED vars
  BY <1>2, <1>14 DEF EditForm, SelectRow, SetAdvanced, Refresh, PlanTarget, AskConfirmation,
       CancelConfirmation, LateStart, BackendReadsPlan, BackendExits, Reboot, vars
<1> QED
  BY <1>7, <1>8, <1>9, <1>10, <1>11, <1>12, <1>13, <1>14 DEF Next, Person, Timers

\* The disk and what is achieved keep their types.
LEMMA WorldStep == TypeOK /\ [Next]_vars => WorldTypes'
<1> SUFFICES ASSUME WorldTypes, [Next]_vars PROVE WorldTypes'
  BY TypeParts
<1>1. CASE UNCHANGED <<installed, finalized, parts>> /\ session' \in {session, "rebooting", "gone"}
           /\ failed' \in {failed, TRUE, FALSE}
  BY <1>1 DEF WorldTypes
<1>2. CASE BackendExits
  <2>1. parts' \in {parts, parts \ {proc.plan.part}}
    BY <1>2 DEF BackendExits, After
  <2>2. (installed' = installed \/ installed' \in BOOLEAN)
        /\ (finalized' = finalized \/ finalized' \in BOOLEAN)
    BY <1>2 DEF BackendExits
  <2>3. installed' \in BOOLEAN /\ finalized' \in BOOLEAN
    BY <2>2 DEF WorldTypes
  <2>4. UNCHANGED <<failed, session>>
    BY <1>2 DEF BackendExits
  <2> QED
    BY <2>1, <2>3, <2>4 DEF WorldTypes
<1>3. CASE Person
  <2>1. UNCHANGED <<installed, finalized, parts>> /\ session' \in {session, "rebooting"}
        /\ failed' \in {failed, FALSE}
    BY <1>3 DEF Person, GoNext, GoBack, EditForm, SelectRow, SetAdvanced, Refresh, PlanTarget,
         AskConfirmation, CancelConfirmation, Confirm, startInstallation,
         startOobeFinalization, Work, moveNext, continueAfterInstallation, machine, backend
  <2> QED
    BY <1>1, <2>1
<1>4. CASE Timers
  BY <1>1, <1>4 DEF Timers, AdvanceTransition, TickRestart, HandoffToDesktop, moveNext,
       continueAfterInstallation, machine, backend
<1>5. CASE BackendFinished
  BY <1>1, <1>5 DEF BackendFinished, Fail, machine
<1>6. CASE LateStart \/ BackendReadsPlan \/ Reboot \/ UNCHANGED vars
  BY <1>1, <1>6 DEF LateStart, BackendReadsPlan, Reboot, vars, machine, backend
<1> QED
  BY <1>2, <1>3, <1>4, <1>5, <1>6 DEF Next

\* The process and its plans keep their types: a row that is installed to is a target.
LEMMA BackendStep == TypeOK /\ TargetShownAndReady /\ [Next]_vars => BackendTypes'
<1> SUFFICES ASSUME TypeOK, TargetShownAndReady, [Next]_vars PROVE BackendTypes'
  OBVIOUS
<1>0. ASSUME NEW i, Enter(i) PROVE busy' \in BOOLEAN
  BY <1>0 DEF Enter
<1>1. BackendTypes /\ PersonTypes /\ PageTypes
  BY TypeParts
<1>2. ASSUME busy' \in BOOLEAN, UNCHANGED <<proc, planFiles, activePlan, purpose, requests>>
      PROVE  BackendTypes'
  BY <1>1, <1>2 DEF BackendTypes
<1>3. CASE UNCHANGED <<busy, backend>>
  BY <1>1, <1>2, <1>3 DEF backend, BackendTypes
<1>4. CASE GoNext
  <2>1. CASE screen = "ConfirmScreen"
    <3>1. InstallPlan \in Plans
      <4>1. diskSelectionReady /\ selected \in Rows
        BY <1>1, <2>1 DEF TargetShownAndReady, PersonTypes
      <4> QED
        BY <4>1 DEF diskSelectionReady, InstallPlan, Rows, Plans
    <3>2. \/ Started("install", InstallPlan, "install", "install")
          \/ NotStarted("install", InstallPlan, "install") \/ NotWritten(FALSE)
      BY <1>4, <2>1 DEF GoNext, startInstallation
    <3>3. CASE NotWritten(FALSE)
      BY <1>2, <3>3 DEF NotWritten
    <3> QED
      BY <1>1, <3>1, <3>2, <3>3, RequestTypes DEF Commands, PlanNames, Purposes
  <2>2. CASE screen = "NetworkScreen"
    <3>1. OobePlan \in Plans
      BY DEF OobePlan, Plans
    <3>2. \/ Started("oobe-finalize", OobePlan, "oobe", "oobe")
          \/ NotStarted("oobe-finalize", OobePlan, "oobe") \/ NotWritten(FALSE)
      BY <1>4, <2>2 DEF GoNext, startOobeFinalization
    <3>3. CASE NotWritten(FALSE)
      BY <1>2, <3>3 DEF NotWritten
    <3> QED
      BY <1>1, <3>1, <3>2, <3>3, RequestTypes DEF Commands, PlanNames, Purposes
  <2>3. CASE screen = "CompleteScreen"
    <3>1. continueAfterInstallation
      BY <1>4, <2>3 DEF GoNext
    <3> QED
      BY <1>3, <3>1 DEF continueAfterInstallation
  <2>4. CASE screen \notin {"ConfirmScreen", "NetworkScreen", "CompleteScreen"}
    <3>1. moveNext
      BY <1>4, <2>4 DEF GoNext
    <3> QED
      BY <1>2, <3>1 DEF moveNext, Enter, backend
  <2> QED
    BY <2>1, <2>2, <2>3, <2>4
<1>5. CASE GoBack
  BY <1>2, <1>5 DEF GoBack, Enter, backend
<1>6. CASE Confirm
  <2>1. selected \in Rows /\ overlay.named \in Rows
    BY <1>1 DEF PersonTypes
  <2>2. ASSUME NEW a \in {"delete", "extend"}
        PROVE  [action |-> a, part |-> selected.part, named |-> overlay.named.part] \in Plans
    BY <2>1 DEF Plans, Rows
  <2>3. ASSUME NEW a \in {"delete", "extend"}, NEW why \in StoragePurposes, StorageRequest(a, why)
        PROVE  BackendTypes'
    <3>1. CASE NotWritten(busy)
      BY <1>1, <1>2, <3>1 DEF NotWritten, BackendTypes
    <3> QED
      BY <1>1, <2>2, <2>3, <3>1, RequestTypes DEF StorageRequest, Commands, PlanNames, Purposes
  <2>4. CASE loadStorageDriver
    BY <1>1, <2>4, NoPlanIsPlan, RequestTypes
       DEF loadStorageDriver, Commands, PlanNames, Purposes, StoragePurposes
  <2>5. CASE useSelectedPartition
    BY <1>1, <1>2, <2>5 DEF useSelectedPartition, BackendTypes
  <2> QED
    BY <1>6, <2>3, <2>4, <2>5 DEF Confirm, deleteSelectedPartition, extendSelectedPartition,
                                 StoragePurposes
<1>7. CASE AdvanceTransition
  <2>1. UNCHANGED backend /\ (busy' = TRUE \/ Enter(index + 1))
    BY <1>7 DEF AdvanceTransition, moveNext
  <2> QED
    BY <1>2, <2>1, <1>0 DEF backend
<1>8. CASE TickRestart
  BY <1>3, <1>8 DEF TickRestart, continueAfterInstallation
<1>9. CASE HandoffToDesktop
  BY <1>1, <1>2, <1>9 DEF HandoffToDesktop, backend, BackendTypes
<1>10. CASE LateStart
  <2>1. proc' \in Processes
    <3>1. NoProc \in Processes /\ [proc EXCEPT !.state = "started"] \in Processes
      BY <1>1, NoPlanIsPlan DEF NoProc, Processes, BackendTypes
    <3> QED
      BY <1>10, <3>1 DEF LateStart
  <2> QED
    BY <1>1, <1>10, <2>1 DEF LateStart, BackendTypes, page
<1>11. CASE BackendReadsPlan
  <2>1. PlanOf(proc.cmd) \in Plans
    <3>1. planFiles["install"] \in Plans /\ planFiles["oobe"] \in Plans
          /\ planFiles["storage"] \in Plans
      BY <1>1 DEF BackendTypes, PlanNames
    <3>2. proc.cmd \in Commands \union {"none"}
      BY <1>1 DEF BackendTypes, Processes
    <3> QED
      BY <3>1, <3>2, NoPlanIsPlan DEF PlanOf, Commands
  <2>2. proc' = [proc EXCEPT !.state = "running", !.plan = PlanOf(proc.cmd)]
    BY <1>11 DEF BackendReadsPlan
  <2>3. proc' \in Processes
    BY <1>1, <2>1, <2>2 DEF Processes, BackendTypes
  <2> QED
    BY <1>1, <1>11, <2>3 DEF BackendReadsPlan, BackendTypes, page
<1>12. CASE BackendExits
  <2>1. proc' = [proc EXCEPT !.state = "ok"] \/ proc' = [proc EXCEPT !.state = "error"]
    BY <1>12 DEF BackendExits
  <2>2. proc' \in Processes
    BY <1>1, <2>1 DEF Processes, BackendTypes
  <2> QED
    BY <1>1, <1>12, <2>2 DEF BackendExits, BackendTypes, page
<1>13. CASE BackendFinished
  <2>1. proc' \in Processes /\ purpose' \in Purposes /\ activePlan' \in PlanNames \union {"none"}
    BY <1>13, NoPlanIsPlan DEF BackendFinished, NoProc, Processes, Purposes
  <2>2. planFiles' \in [PlanNames -> Plans]
    BY <1>1, <1>13, NoPlanIsPlan DEF BackendFinished, PlanGone, BackendTypes
  <2>3. busy' \in BOOLEAN
    BY <1>13, <1>0 DEF BackendFinished, Fail
  <2>4. UNCHANGED requests
    BY <1>13 DEF BackendFinished
  <2> QED
    BY <1>1, <2>1, <2>2, <2>3, <2>4 DEF BackendTypes
<1>14. CASE EditForm \/ SelectRow \/ SetAdvanced \/ Refresh \/ PlanTarget \/ AskConfirmation
            \/ CancelConfirmation \/ Reboot \/ UNCHANGED vars
  BY <1>3, <1>14 DEF EditForm, SelectRow, SetAdvanced, Refresh, PlanTarget, AskConfirmation,
       CancelConfirmation, Reboot, vars, page
<1> QED
  BY <1>4, <1>5, <1>6, <1>7, <1>8, <1>9, <1>10, <1>11, <1>12, <1>13, <1>14
     DEF Next, Person, Timers

\* The types are kept.
LEMMA TypeStep == TypeOK /\ TargetShownAndReady /\ [Next]_vars => TypeOK'
<1>1. PersonTypes' /\ PageTypes' /\ WorldTypes' /\ BackendTypes' => TypeOK'
  BY DEF TypeOK, PersonTypes, PageTypes, WorldTypes, BackendTypes, Processes, Commands, Purposes
<1> QED
  BY <1>1, PersonStep, PageStep, WorldStep, BackendStep

-----------------------------------------------------------------------------
(* What a step can be, for the page and the backend.                       *)

\* Another page is shown, with nothing asked for: by the person or by the timer.
Turned ==
    /\ mode' = mode /\ UNCHANGED <<handoff, forms, drive, backend, machine>>
    /\ ~handoff /\ purpose = "none"
    /\ screen \notin {"ProgressScreen", "FinalizingScreen", "CompleteScreen"}
    /\ screen' \notin {"ProgressScreen", "CompleteScreen", "FinalizingScreen",
                       "OobeWelcomeScreen"}
    /\ transition' = (screen' \in Automatic) /\ ~ticking'
    /\ screen' = "ConfirmScreen" => diskSelectionReady
    /\ screen' = "PreparingDesktopScreen" => screen = "OobeWelcomeScreen"
    /\ index' \in {index - 1, index + 1}
    /\ index' = index + 1 /\ screen \in Forms => forms[screen]

\* The backend is asked to do the work of the next page.
Asks(s, cmd, plan, name) ==
    /\ Work(s) /\ mode' = mode /\ screen' = s /\ purpose = "none"
    /\ UNCHANGED <<forms, drive>>
    /\ Started(cmd, plan, name, name) \/ NotStarted(cmd, plan, name) \/ NotWritten(FALSE)
AsksInstall ==
    /\ screen = "ConfirmScreen" /\ mode = "installer" /\ diskSelectionReady
    /\ Asks("ProgressScreen", "install", InstallPlan, "install")
AsksOobe ==
    /\ screen = "NetworkScreen" /\ mode = "oobe"
    /\ Asks("FinalizingScreen", "oobe-finalize", OobePlan, "oobe")

\* The same page, and nothing about the backend.
OnPage ==
    EditForm \/ SelectRow \/ SetAdvanced \/ Refresh \/ PlanTarget \/ AskConfirmation
      \/ CancelConfirmation

\* A timer, the restart, or nothing at all.
Clock ==
    /\ UNCHANGED <<mode, index, forms, drive, backend, parts, installed, finalized>>
    /\ busy' = busy \/ purpose = "none"
    /\ transition' => transition
    /\ ticking' => ticking
    /\ handoff' => screen = "PreparingDesktopScreen"
    /\ session' = "rebooting" => session = "rebooting" \/ screen = "CompleteScreen"

BackendWorks == LateStart \/ BackendReadsPlan \/ BackendExits

\* Every step is of one of eight kinds.
LEMMA Shapes ==
    ASSUME SetupInv, [Next]_vars
    PROVE  Turned \/ AsksInstall \/ AsksOobe \/ OnPage \/ Confirm \/ Clock
             \/ BackendWorks \/ BackendFinished
<1>1. TypeOK /\ TimersOfPage /\ Asked /\ TargetShownAndReady
  BY DEF SetupInv
<1>2. ~busy => purpose = "none"
  BY <1>1 DEF Asked
<1>3. screen \in Automatic => purpose = "none"
  <2>1. purpose \in StoragePurposes \union {"none", "install", "oobe"}
    BY <1>1 DEF TypeOK
  <2> QED
    BY <1>1, <2>1 DEF Asked, Automatic
<1>4. CASE GoNext
  <2>1. purpose = "none" /\ HasNext(screen) /\ validateCurrentScreen
    BY <1>2, <1>4 DEF GoNext
  <2>2. CASE screen = "ConfirmScreen"
    <3>1. Work("ProgressScreen") /\ mode = "installer"
      BY <1>1, <1>4, <2>2, ModeOfPage DEF GoNext, startInstallation
    <3>2. mode' = mode /\ screen' = "ProgressScreen"
      BY <1>1, <3>1, WorkPage
    <3>3. diskSelectionReady
      BY <1>1, <2>2 DEF TargetShownAndReady
    <3> QED
      BY <1>4, <2>1, <2>2, <3>1, <3>2, <3>3 DEF GoNext, startInstallation, AsksInstall, Asks
  <2>3. CASE screen = "NetworkScreen"
    <3>1. Work("FinalizingScreen") /\ mode = "oobe"
      BY <1>1, <1>4, <2>3, ModeOfPage DEF GoNext, startOobeFinalization
    <3>2. mode' = mode /\ screen' = "FinalizingScreen"
      BY <1>1, <3>1, WorkPage
    <3> QED
      BY <1>4, <2>1, <2>3, <3>1, <3>2 DEF GoNext, startOobeFinalization, AsksOobe, Asks
  <2>4. CASE screen = "CompleteScreen"
    <3>1. continueAfterInstallation /\ UNCHANGED <<forms, drive>>
      BY <1>4, <2>4 DEF GoNext
    <3> QED
      BY <1>1, <2>1, <2>4, <3>1 DEF continueAfterInstallation, Clock, TimersOfPage
  <2>5. CASE screen \notin {"ConfirmScreen", "NetworkScreen", "CompleteScreen"}
    <3>1. moveNext /\ UNCHANGED <<forms, drive>>
      BY <1>4, <2>5 DEF GoNext
    <3>2. UNCHANGED <<handoff, backend, machine>>
      BY <3>1 DEF moveNext
    <3>3. screen \notin Automatic \union {"ProgressScreen", "FinalizingScreen"}
      BY <2>1 DEF HasNext
    <3>4. ~handoff
      BY <1>1, <3>3 DEF TimersOfPage, Automatic
    <3>5. screen = "DiskScreen" => diskSelectionReady
      BY <2>1 DEF validateCurrentScreen
    <3>6. screen \notin {"ConfirmScreen", "NetworkScreen", "CompleteScreen"}
      BY <2>5
    <3>7. screen \in Forms => forms[screen]
      BY <2>1 DEF validateCurrentScreen
    <3> QED
      BY <1>1, <2>1, <3>1, <3>2, <3>3, <3>4, <3>5, <3>6, <3>7, NextPage DEF Turned
  <2> QED
    BY <2>2, <2>3, <2>4, <2>5
<1>5. CASE GoBack
  <2>1. /\ canGoBack(mode, index) /\ Enter(index - 1) /\ mode' = mode /\ ~busy
        /\ UNCHANGED <<handoff, forms, drive, backend, machine>>
    BY <1>5 DEF GoBack
  <2>2. ~handoff
    <3>1. screen # "PreparingDesktopScreen"
      BY <2>1 DEF canGoBack, screen
    <3> QED
      BY <1>1, <3>1 DEF TimersOfPage
  <2>3. index - 1 # index + 1
    <3>1. index \in Int
      BY <1>1, PagePlaces DEF TypeOK, Modes
    <3> QED
      BY <3>1
  <2> QED
    BY <1>1, <1>2, <2>1, <2>2, <2>3, LastPage DEF Turned
<1>6. CASE AdvanceTransition
  <2>1. screen \in Automatic /\ purpose = "none"
    BY <1>1, <1>3, <1>6 DEF AdvanceTransition, TimersOfPage
  <2>2. CASE screen = "PreparingDesktopScreen"
    <3>1. /\ transition' = FALSE
          /\ UNCHANGED <<mode, index, countdown, ticking, overlay, backend, machine, forms, drive>>
      BY <1>6, <2>2 DEF AdvanceTransition, moveNext
    <3> QED
      BY <2>1, <2>2, <3>1 DEF Clock, machine
  <2>3. CASE screen # "PreparingDesktopScreen"
    <3>1. moveNext /\ UNCHANGED <<forms, drive>>
      BY <1>6, <2>3 DEF AdvanceTransition
    <3>2. UNCHANGED <<handoff, backend, machine>>
      BY <3>1 DEF moveNext
    <3>3. screen \notin {"ProgressScreen", "FinalizingScreen", "CompleteScreen", "DiskScreen",
                         "ConfirmScreen", "NetworkScreen"} \union Forms
      BY <2>1 DEF Automatic, Forms
    <3>4. ~handoff
      BY <1>1, <2>3 DEF TimersOfPage
    <3> QED
      BY <1>1, <2>1, <3>1, <3>2, <3>3, <3>4, NextPage DEF Turned
  <2> QED
    BY <2>2, <2>3
<1>7. CASE TickRestart
  <2>1. screen = "CompleteScreen" /\ ~handoff
    BY <1>1, <1>7 DEF TickRestart, TimersOfPage
  <2> QED
    BY <1>7, <2>1 DEF TickRestart, continueAfterInstallation, Clock, machine
<1>8. CASE HandoffToDesktop
  <2>1. screen = "PreparingDesktopScreen"
    BY <1>1, <1>8 DEF HandoffToDesktop, TimersOfPage
  <2>2. purpose = "none"
    BY <1>3, <2>1 DEF Automatic
  <2>3. session' = "rebooting" => session = "rebooting"
    BY <1>8 DEF HandoffToDesktop
  <2> QED
    BY <1>8, <2>1, <2>2, <2>3 DEF HandoffToDesktop, Clock
<1>9. CASE Reboot \/ UNCHANGED vars
  BY <1>1, <1>9 DEF Reboot, vars, page, machine, Clock, TimersOfPage
<1> QED
  BY <1>4, <1>5, <1>6, <1>7, <1>8, <1>9 DEF Next, Person, Timers, OnPage, BackendWorks

\* The page is the same when neither the mode nor the place has changed.
LEMMA SamePage ==
    ASSUME UNCHANGED <<mode, index>>
    PROVE  screen' = screen
BY DEF screen

\* On the drive page nothing but the process changes, and what is asked of it.
LEMMA ConfirmStep ==
    ASSUME SetupInv, Confirm
    PROVE  /\ screen = "DiskScreen" /\ screen' = "DiskScreen" /\ mode = "installer"
           /\ UNCHANGED <<mode, index, transition, ticking, handoff, forms, machine>>
           /\ UNCHANGED <<listed, advanced>>
           /\ planFiles["install"] = NoPlan /\ planFiles["oobe"] = NoPlan
           /\ \/ /\ UNCHANGED <<proc, planFiles, activePlan, purpose, busy>>
                 /\ \/ UNCHANGED selected
                    \/ selected.kind = "partition"
                         /\ selected' = [selected EXCEPT !.kind = "reuse_partition",
                                                         !.planned = TRUE]
              \/ /\ UNCHANGED selected
                 /\ \E cmd \in {"storage-action", "load-driver"}, plan \in Plans,
                       file \in {"storage", "none"}, why \in StoragePurposes :
                      /\ cmd = "storage-action" => file = "storage"
                      /\ Started(cmd, plan, file, why) \/ NotStarted(cmd, plan, file)
<1>1. TypeOK /\ Asked /\ PlanIsActive
  BY DEF SetupInv
<1>2. /\ screen = "DiskScreen"
      /\ UNCHANGED <<mode, index, transition, ticking, handoff, forms, machine>>
  BY DEF Confirm, Here
<1>3. screen' = "DiskScreen" /\ mode = "installer"
  BY <1>1, <1>2, SamePage, ModeOfPage
<1>4. planFiles["install"] = NoPlan /\ planFiles["oobe"] = NoPlan
  BY <1>1, <1>2 DEF Asked, PlanIsActive
<1>5. CASE useSelectedPartition
  BY <1>2, <1>3, <1>4, <1>5 DEF useSelectedPartition
<1>6. ASSUME NEW a \in {"delete", "extend"}, NEW y \in StoragePurposes, StorageRequest(a, y)
      PROVE  /\ UNCHANGED drive
             /\ \/ UNCHANGED <<proc, planFiles, activePlan, purpose, busy>>
                \/ \E plan \in Plans :
                     \/ Started("storage-action", plan, "storage", y)
                     \/ NotStarted("storage-action", plan, "storage")
  <2>1. selected \in Rows /\ overlay.named \in Rows
    BY <1>1 DEF TypeOK
  <2>2. [action |-> a, part |-> selected.part, named |-> overlay.named.part] \in Plans
    BY <2>1 DEF Plans, Rows
  <2>3. UNCHANGED drive
    BY <1>6 DEF StorageRequest
  <2>4. CASE NotWritten(busy)
    BY <2>3, <2>4 DEF NotWritten
  <2> QED
    BY <1>6, <2>2, <2>3, <2>4 DEF StorageRequest
<1>7. CASE deleteSelectedPartition \/ extendSelectedPartition
  <2>1. PICK a \in {"delete", "extend"}, y \in StoragePurposes : StorageRequest(a, y)
    BY <1>7 DEF deleteSelectedPartition, extendSelectedPartition, StoragePurposes
  <2>2. CASE UNCHANGED <<proc, planFiles, activePlan, purpose, busy>>
    BY <1>2, <1>3, <1>4, <1>6, <2>1, <2>2 DEF drive
  <2>3. CASE \E plan \in Plans : \/ Started("storage-action", plan, "storage", y)
                                 \/ NotStarted("storage-action", plan, "storage")
    BY <1>2, <1>3, <1>4, <1>6, <2>1, <2>3 DEF drive
  <2> QED
    BY <1>6, <2>1, <2>2, <2>3
<1>8. CASE loadStorageDriver
  <2>1. UNCHANGED drive /\ "storage-driver" \in StoragePurposes /\ NoPlan \in Plans
        /\ \/ Started("load-driver", NoPlan, "none", "storage-driver")
           \/ NotStarted("load-driver", NoPlan, "none")
    BY <1>8, NoPlanIsPlan DEF loadStorageDriver, StoragePurposes
  <2> QED
    BY <1>2, <1>3, <1>4, <2>1 DEF drive
<1> QED
  BY <1>5, <1>7, <1>8 DEF Confirm

\* A timer that is not that of the new page has been stopped.
LEMMA TimersStep == SetupInv /\ [Next]_vars => TimersOfPage'
<1> SUFFICES ASSUME SetupInv, [Next]_vars PROVE TimersOfPage'
  OBVIOUS
<1>1. TypeOK /\ TimersOfPage /\ Answers
  BY DEF SetupInv
<1>2. CASE UNCHANGED <<mode, index>> /\ (transition' => transition) /\ (ticking' => ticking)
           /\ (handoff' => handoff)
  BY <1>1, <1>2, SamePage DEF TimersOfPage
<1>3. CASE Turned
  BY <1>3 DEF Turned, TimersOfPage
<1>4. CASE AsksInstall \/ AsksOobe
  <2>1. /\ screen \in {"ConfirmScreen", "NetworkScreen"}
        /\ UNCHANGED <<transition, ticking, handoff>>
    BY <1>4 DEF AsksInstall, AsksOobe, Asks, Work
  <2> QED
    BY <1>1, <2>1 DEF TimersOfPage, Automatic
<1>5. CASE OnPage
  BY <1>2, <1>5 DEF OnPage, EditForm, SelectRow, SetAdvanced, Refresh, PlanTarget,
                    AskConfirmation, CancelConfirmation, page
<1>6. CASE Confirm
  BY <1>2, <1>6, ConfirmStep
<1>7. CASE Clock
  BY <1>1, <1>7, SamePage DEF Clock, TimersOfPage
<1>8. CASE BackendWorks
  BY <1>2, <1>8 DEF BackendWorks, LateStart, BackendReadsPlan, BackendExits, page
<1>9. CASE BackendFinished
  <2>1. CASE UNCHANGED <<mode, index, transition, ticking, handoff>>
    BY <1>2, <2>1
  <2>2. CASE Enter(IndexOf(mode, IF mode = "oobe" THEN "OobeWelcomeScreen"
                                                  ELSE "CompleteScreen"))
             /\ UNCHANGED <<mode, handoff, drive>>
             /\ proc.state = "ok" /\ purpose \notin StoragePurposes
    <3>1. ~handoff
      <4>1. proc.cmd # "none" /\ proc.cmd # "storage-action"
        BY <1>1, <2>2 DEF Answers
      <4>2. proc.cmd \in Commands
        BY <1>1, <4>1 DEF TypeOK, Commands
      <4>3. screen \in {"ProgressScreen", "FinalizingScreen"} \/ mode = "installer"
        BY <1>1, <4>1, <4>2 DEF Answers, Commands
      <4>4. screen # "PreparingDesktopScreen"
        BY <1>1, <4>3, ModeOfPage
      <4> QED
        BY <1>1, <4>4 DEF TimersOfPage
    <3> QED
      BY <1>1, <2>2, <3>1, ResultPage DEF TimersOfPage
  <2> QED
    BY <1>9, <2>1, <2>2 DEF BackendFinished, Fail
<1> QED
  BY <1>3, <1>4, <1>5, <1>6, <1>7, <1>8, <1>9, Shapes

\* A backend that was asked for is there, whichever it is.
LEMMA StartedIsThere ==
    ASSUME TypeOK, NEW cmd \in Commands, NEW plan, NEW file, NEW why,
           Started(cmd, plan, file, why)
    PROVE  proc'.state \notin {"none", "late"}
<1>1. proc \in Processes
  BY TypeParts DEF BackendTypes
<1>2. Process("started", cmd).state = "started"
  BY DEF Process
<1>3. [proc EXCEPT !.state = "started"].state = "started"
  BY <1>1 DEF Processes
<1> QED
  BY <1>2, <1>3, StartedProcess

\* Nothing takes the page away from work that is waited for.
LEMMA AskedStep == SetupInv /\ [Next]_vars => Asked'
<1> SUFFICES ASSUME SetupInv, [Next]_vars PROVE Asked'
  OBVIOUS
<1>1. TypeOK /\ Asked
  BY DEF SetupInv
<1>2. CASE purpose' = "none"
  BY <1>2 DEF Asked, StoragePurposes
<1>3. CASE UNCHANGED <<mode, index, purpose>> /\ (busy' = busy \/ purpose = "none")
           /\ (proc'.state = proc.state
                 \/ proc'.state \notin {"none", "late"} \/ proc.state \in {"none", "late"})
  BY <1>1, <1>3, SamePage DEF Asked
<1>4. CASE Turned
  BY <1>2, <1>4 DEF Turned, backend
<1>5. CASE AsksInstall
  <2>1. CASE Started("install", InstallPlan, "install", "install")
    <3>1. /\ busy' = TRUE /\ purpose' = "install" /\ screen' = "ProgressScreen"
          /\ proc'.state \notin {"none", "late"}
      BY <1>1, <1>5, <2>1, StartedProcess, StartedIsThere DEF AsksInstall, Asks, Commands
    <3> QED
      BY <3>1 DEF Asked, StoragePurposes
  <2>2. CASE NotStarted("install", InstallPlan, "install") \/ NotWritten(FALSE)
    BY <1>2, <1>5, <2>2 DEF AsksInstall, Asks, NotStarted, NotWritten
  <2> QED
    BY <1>5, <2>1, <2>2 DEF AsksInstall, Asks
<1>6. CASE AsksOobe
  <2>1. CASE Started("oobe-finalize", OobePlan, "oobe", "oobe")
    <3>1. /\ busy' = TRUE /\ purpose' = "oobe" /\ screen' = "FinalizingScreen"
          /\ proc'.state \notin {"none", "late"}
      BY <1>1, <1>6, <2>1, StartedProcess, StartedIsThere DEF AsksOobe, Asks, Commands
    <3> QED
      BY <3>1 DEF Asked, StoragePurposes
  <2>2. CASE NotStarted("oobe-finalize", OobePlan, "oobe") \/ NotWritten(FALSE)
    BY <1>2, <1>6, <2>2 DEF AsksOobe, Asks, NotStarted, NotWritten
  <2> QED
    BY <1>6, <2>1, <2>2 DEF AsksOobe, Asks
<1>7. CASE OnPage
  BY <1>3, <1>7 DEF OnPage, EditForm, SelectRow, SetAdvanced, Refresh, PlanTarget,
                    AskConfirmation, CancelConfirmation, page, backend
<1>8. CASE Confirm
  <2>1. CASE UNCHANGED <<proc, planFiles, activePlan, purpose, busy>>
    BY <1>3, <1>8, <2>1, ConfirmStep
  <2>2. ASSUME NEW cmd \in {"storage-action", "load-driver"}, NEW plan \in Plans,
               NEW file \in {"storage", "none"}, NEW why \in StoragePurposes,
               Started(cmd, plan, file, why) \/ NotStarted(cmd, plan, file)
        PROVE  Asked'
    <3>1. CASE Started(cmd, plan, file, why)
      <4>1. busy' = TRUE /\ purpose' = why
        BY <3>1 DEF Started
      <4>2. cmd \in Commands
        BY DEF Commands
      <4>3. proc'.state \notin {"none", "late"}
        BY <1>1, <3>1, <4>2, StartedIsThere
      <4>4. screen' = "DiskScreen"
        BY <1>8, ConfirmStep
      <4> QED
        BY <4>1, <4>3, <4>4 DEF Asked, StoragePurposes
    <3>2. CASE NotStarted(cmd, plan, file)
      BY <1>2, <3>2 DEF NotStarted
    <3> QED
      BY <2>2, <3>1, <3>2
  <2> QED
    BY <1>8, <2>1, <2>2, ConfirmStep
<1>9. CASE Clock
  BY <1>3, <1>9 DEF Clock, backend
<1>10. CASE BackendWorks
  <2>1. proc \in Processes
    BY <1>1, TypeParts DEF BackendTypes
  <2>2. proc'.state \notin {"none", "late"} \/ proc.state \in {"none", "late"}
    <3>1. CASE LateStart
      BY <3>1 DEF LateStart
    <3>2. CASE BackendReadsPlan
      <4>1. proc' = [proc EXCEPT !.state = "running", !.plan = PlanOf(proc.cmd)]
        BY <3>2 DEF BackendReadsPlan
      <4> QED
        BY <2>1, <4>1 DEF Processes
    <3>3. CASE BackendExits
      BY <2>1, <3>3 DEF BackendExits, Processes
    <3> QED
      BY <1>10, <3>1, <3>2, <3>3 DEF BackendWorks
  <2> QED
    BY <1>3, <1>10, <2>2 DEF BackendWorks, LateStart, BackendReadsPlan, BackendExits, page
<1>11. CASE BackendFinished
  BY <1>2, <1>11 DEF BackendFinished
<1> QED
  BY <1>4, <1>5, <1>6, <1>7, <1>8, <1>9, <1>10, <1>11, Shapes

\* A plan with a password is written, and removed, as the active one.
LEMMA PlanStep == SetupInv /\ [Next]_vars => PlanIsActive'
<1> SUFFICES ASSUME SetupInv, [Next]_vars PROVE PlanIsActive'
  OBVIOUS
<1>1. TypeOK /\ PlanIsActive
  BY DEF SetupInv
<1>2. planFiles \in [PlanNames -> Plans]
  BY <1>1 DEF TypeOK
<1>3. CASE UNCHANGED <<planFiles, activePlan, purpose>>
  BY <1>1, <1>3 DEF PlanIsActive
<1>4. CASE AsksInstall
  <2>1. purpose = "none" /\ planFiles["oobe"] = NoPlan
    BY <1>1, <1>4 DEF AsksInstall, Asks, PlanIsActive
  <2>2. CASE Started("install", InstallPlan, "install", "install")
    BY <1>2, <2>1, <2>2 DEF Started, PlanIsActive, PlanNames
  <2>3. CASE NotStarted("install", InstallPlan, "install")
    BY <1>2, <2>1, <2>3 DEF NotStarted, PlanIsActive, PlanNames
  <2> QED
    BY <1>3, <1>4, <2>2, <2>3 DEF AsksInstall, Asks, NotWritten
<1>5. CASE AsksOobe
  <2>1. purpose = "none" /\ planFiles["install"] = NoPlan
    BY <1>1, <1>5 DEF AsksOobe, Asks, PlanIsActive
  <2>2. CASE Started("oobe-finalize", OobePlan, "oobe", "oobe")
    BY <1>2, <2>1, <2>2 DEF Started, PlanIsActive, PlanNames
  <2>3. CASE NotStarted("oobe-finalize", OobePlan, "oobe")
    BY <1>2, <2>1, <2>3 DEF NotStarted, PlanIsActive, PlanNames
  <2> QED
    BY <1>3, <1>5, <2>2, <2>3 DEF AsksOobe, Asks, NotWritten
<1>6. CASE Confirm
  <2>1. planFiles["install"] = NoPlan /\ planFiles["oobe"] = NoPlan
    BY <1>6, ConfirmStep
  <2>2. ASSUME NEW cmd, NEW plan, NEW file \in {"storage", "none"}, NEW why,
               Started(cmd, plan, file, why) \/ NotStarted(cmd, plan, file)
        PROVE  PlanIsActive'
    <3>1. planFiles'["install"] = NoPlan /\ planFiles'["oobe"] = NoPlan
      BY <1>2, <2>1, <2>2 DEF Started, NotStarted, PlanNames
    <3> QED
      BY <3>1 DEF PlanIsActive
  <2> QED
    BY <1>3, <1>6, <2>2, ConfirmStep
<1>7. CASE BackendFinished
  <2>1. CASE activePlan = "none"
    <3>1. planFiles["install"] = NoPlan /\ planFiles["oobe"] = NoPlan
      BY <1>1, <2>1 DEF PlanIsActive
    <3> QED
      BY <1>7, <2>1, <3>1 DEF BackendFinished, PlanGone, PlanIsActive
  <2>2. CASE activePlan # "none"
    <3>1. planFiles'["install"] = NoPlan /\ planFiles'["oobe"] = NoPlan
      BY <1>1, <1>2, <1>7, <2>2 DEF BackendFinished, PlanGone, PlanIsActive, PlanNames
    <3> QED
      BY <3>1 DEF PlanIsActive
  <2> QED
    BY <2>1, <2>2
<1>8. CASE Turned \/ OnPage \/ Clock \/ BackendWorks
  BY <1>3, <1>8 DEF Turned, OnPage, Clock, BackendWorks, EditForm, SelectRow, SetAdvanced,
       Refresh, PlanTarget, AskConfirmation, CancelConfirmation, LateStart, BackendReadsPlan,
       BackendExits, backend
<1> QED
  BY <1>4, <1>5, <1>6, <1>7, <1>8, Shapes

\* Only refreshDisks fills the list.
LEMMA RowsStep == SetupInv /\ [Next]_vars => ListedRows'
<1> SUFFICES ASSUME SetupInv, [Next]_vars PROVE ListedRows'
  OBVIOUS
<1>1. TypeOK /\ ListedRows
  BY DEF SetupInv
<1>2. CASE UNCHANGED listed
  BY <1>1, <1>2 DEF ListedRows
<1>3. CASE refreshDisks
  <2>1. parts \in SUBSET Partitions /\ listed' \in {{}, RowsOf(parts)}
    BY <1>1, <1>3 DEF TypeOK, refreshDisks
  <2> QED
    BY <2>1, RowTypes DEF ListedRows
<1>4. CASE Confirm
  BY <1>2, <1>4, ConfirmStep
<1>5. CASE OnPage \/ BackendFinished
  BY <1>2, <1>3, <1>5 DEF OnPage, BackendFinished, Fail, EditForm, SelectRow, SetAdvanced,
       Refresh, PlanTarget, AskConfirmation, CancelConfirmation, drive
<1>6. CASE Turned \/ AsksInstall \/ AsksOobe \/ Clock \/ BackendWorks
  BY <1>2, <1>6 DEF Turned, AsksInstall, AsksOobe, Asks, Clock, BackendWorks, LateStart,
       BackendReadsPlan, BackendExits, drive
<1> QED
  BY <1>4, <1>5, <1>6, Shapes

\* The row that is selected, as the list has it.
Shown == selected # NoRow => \E r \in listed : /\ shown(r) /\ r.kind = BaseKind(selected.kind)
                                               /\ r.part = selected.part

\* A list that is replaced, or rows that are hidden, take the selection with them.
LEMMA ShownStep == SetupInv /\ [Next]_vars => Shown'
<1> SUFFICES ASSUME SetupInv, [Next]_vars PROVE Shown'
  OBVIOUS
<1>1. TypeOK /\ ListedRows /\ Shown
  BY DEF SetupInv, TargetShownAndReady, Shown
<1>2. CASE UNCHANGED drive
  BY <1>1, <1>2 DEF Shown, drive, shown
<1>3. CASE selected' = NoRow
  BY <1>3 DEF Shown
<1>4. ASSUME UNCHANGED <<listed, advanced>>, selected # NoRow,
             selected'.part = selected.part,
             BaseKind(selected'.kind) = BaseKind(selected.kind)
      PROVE  Shown'
  BY <1>1, <1>4 DEF Shown, shown
<1>5. CASE SelectRow
  <2>1. PICK r \in listed : shown(r) /\ selected' = r
    BY <1>5 DEF SelectRow
  <2>2. BaseKind(r.kind) = r.kind
    BY <1>1, <2>1 DEF ListedRows, BaseKind
  <2>3. UNCHANGED <<listed, advanced>>
    BY <1>5 DEF SelectRow
  <2> QED
    BY <2>1, <2>2, <2>3 DEF Shown, shown
<1>6. CASE SetAdvanced
  <2>1. CASE selected = NoRow
    BY <1>3, <1>6, <2>1 DEF SetAdvanced
  <2>2. CASE selected # NoRow
    <3>1. PICK r \in listed : shown(r) /\ r.kind = BaseKind(selected.kind)
      BY <1>1, <2>2 DEF Shown
    <3>2. (r.kind = "disk") <=> (selected.kind = "disk")
      BY <3>1 DEF BaseKind
    <3>3. advanced <=> selected.kind # "disk"
      BY <3>1, <3>2 DEF shown
    <3>4. advanced # (selected.kind = "disk")
      <4>1. advanced \in BOOLEAN
        BY <1>1 DEF TypeOK
      <4> QED
        BY <3>3, <4>1
    <3> QED
      BY <1>3, <1>6, <3>4 DEF SetAdvanced
  <2> QED
    BY <2>1, <2>2
<1>7. CASE PlanTarget
  <2>1. selected \in Rows /\ UNCHANGED <<listed, advanced>>
    BY <1>1, <1>7 DEF TypeOK, PlanTarget
  <2>2. CASE useSelectedFreeSpace
    <3>1. selected'.part = selected.part /\ selected'.kind = selected.kind /\ selected # NoRow
      BY <2>1, <2>2 DEF useSelectedFreeSpace, NoRow, Rows
    <3> QED
      BY <1>4, <2>1, <3>1
  <2>3. CASE prepareSelectedNtfsShrink
    <3>1. /\ selected'.part = selected.part /\ selected'.kind = "shrink_ntfs"
          /\ selected.kind = "partition" /\ selected # NoRow
      BY <2>1, <2>3 DEF prepareSelectedNtfsShrink, NoRow, Rows
    <3> QED
      BY <1>4, <2>1, <3>1 DEF BaseKind
  <2> QED
    BY <1>7, <2>2, <2>3 DEF PlanTarget
<1>8. CASE Confirm
  <2>1. UNCHANGED <<listed, advanced>> /\ selected \in Rows
    BY <1>1, <1>8, ConfirmStep DEF TypeOK
  <2>2. CASE UNCHANGED selected
    BY <1>2, <2>1, <2>2 DEF drive
  <2>3. CASE selected.kind = "partition"
             /\ selected' = [selected EXCEPT !.kind = "reuse_partition", !.planned = TRUE]
    <3>1. /\ selected'.part = selected.part /\ selected'.kind = "reuse_partition"
          /\ selected # NoRow
      BY <2>1, <2>3 DEF NoRow, Rows
    <3> QED
      BY <1>4, <2>1, <2>3, <3>1 DEF BaseKind
  <2> QED
    BY <1>8, <2>2, <2>3, ConfirmStep
<1>9. CASE EditForm \/ Refresh \/ AskConfirmation \/ CancelConfirmation \/ BackendFinished
  BY <1>2, <1>3, <1>9 DEF EditForm, Refresh, refreshDisks, AskConfirmation,
       CancelConfirmation, BackendFinished, Fail, drive
<1>10. CASE Turned \/ AsksInstall \/ AsksOobe \/ Clock \/ BackendWorks
  BY <1>2, <1>10 DEF Turned, AsksInstall, AsksOobe, Asks, Clock, BackendWorks, LateStart,
       BackendReadsPlan, BackendExits
<1> QED
  BY <1>5, <1>6, <1>7, <1>8, <1>9, <1>10, Shapes DEF OnPage

\* The drive page is left only with a complete target, and nothing changes it afterwards.
LEMMA TargetStep == SetupInv /\ [Next]_vars => TargetShownAndReady'
<1> SUFFICES ASSUME SetupInv, [Next]_vars
             PROVE  screen' \in {"ConfirmScreen", "ProgressScreen"} => diskSelectionReady'
  BY ShownStep DEF TargetShownAndReady, Shown
<1>1. TypeOK /\ Asked /\ TargetShownAndReady
  BY DEF SetupInv
<1>2. ASSUME UNCHANGED selected, diskSelectionReady PROVE diskSelectionReady'
  BY <1>2 DEF diskSelectionReady
<1>3. CASE UNCHANGED <<mode, index, selected>>
  BY <1>1, <1>2, <1>3, SamePage DEF TargetShownAndReady
<1>4. CASE UNCHANGED <<mode, index>> /\ screen = "DiskScreen"
  BY <1>4, SamePage
<1>5. CASE Turned
  BY <1>2, <1>5 DEF Turned, drive
<1>6. CASE AsksInstall
  BY <1>2, <1>6 DEF AsksInstall, Asks, drive
<1>7. CASE AsksOobe
  BY <1>7 DEF AsksOobe, Asks
<1>8. CASE OnPage
  BY <1>3, <1>4, <1>8 DEF OnPage, EditForm, SelectRow, SetAdvanced, Refresh, PlanTarget,
       AskConfirmation, CancelConfirmation, Here, page, drive
<1>9. CASE Confirm
  BY <1>9, ConfirmStep
<1>10. CASE Clock \/ BackendWorks
  BY <1>3, <1>10 DEF Clock, BackendWorks, LateStart, BackendReadsPlan, BackendExits, page, drive
<1>11. CASE BackendFinished
  <2>1. CASE UNCHANGED <<mode, index, drive>>
    BY <1>3, <2>1 DEF drive
  <2>2. CASE UNCHANGED <<mode, index>> /\ purpose \in StoragePurposes
    BY <1>1, <1>4, <2>2 DEF Asked
  <2>3. CASE Enter(IndexOf(mode, IF mode = "oobe" THEN "OobeWelcomeScreen"
                                                  ELSE "CompleteScreen"))
             /\ mode' = mode
    BY <1>1, <2>3, ResultPage
  <2> QED
    BY <1>11, <2>1, <2>2, <2>3 DEF BackendFinished, Fail
<1> QED
  BY <1>5, <1>6, <1>7, <1>8, <1>9, <1>10, <1>11, Shapes

\* A process that is left alone, while what the program waits for may change.
LEMMA LeftAlone ==
    ASSUME TypeOK, Answers, mode' = mode, UNCHANGED <<installed, finalized>>,
           proc' = proc \/ (proc.state = "late" /\ proc' = [proc EXCEPT !.state = "started"]),
           purpose' \notin StoragePurposes => purpose \notin StoragePurposes,
           planFiles'["storage"] \in {planFiles["storage"], NoPlan}
             \/ purpose' \in StoragePurposes,
           proc.cmd = "install" => screen' = "ProgressScreen",
           proc.cmd = "oobe-finalize" => screen' = "FinalizingScreen"
    PROVE  Answers'
<1>1. proc \in Processes
  BY TypeParts DEF BackendTypes
<1>2. /\ proc'.cmd = proc.cmd /\ proc'.plan = proc.plan
      /\ proc'.state = proc.state \/ (proc.state = "late" /\ proc'.state = "started")
  BY <1>1 DEF Processes
<1>3. proc'.state = "none" => proc' = NoProc
  BY <1>2 DEF Answers
<1>4. proc'.state # "none" => proc'.cmd # "none"
  BY <1>2 DEF Answers
<1>5. /\ proc'.cmd = "install" => screen' = "ProgressScreen"
      /\ proc'.cmd = "oobe-finalize" => screen' = "FinalizingScreen"
      /\ proc'.cmd \in {"storage-action", "load-driver"} => mode' = "installer"
  BY <1>2 DEF Answers
<1>6. ASSUME proc'.cmd = "storage-action", purpose' \notin StoragePurposes
      PROVE  /\ proc'.plan = NoPlan /\ proc'.state # "ok"
             /\ proc'.state \in {"late", "started"} => planFiles'["storage"] = NoPlan
  BY <1>2, <1>6 DEF Answers
<1>7. proc'.state = "ok" => /\ proc'.cmd = "install" => installed'
                            /\ proc'.cmd = "oobe-finalize" => finalized'
  BY <1>2 DEF Answers
<1> QED
  BY <1>3, <1>4, <1>5, <1>6, <1>7 DEF Answers

\* The process that a request starts, in time or not.
LEMMA NewProcess ==
    ASSUME NEW s \in {"late", "started"}, NEW cmd \in Commands, proc' = Process(s, cmd),
           cmd = "install" => screen' = "ProgressScreen",
           cmd = "oobe-finalize" => screen' = "FinalizingScreen",
           cmd \in {"storage-action", "load-driver"} => mode' = "installer",
           cmd = "storage-action" => purpose' \in StoragePurposes
                                       \/ planFiles'["storage"] = NoPlan
    PROVE  Answers'
<1>1. proc'.state = s /\ proc'.cmd = cmd /\ proc'.plan = NoPlan
  BY DEF Process
<1>2. s # "none" /\ s # "ok" /\ cmd # "none"
  BY DEF Commands
<1> QED
  BY <1>1, <1>2 DEF Answers

\* A process that is no longer waited for cannot succeed with a plan.
LEMMA AnswersStep == SetupInv /\ [Next]_vars => Answers'
<1> SUFFICES ASSUME SetupInv, [Next]_vars PROVE Answers'
  OBVIOUS
<1>1. TypeOK /\ Asked /\ Answers
  BY DEF SetupInv
<1>2. proc \in Processes /\ planFiles \in [PlanNames -> Plans]
  BY <1>1, TypeParts DEF BackendTypes
<1>3. CASE UNCHANGED <<mode, index, proc, planFiles, purpose, installed, finalized>>
  <2>1. /\ proc.cmd = "install" => screen' = "ProgressScreen"
        /\ proc.cmd = "oobe-finalize" => screen' = "FinalizingScreen"
    BY <1>1, <1>3, SamePage DEF Answers
  <2> QED
    BY <1>1, <1>3, <2>1, LeftAlone
<1>4. CASE Turned
  <2>1. proc.cmd # "install" /\ proc.cmd # "oobe-finalize"
    BY <1>1, <1>4 DEF Turned, Answers
  <2>2. UNCHANGED <<mode, installed, finalized, proc, planFiles, purpose>>
    BY <1>4 DEF Turned, machine, backend
  <2> QED
    BY <1>1, <2>1, <2>2, LeftAlone
<1>5. CASE AsksInstall
  <2>1. /\ screen = "ConfirmScreen" /\ screen' = "ProgressScreen" /\ purpose = "none"
        /\ mode = "installer" /\ UNCHANGED <<mode, installed, finalized>>
    BY <1>5 DEF AsksInstall, Asks, Work, machine
  <2>2. proc.cmd # "install" /\ proc.cmd # "oobe-finalize"
    BY <1>1, <2>1 DEF Answers
  <2>3. /\ purpose \notin StoragePurposes
        /\ "install" \in Commands /\ "install" # "storage-action"
    BY <2>1 DEF StoragePurposes, Commands
  <2>4. CASE Started("install", InstallPlan, "install", "install")
    <3>1. planFiles'["storage"] = planFiles["storage"]
      BY <1>2, <2>4 DEF Started, PlanNames
    <3>2. CASE proc.state = "none"
      BY <2>1, <2>3, <2>4, <3>2, StartedProcess, NewProcess
    <3>3. CASE proc.state # "none"
      <4>1. proc' = proc \/ (proc.state = "late" /\ proc' = [proc EXCEPT !.state = "started"])
        BY <2>4, <3>3, StartedProcess
      <4> QED
        BY <1>1, <2>1, <2>2, <2>3, <3>1, <4>1, LeftAlone
    <3> QED
      BY <3>2, <3>3
  <2>5. CASE NotStarted("install", InstallPlan, "install")
    <3>1. planFiles'["storage"] = planFiles["storage"] /\ purpose' \notin StoragePurposes
      BY <1>2, <2>5 DEF NotStarted, PlanNames, StoragePurposes
    <3>2. CASE proc' = proc
      BY <1>1, <2>1, <2>2, <2>3, <3>1, <3>2, LeftAlone
    <3>3. CASE proc' = Process("late", "install")
      BY <2>1, <2>3, <3>3, NewProcess
    <3> QED
      BY <2>5, <3>2, <3>3 DEF NotStarted
  <2>6. CASE NotWritten(FALSE)
    BY <1>1, <2>1, <2>2, <2>6, LeftAlone DEF NotWritten
  <2> QED
    BY <1>5, <2>4, <2>5, <2>6 DEF AsksInstall, Asks
<1>6. CASE AsksOobe
  <2>1. /\ screen = "NetworkScreen" /\ screen' = "FinalizingScreen" /\ purpose = "none"
        /\ mode = "oobe" /\ UNCHANGED <<mode, installed, finalized>>
    BY <1>6 DEF AsksOobe, Asks, Work, machine
  <2>2. proc.cmd = "none" /\ proc.state = "none"
    <3>1. proc.cmd \in Commands \union {"none"}
      BY <1>2 DEF Processes
    <3>2. proc.cmd = "none"
      BY <1>1, <2>1, <3>1 DEF Answers, Commands
    <3> QED
      BY <1>1, <3>2 DEF Answers
  <2>3. "oobe-finalize" \in Commands /\ "oobe-finalize" # "storage-action"
    BY DEF Commands
  <2>4. CASE Started("oobe-finalize", OobePlan, "oobe", "oobe")
    BY <2>1, <2>2, <2>3, <2>4, StartedProcess, NewProcess
  <2>5. CASE proc' = Process("late", "oobe-finalize")
    BY <2>1, <2>3, <2>5, NewProcess
  <2>6. CASE proc' = proc
    BY <1>1, <2>2, <2>6 DEF Answers, NoProc
  <2> QED
    BY <1>6, <2>4, <2>5, <2>6 DEF AsksOobe, Asks, NotStarted, NotWritten
<1>7. CASE OnPage
  BY <1>3, <1>7 DEF OnPage, EditForm, SelectRow, SetAdvanced, Refresh, PlanTarget,
       AskConfirmation, CancelConfirmation, page, backend, machine
<1>8. CASE Confirm
  <2>1. /\ screen = "DiskScreen" /\ screen' = "DiskScreen" /\ mode = "installer"
        /\ UNCHANGED <<mode, installed, finalized>>
    BY <1>8, ConfirmStep DEF machine
  <2>2. proc.cmd # "install" /\ proc.cmd # "oobe-finalize"
    BY <1>1, <2>1 DEF Answers
  <2>3. CASE UNCHANGED <<proc, planFiles, activePlan, purpose, busy>>
    BY <1>1, <2>1, <2>2, <2>3, LeftAlone
  <2>4. ASSUME NEW cmd \in {"storage-action", "load-driver"}, NEW plan \in Plans,
               NEW file \in {"storage", "none"}, NEW why \in StoragePurposes,
               cmd = "storage-action" => file = "storage",
               Started(cmd, plan, file, why) \/ NotStarted(cmd, plan, file)
        PROVE  Answers'
    <3>1. cmd \in Commands /\ cmd # "install" /\ cmd # "oobe-finalize"
      BY DEF Commands
    <3>2. CASE Started(cmd, plan, file, why)
      <4>1. purpose' \in StoragePurposes
        BY <3>2 DEF Started
      <4>2. CASE proc.state = "none"
        <5>1. proc' = Process("started", cmd)
          BY <3>2, <4>2, StartedProcess
        <5> QED
          BY <2>1, <3>1, <4>1, <5>1, NewProcess
      <4>3. CASE proc.state # "none"
        <5>1. proc' = proc \/ (proc.state = "late" /\ proc' = [proc EXCEPT !.state = "started"])
          BY <3>2, <4>3, StartedProcess
        <5> QED
          BY <1>1, <2>1, <2>2, <4>1, <5>1, LeftAlone
      <4> QED
        BY <4>2, <4>3
    <3>3. CASE NotStarted(cmd, plan, file)
      <4>1. planFiles'["storage"] \in {planFiles["storage"], NoPlan}
            /\ (file = "storage" => planFiles'["storage"] = NoPlan)
        BY <1>2, <3>3 DEF NotStarted, PlanNames
      <4>2. CASE proc' = proc
        <5>1. proc.state \in {"none", "late"}
          BY <1>2, <3>3, <4>2 DEF NotStarted, Process, Processes
        <5>2. purpose \notin StoragePurposes
          BY <1>1, <5>1 DEF Asked, StoragePurposes
        <5> QED
          BY <1>1, <2>1, <2>2, <4>1, <4>2, <5>2, LeftAlone
      <4>3. CASE proc' = Process("late", cmd)
        BY <2>1, <2>4, <3>1, <4>1, <4>3, NewProcess
      <4> QED
        BY <3>3, <4>2, <4>3 DEF NotStarted
    <3> QED
      BY <2>4, <3>2, <3>3
  <2> QED
    BY <1>8, <2>3, <2>4, ConfirmStep
<1>9. CASE Clock
  BY <1>3, <1>9 DEF Clock, backend
<1>10. CASE LateStart
  <2>1. UNCHANGED <<mode, index, planFiles, purpose, installed, finalized>>
    BY <1>10 DEF LateStart, page, machine
  <2>2. CASE proc' = NoProc
    BY <2>2 DEF Answers, NoProc
  <2>3. CASE proc' = [proc EXCEPT !.state = "started"]
    <3>1. /\ proc.cmd = "install" => screen' = "ProgressScreen"
          /\ proc.cmd = "oobe-finalize" => screen' = "FinalizingScreen"
      BY <1>1, <2>1, SamePage DEF Answers
    <3>2. proc.state = "late"
      BY <1>10 DEF LateStart
    <3> QED
      BY <1>1, <2>1, <2>3, <3>1, <3>2, LeftAlone
  <2> QED
    BY <1>10, <2>2, <2>3 DEF LateStart
<1>11. CASE BackendReadsPlan
  <2>1. UNCHANGED <<mode, index, planFiles, purpose, installed, finalized>>
        /\ proc.state = "started"
        /\ proc' = [proc EXCEPT !.state = "running", !.plan = PlanOf(proc.cmd)]
    BY <1>11 DEF BackendReadsPlan, page, machine
  <2>2. proc'.state = "running" /\ proc'.cmd = proc.cmd /\ proc'.plan = PlanOf(proc.cmd)
    BY <1>2, <2>1 DEF Processes
  <2>3. proc.cmd = "storage-action" /\ purpose \notin StoragePurposes => proc'.plan = NoPlan
    BY <1>1, <2>1, <2>2 DEF Answers, PlanOf
  <2> QED
    BY <1>1, <2>1, <2>2, <2>3, SamePage DEF Answers
<1>12. CASE BackendExits
  <2>1. UNCHANGED <<mode, index, planFiles, purpose>> /\ proc.state = "running"
    BY <1>12 DEF BackendExits, page
  <2>2. CASE /\ proc.cmd = "load-driver" \/ proc.plan # NoPlan
             /\ proc' = [proc EXCEPT !.state = "ok"]
             /\ installed' = (installed \/ proc.cmd = "install")
             /\ finalized' = (finalized \/ proc.cmd = "oobe-finalize")
    <3>1. proc'.state = "ok" /\ proc'.cmd = proc.cmd /\ proc'.plan = proc.plan
      BY <1>2, <2>2 DEF Processes
    <3>2. ~(proc.cmd = "storage-action" /\ purpose \notin StoragePurposes)
      BY <1>1, <2>2 DEF Answers
    <3> QED
      BY <1>1, <2>1, <2>2, <3>1, <3>2, SamePage DEF Answers
  <2>3. CASE proc' = [proc EXCEPT !.state = "error"]
    <3>1. proc'.state = "error" /\ proc'.cmd = proc.cmd /\ proc'.plan = proc.plan
      BY <1>2, <2>3 DEF Processes
    <3> QED
      BY <1>1, <2>1, <3>1, SamePage DEF Answers
  <2> QED
    BY <1>12, <2>2, <2>3 DEF BackendExits
<1>13. CASE BackendFinished
  BY <1>13 DEF BackendFinished, Answers, NoProc
<1> QED
  BY <1>4, <1>5, <1>6, <1>7, <1>8, <1>9, <1>10, <1>11, <1>12, <1>13, Shapes DEF BackendWorks

\* The invariant is inductive.
LEMMA SetupInductive == SetupInv /\ [Next]_vars => SetupInv'
<1>1. SetupInv => TypeOK /\ TargetShownAndReady
  BY DEF SetupInv
<1> QED
  BY <1>1, TypeStep, TimersStep, AskedStep, AnswersStep, PlanStep, RowsStep, TargetStep
     DEF SetupInv

-----------------------------------------------------------------------------
(* Forms and success.                                                      *)

\* The forms are among the first four pages.
LEMMA FormPlaces ==
    ASSUME NEW m \in Modes, NEW s \in Forms, PageIn(m, s)
    PROVE  /\ IndexOf(m, s) \in 1..4 /\ screensFor(m)[IndexOf(m, s)] = s
           /\ \A i \in 1..Len(screensFor(m)) : screensFor(m)[i] = s => i = IndexOf(m, s)
<1>1. IndexOf(m, s) \in 1..Len(screensFor(m)) /\ screensFor(m)[IndexOf(m, s)] = s
  BY DEF PageIn, IndexOf
<1>2. s \in {"LicenseScreen", "AccountScreen", "PasswordScreen"}
  BY DEF Forms
<1>3. \A i \in 1..Len(screensFor(m)) : screensFor(m)[i] = s =>
         \/ s = "LicenseScreen" /\ i = 4
         \/ s = "AccountScreen" /\ i = 3
         \/ s = "PasswordScreen" /\ i = 4
  BY <1>2, PageAt
<1> QED
  BY <1>1, <1>2, <1>3

\* A result that is not a storage action's is that of the work asked for, or that
\* of a driver that was given up and has started late.
LEMMA ResultIsOfWork ==
    ASSUME SetupInv, DriverIsAwaited, proc.state = "ok", purpose \notin StoragePurposes
    PROVE  \/ mode = "installer" /\ index = 8 /\ screen = "ProgressScreen" /\ installed
           \/ mode = "oobe" /\ index = 8 /\ finalized
           \/ mode = "installer" /\ proc.cmd = "load-driver" /\ proc.late
<1>1. TypeOK /\ Answers
  BY DEF SetupInv
<1>2. proc.cmd \in Commands
  BY <1>1 DEF TypeOK, Answers, Commands
<1>3. proc.cmd # "storage-action"
  BY <1>1 DEF Answers
<1>4. CASE proc.cmd = "install"
  <2>1. screen = "ProgressScreen" /\ installed
    BY <1>1, <1>4 DEF Answers
  <2> QED
    BY <1>1, <2>1, ModeOfPage
<1>5. CASE proc.cmd = "oobe-finalize"
  <2>1. screen = "FinalizingScreen" /\ finalized
    BY <1>1, <1>5 DEF Answers
  <2> QED
    BY <1>1, <2>1, ModeOfPage
<1>6. CASE proc.cmd = "load-driver"
  BY <1>1, <1>6 DEF Answers, DriverIsAwaited
<1> QED
  BY <1>2, <1>3, <1>4, <1>5, <1>6 DEF Commands

\* A driver that is not given up is waited for until it ends.
LEMMA DriverStep ==
    ASSUME SetupInv, DriverIsAwaited, [Next]_vars
    PROVE  DriverIsAwaited'
<1>1. proc \in Processes /\ Asked
  BY TypeParts DEF SetupInv, BackendTypes
<1>2. CASE proc'.cmd = proc.cmd /\ proc'.late = proc.late /\ UNCHANGED purpose
  BY <1>2 DEF DriverIsAwaited
<1>3. CASE proc'.cmd # "load-driver" \/ proc'.late
  BY <1>3 DEF DriverIsAwaited
<1>4. CASE purpose' \in StoragePurposes
  BY <1>4 DEF DriverIsAwaited
<1>5. purpose = "none" => proc.cmd # "load-driver" \/ proc.late
  BY DEF DriverIsAwaited, StoragePurposes
<1>6. ASSUME NEW cmd, NEW plan, NEW file, NEW why, Started(cmd, plan, file, why)
      PROVE  proc'.cmd = cmd \/ (proc'.cmd = proc.cmd /\ proc'.late = proc.late)
  <2>1. Process("started", cmd).cmd = cmd
    BY DEF Process
  <2>2. /\ [proc EXCEPT !.state = "started"].cmd = proc.cmd
        /\ [proc EXCEPT !.state = "started"].late = proc.late
    BY <1>1 DEF Processes
  <2> QED
    BY <1>6, <2>1, <2>2, StartedProcess
<1>7. ASSUME NEW cmd, NEW plan, NEW file, NotStarted(cmd, plan, file)
      PROVE  proc'.cmd # "load-driver" \/ proc'.late
  <2>1. CASE proc' = proc /\ proc.state \in {"none", "late"}
    <3>1. purpose \notin StoragePurposes
      BY <1>1, <2>1 DEF Asked, StoragePurposes
    <3>2. proc.cmd # "load-driver" \/ proc.late
      BY <3>1 DEF DriverIsAwaited
    <3> QED
      BY <2>1, <3>2
  <2>2. CASE proc' = Process("late", cmd)
    <3>1. Process("late", cmd).late
      BY DEF Process
    <3> QED
      BY <2>2, <3>1
  <2> QED
    BY <1>7, <2>1, <2>2 DEF NotStarted
<1>8. CASE AsksInstall
  <2>1. purpose = "none"
    BY <1>8 DEF AsksInstall, Asks
  <2>2. CASE Started("install", InstallPlan, "install", "install")
    <3>1. \/ proc'.cmd = "install"
          \/ proc'.cmd = proc.cmd /\ proc'.late = proc.late
      BY <1>6, <2>2
    <3> QED
      BY <1>3, <1>5, <2>1, <3>1
  <2>3. CASE NotStarted("install", InstallPlan, "install")
    BY <1>3, <1>7, <2>3
  <2>4. CASE NotWritten(FALSE)
    BY <1>2, <2>4 DEF NotWritten
  <2> QED
    BY <1>8, <2>2, <2>3, <2>4 DEF AsksInstall, Asks
<1>9. CASE AsksOobe
  <2>1. purpose = "none"
    BY <1>9 DEF AsksOobe, Asks
  <2>2. CASE Started("oobe-finalize", OobePlan, "oobe", "oobe")
    <3>1. \/ proc'.cmd = "oobe-finalize"
          \/ proc'.cmd = proc.cmd /\ proc'.late = proc.late
      BY <1>6, <2>2
    <3> QED
      BY <1>3, <1>5, <2>1, <3>1
  <2>3. CASE NotStarted("oobe-finalize", OobePlan, "oobe")
    BY <1>3, <1>7, <2>3
  <2>4. CASE NotWritten(FALSE)
    BY <1>2, <2>4 DEF NotWritten
  <2> QED
    BY <1>9, <2>2, <2>3, <2>4 DEF AsksOobe, Asks
<1>10. CASE Confirm
  <2>1. ASSUME NEW cmd, NEW plan, NEW file, NEW why \in StoragePurposes,
               Started(cmd, plan, file, why) \/ NotStarted(cmd, plan, file)
        PROVE  DriverIsAwaited'
    BY <1>3, <1>4, <1>7, <2>1 DEF Started
  <2>2. CASE UNCHANGED <<proc, purpose>>
    BY <1>2, <2>2
  <2> QED
    BY <1>10, <2>1, <2>2, ConfirmStep
<1>11. CASE BackendWorks
  <2>1. UNCHANGED purpose
    BY <1>11 DEF BackendWorks, LateStart, BackendReadsPlan, BackendExits
  <2>2. (proc'.cmd = proc.cmd /\ proc'.late = proc.late) \/ proc'.cmd = "none"
    <3>1. CASE LateStart
      BY <1>1, <3>1 DEF LateStart, Processes, NoProc
    <3>2. CASE BackendReadsPlan
      <4>1. proc' = [proc EXCEPT !.state = "running", !.plan = PlanOf(proc.cmd)]
        BY <3>2 DEF BackendReadsPlan
      <4> QED
        BY <1>1, <4>1 DEF Processes
    <3>3. CASE BackendExits
      BY <1>1, <3>3 DEF BackendExits, Processes
    <3> QED
      BY <1>11, <3>1, <3>2, <3>3 DEF BackendWorks
  <2> QED
    BY <1>2, <1>3, <2>1, <2>2
<1>12. CASE BackendFinished
  BY <1>3, <1>12 DEF BackendFinished, NoProc
<1>13. CASE Turned \/ OnPage \/ Clock
  BY <1>2, <1>13 DEF Turned, OnPage, Clock, EditForm, SelectRow, SetAdvanced, Refresh,
       PlanTarget, AskConfirmation, CancelConfirmation, backend
<1> QED
  BY <1>8, <1>9, <1>10, <1>11, <1>12, <1>13, Shapes

\* What the end of a backend does to what is done.
LEMMA WorkOfBackend ==
    ASSUME BackendExits
    PROVE  /\ UNCHANGED <<page, forms, session>>
           /\ installed' => installed \/ proc.cmd = "install"
           /\ finalized => finalized'
<1>1. UNCHANGED <<page, forms, session>>
  BY Zenon DEF BackendExits
<1>2. \/ /\ installed' = (installed \/ proc.cmd = "install")
         /\ finalized' = (finalized \/ proc.cmd = "oobe-finalize")
      \/ UNCHANGED <<installed, finalized>>
  BY Zenon DEF BackendExits
<1>3. installed' => installed \/ proc.cmd = "install"
  BY <1>2, Zenon
<1>4. finalized => finalized'
  BY <1>2, Zenon
<1> QED
  BY <1>1, <1>3, <1>4, Zenon

\* What the restart page tells to have been done has been done, and under a license.
LEMMA LicenseStep ==
    ASSUME SetupInv, FormsStayFit, WorkDone, [Next]_vars
    PROVE  installed' => forms'["LicenseScreen"]
<1>1. TypeOK /\ Answers
  BY DEF SetupInv
<1>2. CASE UNCHANGED <<forms, installed>>
  BY <1>2 DEF FormsStayFit
<1>3. CASE EditForm
  <2>1. screen \in Forms /\ UNCHANGED installed
    BY <1>3 DEF EditForm, machine
  <2> QED
    BY <2>1 DEF WorkDone, Forms
<1>4. CASE BackendExits
  <2>1. UNCHANGED forms /\ (installed' => installed \/ proc.cmd = "install")
    BY <1>4, WorkOfBackend
  <2>2. proc.cmd = "install" => forms["LicenseScreen"]
    <3>1. SUFFICES ASSUME proc.cmd = "install" PROVE forms["LicenseScreen"]
      OBVIOUS
    <3>2. screen = "ProgressScreen"
      BY <1>1, <3>1 DEF Answers
    <3>3. mode = "installer" /\ index = 8
      BY <1>1, <3>2, ModeOfPage
    <3>4. index > IndexOf(mode, "LicenseScreen")
      BY <3>3, PagePlaces
    <3>5. PageIn(mode, "LicenseScreen")
      <4>1. 4 \in 1..Len(screensFor("installer")) /\ screensFor("installer")[4] = "LicenseScreen"
        BY PagePlaces DEF screensFor, InstallerScreens
      <4> QED
        BY <3>3, <4>1 DEF PageIn
    <3> QED
      BY <3>2, <3>4, <3>5 DEF FormsStayFit, Forms
  <2> QED
    BY <2>1, <2>2 DEF FormsStayFit
<1>5. CASE OnPage
  BY <1>2, <1>3, <1>5 DEF OnPage, SelectRow, SetAdvanced, Refresh, PlanTarget,
       AskConfirmation, CancelConfirmation, machine
<1>6. CASE Turned \/ AsksInstall \/ AsksOobe \/ Clock
  BY <1>2, <1>6 DEF Turned, AsksInstall, AsksOobe, Asks, Work, Clock, machine
<1>7. CASE Confirm
  BY <1>2, <1>7, ConfirmStep DEF machine
<1>8. CASE LateStart \/ BackendReadsPlan \/ BackendFinished
  BY <1>2, <1>8 DEF LateStart, BackendReadsPlan, BackendFinished, machine
<1> QED
  BY <1>4, <1>5, <1>6, <1>7, <1>8, Shapes DEF BackendWorks

\* The pages go on one by one, and those jumped to are far behind the forms.
LEMMA FormsStep ==
    ASSUME SetupInv, DriverIsAwaited, FormsStayFit, WorkDone, [Next]_vars
    PROVE  FormsStayFit'
<1>0. installed' => forms'["LicenseScreen"]
  BY LicenseStep
<1>1. TypeOK
  BY DEF SetupInv
<1>2. mode \in Modes /\ index \in 1..Len(screensFor(mode)) /\ index \in Int
  BY <1>1, PagePlaces DEF TypeOK, Modes
<1>3. CASE UNCHANGED <<mode, index, forms>>
  <2>1. screen' = screen
    BY <1>3, SamePage
  <2> QED
    BY <1>0, <1>3, <2>1 DEF FormsStayFit
<1>4. CASE UNCHANGED <<mode, forms>> /\ index > 4 /\ screen # "CompleteScreen"
  <2>1. ASSUME NEW s \in Forms, PageIn(mode, s) PROVE forms[s]
    <3>1. index > IndexOf(mode, s)
      BY <1>2, <1>4, <2>1, FormPlaces
    <3> QED
      BY <1>4, <2>1, <3>1 DEF FormsStayFit
  <2> QED
    BY <1>0, <1>4, <2>1 DEF FormsStayFit
<1>5. CASE Turned
  <2>1. ASSUME NEW s \in Forms, PageIn(mode, s), index' > IndexOf(mode, s)
        PROVE  forms[s]
    <3>1. IndexOf(mode, s) \in 1..4 /\ screensFor(mode)[IndexOf(mode, s)] = s
      BY <1>2, <2>1, FormPlaces
    <3>2. CASE index > IndexOf(mode, s)
      BY <1>5, <2>1, <3>2 DEF FormsStayFit, Turned
    <3>3. CASE index <= IndexOf(mode, s)
      <4>1. index' = index + 1 /\ index = IndexOf(mode, s)
        BY <1>2, <1>5, <2>1, <3>1, <3>3 DEF Turned
      <4>2. screen = s
        BY <3>1, <4>1 DEF screen
      <4> QED
        BY <1>5, <4>1, <4>2 DEF Turned
    <3> QED
      BY <1>2, <3>1, <3>2, <3>3
  <2>2. UNCHANGED <<mode, forms>>
    BY <1>5 DEF Turned
  <2> QED
    BY <1>0, <2>1, <2>2 DEF FormsStayFit
<1>6. CASE AsksInstall \/ AsksOobe
  <2>1. screen \in {"ConfirmScreen", "NetworkScreen"} /\ UNCHANGED <<mode, forms>>
    BY <1>6 DEF AsksInstall, AsksOobe, Asks
  <2>2. index = 7
    BY <1>1, <2>1, ModeOfPage
  <2> QED
    BY <1>4, <2>1, <2>2
<1>7. CASE EditForm
  <2>1. UNCHANGED <<mode, index>> /\ screen \in Forms /\ forms \in [Forms -> BOOLEAN]
        /\ \E ok \in BOOLEAN : forms' = [forms EXCEPT ![screen] = ok]
    BY <1>1, <1>7 DEF EditForm, page, TypeOK
  <2>2. ASSUME NEW s \in Forms, PageIn(mode, s), index > IndexOf(mode, s)
        PROVE  forms'[s]
    <3>0. screen # "CompleteScreen"
      BY <2>1 DEF Forms
    <3>1. IndexOf(mode, s) \in 1..4
      BY <1>2, <2>2, FormPlaces
    <3>2. s # screen
      BY <1>2, <2>2, <3>1, FormPlaces DEF screen
    <3>3. forms[s]
      BY <2>2, <3>0 DEF FormsStayFit
    <3> QED
      BY <2>1, <3>2, <3>3
  <2> QED
    BY <1>0, <2>1, <2>2 DEF FormsStayFit
<1>8. CASE Confirm
  BY <1>3, <1>8, ConfirmStep
<1>9. CASE BackendFinished
  <2>1. UNCHANGED <<mode, forms>>
    BY <1>9 DEF BackendFinished, Fail
  <2>2. CASE /\ proc.state = "ok" /\ purpose \notin StoragePurposes
             /\ Enter(IndexOf(mode, IF mode = "oobe" THEN "OobeWelcomeScreen"
                                                     ELSE "CompleteScreen"))
    <3>1. screen' = IF mode = "oobe" THEN "OobeWelcomeScreen" ELSE "CompleteScreen"
      BY <1>1, <2>1, <2>2, ResultPage
    <3>2. CASE mode = "oobe"
      <4>1. index > 4
        BY <2>2, <3>2, ResultIsOfWork
      <4>2. screen # "CompleteScreen"
        BY <1>1, <3>2, ModeOfPage
      <4> QED
        BY <1>4, <2>1, <4>1, <4>2
    <3>3. CASE mode # "oobe"
      BY <1>0, <3>1, <3>3 DEF FormsStayFit
    <3> QED
      BY <3>2, <3>3
  <2>3. CASE UNCHANGED index
    BY <1>3, <2>1, <2>3
  <2> QED
    BY <1>9, <2>2, <2>3 DEF BackendFinished, Fail
<1>10. CASE OnPage
  BY <1>3, <1>7, <1>10 DEF OnPage, SelectRow, SetAdvanced, Refresh, PlanTarget,
       AskConfirmation, CancelConfirmation, page
<1>11. CASE Clock \/ BackendWorks
  BY <1>3, <1>11 DEF Clock, BackendWorks, LateStart, BackendReadsPlan, BackendExits, page
<1> QED
  BY <1>5, <1>6, <1>8, <1>9, <1>10, <1>11, Shapes

\* The work is done before it is told, and a restart is on its way on one page only.
LEMMA WorkStep ==
    ASSUME SetupInv, DriverIsAwaited, WorkDone, [Next]_vars
    PROVE  WorkDone'
<1>1. TypeOK /\ Answers
  BY DEF SetupInv
<1>2. CASE UNCHANGED <<mode, index, handoff, session, installed>> /\ (finalized => finalized')
  BY <1>2, SamePage DEF WorkDone
<1>3. CASE Turned
  <2>1. UNCHANGED <<handoff, session, installed, finalized>>
    BY <1>3 DEF Turned, machine
  <2> QED
    BY <1>3, <2>1 DEF Turned, WorkDone
<1>4. CASE AsksInstall \/ AsksOobe
  <2>1. /\ screen' \in {"ProgressScreen", "FinalizingScreen"}
        /\ screen \in {"ConfirmScreen", "NetworkScreen"}
    BY <1>4 DEF AsksInstall, AsksOobe, Asks
  <2>2. UNCHANGED <<session, installed, finalized, handoff>>
    BY <1>4 DEF AsksInstall, AsksOobe, Asks, Work, machine
  <2> QED
    BY <2>1, <2>2 DEF WorkDone
<1>5. CASE OnPage
  BY <1>2, <1>5 DEF OnPage, EditForm, SelectRow, SetAdvanced, Refresh, PlanTarget,
       AskConfirmation, CancelConfirmation, page, machine
<1>6. CASE Confirm
  BY <1>2, <1>6, ConfirmStep DEF machine
<1>7. CASE Clock
  <2>1. screen' = screen /\ UNCHANGED <<installed, finalized>>
    BY <1>7, SamePage DEF Clock
  <2> QED
    BY <1>7, <2>1 DEF Clock, WorkDone
<1>8. CASE LateStart \/ BackendReadsPlan
  BY <1>2, <1>8 DEF LateStart, BackendReadsPlan, page, machine
<1>9. CASE BackendExits
  <2>1. UNCHANGED <<mode, index, handoff, session>> /\ (finalized => finalized')
        /\ (installed' => installed \/ proc.cmd = "install")
    BY <1>9, WorkOfBackend DEF page
  <2>2. proc.cmd = "install" => screen = "ProgressScreen"
    BY <1>1 DEF Answers
  <2> QED
    BY <2>1, <2>2, SamePage DEF WorkDone
<1>10. CASE BackendFinished
  <2>1. UNCHANGED <<session, installed, finalized, mode, handoff>>
    BY <1>10 DEF BackendFinished, Fail, machine
  <2>2. CASE UNCHANGED index
    BY <1>2, <2>1, <2>2
  <2>3. CASE Enter(IndexOf(mode, IF mode = "oobe" THEN "OobeWelcomeScreen"
                                                  ELSE "CompleteScreen"))
             /\ proc.state = "ok" /\ purpose \notin StoragePurposes
    <3>1. screen' = IF mode = "oobe" THEN "OobeWelcomeScreen" ELSE "CompleteScreen"
      BY <1>1, <2>1, <2>3, ResultPage
    <3>2. CASE mode = "oobe"
      <4>1. finalized
        BY <2>3, <3>2, ResultIsOfWork
      <4>2. screen \notin {"ProgressScreen", "CompleteScreen"}
        BY <1>1, <3>2, ModeOfPage
      <4> QED
        BY <2>1, <3>1, <3>2, <4>1, <4>2 DEF WorkDone
    <3>3. CASE mode # "oobe"
      BY <2>1, <3>1, <3>3 DEF WorkDone
    <3> QED
      BY <3>2, <3>3
  <2> QED
    BY <1>10, <2>2, <2>3 DEF BackendFinished, Fail
<1> QED
  BY <1>3, <1>4, <1>5, <1>6, <1>7, <1>8, <1>9, <1>10, Shapes DEF BackendWorks

\* The restart page comes up when the installation has ended well, or when a driver
\* that was given up has.
LEMMA RestartPageStep ==
    ASSUME SetupInv, DriverIsAwaited, [Next]_vars,
           screen' = "CompleteScreen", screen # "CompleteScreen"
    PROVE  installed' \/ (proc.cmd = "load-driver" /\ proc.late)
<1>1. TypeOK
  BY DEF SetupInv
<1>2. ~UNCHANGED <<mode, index>>
  BY SamePage
<1>3. CASE Turned \/ AsksInstall \/ AsksOobe
  BY <1>3 DEF Turned, AsksInstall, AsksOobe, Asks
<1>4. CASE OnPage \/ Clock \/ BackendWorks
  BY <1>2, <1>4 DEF OnPage, EditForm, SelectRow, SetAdvanced, Refresh, PlanTarget,
       AskConfirmation, CancelConfirmation, Clock, BackendWorks, LateStart,
       BackendReadsPlan, BackendExits, page
<1>5. CASE Confirm
  BY <1>2, <1>5, ConfirmStep
<1>6. CASE BackendFinished
  <2>1. UNCHANGED <<mode, installed>>
    BY <1>6 DEF BackendFinished, Fail, machine
  <2>2. /\ Enter(IndexOf(mode, IF mode = "oobe" THEN "OobeWelcomeScreen"
                                                ELSE "CompleteScreen"))
        /\ proc.state = "ok" /\ purpose \notin StoragePurposes
    BY <1>2, <1>6 DEF BackendFinished, Fail
  <2>3. mode # "oobe"
    <3>1. screen' = IF mode = "oobe" THEN "OobeWelcomeScreen" ELSE "CompleteScreen"
      BY <1>1, <2>1, <2>2, ResultPage
    <3> QED
      BY <3>1
  <2> QED
    BY <2>1, <2>2, <2>3, ResultIsOfWork
<1> QED
  BY <1>3, <1>4, <1>5, <1>6, Shapes

\* A restart is asked for on the restart page.
LEMMA RestartStep ==
    ASSUME SetupInv, WorkDone, [Next]_vars, session' = "rebooting"
    PROVE  screen = "CompleteScreen"
<1>1. CASE UNCHANGED session
  BY <1>1 DEF WorkDone
<1>2. CASE Turned \/ AsksInstall \/ AsksOobe \/ BackendWorks \/ BackendFinished
  BY <1>1, <1>2 DEF Turned, AsksInstall, AsksOobe, Asks, Work, BackendWorks, LateStart,
       BackendReadsPlan, BackendExits, BackendFinished, machine
<1>3. CASE OnPage \/ Confirm
  BY <1>1, <1>3 DEF OnPage, EditForm, SelectRow, SetAdvanced, Refresh, PlanTarget,
       AskConfirmation, CancelConfirmation, Confirm, machine
<1>4. CASE Clock
  BY <1>4 DEF Clock, WorkDone
<1> QED
  BY <1>2, <1>3, <1>4, Shapes

LEMMA FlowInitial == Init => FlowInv
<1> SUFFICES ASSUME Init PROVE FlowInv
  OBVIOUS
<1>1. mode \in Modes /\ index = 1 /\ 1 \in 1..Len(screensFor(mode))
  BY SetupInitial DEF Init, SetupInv, TypeOK
<1>2. screen \in {"LanguageScreen", "ApplyingSettingsScreen"}
  BY <1>1, PageAt DEF screen
<1>3. WorkDone
  BY <1>2 DEF Init, WorkDone
<1>4. DriverIsAwaited
  BY DEF Init, DriverIsAwaited, NoProc
<1>5. FormsStayFit
  <2>1. ASSUME NEW s \in Forms, PageIn(mode, s) PROVE ~(index > IndexOf(mode, s))
    BY <1>1, <2>1, FormPlaces
  <2> QED
    BY <2>1 DEF FormsStayFit, Init
<1> QED
  BY <1>3, <1>4, <1>5 DEF FlowInv

LEMMA FlowInductive == SetupInv /\ FlowInv /\ [Next]_vars => FlowInv'
BY DriverStep, FormsStep, WorkStep DEF FlowInv

-----------------------------------------------------------------------------
(* Theorems.                                                               *)

LEMMA SetupInvariant == Spec => []SetupInv
<1>1. Init => SetupInv
  BY SetupInitial
<1>2. SetupInv /\ [Next]_vars => SetupInv'
  BY SetupInductive
<1> QED
  BY <1>1, <1>2, PTL DEF Spec

LEMMA FlowInvariant == Spec => []FlowInv
<1>1. Init => FlowInv
  BY FlowInitial
<1>2. SetupInv /\ FlowInv /\ [Next]_vars => FlowInv'
  BY FlowInductive
<1> QED
  BY <1>1, <1>2, SetupInvariant, PTL DEF Spec

\* Every variable of the setup program keeps its range: the page is one of the
\* mode's, the countdown between 0 and where it starts, the plans and rows are
\* ones the backend and the drive page know.
THEOREM SetupTypeCorrect == Spec => []TypeOK
<1>1. SetupInv => TypeOK
  BY DEF SetupInv
<1> QED
  BY <1>1, SetupInvariant, PTL

\* Whatever row is selected is one of the list as it is shown, and no page past
\* the drive page is reached without a complete target: through every refresh,
\* toggle of the advanced options and storage action, whenever it ends.
THEOREM TargetIsShown == Spec => []TargetShownAndReady
<1>1. SetupInv => TargetShownAndReady
  BY DEF SetupInv
<1> QED
  BY <1>1, SetupInvariant, PTL

\* The plans that hold the password are gone when no backend is there, also
\* when the process could not be started, started late, or failed.
THEOREM PlanIsRemoved == Spec => []PlanGoesWithBackend
<1>1. SetupInv => PlanGoesWithBackend
  <2>1. SetupInv => Asked /\ PlanIsActive
    BY DEF SetupInv
  <2>2. "install" # "none" /\ "oobe" # "none"
    OBVIOUS
  <2> QED
    BY <2>1, <2>2 DEF Asked, PlanIsActive, PlanGoesWithBackend
<1> QED
  BY <1>1, SetupInvariant, PTL

\* The pages and events that tell of success come only after the work is done: the
\* welcome, the desktop and the handover after the account is set up, the restart
\* page at the end of a run that has installed.  The one exception, for every disk
\* and any number of requests, is a driver that was given up before it started.
THEOREM SuccessComesAfterWork == Spec => SuccessIsReal
<1>1. SetupInv /\ FlowInv /\ SetupInv' /\ FlowInv' /\ [Next]_vars =>
        [/\ screen' \in {"OobeWelcomeScreen", "PreparingDesktopScreen"} \/ handoff'
              => finalized'
         /\ screen' = "CompleteScreen" /\ screen # "CompleteScreen"
              => installed' \/ (proc.cmd = "load-driver" /\ proc.late)
         /\ session' = "rebooting" => screen = "CompleteScreen"]_vars
  <2> SUFFICES ASSUME SetupInv, FlowInv, FlowInv', [Next]_vars
               PROVE  /\ screen' \in {"OobeWelcomeScreen", "PreparingDesktopScreen"} \/ handoff'
                           => finalized'
                      /\ screen' = "CompleteScreen" /\ screen # "CompleteScreen"
                           => installed' \/ (proc.cmd = "load-driver" /\ proc.late)
                      /\ session' = "rebooting" => screen = "CompleteScreen"
    OBVIOUS
  <2>1. DriverIsAwaited /\ WorkDone /\ WorkDone'
    BY DEF FlowInv
  <2>2. screen' \in {"OobeWelcomeScreen", "PreparingDesktopScreen"} \/ handoff' => finalized'
    BY <2>1 DEF WorkDone
  <2> QED
    BY <2>1, <2>2, RestartPageStep, RestartStep
<1> QED
  BY <1>1, SetupInvariant, FlowInvariant, PTL DEF Spec, SuccessIsReal

\* No page behind a form is reached with a form that is not fit, going back and
\* forth included, and nothing is installed without the license, also when a
\* process that was given up starts late.
THEOREM FormsAreChecked == Spec => []FormsStayFit
<1>1. FlowInv => FormsStayFit
  BY DEF FlowInv
<1> QED
  BY <1>1, FlowInvariant, PTL
=============================================================================
