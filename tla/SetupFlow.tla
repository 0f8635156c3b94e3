------------------------------ MODULE SetupFlow ------------------------------
(***************************************************************************)
(* The order of the pages of Setup (FlowState), and what a page is to the  *)
(* controller: which go on by themselves, which have a way forward or back *)
(* for the person at the machine.                                          *)
(***************************************************************************)
EXTENDS Integers, Sequences

Modes == {"installer", "oobe"}

InstallerScreens ==
    <<"LanguageScreen", "WelcomeScreen", "StartingScreen", "LicenseScreen",
      "InstallTypeScreen", "DiskScreen", "ConfirmScreen", "ProgressScreen",
      "CompleteScreen">>

OobeScreens ==
    <<"ApplyingSettingsScreen", "VideoPerformanceScreen", "AccountScreen",
      "PasswordScreen", "UpdatesScreen", "TimeScreen", "NetworkScreen",
      "FinalizingScreen", "OobeWelcomeScreen", "PreparingDesktopScreen",
      "DesktopScreen">>

screensFor(mode) == IF mode = "oobe" THEN OobeScreens ELSE InstallerScreens

PageIn(mode, s) == \E i \in 1..Len(screensFor(mode)) : screensFor(mode)[i] = s
IndexOf(mode, s) ==
    CHOOSE i \in 1..Len(screensFor(mode)) : screensFor(mode)[i] = s

\* enterCurrentScreen starts the transition timer on these.
Automatic == {"StartingScreen", "ApplyingSettingsScreen",
              "VideoPerformanceScreen", "OobeWelcomeScreen",
              "PreparingDesktopScreen"}

\* Pages with something to click that calls goNext.  The button of the desktop
\* page belongs to the simulation.
HasNext(s) ==
    s \notin Automatic \cup {"ProgressScreen", "FinalizingScreen", "DesktopScreen"}

\* canGoBack, for the back arrow and the Escape key
canGoBack(mode, i) ==
    /\ i > 1
    /\ screensFor(mode)[i] \notin
         {"StartingScreen", "ProgressScreen", "CompleteScreen",
          "ApplyingSettingsScreen", "VideoPerformanceScreen", "AccountScreen",
          "FinalizingScreen", "OobeWelcomeScreen", "PreparingDesktopScreen",
          "DesktopScreen"}
=============================================================================
