SPECIFICATION Spec
CONSTANTS
  SystemRuns = {setup, timer}
  UserRuns = {session}
  SetupRun = setup
  Nobody = Nobody
  MaxDisturbances = 2
INVARIANTS
  OneAtATime
  SystemRunLeavesWhole
  NoRunIsShutOut
PROPERTY WholeAgain
CHECK_DEADLOCK FALSE
