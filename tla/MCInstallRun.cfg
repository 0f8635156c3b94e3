SPECIFICATION Spec
CONSTANTS
  d1 = d1
  d2 = d2
  usb = usb
  part = part
  mapped = mapped
  stick = stick
  Disks = {d1, d2, usb}
  Others = {part, mapped, stick}
  Unmounted = Unmounted
  MaxMounted = 1
  Stations <- MCStations
  MaxActions = 1
  Names <- MCNames
  Requested <- MCRequested
  Shares <- MCShares
  BasePackages = {"libplasma"}
  Published <- MCPublished
  Depends <- MCDepends
  Provides <- MCProvides
  Conflicts <- MCConflicts
  Continues <- MCContinues
  SameFile = {"control-panel"}
INVARIANTS
  TypeOK
  ChecksComeFirst
  ReportedSurvives
  SetupStartsComplete
  AdvancedCopyIsCurrent
  FeaturesComplete
  ImageChecksFirst
PROPERTIES
  KeepsPromise
  OnlyIdleDisksChange
CHECK_DEADLOCK FALSE
