SPECIFICATION Spec
CONSTANT Pulses <- InstallPulses
INVARIANT FullRowsAreDone
PROPERTY NeverBackwards
CHECK_DEADLOCK FALSE
