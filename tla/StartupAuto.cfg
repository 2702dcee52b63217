SPECIFICATION Spec
CONSTANTS
  Modes = {"auto"}
  MaxRetries = 2
  MaxFaults = 1
  MaxSignals = 0
CHECK_DEADLOCK FALSE
INVARIANT AutoFollowsCRDs
