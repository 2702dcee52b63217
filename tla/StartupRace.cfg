SPECIFICATION FairSpec
CONSTANTS
  Modes = {"auto"}
  MaxRetries = 2
  MaxFaults = 0
  MaxSignals = 0
CHECK_DEADLOCK FALSE
PROPERTY ControllerStarts
