SPECIFICATION DeploySpec
CONSTANTS
  Modes = {"auto", "true", "false"}
  MaxRetries = 2
  MaxFaults = 2
  MaxSignals = 2
  FailureThreshold = 2
  MaxRestarts = 2
CHECK_DEADLOCK FALSE
INVARIANTS TypeOK ServingIsSynced GatewayAsConfigured
PROPERTIES StartupSettles InterruptExits DeafIsKilled
