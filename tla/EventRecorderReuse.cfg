SPECIFICATION TellSpec
CONSTANTS
  a = a
  b = b
  n1 = n1
  NotFound = NotFound
  Names = {n1}
  Instances = {a}
  GatewayInstances = {a}
  Manifests <- Refused
  Builds <- MCBuilds
  CustomPrefixed <- MCPrefixed
  ServicePrefixed <- MCPrefixed
  Dashed <- MCDashed
  Born = {"Scheduled"}
  Lifecycle <- ShortLifecycle
  RetrySteps = 2
  MaxLives = 2
  MaxVersion = 3
  MaxFaults = 0
  MaxPending = 2
CHECK_DEADLOCK FALSE
INVARIANTS TypeOK EveryObjectWanted IInv CreatedIsBacked 
