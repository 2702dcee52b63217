SPECIFICATION TellSpec
CONSTANTS
  a = a
  b = b
  n1 = n1
  NotFound = NotFound
  Names = {n1}
  Instances = {a, b}
  GatewayInstances = {a}
  Manifests <- Mixed
  Builds <- MCBuilds
  CustomPrefixed <- MCPrefixed
  ServicePrefixed <- MCPrefixed
  Dashed <- MCDashed
  Born = {"Scheduled"}
  Lifecycle <- NoLifecycle
  RetrySteps = 2
  MaxLives = 1
  MaxVersion = 1
  MaxFaults = 0
  MaxPending = 0
CHECK_DEADLOCK FALSE
INVARIANTS EveryObjectWanted ReadyAfterResources CreatedIsBacked 
 
