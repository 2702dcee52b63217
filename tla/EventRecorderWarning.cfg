SPECIFICATION TellSpec
CONSTANTS
  a = a
  b = b
  n1 = n1
  NotFound = NotFound
  Names = {n1}
  Instances = {a}
  GatewayInstances = {a}
  Manifests <- LateTLS
  Builds <- MCBuilds
  CustomPrefixed <- MCPrefixed
  ServicePrefixed <- MCPrefixed
  Dashed <- MCDashed
  Born = {"Scheduled"}
  Lifecycle <- ServingLifecycle
  RetrySteps = 2
  MaxLives = 1
  MaxVersion = 4
  MaxFaults = 0
  MaxPending = 0
CHECK_DEADLOCK FALSE
INVARIANT WarnedInGateway
