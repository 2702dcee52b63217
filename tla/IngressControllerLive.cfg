SPECIFICATION HandlerSpec
CONSTANTS
  a = a
  b = b
  n1 = n1
  NotFound = NotFound
  Names = {n1}
  Instances = {a}
  GatewayInstances = {a}
  Manifests <- Stripped
  Builds <- MCBuilds
  CustomPrefixed <- MCPrefixed
  ServicePrefixed <- MCPrefixed
  Dashed <- MCDashed
  Born = {"Creating"}
  Lifecycle <- ShortLifecycle
  RetrySteps = 2
  MaxLives = 2
  MaxVersion = 4
  MaxFaults = 1
  MaxPending = 1
CHECK_DEADLOCK FALSE
PROPERTIES RoutableIsRouted ReconcileTerminates
