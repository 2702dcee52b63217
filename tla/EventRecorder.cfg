SPECIFICATION TellSpec
CONSTANTS
  a = a
  b = b
  n1 = n1
  NotFound = NotFound
  Names = {n1}
  Instances = {a}
  GatewayInstances = {a}
  Manifests <- Edited
  Builds <- MCBuilds
  CustomPrefixed <- MCPrefixed
  ServicePrefixed <- MCPrefixed
  Dashed <- MCDashed
  Born = {"Scheduled"}
  Lifecycle <- ServingLifecycle
  RetrySteps = 2
  MaxLives = 1
  MaxVersion = 3
  MaxFaults = 1
  MaxPending = 1
CHECK_DEADLOCK FALSE
INVARIANTS CreationsAnswered
PROPERTIES ControllerOnlyAnnotates PublicationSpec
