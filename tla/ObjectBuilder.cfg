SPECIFICATION Spec
CONSTANTS
  None = None
  CustomPrefixed <- MCCustom
  ServicePrefixed <- MCService
  Dashed <- MCDashed
  Servers <- MCServers
CHECK_DEADLOCK FALSE
INVARIANTS TypeOK AnnotationsAsDeclared RefusedIffInvalid TLSCoversHosts SameRoutes RoutesReachService BuilderInv
