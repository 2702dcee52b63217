SPECIFICATION Spec
CONSTANTS
  None = None
  CustomPrefixed <- MCCustom
  ServicePrefixed <- MCService
  Dashed <- MCDashed
  Servers <- Blanks
CHECK_DEADLOCK FALSE
INVARIANT AccessibleThroughAll
