SPECIFICATION Spec
CONSTANTS
  None = None
  p1 = p1
  p2 = p2
  s1 = s1
  s2 = s2
  Paths = {p1, p2}
  APIServers = {s1, s2}
  MaxRewrites = 2
  MaxFaults = 1
CHECK_DEADLOCK FALSE
INVARIANT OneCluster
