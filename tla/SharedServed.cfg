SPECIFICATION Spec
CONSTANTS
  clusterA = clusterA  clusterB = clusterB  clusterC = clusterC
  a1 = a1  a2 = a2  b1 = b1  c1 = c1
  User = User  None = None
  Cluster = {clusterA, clusterB}
  LBC = {a1, b1}
  ClusterOf <- Where
  Maker = a1
  Rosters <- All
  Repins = {b1}
  Early = {b1}
  MaxBusy = 2
  Failing = {clusterA, clusterB}
  MaxFaults = 1
PROPERTIES ServedNotDeleted
CHECK_DEADLOCK FALSE
