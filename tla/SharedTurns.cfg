SPECIFICATION Spec
CONSTANTS
  clusterA = clusterA  clusterB = clusterB  clusterC = clusterC
  a1 = a1  a2 = a2  b1 = b1  c1 = c1
  User = User  None = None
  Cluster = {clusterA, clusterB, clusterC}
  LBC = {a1, a2, b1, c1}
  ClusterOf <- Where
  Maker = a1
  Rosters <- Turns
  Repins = {a2}
  Early = {b1}
  MaxBusy = 1
  Failing = {clusterB}
  MaxFaults = 1
INVARIANTS LbReclaimed IdsInStep
CHECK_DEADLOCK FALSE
