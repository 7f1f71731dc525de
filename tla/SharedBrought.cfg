SPECIFICATION FairSpec
CONSTANTS
  clusterA = clusterA  clusterB = clusterB  clusterC = clusterC
  a1 = a1  a2 = a2  b1 = b1  c1 = c1
  User = User  None = None
  Cluster = {clusterA, clusterB}
  LBC = {a1, b1}
  ClusterOf <- Where
  Maker = None
  Rosters <- All
  Repins = {a1, b1}
  Early = {}
  MaxBusy = 2
  Failing = {}
  MaxFaults = 0
INVARIANTS UserLbKept
PROPERTIES ClaimHeals
CHECK_DEADLOCK FALSE
