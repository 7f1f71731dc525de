SPECIFICATION FairSpec
CONSTANTS
  Used <- Clusters
  Config = {configA, configB}
  Group = Group
  None = None
  Want = {1, 2}
  Specs <- SpecsAll
  MaxEdits <- EditsOf
  MaxLate <- LateOf
  MaxFaults <- FaultsOf
  configA = configA
  configB = configB
INVARIANTS OneConfig

CHECK_DEADLOCK FALSE
PROPERTIES InCustody Followed Withdrawn
