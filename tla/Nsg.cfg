SPECIFICATION FairSpec
CONSTANTS
  nsgA = nsgA  nsgB = nsgB  srv1 = srv1  srv2 = srv2
  sgX = sgX  sgHand = sgHand  m1 = m1  m2 = m2  m3 = m3
  web = web  None = None
  NSG = {nsgA, nsgB}
  Server = {srv1, srv2}
  Group = {sgX}
  Hand = {sgHand}
  Made = {m1, m2, m3}
  Rule = {web}
  Specs <- Managing
  Scenes <- Both
  MaxEdits = 1
  FaultAt <- Everywhere
  MaxFaults = 1
INVARIANTS HandAttachedKept AllDetached ManagedReclaimed
PROPERTIES EventuallyApplied DeletionCompletes
CHECK_DEADLOCK FALSE
