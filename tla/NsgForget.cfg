SPECIFICATION Spec
CONSTANTS
  nsgA = nsgA  nsgB = nsgB  srv1 = srv1  srv2 = srv2
  sgX = sgX  sgHand = sgHand  m1 = m1  m2 = m2  m3 = m3
  web = web  None = None
  NSG = {nsgA}
  Server = {srv1}
  Group = {sgX}
  Hand = {}
  Made = {m1, m2}
  Rule = {web}
  Specs <- Managing
  Scenes <- One
  MaxEdits = 1
  FaultAt = {"attach"}
  MaxFaults = 1
INVARIANT FailedStayVisible
CHECK_DEADLOCK FALSE
